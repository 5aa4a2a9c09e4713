---------------------------- MODULE TouchProofs ----------------------------
(* Proofs about TouchButtons: touches are answered in order and once, and    *)
(* only repeated ones are not, for any panel, table of buttons and capacity  *)
(* of the fifo, and whatever the application changes meanwhile; and about    *)
(* BarGraph: that updates of a bar draw what it would look like drawn anew.  *)
EXTENDS TouchButtons, Codecs, SequenceTheorems, TLAPS, WellFoundedInduction

Kinds == {"init", "stored", "ignored", "data", "none"}
Replies == [kind : Kinds, val : Samples]

LEMMA TableTypes ==
    /\ Len(Buttons) \in Nat /\ DOMAIN Buttons = 1 .. Len(Buttons)
    /\ NoButton \notin DOMAIN Buttons
  BY TouchAssumption DEF NoButton

-----------------------------------------------------------------------------
(* Types                                                                     *)

LEMMA InitTypes == Init => TypeOK
<1> SUFFICES ASSUME Init PROVE TypeOK
  OBVIOUS
<1> USE DEF Init
<1>1. NoSample \in Samples
  <2>1. (CHOOSE p \in Points : TRUE) \in Points
    OBVIOUS
  <2> QED
    BY <2>1, TouchAssumption DEF NoSample, Samples
<1>2. q \in Seq(Samples)
  BY DEF Fifo!Init
<1>3. ret \in [{"panel", "buttons"} -> Replies]
  <2>1. [kind |-> "init", val |-> NoSample] \in Replies
    BY <1>1 DEF Replies, Kinds
  <2>2. ret = [c \in {"panel", "buttons"} |-> [kind |-> "init", val |-> NoSample]]
    BY DEF Fifo!Init, Fifo!Answer
  <2> QED
    BY <2>1, <2>2
<1>4. /\ i \in 1 .. Len(Buttons) + 1 /\ butanz \in 0 .. Len(Buttons)
      /\ touchbutanz \in 0 .. Len(Buttons)
      /\ changes \in 0 .. MaxChanges /\ touches \in 0 .. MaxTouches
  BY TableTypes, TouchAssumption
<1>5. calls \in Seq((0 .. MaxTouches) \X DOMAIN Buttons)
  OBVIOUS
<1>6. /\ pending \in BOOLEAN /\ keeprunning \in BOOLEAN
      /\ active \in [DOMAIN Buttons -> BOOLEAN]
  OBVIOUS
<1>7. /\ raw \in Points /\ panel \in {"run", "exit"} /\ at \in {"outer", "read", "look", "exit"}
      /\ tp \in Samples /\ lastbutton \in {NoButton} \cup DOMAIN Buttons
      /\ last \in {NoButton} \cup DOMAIN Buttons
  BY <1>1
<1> QED
  BY <1>2, <1>3, <1>4, <1>5, <1>6, <1>7, Zenon DEF TypeOK, Replies, Kinds

LEMMA NoSampleTypes == Points # {} => NoSample \in Samples
<1> SUFFICES ASSUME Points # {} PROVE NoSample \in Samples
  OBVIOUS
<1>1. (CHOOSE p \in Points : TRUE) \in Points
  OBVIOUS
<1> QED
  BY <1>1, TouchAssumption DEF NoSample, Samples

(* An answer of the fifo.                                                    *)
LEMMA ReplyTypes ==
    ASSUME TypeOK, NEW c \in {"panel", "buttons"}, NEW kind \in Kinds, NEW val \in Samples
    PROVE  [ret EXCEPT ![c] = [kind |-> kind, val |-> val]]
             \in [{"panel", "buttons"} -> Replies]
<1>1. [kind |-> kind, val |-> val] \in Replies
  BY DEF Replies
<1>2. ret \in [{"panel", "buttons"} -> Replies]
  BY DEF TypeOK, Replies, Kinds
<1>3. [ret EXCEPT ![c] = [kind |-> kind, val |-> val]] \in [{"panel", "buttons"} -> Replies]
  BY <1>1, <1>2
<1> QED
  BY <1>3

(* A sample is stored at the end of the fifo, or ignored.                    *)
LEMMA StoreTypes ==
    ASSUME TypeOK, NEW k \in 0 .. MaxTouches, WriteSample(k)
    PROVE  /\ Sample(raw, k) \in Samples
           /\ q' = Append(q, Sample(raw, k)) \/ q' = q
           /\ q' \in Seq(Samples)
           /\ ret' \in [{"panel", "buttons"} -> Replies]
<1>1. Sample(raw, k) \in Samples
  BY DEF TypeOK, Sample, Samples
<1>2. q' = Append(q, Sample(raw, k)) \/ q' = q
  BY DEF WriteSample, Fifo!Put, Fifo!Ignore
<1>3. q' \in Seq(Samples)
  <2>1. q \in Seq(Samples)
    BY DEF TypeOK
  <2>2. Append(q, Sample(raw, k)) \in Seq(Samples)
    BY <1>1, <2>1
  <2> QED
    BY <1>2, <2>1, <2>2
<1>4. NoSample \in Samples
  BY NoSampleTypes DEF TypeOK
<1>5. \/ ret' = [ret EXCEPT !["panel"] = [kind |-> "stored", val |-> NoSample]]
      \/ ret' = [ret EXCEPT !["panel"] = [kind |-> "ignored", val |-> NoSample]]
  BY DEF WriteSample, Fifo!Put, Fifo!Ignore, Fifo!Reply, Fifo!Answer
<1>6. ret' \in [{"panel", "buttons"} -> Replies]
  <2>1. \A kind \in Kinds :
           [ret EXCEPT !["panel"] = [kind |-> kind, val |-> NoSample]]
             \in [{"panel", "buttons"} -> Replies]
    BY <1>4, ReplyTypes
  <2> QED
    BY <1>5, <2>1 DEF Kinds
<1> QED
  BY <1>1, <1>2, <1>3, <1>6

(* The oldest sample is taken, or there is none.                             *)
LEMMA TakeTypes ==
    ASSUME TypeOK, touch_read
    PROVE  /\ \/ /\ q # << >> /\ q' = Tail(q) /\ tp' = Head(q) /\ tp' \in Samples
                 /\ at' = "look" /\ i' = 1 /\ butanz' = touchbutanz /\ last' = lastbutton
              \/ /\ q = << >> /\ q' = q /\ at' = "outer"
                 /\ UNCHANGED <<tp, i, butanz, last>>
           /\ q' \in Seq(Samples)
           /\ ret' \in [{"panel", "buttons"} -> Replies]
<1>1. NoSample \in Samples
  BY NoSampleTypes DEF TypeOK
<1>2. CASE Fifo!Get("buttons") /\ tp' = ret'["buttons"].val /\ at' = "look" /\ i' = 1
           /\ butanz' = touchbutanz /\ last' = lastbutton
  <2>1. q # << >> /\ q' = Tail(q) /\ ret' = [ret EXCEPT !["buttons"] = [kind |-> "data", val |-> Head(q)]]
    BY <1>2 DEF Fifo!Get, Fifo!Reply, Fifo!Answer
  <2>2. Head(q) \in Samples /\ Tail(q) \in Seq(Samples)
    BY <2>1 DEF TypeOK
  <2>3. ret'["buttons"].val = Head(q)
    BY <2>1 DEF TypeOK
  <2>4. ret' \in [{"panel", "buttons"} -> Replies]
    BY <2>1, <2>2, ReplyTypes DEF Kinds
  <2> QED
    BY <1>2, <2>1, <2>2, <2>3, <2>4
<1>3. CASE Fifo!GetNone("buttons") /\ at' = "outer" /\ UNCHANGED <<tp, i, butanz, last>>
  <2>1. q = << >> /\ q' = q /\ ret' = [ret EXCEPT !["buttons"] = [kind |-> "none", val |-> NoSample]]
    BY <1>3 DEF Fifo!GetNone, Fifo!Reply, Fifo!Answer
  <2>2. ret' \in [{"panel", "buttons"} -> Replies]
    BY <1>1, <2>1, ReplyTypes DEF Kinds
  <2> QED
    BY <1>3, <2>1, <2>2 DEF TypeOK
<1> QED
  BY <1>2, <1>3 DEF touch_read

LEMMA NextTypes == TypeOK /\ [Next]_vars => TypeOK'
<1> SUFFICES ASSUME TypeOK, [Next]_vars PROVE TypeOK'
  OBVIOUS
<1> USE DEF fifo, panelvars, thread, app
<1>1. CASE Event
  <2>1. raw' \in Points /\ pending' \in BOOLEAN
    BY <1>1 DEF Event
  <2>2. touches' \in 0 .. MaxTouches
    BY <1>1, TouchAssumption DEF Event, TypeOK
  <2> QED
    BY <1>1, <2>1, <2>2 DEF Event, TypeOK
<1>2. CASE TakeSample
  <2>1. q' \in Seq(Samples) /\ ret' \in [{"panel", "buttons"} -> Replies]
    <3>1. touches \in 0 .. MaxTouches /\ 0 \in 0 .. MaxTouches
      BY TouchAssumption DEF TypeOK
    <3> QED
      BY <1>2, <3>1, StoreTypes DEF TakeSample
  <2>2. pending' \in BOOLEAN /\ panel' \in {"run", "exit"}
    BY <1>2 DEF TakeSample
  <2> QED
    BY <1>2, <2>1, <2>2 DEF TakeSample, TypeOK, Replies, Kinds
<1>3. CASE Outer
  BY <1>3 DEF Outer, TypeOK
<1>4. CASE touch_read
  <2>1. /\ at' \in {"look", "outer"} /\ tp' \in Samples /\ i' \in 1 .. Len(Buttons) + 1
        /\ butanz' \in 0 .. Len(Buttons) /\ last' \in {NoButton} \cup DOMAIN Buttons
    <3>1. CASE /\ q # << >> /\ q' = Tail(q) /\ tp' = Head(q) /\ tp' \in Samples
               /\ at' = "look" /\ i' = 1 /\ butanz' = touchbutanz /\ last' = lastbutton
      BY <3>1, TableTypes DEF TypeOK
    <3>2. CASE /\ q = << >> /\ q' = q /\ at' = "outer"
               /\ UNCHANGED <<tp, i, butanz, last>>
      BY <3>2 DEF TypeOK
    <3> QED
      BY <1>4, <3>1, <3>2, TakeTypes
  <2> QED
    BY <1>4, <2>1, TakeTypes DEF touch_read, TypeOK, Replies, Kinds
<1>5. CASE Look
  <2>1. CASE i > butanz
    BY <1>5, <2>1 DEF Look, TypeOK
  <2>2. CASE ~(i > butanz)
    <3>1. i \in DOMAIN Buttons /\ i + 1 \in 1 .. Len(Buttons) + 1
      BY <2>2, TableTypes DEF TypeOK
    <3>2. i' = i + 1 /\ at' = at /\ lastbutton' \in {lastbutton, i}
      BY <1>5, <2>2 DEF Look
    <3>3. tp.touch \in 0 .. MaxTouches
      BY DEF TypeOK, Samples
    <3>4. <<tp.touch, i>> \in (0 .. MaxTouches) \X DOMAIN Buttons
      BY <3>1, <3>3
    <3>5. calls' = calls \/ calls' = Append(calls, <<tp.touch, i>>)
      BY <1>5, <2>2 DEF Look
    <3>6. calls' \in Seq((0 .. MaxTouches) \X DOMAIN Buttons)
      <4>1. calls \in Seq((0 .. MaxTouches) \X DOMAIN Buttons)
        BY DEF TypeOK
      <4>2. Append(calls, <<tp.touch, i>>) \in Seq((0 .. MaxTouches) \X DOMAIN Buttons)
        BY <3>4, <4>1
      <4> QED
        BY <3>5, <4>1, <4>2
    <3> QED
      BY <1>5, <3>1, <3>2, <3>6 DEF Look, TypeOK
  <2> QED
    BY <2>1, <2>2
<1>6. CASE create_touchbutton \/ draw_button \/ deactivate_allbuttons \/ SwitchMenu
  <2>1. changes' \in 0 .. MaxChanges /\ UNCHANGED <<fifo, panelvars, thread, keeprunning>>
    BY <1>6, TouchAssumption
       DEF create_touchbutton, draw_button, deactivate_allbuttons, SwitchMenu, Change, TypeOK
  <2>2. touchbutanz' \in 0 .. Len(Buttons)
    BY <1>6, TableTypes
       DEF create_touchbutton, draw_button, deactivate_allbuttons, SwitchMenu, TypeOK
  <2>3. active' \in [DOMAIN Buttons -> BOOLEAN]
    <3>1. CASE active' = active
      BY <3>1 DEF TypeOK
    <3>2. ASSUME NEW b, active' = [active EXCEPT ![b] = TRUE] PROVE active' \in [DOMAIN Buttons -> BOOLEAN]
      BY <3>2 DEF TypeOK
    <3>3. CASE active' = [b \in DOMAIN Buttons |-> b > touchbutanz /\ active[b]]
      BY <3>3
    <3> QED
      BY <1>6, <3>1, <3>2, <3>3 DEF create_touchbutton, draw_button, deactivate_allbuttons, SwitchMenu
  <2> QED
    BY <2>1, <2>2, <2>3 DEF TypeOK
<1>7. CASE Stop \/ UNCHANGED vars
  BY <1>7 DEF Stop, vars, TypeOK
<1> QED
  BY <1>1, <1>2, <1>3, <1>4, <1>5, <1>6, <1>7 DEF Next, touchproc, tbutproc

(* Both threads, the fifo between them and the table keep their types; in    *)
(* particular tbutproc never looks beyond the table.                         *)
THEOREM TypeCorrect == Spec => []TypeOK
  BY InitTypes, NextTypes, PTL DEF Spec

-----------------------------------------------------------------------------
(* The order of the answers                                                  *)

(* Samples of touches are in the order of the touches, and after the last    *)
(* one; one without a touch is the last that is ever written.                *)
SampleInv ==
    /\ \A n \in DOMAIN q :
          /\ q[n].touch <= touches /\ (pending => q[n].touch < touches)
          /\ q[n].touch = 0 => panel = "exit" /\ ~keeprunning
          /\ q[n].touch = 0 \/ tp.touch < q[n].touch
    /\ \A m, n \in DOMAIN q :
          m < n => q[m].touch # 0 /\ (q[n].touch = 0 \/ q[m].touch < q[n].touch)
    /\ tp.touch <= touches /\ (pending => tp.touch < touches)
    /\ at = "look" /\ tp.touch = 0 => panel = "exit" /\ ~keeprunning /\ q = << >>

(* Callbacks belong to earlier samples, or to earlier buttons.               *)
CallInv ==
    \A c \in DOMAIN calls :
        /\ calls[c][1] = 0 => panel = "exit" /\ ~keeprunning /\ q = << >> /\ tp.touch = 0
        /\ \A n \in DOMAIN q : q[n].touch = 0 \/ calls[c][1] < q[n].touch
        /\ calls[c][1] <= tp.touch \/ (tp.touch = 0 /\ panel = "exit" /\ q = << >>)
        /\ calls[c][1] <= touches /\ (pending => calls[c][1] < touches)
        /\ at = "look" /\ calls[c][1] = tp.touch => calls[c][2] < i

OrderInv == SampleInv /\ CallInv /\ AnsweredInOrder

LEMMA InitOrder == Init => OrderInv
<1> SUFFICES ASSUME Init PROVE OrderInv
  OBVIOUS
<1> USE DEF Init
<1>1. q = << >> /\ calls = << >> /\ tp.touch = 0 /\ touches = 0 /\ at = "outer" /\ ~pending
  BY DEF Fifo!Init, NoSample
<1> QED
  BY <1>1 DEF OrderInv, SampleInv, CallInv, AnsweredInOrder

LEMMA NumberTypes ==
    ASSUME TypeOK
    PROVE  /\ tp.touch \in Nat /\ touches \in Nat /\ tp.seen \in Nat /\ changes \in Nat
           /\ \A n \in DOMAIN q : n \in Nat /\ q[n].touch \in Nat /\ q[n].seen \in Nat
           /\ \A c \in DOMAIN calls : calls[c][1] \in Nat /\ calls[c][2] \in Nat /\ c \in Nat
<1>1. q \in Seq(Samples) /\ tp \in Samples /\ calls \in Seq((0 .. MaxTouches) \X DOMAIN Buttons)
  BY DEF TypeOK
<1>2. \A s \in Samples : s.touch \in Nat /\ s.seen \in Nat
  BY DEF Samples
<1>3. \A n \in DOMAIN q : n \in Nat /\ q[n] \in Samples
  BY <1>1
<1>4. \A c \in DOMAIN calls : c \in Nat /\ calls[c] \in (0 .. MaxTouches) \X DOMAIN Buttons
  BY <1>1
<1>5. \A x \in (0 .. MaxTouches) \X DOMAIN Buttons : x[1] \in Nat /\ x[2] \in Nat
  BY TableTypes
<1>6. touches \in Nat /\ changes \in Nat
  BY DEF TypeOK
<1> QED
  BY <1>1, <1>2, <1>3, <1>4, <1>5, <1>6

(* Nothing that matters here changes, but perhaps keeprunning, once.         *)
LEMMA OrderKept ==
    ASSUME TypeOK, OrderInv, UNCHANGED <<q, tp, i, calls, pending, panel, touches>>,
           keeprunning' = keeprunning \/ ~keeprunning',
           at' = at \/ at' # "look"
    PROVE  OrderInv'
<1>1. SampleInv'
  BY DEF OrderInv, SampleInv
<1>2. CallInv'
  BY DEF OrderInv, CallInv
<1>3. AnsweredInOrder'
  BY DEF OrderInv, AnsweredInOrder
<1> QED
  BY <1>1, <1>2, <1>3 DEF OrderInv

LEMMA EventOrder == ASSUME TypeOK, OrderInv, Event PROVE OrderInv'
<1> USE DEF fifo, thread, app
<1>1. /\ UNCHANGED <<q, tp, i, calls, panel, at, keeprunning>> /\ pending' = TRUE
      /\ \/ ~pending /\ touches' = touches + 1
         \/ pending /\ touches' = touches
  BY DEF Event
<1>2. touches \in Nat
  BY NumberTypes
<1>3. /\ \A n \in DOMAIN q : q[n].touch < touches'
      /\ tp.touch < touches'
      /\ \A c \in DOMAIN calls : calls[c][1] < touches'
  BY <1>1, <1>2, NumberTypes DEF OrderInv, SampleInv, CallInv
<1>4. touches' \in Nat
  BY <1>1, <1>2
<1>5. SampleInv'
  BY <1>1, <1>3, <1>4, NumberTypes DEF OrderInv, SampleInv
<1>6. CallInv'
  BY <1>1, <1>3, <1>4, NumberTypes DEF OrderInv, CallInv
<1>7. AnsweredInOrder'
  BY <1>1 DEF OrderInv, AnsweredInOrder
<1> QED
  BY <1>5, <1>6, <1>7 DEF OrderInv

LEMMA TakeSampleOrder == ASSUME TypeOK, OrderInv, TakeSample PROVE OrderInv'
<1> USE DEF thread, app
<1> DEFINE k == IF pending THEN touches ELSE 0
           s == Sample(raw, k)
<1>1. /\ panel = "run" /\ (pending \/ ~keeprunning) /\ WriteSample(k)
      /\ pending' = FALSE /\ panel' = IF keeprunning THEN "run" ELSE "exit"
      /\ UNCHANGED <<touches, tp, i, calls, at, keeprunning>>
  BY DEF TakeSample
<1>2. k \in 0 .. MaxTouches
  BY TouchAssumption DEF TypeOK
<1>3. q' = Append(q, s) \/ q' = q
  BY <1>1, <1>2, StoreTypes
<1>4. s.touch = k /\ q \in Seq(Samples) /\ s \in Samples
  BY <1>1, <1>2, StoreTypes DEF Sample, TypeOK
<1>5. /\ \A n \in DOMAIN q : q[n].touch # 0 /\ q[n].touch <= touches
      /\ pending => \A n \in DOMAIN q : q[n].touch < touches
      /\ pending => tp.touch < touches
      /\ ~(at = "look" /\ tp.touch = 0)
  BY <1>1 DEF OrderInv, SampleInv
<1>6. k = 0 \/ (k = touches /\ pending)
  BY Zenon
<1>7. k = 0 => ~keeprunning
  BY <1>1, NumberTypes DEF OrderInv, SampleInv
<1>8. \A c \in DOMAIN calls : /\ calls[c][1] # 0 /\ calls[c][1] <= tp.touch
                              /\ calls[c][1] <= touches /\ (pending => calls[c][1] < touches)
  BY <1>1 DEF OrderInv, CallInv
<1> HIDE DEF k, s
<1>9. AnsweredInOrder'
  BY <1>1 DEF OrderInv, AnsweredInOrder
<1>10. CASE q' = q
  <2>1. SampleInv'
    BY <1>1, <1>5, <1>10 DEF OrderInv, SampleInv
  <2>2. CallInv'
    BY <1>1, <1>8, <1>10 DEF OrderInv, CallInv
  <2> QED
    BY <1>9, <2>1, <2>2 DEF OrderInv
<1>11. CASE q' = Append(q, s)
  <2>1. /\ DOMAIN q' = DOMAIN q \cup {Len(q) + 1} /\ q'[Len(q) + 1] = s
        /\ \A n \in DOMAIN q : q'[n] = q[n] /\ n < Len(q) + 1 /\ n \in Nat
        /\ Len(q) + 1 \in Nat
    BY <1>4, <1>11
  <2>2. \A n \in DOMAIN q' : /\ q'[n].touch <= touches
                             /\ q'[n].touch = 0 => panel' = "exit" /\ ~keeprunning
                             /\ q'[n].touch = 0 \/ tp.touch < q'[n].touch
    <3> SUFFICES ASSUME NEW n \in DOMAIN q'
                 PROVE  /\ q'[n].touch <= touches
                        /\ q'[n].touch = 0 => panel' = "exit" /\ ~keeprunning
                        /\ q'[n].touch = 0 \/ tp.touch < q'[n].touch
      OBVIOUS
    <3>1. CASE n \in DOMAIN q
      BY <1>5, <2>1, <3>1 DEF OrderInv, SampleInv
    <3>2. CASE n = Len(q) + 1
      BY <1>1, <1>4, <1>5, <1>6, <1>7, <2>1, <3>2, NumberTypes
    <3> QED
      BY <2>1, <3>1, <3>2
  <2>3. \A m, n \in DOMAIN q' :
           m < n => q'[m].touch # 0 /\ (q'[n].touch = 0 \/ q'[m].touch < q'[n].touch)
    <3> SUFFICES ASSUME NEW m \in DOMAIN q', NEW n \in DOMAIN q', m < n
                 PROVE  q'[m].touch # 0 /\ (q'[n].touch = 0 \/ q'[m].touch < q'[n].touch)
      OBVIOUS
    <3>1. m \in DOMAIN q
      BY <2>1
    <3>2. CASE n \in DOMAIN q
      BY <2>1, <3>1, <3>2 DEF OrderInv, SampleInv
    <3>3. CASE n = Len(q) + 1
      BY <1>4, <1>5, <1>6, <2>1, <3>1, <3>3
    <3> QED
      BY <2>1, <3>2, <3>3
  <2>4. SampleInv'
    BY <1>1, <1>5, <2>2, <2>3 DEF OrderInv, SampleInv
  <2>5. \A c \in DOMAIN calls : \A n \in DOMAIN q' : q'[n].touch = 0 \/ calls[c][1] < q'[n].touch
    <3> SUFFICES ASSUME NEW c \in DOMAIN calls, NEW n \in DOMAIN q'
                 PROVE  q'[n].touch = 0 \/ calls[c][1] < q'[n].touch
      OBVIOUS
    <3>1. CASE n \in DOMAIN q
      BY <2>1, <3>1 DEF OrderInv, CallInv
    <3>2. CASE n = Len(q) + 1
      BY <1>4, <1>6, <1>8, <2>1, <3>2
    <3> QED
      BY <2>1, <3>1, <3>2
  <2>6. CallInv'
    BY <1>1, <1>8, <2>5 DEF OrderInv, CallInv
  <2> QED
    BY <1>9, <2>4, <2>6 DEF OrderInv
<1> QED
  BY <1>3, <1>10, <1>11

LEMMA ReadOrder == ASSUME TypeOK, OrderInv, touch_read PROVE OrderInv'
<1> USE DEF panelvars, app
<1>1. UNCHANGED <<raw, pending, panel, touches, calls, keeprunning>> /\ at = "read"
  BY DEF touch_read
<1>2. AnsweredInOrder'
  BY <1>1 DEF OrderInv, AnsweredInOrder
<1>3. CASE /\ q # << >> /\ q' = Tail(q) /\ tp' = Head(q)
           /\ at' = "look" /\ i' = 1
  <2>1. q \in Seq(Samples) /\ q # << >>
    BY <1>3 DEF TypeOK
  <2>2. /\ 1 \in DOMAIN q /\ tp' = q[1]
        /\ \A n \in DOMAIN q' : n \in Nat /\ n + 1 \in DOMAIN q /\ q'[n] = q[n + 1] /\ 1 < n + 1
    BY <1>3, <2>1
  <2>3. \A n \in DOMAIN q' : /\ q[1].touch # 0
                             /\ q'[n].touch = 0 \/ q[1].touch < q'[n].touch
    BY <2>2 DEF OrderInv, SampleInv
  <2>4. \A m, n \in DOMAIN q' :
           m < n => q'[m].touch # 0 /\ (q'[n].touch = 0 \/ q'[m].touch < q'[n].touch)
    <3> SUFFICES ASSUME NEW m \in DOMAIN q', NEW n \in DOMAIN q', m < n
                 PROVE  q'[m].touch # 0 /\ (q'[n].touch = 0 \/ q'[m].touch < q'[n].touch)
      OBVIOUS
    <3>1. m + 1 \in DOMAIN q /\ n + 1 \in DOMAIN q /\ m + 1 < n + 1
      BY <2>2
    <3>2. q[m + 1].touch # 0 /\ (q[n + 1].touch = 0 \/ q[m + 1].touch < q[n + 1].touch)
      BY <3>1 DEF OrderInv, SampleInv
    <3> QED
      BY <2>2, <3>2
  <2>5. q[1].touch = 0 => panel = "exit" /\ ~keeprunning /\ q' = << >>
    <3>1. q[1].touch = 0 => panel = "exit" /\ ~keeprunning
      BY <2>2 DEF OrderInv, SampleInv
    <3>2. q[1].touch = 0 => DOMAIN q' = {}
      BY <2>3
    <3>3. q' \in Seq(Samples)
      BY <1>3, <2>1
    <3>4. DOMAIN q' = {} => q' = << >>
      BY <3>3
    <3> QED
      BY <3>1, <3>2, <3>4
  <2>6. SampleInv'
    <3>1. \A n \in DOMAIN q' :
             /\ q'[n].touch <= touches /\ (pending => q'[n].touch < touches)
             /\ q'[n].touch = 0 => panel = "exit" /\ ~keeprunning
      BY <2>2 DEF OrderInv, SampleInv
    <3>2. q[1].touch <= touches /\ (pending => q[1].touch < touches)
      BY <2>2 DEF OrderInv, SampleInv
    <3> QED
      BY <1>1, <2>2, <2>3, <2>4, <2>5, <3>1, <3>2 DEF SampleInv
  <2>7. CallInv'
    <3> SUFFICES ASSUME NEW c \in DOMAIN calls
                 PROVE  /\ calls[c][1] = 0 => FALSE
                        /\ \A n \in DOMAIN q' : q'[n].touch = 0 \/ calls[c][1] < q'[n].touch
                        /\ \/ calls[c][1] < tp'.touch
                           \/ tp'.touch = 0 /\ panel = "exit" /\ q' = << >>
                        /\ calls[c][1] <= touches /\ (pending => calls[c][1] < touches)
                        /\ calls[c][1] # tp'.touch
      <4>1. tp'.touch \in Nat /\ \A c \in DOMAIN calls : calls[c][1] \in Nat
        BY <2>2, NumberTypes
      <4> QED
        BY <1>1, <4>1 DEF CallInv
    <3>1. calls[c][1] # 0
      BY <2>1 DEF OrderInv, CallInv
    <3>2. \A n \in DOMAIN q : q[n].touch = 0 \/ calls[c][1] < q[n].touch
      BY DEF OrderInv, CallInv
    <3>3. tp'.touch = 0 \/ calls[c][1] < tp'.touch
      BY <2>2, <3>2
    <3>4. calls[c][1] \in Nat /\ tp'.touch \in Nat
      BY <2>2, NumberTypes
    <3>5. calls[c][1] <= touches /\ (pending => calls[c][1] < touches)
      BY DEF OrderInv, CallInv
    <3>6. calls[c][1] # tp'.touch
      BY <3>1, <3>3, <3>4
    <3>7. \A n \in DOMAIN q' : q'[n].touch = 0 \/ calls[c][1] < q'[n].touch
      BY <2>2, <3>2
    <3> QED
      BY <2>2, <2>5, <3>1, <3>3, <3>5, <3>6, <3>7
  <2> QED
    BY <1>2, <2>6, <2>7 DEF OrderInv
<1>4. CASE q' = q /\ at' = "outer" /\ UNCHANGED <<tp, i>>
  BY <1>1, <1>4, OrderKept
<1> QED
  BY <1>3, <1>4, TakeTypes

LEMMA LookOrder == ASSUME TypeOK, OrderInv, Look PROVE OrderInv'
<1> USE DEF fifo, panelvars, app
<1>1. /\ at = "look"
      /\ UNCHANGED <<q, raw, pending, panel, touches, tp, keeprunning>>
  BY DEF Look
<1>2. CASE i > butanz
  <2>1. UNCHANGED <<i, calls>> /\ at' = "read"
    BY <1>2 DEF Look
  <2> QED
    BY <1>1, <2>1, OrderKept
<1>3. CASE ~(i > butanz) /\ calls' = calls
  <2>1. i' = i + 1 /\ at' = at /\ i \in Nat
    BY <1>3 DEF Look, TypeOK
  <2>2. SampleInv'
    BY <1>1, <2>1 DEF OrderInv, SampleInv
  <2>3. CallInv'
    BY <1>1, <1>3, <2>1, NumberTypes DEF OrderInv, CallInv
  <2>4. AnsweredInOrder'
    BY <1>1, <1>3 DEF OrderInv, AnsweredInOrder
  <2> QED
    BY <2>2, <2>3, <2>4 DEF OrderInv
<1>4. CASE ~(i > butanz) /\ calls' = Append(calls, <<tp.touch, i>>)
  <2> DEFINE e == <<tp.touch, i>>
             l == Len(calls) + 1
  <2>1. i' = i + 1 /\ at' = at /\ i \in Nat
    BY <1>4 DEF Look, TypeOK
  <2>2. e[1] = tp.touch /\ e[2] = i
    OBVIOUS
  <2>3. calls' = Append(calls, e) /\ l = Len(calls) + 1
    BY <1>4
  <2> HIDE DEF e, l
  <2>4. /\ DOMAIN calls' = DOMAIN calls \cup {l} /\ calls'[l] = e
        /\ \A c \in DOMAIN calls : calls'[c] = calls[c] /\ c < l /\ c \in Nat
        /\ l \in Nat /\ l - 1 = Len(calls) /\ Len(calls') = l
        /\ \A c \in 1 .. Len(calls) : c \in DOMAIN calls
    <3>1. calls \in Seq((0 .. MaxTouches) \X DOMAIN Buttons)
      BY DEF TypeOK
    <3>2. calls \in [1 .. Len(calls) -> (0 .. MaxTouches) \X DOMAIN Buttons] /\ Len(calls) \in Nat
      BY <3>1
    <3>3. DOMAIN calls = 1 .. Len(calls)
      BY <3>2
    <3>4. Len(calls') = l /\ DOMAIN calls' = 1 .. l /\ calls'[l] = e
      BY <2>3, <3>1
    <3>5. \A c \in 1 .. Len(calls) : calls'[c] = calls[c]
      BY <2>3, <3>1
    <3> QED
      BY <2>3, <3>2, <3>3, <3>4, <3>5
  <2>5. SampleInv'
    BY <1>1, <2>1 DEF OrderInv, SampleInv
  <2>6. /\ tp.touch = 0 => panel = "exit" /\ ~keeprunning /\ q = << >>
        /\ tp.touch <= touches /\ (pending => tp.touch < touches)
        /\ \A n \in DOMAIN q : q[n].touch = 0 \/ tp.touch < q[n].touch
    BY <1>1 DEF OrderInv, SampleInv
  <2>7. CallInv'
    <3> SUFFICES ASSUME NEW c \in DOMAIN calls'
                 PROVE  /\ calls'[c][1] = 0 =>
                              panel = "exit" /\ ~keeprunning /\ q = << >> /\ tp.touch = 0
                        /\ \A n \in DOMAIN q : q[n].touch = 0 \/ calls'[c][1] < q[n].touch
                        /\ calls'[c][1] <= tp.touch \/ (tp.touch = 0 /\ panel = "exit" /\ q = << >>)
                        /\ calls'[c][1] <= touches /\ (pending => calls'[c][1] < touches)
                        /\ calls'[c][1] = tp.touch => calls'[c][2] < i + 1
      BY <1>1, <2>1 DEF CallInv
    <3>1. CASE c \in DOMAIN calls
      BY <1>1, <2>1, <2>4, <3>1, NumberTypes DEF OrderInv, CallInv
    <3>2. CASE c = l
      BY <2>1, <2>4, <2>2, <2>6, <3>2, NumberTypes
    <3> QED
      BY <2>4, <3>1, <3>2
  <2>8. AnsweredInOrder'
    <3>1. ASSUME NEW n \in 1 .. Len(calls') - 1
          PROVE  \/ calls'[n][1] < calls'[n + 1][1]
                 \/ calls'[n][1] = calls'[n + 1][1] /\ calls'[n][2] < calls'[n + 1][2]
                 \/ calls'[n + 1][1] = 0
      <4>1. n \in DOMAIN calls /\ n \in Nat
        BY <2>4
      <4>2. CASE n + 1 \in DOMAIN calls
        <5>1. n \in 1 .. Len(calls) - 1
          BY <4>1, <4>2 DEF TypeOK
        <5> QED
          BY <2>4, <4>1, <4>2, <5>1 DEF OrderInv, AnsweredInOrder
      <4>3. CASE n + 1 = l
        <5>1. /\ calls[n][1] <= tp.touch \/ tp.touch = 0
              /\ calls[n][1] = tp.touch => calls[n][2] < i
          BY <1>1, <4>1 DEF OrderInv, CallInv
        <5> QED
          BY <2>4, <2>2, <4>1, <4>3, <5>1, NumberTypes
      <4> QED
        BY <2>4, <4>2, <4>3, <3>1
    <3>2. ASSUME NEW n \in DOMAIN calls' PROVE calls'[n][1] # 0 \/ ~keeprunning'
      <4>1. CASE n \in DOMAIN calls
        BY <1>1, <2>4, <4>1 DEF OrderInv, CallInv
      <4>2. CASE n = l
        BY <1>1, <2>4, <2>2, <2>6, <4>2
      <4> QED
        BY <2>4, <4>1, <4>2
    <3> QED
      BY <3>1, <3>2 DEF AnsweredInOrder
  <2> QED
    BY <2>5, <2>7, <2>8 DEF OrderInv
<1>5. ~(i > butanz) => calls' = calls \/ calls' = Append(calls, <<tp.touch, i>>)
  BY DEF Look
<1> QED
  BY <1>2, <1>3, <1>4, <1>5

LEMMA NextOrder == TypeOK /\ OrderInv /\ [Next]_vars => OrderInv'
<1> SUFFICES ASSUME TypeOK, OrderInv, [Next]_vars PROVE OrderInv'
  OBVIOUS
<1>1. CASE Event
  BY <1>1, EventOrder
<1>2. CASE TakeSample
  BY <1>2, TakeSampleOrder
<1>3. CASE touch_read
  BY <1>3, ReadOrder
<1>4. CASE Look
  BY <1>4, LookOrder
<1>5. CASE Outer
  BY <1>5, OrderKept DEF Outer, fifo, panelvars, app
<1>6. CASE create_touchbutton \/ draw_button \/ deactivate_allbuttons \/ SwitchMenu
  BY <1>6, OrderKept
     DEF create_touchbutton, draw_button, deactivate_allbuttons, SwitchMenu, Change,
         fifo, panelvars, thread
<1>7. CASE Stop \/ UNCHANGED vars
  BY <1>7, OrderKept DEF Stop, vars, fifo, panelvars, thread, app
<1> QED
  BY <1>1, <1>2, <1>3, <1>4, <1>5, <1>6, <1>7 DEF Next, touchproc, tbutproc

(* Touches are answered in their order, each button at most once for each,   *)
(* and only when the program ends can a button be called without a touch,    *)
(* whatever the size of the fifo and of the table.                           *)
THEOREM OrderCorrect == Spec => []AnsweredInOrder
<1>1. OrderInv => AnsweredInOrder
  BY DEF OrderInv
<1> QED
  BY <1>1, InitTypes, NextTypes, InitOrder, NextOrder, PTL DEF Spec

-----------------------------------------------------------------------------
(* What is not answered                                                      *)

(* Buttons looked at for this sample that are under it, and those of them    *)
(* that can be called.                                                       *)
Before == {x \in 1 .. i - 1 : Hit(x, menu)}
Wanted == {x \in Before : active[x] /\ Buttons[x].callback}
Called == \E n \in DOMAIN calls : calls[n][1] = tp.touch

(* While the application has changed nothing since the sample was taken: the *)
(* whole table is looked at; lastbutton is a button under the sample, once   *)
(* there is one; a button that can be called was called, or was the last one.*)
Fresh ==
    /\ butanz = touchbutanz
    /\ (Before = {} /\ lastbutton = last) \/ lastbutton \in Before
    /\ Wanted # {} => last \in Wanted \/ Called

RepeatInv ==
    /\ tp.seen <= changes /\ \A n \in DOMAIN q : q[n].seen <= changes
    /\ at = "look" => i <= butanz + 1
    /\ at = "look" /\ tp.seen = changes => Fresh

LEMMA InitRepeat == Init => RepeatInv
<1> SUFFICES ASSUME Init PROVE RepeatInv
  OBVIOUS
<1>1. q = << >> /\ tp.seen = 0 /\ changes = 0 /\ at = "outer"
  BY DEF Init, Fifo!Init, NoSample
<1> QED
  BY <1>1 DEF RepeatInv

(* A step that neither looks at a button nor changes the table.              *)
LEMMA RepeatKept ==
    ASSUME RepeatInv, at' = at \/ at' # "look", q' = q,
           UNCHANGED <<tp, i, butanz, lastbutton, last, calls, touchbutanz, active, menu, changes>>
    PROVE  RepeatInv'
<1>1. Fresh' = Fresh
  BY DEF Fresh, Before, Wanted, Called, Hit
<1> QED
  BY <1>1 DEF RepeatInv

LEMMA TakeSampleRepeat == ASSUME TypeOK, RepeatInv, TakeSample PROVE RepeatInv'
<1> USE DEF thread, app
<1> DEFINE k == IF pending THEN touches ELSE 0
           s == Sample(raw, k)
<1>1. UNCHANGED <<at, tp, i, butanz, lastbutton, last, calls, touchbutanz, active, menu, changes>>
  BY DEF TakeSample
<1>2. k \in 0 .. MaxTouches /\ WriteSample(k)
  BY TouchAssumption DEF TypeOK, TakeSample
<1>3. (q' = Append(q, s) \/ q' = q) /\ s \in Samples
  BY <1>2, StoreTypes
<1>4. s.seen = changes /\ changes \in Nat /\ q \in Seq(Samples)
  BY DEF Sample, TypeOK
<1> HIDE DEF k, s
<1>5. \A n \in DOMAIN q' : q'[n].seen <= changes
  <2>1. CASE q' = q
    BY <2>1 DEF RepeatInv
  <2>2. CASE q' = Append(q, s)
    <3>1. /\ DOMAIN q' = DOMAIN q \cup {Len(q) + 1} /\ q'[Len(q) + 1] = s
          /\ \A n \in DOMAIN q : q'[n] = q[n]
      BY <1>3, <1>4, <2>2
    <3>2. \A n \in DOMAIN q : q[n].seen <= changes
      BY DEF RepeatInv
    <3> QED
      BY <1>4, <3>1, <3>2
  <2> QED
    BY <1>3, <2>1, <2>2
<1>6. Fresh' = Fresh
  BY <1>1 DEF Fresh, Before, Wanted, Called, Hit
<1> QED
  BY <1>1, <1>5, <1>6 DEF RepeatInv

LEMMA ReadRepeat == ASSUME TypeOK, RepeatInv, touch_read PROVE RepeatInv'
<1> USE DEF panelvars, app
<1>1. UNCHANGED <<lastbutton, calls, touchbutanz, active, menu, changes>>
  BY DEF touch_read
<1>2. CASE /\ q # << >> /\ q' = Tail(q) /\ tp' = Head(q)
           /\ at' = "look" /\ i' = 1 /\ butanz' = touchbutanz /\ last' = lastbutton
  <2>1. q \in Seq(Samples) /\ q # << >>
    BY <1>2 DEF TypeOK
  <2>2. /\ 1 \in DOMAIN q /\ tp' = q[1]
        /\ \A n \in DOMAIN q' : n + 1 \in DOMAIN q /\ q'[n] = q[n + 1]
    BY <1>2, <2>1
  <2>3. tp'.seen <= changes' /\ \A n \in DOMAIN q' : q'[n].seen <= changes'
    BY <1>1, <2>2 DEF RepeatInv
  <2>4. Before' = {} /\ Wanted' = {}
    BY <1>2 DEF Before, Wanted
  <2>5. Fresh'
    BY <1>1, <1>2, <2>4 DEF Fresh
  <2>6. i' <= butanz' + 1
    BY <1>2, <1>1 DEF TypeOK
  <2> QED
    BY <2>3, <2>5, <2>6 DEF RepeatInv
<1>3. CASE q' = q /\ at' = "outer" /\ UNCHANGED <<tp, i, butanz, last>>
  BY <1>1, <1>3, RepeatKept
<1> QED
  BY <1>2, <1>3, TakeTypes

LEMMA LookRepeat == ASSUME TypeOK, RepeatInv, Look PROVE RepeatInv'
<1> USE DEF fifo, panelvars, app
<1>1. /\ at = "look"
      /\ UNCHANGED <<q, tp, butanz, last, touchbutanz, active, menu, changes>>
  BY DEF Look
<1>2. CASE i > butanz
  BY <1>1, <1>2, RepeatKept DEF Look
<1>3. CASE ~(i > butanz)
  <2>1. /\ i' = i + 1 /\ at' = at
        /\ lastbutton' = IF Hit(i, menu) THEN i ELSE lastbutton
        /\ calls' = IF Hit(i, menu) /\ i # lastbutton /\ active[i] /\ Buttons[i].callback
                    THEN Append(calls, <<tp.touch, i>>) ELSE calls
    BY <1>3 DEF Look
  <2>2. i \in Nat /\ butanz \in Nat /\ i >= 1 /\ i' <= butanz' + 1
    BY <1>1, <1>3, <2>1 DEF TypeOK
  <2>3. 1 .. i' - 1 = (1 .. i - 1) \cup {i} /\ i \notin 1 .. i - 1
    BY <2>1, <2>2
  <2>4. \A x : Hit(x, menu)' <=> Hit(x, menu)
    BY <1>1 DEF Hit
  <2>5. Before' = Before \cup {x \in {i} : Hit(x, menu)}
    BY <2>3, <1>1 DEF Before, Hit
  <2>6. Wanted' = Wanted \cup {x \in {i} : Hit(x, menu) /\ active[x] /\ Buttons[x].callback}
    BY <1>1, <2>5 DEF Wanted
  <2>7. i \notin Before
    BY <2>3 DEF Before
  <2>8. Called => Called'
    <3>1. calls \in Seq((0 .. MaxTouches) \X DOMAIN Buttons)
      BY DEF TypeOK
    <3>2. \A n \in DOMAIN calls : n \in DOMAIN Append(calls, <<tp.touch, i>>)
                                  /\ Append(calls, <<tp.touch, i>>)[n] = calls[n]
      BY <3>1
    <3> QED
      BY <1>1, <2>1, <3>2 DEF Called
  <2>9. calls' = Append(calls, <<tp.touch, i>>) => Called'
    <3>1. calls \in Seq((0 .. MaxTouches) \X DOMAIN Buttons)
      BY DEF TypeOK
    <3> DEFINE e == <<tp.touch, i>>
    <3>2. e[1] = tp.touch
      OBVIOUS
    <3> HIDE DEF e
    <3>3. Len(calls) + 1 \in DOMAIN Append(calls, e) /\ Append(calls, e)[Len(calls) + 1] = e
      BY <3>1
    <3>4. calls' = Append(calls, e) => Called'
      BY <1>1, <3>2, <3>3 DEF Called
    <3> QED
      BY <3>4 DEF e
  <2>10. ASSUME tp.seen = changes PROVE Fresh'
    <3>1. Fresh
      BY <1>1, <2>10 DEF RepeatInv
    <3>2. butanz' = touchbutanz'
      BY <1>1, <3>1 DEF Fresh
    <3>3. (Before' = {} /\ lastbutton' = last') \/ lastbutton' \in Before'
      BY <1>1, <2>1, <2>5, <3>1 DEF Fresh
    <3>4. ASSUME Wanted' # {} PROVE last' \in Wanted' \/ Called'
      <4>1. CASE Wanted # {}
        BY <1>1, <2>6, <2>8, <3>1, <4>1 DEF Fresh
      <4>2. CASE Wanted = {}
        <5>1. Hit(i, menu) /\ active[i] /\ Buttons[i].callback /\ i \in Wanted'
          BY <2>6, <3>4, <4>2
        <5>2. CASE i = lastbutton
          BY <1>1, <2>7, <3>1, <5>1, <5>2 DEF Fresh
        <5>3. CASE i # lastbutton
          BY <2>1, <2>9, <5>1, <5>3
        <5> QED
          BY <5>2, <5>3
      <4> QED
        BY <4>1, <4>2
    <3> QED
      BY <3>2, <3>3, <3>4 DEF Fresh
  <2> QED
    BY <1>1, <2>2, <2>10 DEF RepeatInv
<1> QED
  BY <1>2, <1>3

(* After a change every sample that was taken is an old one.                 *)
LEMMA ChangeRepeat == ASSUME TypeOK, RepeatInv, Change PROVE RepeatInv'
<1>1. changes' = changes + 1 /\ UNCHANGED <<q, tp, at, i, butanz>>
  BY DEF Change, fifo, thread
<1>2. changes \in Nat /\ tp.seen \in Nat /\ \A n \in DOMAIN q : q[n].seen \in Nat
  BY NumberTypes
<1>3. tp'.seen # changes' /\ tp'.seen <= changes'
  BY <1>1, <1>2 DEF RepeatInv
<1>4. \A n \in DOMAIN q' : q'[n].seen <= changes'
  BY <1>1, <1>2 DEF RepeatInv
<1> QED
  BY <1>1, <1>3, <1>4 DEF RepeatInv

LEMMA NextRepeat == TypeOK /\ RepeatInv /\ [Next]_vars => RepeatInv'
<1> SUFFICES ASSUME TypeOK, RepeatInv, [Next]_vars PROVE RepeatInv'
  OBVIOUS
<1>1. CASE TakeSample
  BY <1>1, TakeSampleRepeat
<1>2. CASE touch_read
  BY <1>2, ReadRepeat
<1>3. CASE Look
  BY <1>3, LookRepeat
<1>4. CASE Event \/ Outer
  BY <1>4, RepeatKept DEF Event, Outer, fifo, thread, app
<1>5. CASE create_touchbutton \/ draw_button \/ deactivate_allbuttons \/ SwitchMenu
  BY <1>5, ChangeRepeat DEF create_touchbutton, draw_button, deactivate_allbuttons, SwitchMenu
<1>6. CASE Stop \/ UNCHANGED vars
  BY <1>6, RepeatKept DEF Stop, vars, fifo, panelvars, thread, app
<1> QED
  BY <1>1, <1>2, <1>3, <1>4, <1>5, <1>6 DEF Next, touchproc, tbutproc

(* A touch of a button that can be called, and was to be seen all the time   *)
(* since the sample was taken, calls a button under it, unless one of them   *)
(* was the button of the touch before.                                       *)
THEOREM RepeatsCorrect == Spec => []OnlyRepeatsIgnored
<1>1. TypeOK /\ RepeatInv => OnlyRepeatsIgnored
  <2> SUFFICES ASSUME TypeOK, RepeatInv, at = "look", i > butanz, tp.seen = changes
               PROVE  LET hit == {b \in 1 .. touchbutanz :
                                    Hit(b, menu) /\ active[b] /\ Buttons[b].callback}
                      IN  hit # {} => last \in hit \/ Called
    BY DEF OnlyRepeatsIgnored, Called
  <2>1. Fresh /\ i <= butanz + 1
    BY DEF RepeatInv
  <2>2. i - 1 = touchbutanz
    BY <2>1 DEF Fresh, TypeOK
  <2>3. Wanted = {b \in 1 .. touchbutanz : Hit(b, menu) /\ active[b] /\ Buttons[b].callback}
    BY <2>2 DEF Wanted, Before
  <2> QED
    BY <2>1, <2>3 DEF Fresh
<1> QED
  BY <1>1, InitTypes, NextTypes, InitRepeat, NextRepeat, PTL DEF Spec

-----------------------------------------------------------------------------
(* Bar graphs: after a value, the picture and what the graph remembers are   *)
(* those of its end (Barred), whatever they were before.                     *)

LEMMA Product ==
    ASSUME NEW a \in Nat, NEW b \in Nat, NEW n \in Nat, a <= b
    PROVE  a * n <= b * n
OBVIOUS

LEMMA Quotient ==
    ASSUME NEW n \in Nat \ {0}, NEW k \in Nat, NEW s \in Nat, s < n
    PROVE  (k * n + s) \div n = k
<1> DEFINE x == k * n
           a == x + s
           d == a \div n
           y == d * n
<1>1. x \in Nat /\ a \in Nat
  OBVIOUS
<1>2. d \in Nat /\ y \in Nat /\ y <= a /\ a < y + n
  <2> HIDE DEF a
  <2> QED
    BY <1>1
<1>3. CASE d < k
  <2>1. (d + 1) * n = y + n
    BY <1>2
  <2>2. (d + 1) * n <= k * n
    <3> HIDE DEF d
    <3> QED
      BY <1>2, <1>3, Product
  <2> QED
    BY <1>1, <1>2, <2>1, <2>2
<1>4. CASE k < d
  <2>1. (k + 1) * n = x + n
    BY <1>1
  <2>2. (k + 1) * n <= d * n
    <3> HIDE DEF d
    <3> QED
      BY <1>2, <1>4, Product
  <2> QED
    BY <1>1, <1>2, <2>1, <2>2
<1> QED
  BY <1>2, <1>3, <1>4

(* What the settings and the values of a graph are (bargraph.h).             *)
Graph(pb) ==
    /\ pb.minx \in Int /\ pb.miny \in Int /\ pb.width \in Nat \ {0} /\ pb.height \in Nat \ {0}
    /\ pb.minval \in Nat /\ pb.maxval \in Nat \ {0} /\ pb.err \in {0, 1}
    /\ pb.showvalue \in BOOLEAN /\ pb.bgx \in Nat /\ pb.bgx > pb.width
    /\ pb.bgw \in Nat /\ pb.bgy \in Int /\ pb.bgh \in Nat

(* A bar ends within its frame, and a full one at the frame's right side.    *)
LEMMA EndWithin ==
    ASSUME NEW pb, Graph(pb), NEW value \in pb.minval .. pb.maxval
    PROVE  /\ Bars!End(pb, value) \in pb.minx + 1 .. pb.minx + pb.width
           /\ value = pb.minval => Bars!End(pb, value) = pb.minx + 1
           /\ value = pb.maxval /\ pb.minval = 0 => Bars!End(pb, value) = pb.minx + pb.width
<1> DEFINE w == pb.width
           a == value - pb.minval
           m == pb.maxval
           f == 2 * w - 1
           n == a * f
           d == 2 * m
           v == n \div d
           less == IF n > 0 /\ n % d = 0 THEN v - pb.err ELSE v
<1>1. w \in Nat \ {0} /\ a \in Nat /\ a <= m /\ m \in Nat \ {0} /\ pb.err \in {0, 1} /\ pb.minx \in Int
  BY DEF Graph
<1>2. f \in Nat /\ d \in Nat \ {0}
  BY <1>1
<1> HIDE DEF a, m, w
<1>3. n \in Nat
  <2> HIDE DEF f
  <2> QED
    BY <1>1, <1>2
<1> HIDE DEF f
<1>4. n <= m * f /\ m * f = (w - 1) * d + m /\ m * f < w * d
  <2>1. n <= m * f
    BY <1>1, <1>2, Product
  <2> DEFINE x == w * m
  <2>2. x \in Nat
    BY <1>1
  <2>3. m * f = x + x - m
    BY <1>1 DEF f
  <2>4. w * d = x + x /\ (w - 1) * d = x + x - (m + m)
    BY <1>1
  <2> HIDE DEF x, n, d
  <2> QED
    BY <1>1, <2>1, <2>2, <2>3, <2>4
<1> HIDE DEF n, d
<1>5. v \in Nat /\ v * d <= n /\ n < v * d + d /\ n % d = n - v * d
  BY <1>2, <1>3
<1>6. v <= w - 1
  <2> SUFFICES ASSUME v >= w PROVE FALSE
    BY <1>1, <1>5
  <2>1. w * d <= v * d
    BY <1>1, <1>2, <1>5, Product
  <2>2. w * d \in Nat /\ v * d \in Nat /\ m * f \in Nat
    BY <1>1, <1>2, <1>5
  <2> HIDE DEF v
  <2> QED
    BY <1>3, <1>4, <1>5, <2>1, <2>2
<1>7. n > 0 /\ n % d = 0 => v >= 1
  <2> SUFFICES ASSUME n > 0, n % d = 0, v = 0 PROVE FALSE
    BY <1>5
  <2>1. v * d = 0
    BY <1>2
  <2> HIDE DEF v
  <2> QED
    BY <1>3, <1>5, <2>1
<1>8. less \in 0 .. w - 1
  <2> HIDE DEF v
  <2> QED
    BY <1>1, <1>5, <1>6, <1>7
<1>9. Bars!End(pb, value) = pb.minx + 1 + less
  <2>1. ~(n < 0)
    BY <1>3
  <2>2. Bars!Draw!Quotient(n, d) = v
    BY <2>1 DEF Bars!Draw!Quotient
  <2> QED
    BY <2>2 DEF Bars!End, n, a, f, d, m, w
<1>10. value = pb.minval => less = 0
  <2> SUFFICES ASSUME value = pb.minval PROVE less = 0
    OBVIOUS
  <2>1. a = 0
    BY DEF a, Graph
  <2>2. n = 0
    BY <1>2, <2>1 DEF n
  <2>3. v = 0
    BY <1>2, <2>2
  <2> QED
    BY <2>2, <2>3
<1>11. value = pb.maxval /\ pb.minval = 0 => less = w - 1
  <2> SUFFICES ASSUME value = pb.maxval, pb.minval = 0 PROVE less = w - 1
    OBVIOUS
  <2>1. a = m
    BY DEF a, m, Graph
  <2>2. n = (w - 1) * d + m
    BY <1>4, <2>1 DEF n
  <2>3. w - 1 \in Nat /\ m < d
    BY <1>1 DEF d
  <2>4. v = w - 1
    BY <1>1, <1>2, <2>2, <2>3, Quotient
  <2>5. n % d # 0
    <3> DEFINE y == (w - 1) * d
    <3>1. y \in Nat
      BY <1>2, <2>3
    <3>2. n % d = n - y
      BY <1>5, <2>4
    <3> HIDE DEF y, v
    <3> QED
      BY <1>1, <2>2, <3>1, <3>2 DEF y
  <2> HIDE DEF v
  <2> QED
    BY <2>4, <2>5
<1> HIDE DEF less
<1> QED
  BY <1>1, <1>8, <1>9, <1>10, <1>11 DEF w

(* A rectangle, filled or not.                                               *)
Pixels(xs, ys, xe, ye) == (xs .. xe) \X (ys .. ye)

LEMMA FilledPixels ==
    ASSUME NEW xs \in Int, NEW ys \in Int, NEW xe \in Int, NEW ye \in Int
    PROVE  Bars!Draw!TFT_Rectangle_filled(xs, ys, xe, ye) = Pixels(xs, ys, xe - 1, ye - 1)
<1> DEFINE R == Bars!Draw!TFT_Rectangle_filled(xs, ys, xe, ye)
           H(y) == (xs .. xe - 1) \X (y .. y + 1 - 1)
<1>1. R = UNION {H(y) : y \in ys .. ye - 1}
  BY DEF Bars!Draw!TFT_Rectangle_filled, Bars!Draw!TFT_Hor_Line
<1>2. ASSUME NEW y \in Int PROVE H(y) = (xs .. xe - 1) \X {y}
  <2>1. y .. y + 1 - 1 = {y}
    OBVIOUS
  <2> QED
    BY <2>1
<1> HIDE DEF R, H
<1>3. ASSUME NEW p \in R PROVE p \in Pixels(xs, ys, xe - 1, ye - 1)
  <2>1. PICK y \in ys .. ye - 1 : p \in H(y)
    BY <1>1
  <2>2. p \in (xs .. xe - 1) \X {y}
    BY <1>2, <2>1
  <2> QED
    BY <2>2 DEF Pixels
<1>4. ASSUME NEW p \in Pixels(xs, ys, xe - 1, ye - 1) PROVE p \in R
  <2>1. PICK x \in xs .. xe - 1, y \in ys .. ye - 1 : p = <<x, y>>
    BY DEF Pixels
  <2>2. p \in H(y)
    BY <1>2, <2>1
  <2> QED
    BY <1>1, <2>1, <2>2
<1> QED
  BY <1>3, <1>4 DEF R

LEMMA FramePixels ==
    ASSUME NEW xs \in Int, NEW ys \in Int, NEW xe \in Int, NEW ye \in Int, xs < xe, ys < ye,
           NEW x \in Int, NEW y \in Int
    PROVE  <<x, y>> \in Bars!Draw!TFT_Rectangle(xs, ys, xe, ye, 1) <=>
               /\ x \in xs .. xe /\ y \in ys .. ye
               /\ x \in {xs, xe} \/ y \in {ys, ye}
BY DEF Bars!Draw!TFT_Rectangle, Bars!Draw!TFT_Hor_Line, Bars!Draw!TFT_Vert_Line

(* What is drawn of a bar with its end at xe, point by point.                *)
InFrame(pb, x, y) == x \in pb.minx .. pb.minx + pb.width /\ y \in pb.miny .. pb.miny + pb.height

OnFrame(pb, x, y) == x \in {pb.minx, pb.minx + pb.width} \/ y \in {pb.miny, pb.miny + pb.height}

InField(pb, x, y) ==
    /\ x - pb.minx \in pb.bgx .. pb.bgx + pb.bgw - 1
    /\ y - pb.miny \in pb.bgy .. pb.bgy + pb.bgh - 1

Inside(pb, xe, x, y) ==
    IF OnFrame(pb, x, y) THEN "red"
    ELSE IF x < xe /\ y < pb.miny + pb.height - 1 THEN "yellow" ELSE "black"

Outside(picture, pb, x, y) ==
    IF pb.showvalue /\ InField(pb, x, y) THEN "background" ELSE picture[<<x, y>>]

Colour(picture, pb, xe, x, y) ==
    IF InFrame(pb, x, y) THEN Inside(pb, xe, x, y) ELSE Outside(picture, pb, x, y)

(* The picture is right but for the value's field.                           *)
Whole(picture, pb, now, xe) ==
    \A x, y \in Int : <<x, y>> \in DOMAIN picture =>
        \/ pb.showvalue /\ InField(pb, x, y)
        \/ now[<<x, y>>] = Colour(picture, pb, xe, x, y)

(* The value's field does not touch the frame, and clearing it again changes *)
(* nothing else.                                                             *)
LEMMA Cleared ==
    ASSUME NEW pb, Graph(pb), NEW now, NEW x \in Int, NEW y \in Int, <<x, y>> \in DOMAIN now
    PROVE  /\ DOMAIN Bars!ClearValue(now, pb) = DOMAIN now
           /\ Bars!ClearValue(now, pb)[<<x, y>>] =
                  IF pb.showvalue /\ InField(pb, x, y) THEN "background" ELSE now[<<x, y>>]
           /\ InField(pb, x, y) => ~InFrame(pb, x, y)
<1> DEFINE x0 == pb.minx + pb.bgx
           y0 == pb.miny + pb.bgy
           x1 == x0 + pb.bgw
           y1 == y0 + pb.bgh
           R == Bars!Draw!TFT_Rectangle_filled(x0, y0, x1, y1)
<1>0. pb.minx \in Int /\ pb.miny \in Int /\ pb.bgx \in Nat /\ pb.bgw \in Nat /\ pb.bgy \in Int
      /\ pb.bgh \in Nat /\ pb.width \in Nat /\ pb.bgx > pb.width
  BY DEF Graph
<1>1. R = Pixels(x0, y0, x1 - 1, y1 - 1)
  <2>1. x0 \in Int /\ y0 \in Int /\ x1 \in Int /\ y1 \in Int
    BY <1>0
  <2> HIDE DEF x0, y0, x1, y1
  <2> QED
    BY <2>1, FilledPixels
<1>2. <<x, y>> \in R <=> InField(pb, x, y)
  <2> HIDE DEF R
  <2>1. <<x, y>> \in R <=> x \in x0 .. x1 - 1 /\ y \in y0 .. y1 - 1
    BY <1>1 DEF Pixels
  <2> QED
    BY <1>0, <2>1 DEF InField
<1>3. Bars!ClearValue(now, pb) = IF pb.showvalue THEN Bars!Drawn(now, R, "background") ELSE now
  BY DEF Bars!ClearValue
<1>4. InField(pb, x, y) => ~InFrame(pb, x, y)
  BY <1>0 DEF InField, InFrame
<1> HIDE DEF R
<1>5. CASE pb.showvalue
  <2>1. Bars!ClearValue(now, pb) =
            [p \in DOMAIN now |-> IF p \in R THEN "background" ELSE now[p]]
    BY <1>3, <1>5 DEF Bars!Drawn
  <2> QED
    BY <1>2, <1>4, <1>5, <2>1
<1>6. CASE ~pb.showvalue
  BY <1>3, <1>4, <1>6
<1> QED
  BY <1>5, <1>6

LEMMA DrawnAt ==
    ASSUME NEW now, NEW pixels, NEW colour, NEW p \in DOMAIN now
    PROVE  /\ DOMAIN Bars!Drawn(now, pixels, colour) = DOMAIN now
           /\ Bars!Drawn(now, pixels, colour)[p] = IF p \in pixels THEN colour ELSE now[p]
BY DEF Bars!Drawn

LEMMA InFilled ==
    ASSUME NEW xs \in Int, NEW ys \in Int, NEW xe \in Int, NEW ye \in Int,
           NEW x \in Int, NEW y \in Int
    PROVE  <<x, y>> \in Bars!Draw!TFT_Rectangle_filled(xs, ys, xe, ye)
               <=> xs <= x /\ x < xe /\ ys <= y /\ y < ye
<1>1. <<x, y>> \in Pixels(xs, ys, xe - 1, ye - 1) <=> xs <= x /\ x < xe /\ ys <= y /\ y < ye
  BY DEF Pixels
<1> DEFINE R == Bars!Draw!TFT_Rectangle_filled(xs, ys, xe, ye)
<1>2. R = Pixels(xs, ys, xe - 1, ye - 1)
  BY FilledPixels
<1> HIDE DEF R
<1>3. <<x, y>> \in R <=> xs <= x /\ x < xe /\ ys <= y /\ y < ye
  BY <1>1, <1>2, Zenon
<1> QED
  BY <1>3 DEF R

(* A graph that shows a bar up to u.                                         *)
Shows(g, picture, pb, u) ==
    /\ g = [picture |-> g.picture, lastval |-> u, ytop |-> pb.miny + 1,
            ybottom |-> pb.miny + pb.height - 1]
    /\ Whole(picture, pb, g.picture, u)
    /\ DOMAIN g.picture = DOMAIN picture

Ends(pb) == pb.minx + 1 .. pb.minx + pb.width

(* The change from one end to another.                                       *)
LEMMA Changed ==
    ASSUME NEW picture, NEW pb, Graph(pb), NEW u \in Ends(pb), NEW v \in Ends(pb),
           NEW g, Shows(g, picture, pb, u), NEW x \in Int, NEW y \in Int,
           <<x, y>> \in DOMAIN picture
    PROVE  LET now == Bars!ClearValue(Bars!Change(g, v), pb)
           IN  DOMAIN now = DOMAIN picture /\ now[<<x, y>>] = Colour(picture, pb, v, x, y)
<1> DEFINE up == Bars!Draw!TFT_Rectangle_filled(u, pb.miny + 1, v, pb.miny + pb.height - 1)
           down == Bars!Draw!TFT_Rectangle_filled(v, pb.miny + 1, u, pb.miny + pb.height - 1)
           old == g.picture
           c == Bars!Change(g, v)
           now == Bars!ClearValue(c, pb)
           p == <<x, y>>
           top == pb.miny + 1
           bottom == pb.miny + pb.height - 1
           is == c[p]
<1>1. pb.minx \in Int /\ pb.miny \in Int /\ pb.width \in Nat \ {0} /\ pb.height \in Nat \ {0}
      /\ u \in Int /\ v \in Int
  BY DEF Graph, Ends
<1>2. /\ g.lastval = u /\ g.ytop = top /\ g.ybottom = bottom
      /\ p \in DOMAIN old /\ DOMAIN old = DOMAIN picture
      /\ (pb.showvalue /\ InField(pb, x, y)) \/ old[p] = Colour(picture, pb, u, x, y)
  BY DEF Shows, Whole
<1>3. /\ p \in up <=> u <= x /\ x < v /\ top <= y /\ y < bottom
      /\ p \in down <=> v <= x /\ x < u /\ top <= y /\ y < bottom
  <2>1. top \in Int /\ bottom \in Int
    BY <1>1
  <2> HIDE DEF top, bottom
  <2>2. <<x, y>> \in Bars!Draw!TFT_Rectangle_filled(u, top, v, bottom)
            <=> u <= x /\ x < v /\ top <= y /\ y < bottom
    BY <1>1, <2>1, InFilled
  <2>3. <<x, y>> \in Bars!Draw!TFT_Rectangle_filled(v, top, u, bottom)
            <=> v <= x /\ x < u /\ top <= y /\ y < bottom
    BY <1>1, <2>1, InFilled
  <2> QED
    BY <2>2, <2>3 DEF top, bottom
<1>4. c = IF v > u THEN Bars!Drawn(old, up, "yellow") ELSE Bars!Drawn(old, down, "black")
  BY <1>2 DEF Bars!Change
<1> HIDE DEF up, down, old, c, p
<1>5. /\ DOMAIN c = DOMAIN picture
      /\ is = IF v > u THEN IF p \in up THEN "yellow" ELSE old[p]
              ELSE IF p \in down THEN "black" ELSE old[p]
  BY <1>2, <1>4, DrawnAt
<1>6. /\ DOMAIN now = DOMAIN picture
      /\ now[p] = IF pb.showvalue /\ InField(pb, x, y) THEN "background" ELSE is
      /\ InField(pb, x, y) => ~InFrame(pb, x, y)
  <2>1. <<x, y>> \in DOMAIN c
    BY <1>5
  <2> QED
    BY <1>5, <2>1, Cleared DEF p
<1> HIDE DEF is, now
<1>7. ASSUME ~InFrame(pb, x, y) PROVE now[p] = Colour(picture, pb, v, x, y)
  <2>1. /\ Colour(picture, pb, v, x, y) = Outside(picture, pb, x, y)
        /\ Colour(picture, pb, u, x, y) = Outside(picture, pb, x, y)
    BY <1>7, Zenon DEF Colour
  <2>2. p \notin up /\ p \notin down
    BY <1>1, <1>3, <1>7 DEF Ends, InFrame
  <2>3. (pb.showvalue /\ InField(pb, x, y)) \/ is = Outside(picture, pb, x, y)
    BY <1>2, <1>5, <2>1, <2>2, Zenon
  <2>4. now[p] = Outside(picture, pb, x, y)
    BY <1>6, <2>3, Zenon DEF Outside
  <2> QED
    BY <2>1, <2>4, Zenon
<1>8. ASSUME InFrame(pb, x, y) PROVE now[p] = Colour(picture, pb, v, x, y)
  <2>1. now[p] = is
    BY <1>6, <1>8, Zenon
  <2>0. old[p] = Colour(picture, pb, u, x, y)
    BY <1>2, <1>6, <1>8, Zenon
  <2>2. /\ Colour(picture, pb, v, x, y) = Inside(pb, v, x, y)
        /\ Colour(picture, pb, u, x, y) = Inside(pb, u, x, y)
    BY <1>8, Zenon DEF Colour
  <2>3. CASE OnFrame(pb, x, y)
    <3>1. p \notin up /\ p \notin down
      BY <1>1, <1>3, <2>3 DEF Ends, OnFrame
    <3>2. is = old[p]
      BY <1>5, <3>1, Zenon
    <3>3. Inside(pb, v, x, y) = "red" /\ Inside(pb, u, x, y) = "red"
      BY <2>3, Zenon DEF Inside
    <3>4. now[p] = Inside(pb, v, x, y)
      BY <2>0, <2>1, <2>2, <3>2, <3>3, Zenon
    <3> QED
      BY <2>2, <3>4, Zenon
  <2>4. CASE ~OnFrame(pb, x, y)
    <3>1. top <= y /\ x \in Int /\ y \in Int /\ bottom \in Int
      BY <1>1, <1>8, <2>4 DEF InFrame, OnFrame
    <3>2. /\ Inside(pb, v, x, y) = IF x < v /\ y < bottom THEN "yellow" ELSE "black"
          /\ Inside(pb, u, x, y) = IF x < u /\ y < bottom THEN "yellow" ELSE "black"
      BY <2>4, Zenon DEF Inside
    <3> HIDE DEF top, bottom
    <3>3. is = IF x < v /\ y < bottom THEN "yellow" ELSE "black"
      <4>1. old[p] = IF x < u /\ y < bottom THEN "yellow" ELSE "black"
        BY <2>0, <2>2, <3>2, Zenon
      <4>3. CASE v > u
        <5>1. p \in up <=> u <= x /\ x < v /\ y < bottom
          BY <1>3, <3>1
        <5> QED
          BY <1>1, <1>5, <3>1, <4>1, <4>3, <5>1
      <4>4. CASE ~(v > u)
        <5>1. p \in down <=> v <= x /\ x < u /\ y < bottom
          BY <1>3, <3>1
        <5> QED
          BY <1>1, <1>5, <3>1, <4>1, <4>4, <5>1
      <4> QED
        BY <4>3, <4>4
    <3>4. now[p] = Inside(pb, v, x, y)
      BY <2>1, <3>2, <3>3, Zenon
    <3> QED
      BY <2>2, <3>4, Zenon
  <2> QED
    BY <2>3, <2>4
<1> QED
  BY <1>6, <1>7, <1>8 DEF now, p, c

LEMMA Updated ==
    ASSUME NEW picture, NEW pb, Graph(pb), NEW u \in Ends(pb), NEW g, Shows(g, picture, pb, u),
           NEW value \in pb.minval .. pb.maxval
    PROVE  LET h == Bars!putvalue_bargraph(g, pb, value, 1)
           IN  /\ Shows(h, picture, pb, Bars!End(pb, value))
               /\ \A x, y \in Int : <<x, y>> \in DOMAIN picture =>
                      h.picture[<<x, y>>] = Colour(picture, pb, Bars!End(pb, value), x, y)
               /\ h.picture = [p \in DOMAIN picture |-> h.picture[p]]
<1> DEFINE v == Bars!End(pb, value)
           h == Bars!putvalue_bargraph(g, pb, value, 1)
           now == Bars!ClearValue(Bars!Change(g, v), pb)
           old == g.picture
<1>1. v \in Ends(pb)
  BY EndWithin DEF Ends
<1> HIDE DEF v
<1>2. g = [picture |-> old, lastval |-> u, ytop |-> pb.miny + 1,
           ybottom |-> pb.miny + pb.height - 1]
  BY DEF Shows
<1>3. h = [[g EXCEPT !.picture = now] EXCEPT !.lastval = v]
  BY DEF Bars!putvalue_bargraph, v
<1>4. \A x, y \in Int : <<x, y>> \in DOMAIN picture =>
          DOMAIN now = DOMAIN picture /\ now[<<x, y>>] = Colour(picture, pb, v, x, y)
  BY <1>1, Changed
<1>5. DOMAIN now = DOMAIN picture /\ now = [p \in DOMAIN picture |-> now[p]]
  <2> DEFINE c == Bars!Change(g, v)
             f == Bars!ClearValue(c, pb)
  <2>1. DOMAIN c = DOMAIN g.picture /\ c = [p \in DOMAIN c |-> c[p]]
    BY DEF Bars!Change, Bars!Drawn
  <2>2. DOMAIN f = DOMAIN c /\ f = [p \in DOMAIN f |-> f[p]]
    <3> HIDE DEF c
    <3> QED
      BY <2>1 DEF Bars!ClearValue, Bars!Drawn
  <2> QED
    BY <2>1, <2>2 DEF Shows
<1> HIDE DEF now, h, old
<1>6. /\ h.picture = now /\ h.lastval = v
      /\ h = [picture |-> now, lastval |-> v, ytop |-> pb.miny + 1,
              ybottom |-> pb.miny + pb.height - 1]
  BY <1>2, <1>3
<1>7. Whole(picture, pb, h.picture, v)
  BY <1>4, <1>6, Zenon DEF Whole
<1>8. Shows(h, picture, pb, v)
  BY <1>5, <1>6, <1>7, Zenon DEF Shows
<1> QED
  BY <1>4, <1>5, <1>6, <1>8, Zenon DEF h, v

LEMMA FrameDrawn ==
    ASSUME NEW picture, NEW pb, Graph(pb), NEW x \in Int, NEW y \in Int,
           <<x, y>> \in DOMAIN picture
    PROVE  /\ DOMAIN Bars!Frame(picture, pb) = DOMAIN picture
           /\ Bars!Frame(picture, pb)[<<x, y>>] =
                  IF OnFrame(pb, x, y) /\ InFrame(pb, x, y) THEN "red"
                  ELSE IF InFrame(pb, x, y) THEN "black" ELSE picture[<<x, y>>]
<1> DEFINE x0 == pb.minx
           y0 == pb.miny
           x1 == pb.minx + pb.width
           y1 == pb.miny + pb.height
           F == Bars!Draw!TFT_Rectangle_filled(x0, y0, x1, y1)
           R == Bars!Draw!TFT_Rectangle(x0, y0, x1, y1, 1)
           p == <<x, y>>
           b == Bars!Drawn(picture, F, "black")
           r == Bars!Drawn(b, R, "red")
<1>1. x0 \in Int /\ y0 \in Int /\ x1 \in Int /\ y1 \in Int /\ x0 < x1 /\ y0 < y1
  BY DEF Graph
<1>2. InFrame(pb, x, y) <=> x \in x0 .. x1 /\ y \in y0 .. y1
  BY DEF InFrame
<1>3. OnFrame(pb, x, y) <=> x \in {x0, x1} \/ y \in {y0, y1}
  BY DEF OnFrame
<1>4. Bars!Frame(picture, pb) = r
  BY DEF Bars!Frame
<1> HIDE DEF x0, y0, x1, y1
<1>5. p \in F <=> x0 <= x /\ x < x1 /\ y0 <= y /\ y < y1
  BY <1>1, InFilled
<1>6. p \in R <=> OnFrame(pb, x, y) /\ InFrame(pb, x, y)
  <2>1. p \in R <=> /\ x \in x0 .. x1 /\ y \in y0 .. y1
                    /\ x \in {x0, x1} \/ y \in {y0, y1}
    BY <1>1, FramePixels
  <2> QED
    BY <1>2, <1>3, <2>1
<1> HIDE DEF F, R, b, p
<1>7. DOMAIN b = DOMAIN picture /\ b[p] = IF p \in F THEN "black" ELSE picture[p]
  BY DrawnAt DEF b, p
<1>8. DOMAIN r = DOMAIN picture /\ r[p] = IF p \in R THEN "red" ELSE b[p]
  BY <1>7, DrawnAt DEF p
<1> HIDE DEF r
<1>9. ~(p \in R) => (p \in F <=> InFrame(pb, x, y))
  BY <1>1, <1>2, <1>3, <1>5, <1>6
<1>10. r[p] = IF OnFrame(pb, x, y) /\ InFrame(pb, x, y) THEN "red"
              ELSE IF InFrame(pb, x, y) THEN "black" ELSE picture[p]
  BY <1>6, <1>7, <1>8, <1>9, Zenon
<1> QED
  BY <1>4, <1>8, <1>10 DEF p

(* The graph as it is drawn first: a bar of no length.                       *)
LEMMA Started ==
    ASSUME NEW picture, NEW pb, Graph(pb), pb.minval <= pb.maxval
    PROVE  Shows(Bars!putvalue_bargraph(Bars!create_bargraph(picture, pb), pb, pb.minval, 0),
                 picture, pb, pb.minx + 1)
<1> DEFINE v == Bars!End(pb, pb.minval)
           e == Bars!End(pb, 0)
           g == Bars!create_bargraph(picture, pb)
           frame == Bars!Frame(picture, pb)
           w == [picture |-> frame, lastval |-> v, ytop |-> pb.miny + 1,
                 ybottom |-> pb.miny + pb.height - 1]
           now == Bars!ClearValue(Bars!Change(w, v), pb)
           h == Bars!putvalue_bargraph(g, pb, pb.minval, 0)
<1>1. v = pb.minx + 1 /\ v \in Int /\ ~(v > v)
  <2>1. pb.minval \in pb.minval .. pb.maxval /\ pb.minx \in Int
    BY DEF Graph
  <2>2. v = pb.minx + 1
    BY <2>1, EndWithin
  <2> HIDE DEF v
  <2> QED
    BY <2>1, <2>2
<1> HIDE DEF v, e, frame
<1>2. g = [picture |-> picture, lastval |-> e, ytop |-> 0, ybottom |-> 0]
  BY DEF Bars!create_bargraph, Bars!putvalue_bargraph, e
<1>3. h = [[w EXCEPT !.picture = now] EXCEPT !.lastval = v]
  <2> DEFINE whole == [g EXCEPT !.picture = Bars!Frame(@, pb), !.lastval = v,
                                !.ytop = pb.miny + 1, !.ybottom = pb.miny + pb.height - 1]
  <2>1. h = [[whole EXCEPT !.picture = Bars!ClearValue(Bars!Change(whole, v), pb)]
                EXCEPT !.lastval = v]
    <3> HIDE DEF g
    <3> QED
      BY DEF Bars!putvalue_bargraph, v
  <2>2. whole = w
    <3> HIDE DEF g
    <3>1. g.picture = picture
      BY <1>2
    <3>2. Bars!Frame(g.picture, pb) = frame
      BY <3>1 DEF frame
    <3>3. whole = [g EXCEPT !.picture = frame, !.lastval = v,
                            !.ytop = pb.miny + 1, !.ybottom = pb.miny + pb.height - 1]
      BY <1>2, <3>2
    <3> HIDE DEF whole
    <3> QED
      BY <1>2, <3>3
  <2> QED
    BY <2>1, <2>2
<1> DEFINE c == Bars!Change(w, v)
           R == Bars!Draw!TFT_Rectangle_filled(v, pb.miny + 1, v, pb.miny + pb.height - 1)
<1>4. c = Bars!Drawn(frame, R, "black")
  BY <1>1 DEF Bars!Change
<1> HIDE DEF c, R, h
<1>5. DOMAIN now = DOMAIN c /\ DOMAIN c = DOMAIN picture
  <2>1. DOMAIN c = DOMAIN frame
    BY <1>4 DEF Bars!Drawn
  <2>2. DOMAIN frame = DOMAIN picture
    BY DEF frame, Bars!Frame, Bars!Drawn
  <2> QED
    BY <2>1, <2>2 DEF Bars!ClearValue, Bars!Drawn, c
<1>6. ASSUME NEW x \in Int, NEW y \in Int, <<x, y>> \in DOMAIN picture
      PROVE  (pb.showvalue /\ InField(pb, x, y)) \/ now[<<x, y>>] = Colour(picture, pb, v, x, y)
  <2> DEFINE p == <<x, y>>
  <2>1. p \notin R
    <3>1. pb.miny + 1 \in Int /\ pb.miny + pb.height - 1 \in Int
      BY DEF Graph
    <3>2. <<x, y>> \in R <=> v <= x /\ x < v /\ pb.miny + 1 <= y /\ y < pb.miny + pb.height - 1
      BY <1>1, <3>1, InFilled DEF R
    <3> QED
      BY <1>1, <3>2
  <2>2. c[p] = frame[p]
    <3>1. p \in DOMAIN frame
      BY <1>6, FrameDrawn DEF frame
    <3> QED
      BY <1>4, <2>1, <3>1, DrawnAt
  <2>3. frame[p] = IF OnFrame(pb, x, y) /\ InFrame(pb, x, y) THEN "red"
                   ELSE IF InFrame(pb, x, y) THEN "black" ELSE picture[p]
    BY <1>6, FrameDrawn DEF frame
  <2>4. now[p] = IF pb.showvalue /\ InField(pb, x, y) THEN "background" ELSE c[p]
    <3>1. p \in DOMAIN c
      BY <1>5, <1>6
    <3> QED
      BY <3>1, Cleared DEF c
  <2> HIDE DEF p, now
  <2>5. CASE pb.showvalue /\ InField(pb, x, y)
    BY <2>5
  <2>6. CASE ~(pb.showvalue /\ InField(pb, x, y))
    <3>1. now[p] = frame[p]
      BY <2>2, <2>4, <2>6, Zenon
    <3>2. CASE ~InFrame(pb, x, y)
      <4>1. Colour(picture, pb, v, x, y) = picture[p]
        BY <2>6, <3>2, Zenon DEF Colour, Outside, p
      <4> QED
        BY <2>3, <3>1, <3>2, <4>1, Zenon DEF p
    <3>3. CASE InFrame(pb, x, y) /\ OnFrame(pb, x, y)
      <4>1. Colour(picture, pb, v, x, y) = "red"
        BY <3>3, Zenon DEF Colour, Inside
      <4> QED
        BY <2>3, <3>1, <3>3, <4>1, Zenon DEF p
    <3>4. CASE InFrame(pb, x, y) /\ ~OnFrame(pb, x, y)
      <4>1. ~(x < v)
        <5>1. pb.minx \in Int /\ x >= pb.minx /\ x # pb.minx
          BY <3>4 DEF InFrame, OnFrame, Graph
        <5> QED
          BY <1>1, <5>1
      <4>2. Colour(picture, pb, v, x, y) = "black"
        BY <3>4, <4>1, Zenon DEF Colour, Inside
      <4> QED
        BY <2>3, <3>1, <3>4, <4>2, Zenon DEF p
    <3> QED
      BY <3>2, <3>3, <3>4, Zenon
  <2> QED
    BY <2>5, <2>6
<1> HIDE DEF now
<1>7. /\ h.picture = now
      /\ h = [picture |-> now, lastval |-> v, ytop |-> pb.miny + 1,
              ybottom |-> pb.miny + pb.height - 1]
  BY <1>3
<1>8. Whole(picture, pb, h.picture, v)
  BY <1>6, <1>7 DEF Whole
<1>9. Shows(h, picture, pb, v)
  BY <1>5, <1>7, <1>8, Zenon DEF Shows
<1> QED
  BY <1>1, <1>9 DEF h, g

LEMMA Least ==
    ASSUME NEW T, T \subseteq Nat, T # {}
    PROVE  \E x \in T : \A y \in T : x <= y
<1>1. PICK x \in T : \A y \in T : ~(<<y, x>> \in OpToRel(<, Nat))
  BY NatLessThanWellFounded, WFMin
<1>2. \A y \in T : y \in Nat /\ x \in Nat /\ ~(y < x)
  BY <1>1, Zenon DEF OpToRel
<1>3. \A y \in T : x <= y
  BY <1>2
<1> QED
  BY <1>3

(* Induction, for a set of numbers.                                          *)
LEMMA Upwards ==
    ASSUME NEW N \in Nat, NEW T, 0 \in T, \A n \in 1 .. N : n - 1 \in T => n \in T
    PROVE  \A n \in 0 .. N : n \in T
<1> DEFINE U == {n \in 0 .. N : n \notin T}
<1>1. SUFFICES ASSUME U # {} PROVE FALSE
  OBVIOUS
<1>2. U \subseteq Nat
  OBVIOUS
<1>3. PICK n \in U : \A m \in U : n <= m
  <2> HIDE DEF U
  <2> QED
    BY <1>1, <1>2, Least
<1>4. n \in 1 .. N
  BY <1>3
<1>5. n - 1 \in 0 .. N /\ ~(n <= n - 1)
  BY <1>4
<1>6. n - 1 \in T
  BY <1>3, <1>5
<1> QED
  BY <1>3, <1>4, <1>6

(* The graph whose last end is at v.                                         *)
Barred(picture, pb, v) ==
    [picture |-> [p \in DOMAIN picture |-> Colour(picture, pb, v, p[1], p[2])],
     lastval |-> v, ytop |-> pb.miny + 1, ybottom |-> pb.miny + pb.height - 1]

LEMMA UpdatedTo ==
    ASSUME NEW picture, DOMAIN picture \subseteq Int \X Int, NEW pb, Graph(pb),
           NEW u \in Ends(pb), NEW g, Shows(g, picture, pb, u),
           NEW value \in pb.minval .. pb.maxval
    PROVE  LET v == Bars!End(pb, value)
           IN  /\ v \in Ends(pb)
               /\ Bars!putvalue_bargraph(g, pb, value, 1) = Barred(picture, pb, v)
               /\ Shows(Barred(picture, pb, v), picture, pb, v)
<1> DEFINE v == Bars!End(pb, value)
           h == Bars!putvalue_bargraph(g, pb, value, 1)
           now == h.picture
           D == DOMAIN picture
<1>1. v \in Ends(pb)
  BY EndWithin DEF Ends
<1>2. /\ Shows(h, picture, pb, v)
      /\ \A x, y \in Int : <<x, y>> \in D => now[<<x, y>>] = Colour(picture, pb, v, x, y)
      /\ now = [p \in D |-> now[p]]
  BY Updated
<1> HIDE DEF h, v
<1>3. h = [picture |-> now, lastval |-> v, ytop |-> pb.miny + 1,
           ybottom |-> pb.miny + pb.height - 1]
  BY <1>2 DEF Shows
<1>4. \A p \in D : now[p] = Colour(picture, pb, v, p[1], p[2])
  <2>1. ASSUME NEW p \in D PROVE now[p] = Colour(picture, pb, v, p[1], p[2])
    <3>1. PICK x \in Int, y \in Int : p = <<x, y>>
      OBVIOUS
    <3>2. now[<<x, y>>] = Colour(picture, pb, v, x, y)
      BY <1>2, <3>1
    <3>3. p[1] = x /\ p[2] = y
      BY <3>1
    <3> QED
      BY <3>1, <3>2, <3>3, Zenon
  <2> QED
    BY <2>1
<1> HIDE DEF now
<1>5. now = [p \in D |-> Colour(picture, pb, v, p[1], p[2])]
  BY <1>2, <1>4
<1>6. h = Barred(picture, pb, v)
  BY <1>3, <1>5, Zenon DEF Barred
<1> QED
  BY <1>1, <1>2, <1>6 DEF h, v

(* The graphs after each value.                                              *)
IsPut(f, picture, pb, values, N) ==
    f = [n \in 0 .. N |->
            IF n = 0
            THEN Bars!putvalue_bargraph(Bars!create_bargraph(picture, pb), pb, pb.minval, 0)
            ELSE Bars!putvalue_bargraph(f[n - 1], pb, values[n], 1)]

LEMMA PutAll ==
    ASSUME NEW picture, DOMAIN picture \subseteq Int \X Int, NEW pb, Graph(pb),
           pb.minval <= pb.maxval, NEW values, NEW N \in Nat \ {0}, N = Len(values),
           \A n \in 1 .. N : values[n] \in pb.minval .. pb.maxval
    PROVE  Bars!Put(picture, pb, values) = Barred(picture, pb, Bars!End(pb, values[N])).picture
<1> DEFINE start == Bars!putvalue_bargraph(Bars!create_bargraph(picture, pb), pb, pb.minval, 0)
           E(n) == IF n = 0 THEN pb.minx + 1 ELSE Bars!End(pb, values[n])
           g == [n \in 0 .. N |-> IF n = 0 THEN start ELSE Barred(picture, pb, E(n))]
           after == CHOOSE f : IsPut(f, picture, pb, values, N)
<1>1. Bars!Put(picture, pb, values) = after[N].picture
  BY DEF Bars!Put, IsPut
<1>2. Shows(start, picture, pb, E(0)) /\ E(0) \in Ends(pb)
  <2>1. E(0) = pb.minx + 1
    OBVIOUS
  <2>2. pb.minx + 1 \in Ends(pb)
    BY DEF Graph, Ends
  <2>3. Shows(start, picture, pb, pb.minx + 1)
    BY Started
  <2> QED
    BY <2>1, <2>2, <2>3, Zenon
<1> HIDE DEF start
<1>3. ASSUME NEW n \in 1 .. N, NEW u \in Ends(pb), NEW h, Shows(h, picture, pb, u)
      PROVE  /\ Bars!putvalue_bargraph(h, pb, values[n], 1) = Barred(picture, pb, E(n))
             /\ Shows(Barred(picture, pb, E(n)), picture, pb, E(n)) /\ E(n) \in Ends(pb)
  <2>1. values[n] \in pb.minval .. pb.maxval
    OBVIOUS
  <2>2. E(n) = Bars!End(pb, values[n])
    OBVIOUS
  <2> QED
    BY <1>3, <2>1, <2>2, UpdatedTo
<1> HIDE DEF E
<1>4. \A n \in 1 .. N : Shows(Barred(picture, pb, E(n)), picture, pb, E(n)) /\ E(n) \in Ends(pb)
  BY <1>2, <1>3
<1>5. IsPut(g, picture, pb, values, N)
  <2>1. ASSUME NEW n \in 1 .. N
        PROVE  g[n] = Bars!putvalue_bargraph(g[n - 1], pb, values[n], 1)
    <3>1. g[n] = Barred(picture, pb, E(n)) /\ n - 1 \in 0 .. N
      OBVIOUS
    <3>2. CASE n = 1
      <4>1. g[n - 1] = start
        BY <3>2
      <4> HIDE DEF g
      <4> QED
        BY <1>2, <1>3, <3>1, <4>1
    <3>3. CASE n # 1
      <4> DEFINE m == n - 1
      <4>1. m \in 1 .. N /\ m # 0
        BY <3>3
      <4> HIDE DEF m
      <4>2. g[m] = Barred(picture, pb, E(m))
        BY <4>1
      <4>3. Shows(Barred(picture, pb, E(m)), picture, pb, E(m)) /\ E(m) \in Ends(pb)
        BY <1>4, <4>1
      <4> HIDE DEF g
      <4>4. Bars!putvalue_bargraph(g[m], pb, values[n], 1) = Barred(picture, pb, E(n))
        BY <1>3, <4>2, <4>3
      <4> QED
        BY <3>1, <4>4 DEF m
    <3> QED
      BY <3>2, <3>3
  <2>2. g[0] = start
    OBVIOUS
  <2>3. g = [n \in 0 .. N |-> g[n]]
    OBVIOUS
  <2> HIDE DEF g
  <2>4. \A n \in 0 .. N :
            g[n] = IF n = 0 THEN start ELSE Bars!putvalue_bargraph(g[n - 1], pb, values[n], 1)
    <3>1. \A n \in 0 .. N : n # 0 => n \in 1 .. N
      OBVIOUS
    <3> QED
      BY <2>1, <2>2, <3>1, Zenon
  <2> QED
    BY <2>3, <2>4, Zenon DEF IsPut, start
<1>6. IsPut(after, picture, pb, values, N)
  <2> HIDE DEF g
  <2> QED
    BY <1>5, Zenon
<1> HIDE DEF g, after
<1>7. \A n \in 0 .. N :
          after[n] = IF n = 0 THEN start
                     ELSE Bars!putvalue_bargraph(after[n - 1], pb, values[n], 1)
  BY <1>6 DEF IsPut, start
<1> DEFINE T == {n \in 0 .. N : Shows(after[n], picture, pb, E(n)) /\ E(n) \in Ends(pb)}
<1>8. 0 \in T
  BY <1>2, <1>7
<1>9. ASSUME NEW n \in 1 .. N, n - 1 \in T
      PROVE  n \in T /\ after[n] = Barred(picture, pb, E(n))
  <2> DEFINE m == n - 1
  <2>1. Shows(after[m], picture, pb, E(m)) /\ E(m) \in Ends(pb)
    BY <1>9
  <2>2. after[n] = Bars!putvalue_bargraph(after[m], pb, values[n], 1) /\ n \in 0 .. N
    BY <1>7
  <2> HIDE DEF m
  <2>3. /\ Bars!putvalue_bargraph(after[m], pb, values[n], 1) = Barred(picture, pb, E(n))
        /\ Shows(Barred(picture, pb, E(n)), picture, pb, E(n)) /\ E(n) \in Ends(pb)
    BY <1>3, <2>1
  <2> QED
    BY <2>2, <2>3
<1> HIDE DEF T
<1>10. \A n \in 0 .. N : n \in T
  BY <1>8, <1>9, Upwards
<1>11. after[N] = Barred(picture, pb, E(N))
  <2>1. N \in 1 .. N /\ N - 1 \in 0 .. N
    OBVIOUS
  <2> QED
    BY <1>9, <1>10, <2>1
<1>12. E(N) = Bars!End(pb, values[N])
  BY DEF E
<1> QED
  BY <1>1, <1>11, <1>12

LEMMA BarKnown ==
    ASSUME NEW x \in BarInputs
    PROVE  Bars!Shown(x.picture, x, x.values)
<1> DEFINE picture == x.picture
           values == x.values
           N == Len(values)
           final == values[N]
           v == Bars!End(x, final)
           now == Bars!Put(picture, x, values)
<1>1. /\ Graph(x) /\ x.minval \in Nat /\ x.maxval \in Nat
      /\ values \in Seq(x.minval .. x.maxval) /\ values # << >>
      /\ DOMAIN picture \subseteq Int \X Int
  BY BarsAssumption DEF Graph
<1>2. N \in Nat \ {0} /\ \A n \in 1 .. N : values[n] \in x.minval .. x.maxval
  <2>1. N \in Nat \ {0}
    BY <1>1, EmptySeq
  <2> QED
    BY <1>1, <2>1, ElementOfSeq
<1>3. final \in x.minval .. x.maxval /\ x.minval <= x.maxval
  <2>1. final \in x.minval .. x.maxval
    BY <1>2
  <2> QED
    BY <1>1, <2>1
<1>4. now = Barred(picture, x, v).picture
  <2>1. N = Len(values)
    OBVIOUS
  <2> HIDE DEF picture, values, N
  <2>2. Bars!Put(picture, x, values) = Barred(picture, x, Bars!End(x, values[N])).picture
    BY <1>1, <1>2, <1>3, <2>1, PutAll
  <2> QED
    BY <2>2
<1>5. \A p \in DOMAIN picture : now[p] = Colour(picture, x, v, p[1], p[2])
  <2> HIDE DEF now, v, picture
  <2> QED
    BY <1>4 DEF Barred
<1>6. final = x.maxval /\ x.minval = 0 => v = x.minx + x.width
  BY <1>1, <1>3, EndWithin
<1> DEFINE bottom == x.miny + x.height
           Point(p) ==
            IF p[1] \notin x.minx .. x.minx + x.width \/ p[2] \notin x.miny .. x.miny + x.height
            THEN IF /\ x.showvalue
                    /\ p[1] - x.minx \in x.bgx .. x.bgx + x.bgw - 1
                    /\ p[2] - x.miny \in x.bgy .. x.bgy + x.bgh - 1
                 THEN "background" ELSE picture[p]
            ELSE IF \/ p[1] \in {x.minx, x.minx + x.width}
                    \/ p[2] \in {x.miny, x.miny + x.height} THEN "red"
            ELSE IF p[1] < v /\ p[2] < bottom - 1 THEN "yellow"
            ELSE "black"
<1>7. ASSUME NEW p \in DOMAIN picture PROVE Colour(picture, x, v, p[1], p[2]) = Point(p)
  <2>1. p = <<p[1], p[2]>>
    BY <1>1
  <2>2. bottom - 1 = x.miny + x.height - 1
    <3>1. x.miny \in Int /\ x.height \in Int
      BY <1>1 DEF Graph
    <3>2. ASSUME NEW a \in Int, NEW b \in Int PROVE (a + b) - 1 = a + (b - 1)
      OBVIOUS
    <3> QED
      BY <3>1, <3>2, Zenon
  <2> HIDE DEF v, picture
  <2> QED
    BY <2>1, <2>2, Zenon DEF Colour, Inside, Outside, InFrame, OnFrame, InField
<1>8. \A p \in DOMAIN picture : now[p] = Point(p)
  BY <1>5, <1>7, Zenon
<1> HIDE DEF now, v
<1>9. /\ \A p \in DOMAIN picture : now[p] = Point(p)
      /\ final = x.maxval /\ x.minval = 0 => v = x.minx + x.width
  BY <1>6, <1>8, Zenon
<1> QED
  BY <1>9, Zenon DEF Bars!Shown, now, v

-----------------------------------------------------------------------------
(* A function that is defined step by step.                                  *)
Steps(g, N, a, F) == g[0] = a /\ \A n \in 1 .. N : g[n] = F[<<n, g[n - 1]>>]

LEMMA Longer ==
    ASSUME NEW S, NEW a \in S, NEW m \in Nat \ {0}, NEW F \in [(1 .. m) \X S -> S],
           NEW g \in [0 .. m - 1 -> S], Steps(g, m - 1, a, F)
    PROVE  \E h \in [0 .. m -> S] : Steps(h, m, a, F)
<1> DEFINE final == F[<<m, g[m - 1]>>]
           h == [k \in 0 .. m |-> IF k = m THEN final ELSE g[k]]
<1>1. g[m - 1] \in S
  OBVIOUS
<1>2. final \in S
  <2>1. <<m, g[m - 1]>> \in (1 .. m) \X S
    BY <1>1
  <2> QED
    BY <2>1
<1> HIDE DEF final
<1>3. h \in [0 .. m -> S]
  <2>1. \A k \in 0 .. m : k # m => k \in 0 .. m - 1
    OBVIOUS
  <2>2. \A k \in 0 .. m : (IF k = m THEN final ELSE g[k]) \in S
    BY <1>2, <2>1
  <2> QED
    BY <2>2
<1>4. h[m] = final /\ \A k \in 0 .. m - 1 : h[k] = g[k]
  OBVIOUS
<1> HIDE DEF h
<1>5. h[0] = a
  BY <1>4 DEF Steps
<1>6. ASSUME NEW n \in 1 .. m PROVE h[n] = F[<<n, h[n - 1]>>]
  <2>1. n - 1 \in 0 .. m - 1
    OBVIOUS
  <2>2. h[n - 1] = g[n - 1]
    BY <1>4, <2>1
  <2>3. CASE n = m
    BY <1>4, <2>2, <2>3 DEF final
  <2>4. CASE n # m
    <3>1. n \in 1 .. m - 1 /\ n \in 0 .. m - 1
      BY <2>4
    <3>2. g[n] = F[<<n, g[n - 1]>>]
      BY <3>1 DEF Steps
    <3> QED
      BY <1>4, <2>2, <3>1, <3>2
  <2> QED
    BY <2>3, <2>4
<1>7. Steps(h, m, a, F)
  BY <1>5, <1>6 DEF Steps
<1> QED
  BY <1>3, <1>7

LEMMA Recursion ==
    ASSUME NEW N \in Nat, NEW S, NEW a \in S, NEW F \in [(1 .. N) \X S -> S]
    PROVE  \E g \in [0 .. N -> S] : Steps(g, N, a, F)
<1> DEFINE T == {m \in 0 .. N : \E g \in [0 .. m -> S] : Steps(g, m, a, F)}
<1>1. 0 \in T
  <2> DEFINE g == [k \in 0 .. 0 |-> a]
  <2>1. g \in [0 .. 0 -> S]
    OBVIOUS
  <2>2. g[0] = a /\ 1 .. 0 = {}
    OBVIOUS
  <2> HIDE DEF g
  <2>3. Steps(g, 0, a, F)
    BY <2>2 DEF Steps
  <2> QED BY <2>1, <2>3
<1>2. ASSUME NEW m \in 1 .. N, m - 1 \in T PROVE m \in T
  <2>0. PICK g \in [0 .. m - 1 -> S] : Steps(g, m - 1, a, F)
    BY <1>2
  <2> DEFINE G == [x \in (1 .. m) \X S |-> F[x]]
  <2>1. \A k \in 1 .. m, y \in S : <<k, y>> \in (1 .. N) \X S /\ <<k, y>> \in (1 .. m) \X S
    OBVIOUS
  <2>2. G \in [(1 .. m) \X S -> S]
    <3>1. (1 .. m) \X S \subseteq (1 .. N) \X S
      OBVIOUS
    <3> QED
      BY <3>1
  <2>3. \A k \in 1 .. m, y \in S : G[<<k, y>>] = F[<<k, y>>]
    BY <2>1
  <2> HIDE DEF G
  <2>4. Steps(g, m - 1, a, G)
    <3>1. \A k \in 1 .. m - 1 : g[k] = F[<<k, g[k - 1]>>] /\ k \in 1 .. m /\ g[k - 1] \in S
      BY <2>0 DEF Steps
    <3>2. \A k \in 1 .. m - 1 : g[k] = G[<<k, g[k - 1]>>]
      BY <2>3, <3>1
    <3> QED
      BY <2>0, <3>2 DEF Steps
  <2>5. m \in Nat \ {0}
    OBVIOUS
  <2>6. PICK h \in [0 .. m -> S] : Steps(h, m, a, G)
    BY <2>0, <2>2, <2>4, <2>5, Longer
  <2>7. Steps(h, m, a, F)
    <3>1. \A k \in 1 .. m : h[k] = G[<<k, h[k - 1]>>] /\ h[k - 1] \in S
      BY <2>6 DEF Steps
    <3>2. \A k \in 1 .. m : h[k] = F[<<k, h[k - 1]>>]
      BY <2>3, <3>1
    <3> QED
      BY <2>6, <3>2 DEF Steps
  <2>8. m \in 0 .. N
    OBVIOUS
  <2> QED
    BY <2>6, <2>7, <2>8
<1>3. N \in T
  <2> HIDE DEF T
  <2>1. \A m \in 0 .. N : m \in T
    BY <1>1, <1>2, Upwards
  <2> QED
    BY <2>1
<1> QED
  BY <1>3
(* The same at every step.                                                   *)
Same(g, N, a, G) == \A n \in 0 .. N : g[n] = IF n = 0 THEN a ELSE G[g[n - 1]]

LEMMA Repeated ==
    ASSUME NEW N \in Nat, NEW S, NEW a \in S, NEW G \in [S -> S]
    PROVE  \E g \in [0 .. N -> S] : Same(g, N, a, G)
<1> DEFINE F == [x \in (1 .. N) \X S |-> G[x[2]]]
<1>1. F \in [(1 .. N) \X S -> S]
  OBVIOUS
<1>2. \A n \in 1 .. N, y \in S : F[<<n, y>>] = G[y]
  OBVIOUS
<1> HIDE DEF F
<1>3. PICK g \in [0 .. N -> S] : Steps(g, N, a, F)
  BY <1>1, Recursion
<1>4. \A n \in 0 .. N : g[n] = IF n = 0 THEN a ELSE G[g[n - 1]]
  <2>1. \A n \in 0 .. N : n # 0 => n \in 1 .. N /\ n - 1 \in 0 .. N
    OBVIOUS
  <2>2. \A n \in 1 .. N : g[n] = F[<<n, g[n - 1]>>]
    BY <1>3 DEF Steps
  <2>3. \A n \in 0 .. N : g[n] \in S
    BY <1>3
  <2>4. g[0] = a
    BY <1>3 DEF Steps
  <2> QED
    BY <1>2, <2>1, <2>2, <2>3, <2>4, Zenon
<1> QED
  BY <1>3, <1>4, Zenon DEF Same

-----------------------------------------------------------------------------
(* Lines.  The error term of a line is within the longer side (Err), and so  *)
(* tells how far a pixel is from the straight line.                          *)
Sign == {1, -1}

State == [err : Int, x : Int, y : Int]

(* After n steps on the side of length l, and k on that of length m.         *)
Err(l, m, n, k) == l \div 2 - n * m + k * l

LEMMA NextErr ==
    ASSUME NEW l \in Nat \ {0}, NEW m \in 0 .. l, NEW n \in Nat, NEW k \in Nat,
           Err(l, m, n, k) \in 0 .. l - 1
    PROVE  /\ Err(l, m, n, k) < m =>
                  /\ Err(l, m, n + 1, k + 1) = Err(l, m, n, k) - m + l
                  /\ Err(l, m, n + 1, k + 1) \in 0 .. l - 1
           /\ ~(Err(l, m, n, k) < m) =>
                  /\ Err(l, m, n + 1, k) = Err(l, m, n, k) - m
                  /\ Err(l, m, n + 1, k) \in 0 .. l - 1
<1> DEFINE e == Err(l, m, n, k)
<1>1. (n + 1) * m = n * m + m /\ (k + 1) * l = k * l + l
  OBVIOUS
<1>2. n * m \in Int /\ k * l \in Int /\ l \div 2 \in Int
  OBVIOUS
<1>3. Err(l, m, n + 1, k + 1) = e - m + l /\ Err(l, m, n + 1, k) = e - m
  BY <1>1, <1>2 DEF Err
<1> HIDE DEF e
<1>4. e \in 0 .. l - 1
  BY DEF e
<1> QED
  BY <1>3, <1>4 DEF e

LEMMA FirstOfErr ==
    ASSUME NEW l \in Nat \ {0}, NEW m \in Nat
    PROVE  Err(l, m, 0, 0) = l \div 2 /\ Err(l, m, 0, 0) \in 0 .. l - 1
BY DEF Err

(* After as many steps as the longer side has, the shorter side is done.     *)
LEMMA LastOfErr ==
    ASSUME NEW l \in Nat \ {0}, NEW m \in Nat, NEW k \in Nat, Err(l, m, l, k) \in 0 .. l - 1
    PROVE  k = m
<1>1. l \div 2 \in 0 .. l - 1
  OBVIOUS
<1>2. (k - m) * l = k * l - l * m /\ k * l \in Int /\ l * m \in Int
  OBVIOUS
<1>3. (k - m) * l < l /\ -l < (k - m) * l
  BY <1>1, <1>2 DEF Err
<1>4. ASSUME k - m >= 1 PROVE FALSE
  <2>1. (k - m) * l >= l
    BY <1>4
  <2> QED
    BY <1>3, <2>1
<1>5. ASSUME k - m <= -1 PROVE FALSE
  <2>1. (m - k) * l >= l /\ (m - k) * l = -((k - m) * l)
    BY <1>5
  <2> QED
    BY <1>3, <2>1
<1> QED
  BY <1>4, <1>5

LEMMA OffLine ==
    ASSUME NEW l \in Nat \ {0}, NEW m \in Nat, NEW n \in Nat, NEW k \in Nat,
           Err(l, m, n, k) \in 0 .. l - 1
    PROVE  2 * Picture!Abs(n * m - k * l) <= l
<1>1. n * m \in Int /\ k * l \in Int
  OBVIOUS
<1>2. 2 * (l \div 2) \in l - 1 .. l
  OBVIOUS
<1>3. Err(l, m, n, k) = l \div 2 - (n * m - k * l)
  BY <1>1 DEF Err
<1> DEFINE d == n * m - k * l
<1>4. d \in Int /\ l \div 2 \in Int
  BY <1>1
<1> HIDE DEF d
<1>5. l \div 2 - d \in 0 .. l - 1
  BY <1>3 DEF d
<1>6. 2 * Picture!Abs(d) <= l
  BY <1>2, <1>4, <1>5 DEF Picture!Abs
<1> QED
  BY <1>6 DEF d

(* What is across a line does not depend on the sides it goes to.            *)
LEMMA Across ==
    ASSUME NEW n \in Int, NEW m \in Int, NEW k \in Int, NEW l \in Int,
           NEW s \in Sign, NEW t \in Sign
    PROVE  /\ Picture!Abs((s * n) * (t * m) - (t * k) * (s * l)) = Picture!Abs(n * m - k * l)
           /\ Picture!Abs((t * k) * (s * l) - (s * n) * (t * m)) = Picture!Abs(n * m - k * l)
<1> DEFINE a == n * m
           b == k * l
<1>1. a \in Int /\ b \in Int
  OBVIOUS
<1>2. \/ (s * n) * (t * m) = a /\ (t * k) * (s * l) = b
      \/ (s * n) * (t * m) = -a /\ (t * k) * (s * l) = -b
  <2>1. CASE s = 1 /\ t = 1
    BY <2>1
  <2>2. CASE s = 1 /\ t = -1
    BY <2>2
  <2>3. CASE s = -1 /\ t = 1
    BY <2>3
  <2>4. CASE s = -1 /\ t = -1
    BY <2>4
  <2> QED
    BY <2>1, <2>2, <2>3, <2>4 DEF Sign
<1> HIDE DEF a, b
<1>3. Picture!Abs(a - b) = Picture!Abs(n * m - k * l)
  BY DEF a, b
<1>4. /\ Picture!Abs(-a - -b) = Picture!Abs(a - b) /\ Picture!Abs(b - a) = Picture!Abs(a - b)
      /\ Picture!Abs(-b - -a) = Picture!Abs(a - b)
  BY <1>1 DEF Picture!Abs
<1> QED
  BY <1>2, <1>3, <1>4

(* The state after n steps on a line that is longer from side to side, and   *)
(* on one that is as long up or down, or longer.                             *)
Flat(x0, y0, dx, dy, sx, sy, n, k) ==
    [err |-> Err(dx, dy, n, k), x |-> x0 + sx * n, y |-> y0 + sy * k]

Steep(x0, y0, dx, dy, sx, sy, n, k) ==
    [err |-> -Err(dy, dx, n, k), x |-> x0 + sx * k, y |-> y0 + sy * n]

LEMMA FurtherFlat ==
    ASSUME NEW x0 \in Int, NEW y0 \in Int, NEW dx \in Nat \ {0}, NEW dy \in 0 .. dx - 1,
           NEW sx \in Sign, NEW sy \in Sign, NEW n \in Nat, NEW k \in Nat,
           Err(dx, dy, n, k) \in 0 .. dx - 1
    PROVE  \E z \in {k, k + 1} :
              /\ Picture!Further(Flat(x0, y0, dx, dy, sx, sy, n, k), dx, dy, sx, sy)
                     = Flat(x0, y0, dx, dy, sx, sy, n + 1, z)
              /\ Err(dx, dy, n + 1, z) \in 0 .. dx - 1
<1> DEFINE s == Flat(x0, y0, dx, dy, sx, sy, n, k)
           e == Err(dx, dy, n, k)
           g == Picture!Further(s, dx, dy, sx, sy)
<1>1. e \in 0 .. dx - 1 /\ dy \in Nat
  OBVIOUS
<1>2. x0 + sx * (n + 1) = x0 + sx * n + sx /\ y0 + sy * (k + 1) = y0 + sy * k + sy
  BY DEF Sign
<1>3. s.err = e /\ s.x = x0 + sx * n /\ s.y = y0 + sy * k
  BY DEF Flat
<1>4. /\ e < dy => Err(dx, dy, n + 1, k + 1) = e - dy + dx /\ Err(dx, dy, n + 1, k + 1) \in 0 .. dx - 1
      /\ ~(e < dy) => Err(dx, dy, n + 1, k) = e - dy /\ Err(dx, dy, n + 1, k) \in 0 .. dx - 1
  BY NextErr
<1> HIDE DEF e, s
<1>5. s.err > -dx
  BY <1>1, <1>3
<1>6. CASE e < dy
  <2>1. g = [err |-> e - dy + dx, x |-> x0 + sx * n + sx, y |-> y0 + sy * k + sy]
    BY <1>1, <1>3, <1>5, <1>6 DEF Picture!Further
  <2> QED
    BY <1>2, <1>4, <1>6, <2>1 DEF Flat, s
<1>7. CASE ~(e < dy)
  <2>1. e - dy + 0 = e - dy
    BY <1>1
  <2>2. g = [err |-> e - dy + 0, x |-> x0 + sx * n + sx, y |-> y0 + sy * k]
    BY <1>1, <1>3, <1>5, <1>7 DEF Picture!Further
  <2> QED
    BY <1>2, <1>4, <1>7, <2>1, <2>2 DEF Flat, s
<1> QED
  BY <1>6, <1>7

LEMMA FurtherSteep ==
    ASSUME NEW x0 \in Int, NEW y0 \in Int, NEW dy \in Nat \ {0}, NEW dx \in 0 .. dy,
           NEW sx \in Sign, NEW sy \in Sign, NEW n \in Nat, NEW k \in Nat,
           Err(dy, dx, n, k) \in 0 .. dy - 1
    PROVE  \E z \in {k, k + 1} :
              /\ Picture!Further(Steep(x0, y0, dx, dy, sx, sy, n, k), dx, dy, sx, sy)
                     = Steep(x0, y0, dx, dy, sx, sy, n + 1, z)
              /\ Err(dy, dx, n + 1, z) \in 0 .. dy - 1
<1> DEFINE s == Steep(x0, y0, dx, dy, sx, sy, n, k)
           e == Err(dy, dx, n, k)
           g == Picture!Further(s, dx, dy, sx, sy)
<1>1. e \in 0 .. dy - 1 /\ dx \in Nat
  OBVIOUS
<1>2. y0 + sy * (n + 1) = y0 + sy * n + sy /\ x0 + sx * (k + 1) = x0 + sx * k + sx
  BY DEF Sign
<1>3. s.err = -e /\ s.x = x0 + sx * k /\ s.y = y0 + sy * n
  BY DEF Steep
<1>4. /\ e < dx => Err(dy, dx, n + 1, k + 1) = e - dx + dy /\ Err(dy, dx, n + 1, k + 1) \in 0 .. dy - 1
      /\ ~(e < dx) => Err(dy, dx, n + 1, k) = e - dx /\ Err(dy, dx, n + 1, k) \in 0 .. dy - 1
  BY NextErr
<1> HIDE DEF e, s
<1>5. s.err < dy
  BY <1>1, <1>3
<1>6. CASE e < dx
  <2>1. -e - dy + dx = -(e - dx + dy)
    BY <1>1
  <2>2. s.err > -dx
    BY <1>1, <1>3, <1>6
  <2>3. g = [err |-> -e - dy + dx, x |-> x0 + sx * k + sx, y |-> y0 + sy * n + sy]
    BY <1>1, <1>3, <1>5, <2>2 DEF Picture!Further
  <2> QED
    BY <1>2, <1>4, <1>6, <2>1, <2>3 DEF Steep, s
<1>7. CASE ~(e < dx)
  <2>1. -e - 0 + dx = -(e - dx)
    BY <1>1
  <2>2. ~(s.err > -dx)
    BY <1>1, <1>3, <1>7
  <2>3. g = [err |-> -e - 0 + dx, x |-> x0 + sx * k, y |-> y0 + sy * n + sy]
    BY <1>1, <1>3, <1>5, <2>2 DEF Picture!Further
  <2> QED
    BY <1>2, <1>4, <1>7, <2>1, <2>3 DEF Steep, s
<1> QED
  BY <1>6, <1>7

(* The states of a line, and where it has to go: to its end and no further,  *)
(* in as many steps as its longer side has, from pixel to pixel next to it.  *)
IsLine(f, x0, y0, dx, dy, sx, sy) ==
    f = [n \in 0 .. dx + dy |->
            IF n = 0 THEN [err |-> Picture!FirstErr(dx, dy), x |-> x0, y |-> y0]
            ELSE Picture!Further(f[n - 1], dx, dy, sx, sy)]

Pixel(f, n) == <<f[n].x, f[n].y>>

Arrives(f, x0, y0, dx, dy, sx, sy, long) ==
    /\ Pixel(f, 0) = <<x0, y0>>
    /\ \A n \in 0 .. long : Pixel(f, n) = <<x0 + sx * dx, y0 + sy * dy>> <=> n = long
    /\ \A n \in 1 .. long : Picture!Near(Pixel(f, n - 1), Pixel(f, n))
    /\ \A n \in 0 .. long :
           2 * Picture!Abs((f[n].x - x0) * (sy * dy) - (f[n].y - y0) * (sx * dx)) <= long

LEMMA NextTo ==
    ASSUME NEW a \in Int, NEW b \in Int, NEW c \in Int, NEW d \in Int,
           a - c \in {1, -1}, b - d \in {0, 1, -1}
    PROVE  Picture!Near(<<a, b>>, <<c, d>>) /\ Picture!Near(<<b, a>>, <<d, c>>)
<1>1. Picture!Abs(a - c) <= 1 /\ Picture!Abs(b - d) <= 1 /\ a # c
  BY DEF Picture!Abs
<1> QED
  BY <1>1 DEF Picture!Near

LEMMA FlatArrives ==
    ASSUME NEW x0 \in Int, NEW y0 \in Int, NEW dx \in Nat \ {0}, NEW dy \in 0 .. dx - 1,
           NEW sx \in Sign, NEW sy \in Sign, NEW f, IsLine(f, x0, y0, dx, dy, sx, sy)
    PROVE  Arrives(f, x0, y0, dx, dy, sx, sy, dx)
<1> DEFINE At(n, k) == Flat(x0, y0, dx, dy, sx, sy, n, k)
           On(n, k) == f[n] = At(n, k) /\ Err(dx, dy, n, k) \in 0 .. dx - 1
           T == {n \in 0 .. dx : \E k \in Nat : On(n, k)}
<1>1. f[0] = [err |-> Picture!FirstErr(dx, dy), x |-> x0, y |-> y0]
  BY DEF IsLine
<1>2. \A n \in 1 .. dx : f[n] = Picture!Further(f[n - 1], dx, dy, sx, sy)
  <2>1. \A n \in 1 .. dx : n \in 0 .. dx + dy /\ n # 0
    OBVIOUS
  <2> QED
    BY <2>1 DEF IsLine
<1>3. On(0, 0)
  <2>1. Err(dx, dy, 0, 0) = dx \div 2 /\ Err(dx, dy, 0, 0) \in 0 .. dx - 1
    BY FirstOfErr
  <2>2. Picture!FirstErr(dx, dy) = dx \div 2
    BY DEF Picture!FirstErr, Picture!Quotient
  <2>3. x0 + sx * 0 = x0 /\ y0 + sy * 0 = y0
    BY DEF Sign
  <2> QED
    BY <1>1, <2>1, <2>2, <2>3 DEF Flat
<1>0. ASSUME NEW m \in Nat, NEW k \in Nat, Err(dx, dy, m, k) \in 0 .. dx - 1
      PROVE  \E z \in {k, k + 1} :
                /\ Picture!Further(Flat(x0, y0, dx, dy, sx, sy, m, k), dx, dy, sx, sy)
                       = Flat(x0, y0, dx, dy, sx, sy, m + 1, z)
                /\ Err(dx, dy, m + 1, z) \in 0 .. dx - 1
  BY <1>0, FurtherFlat, SMTT(30)
<1>4. ASSUME NEW n \in 1 .. dx, NEW k \in Nat, On(n - 1, k)
      PROVE  \E z \in {k, k + 1} : On(n, z)
  <2> DEFINE m == n - 1
  <2>1. m \in Nat /\ m + 1 = n
    OBVIOUS
  <2>2. f[n] = Picture!Further(At(m, k), dx, dy, sx, sy) /\ Err(dx, dy, m, k) \in 0 .. dx - 1
    BY <1>2, <1>4
  <2> HIDE DEF m
  <2>3. \E z \in {k, k + 1} :
            /\ Picture!Further(At(m, k), dx, dy, sx, sy) = At(m + 1, z)
            /\ Err(dx, dy, m + 1, z) \in 0 .. dx - 1
    BY <1>0, <2>1, <2>2, Zenon
  <2> QED
    BY <2>1, <2>2, <2>3
<1>5. 0 \in T
  BY <1>3
<1>6. \A n \in 1 .. dx : n - 1 \in T => n \in T
  BY <1>4
<1>7. \A n \in 0 .. dx : \E k \in Nat : On(n, k)
  <2> HIDE DEF On
  <2>1. 0 \in T /\ \A n \in 1 .. dx : n - 1 \in T => n \in T
    BY <1>5, <1>6
  <2> HIDE DEF T
  <2>2. \A n \in 0 .. dx : n \in T
    BY <2>1, Upwards
  <2> QED
    BY <2>2 DEF T
<1>8. \A n \in 0 .. dx, k \in Nat : On(n, k) => f[n].x = x0 + sx * n /\ f[n].y = y0 + sy * k
  BY DEF Flat
<1>9. Pixel(f, 0) = <<x0, y0>>
  BY <1>1 DEF Pixel
<1>10. ASSUME NEW n \in 0 .. dx
       PROVE  Pixel(f, n) = <<x0 + sx * dx, y0 + sy * dy>> <=> n = dx
  <2>1. PICK k \in Nat : On(n, k)
    BY <1>7
  <2>2. Pixel(f, n) = <<x0 + sx * n, y0 + sy * k>>
    BY <1>8, <2>1 DEF Pixel
  <2>3. CASE n = dx
    <3>1. k = dy
      BY <2>1, <2>3, LastOfErr
    <3> QED
      BY <2>2, <2>3, <3>1
  <2>4. CASE n # dx
    <3>1. x0 + sx * n # x0 + sx * dx
      BY <2>4 DEF Sign
    <3> QED
      BY <2>2, <2>4, <3>1
  <2> QED
    BY <2>3, <2>4
<1>11. ASSUME NEW n \in 1 .. dx
       PROVE  Picture!Near(Pixel(f, n - 1), Pixel(f, n))
  <2>1. n - 1 \in 0 .. dx
    OBVIOUS
  <2>2. PICK k \in Nat : On(n - 1, k)
    BY <1>7, <2>1
  <2>3. PICK z \in {k, k + 1} : On(n, z)
    BY <1>4, <2>2
  <2>4. /\ Pixel(f, n - 1) = <<x0 + sx * (n - 1), y0 + sy * k>>
        /\ Pixel(f, n) = <<x0 + sx * n, y0 + sy * z>>
    BY <1>8, <2>1, <2>2, <2>3 DEF Pixel
  <2>5. (x0 + sx * (n - 1)) - (x0 + sx * n) \in {1, -1}
    BY DEF Sign
  <2>6. (y0 + sy * k) - (y0 + sy * z) \in {0, 1, -1}
    BY DEF Sign
  <2>7. /\ x0 + sx * (n - 1) \in Int /\ x0 + sx * n \in Int
        /\ y0 + sy * k \in Int /\ y0 + sy * z \in Int
    BY DEF Sign
  <2> QED
    BY <2>4, <2>5, <2>6, <2>7, NextTo
<1>12. ASSUME NEW n \in 0 .. dx
       PROVE  2 * Picture!Abs((f[n].x - x0) * (sy * dy) - (f[n].y - y0) * (sx * dx)) <= dx
  <2>1. PICK k \in Nat : On(n, k)
    BY <1>7
  <2>2. f[n].x - x0 = sx * n /\ f[n].y - y0 = sy * k
    <3>1. f[n].x = x0 + sx * n /\ f[n].y = y0 + sy * k
      BY <1>8, <2>1
    <3> QED
      BY <3>1 DEF Sign
  <2>3. Picture!Abs((sx * n) * (sy * dy) - (sy * k) * (sx * dx)) = Picture!Abs(n * dy - k * dx)
    BY Across
  <2>4. 2 * Picture!Abs(n * dy - k * dx) <= dx
    BY <2>1, OffLine
  <2> QED
    BY <2>2, <2>3, <2>4
<1> QED
  BY <1>9, <1>10, <1>11, <1>12 DEF Arrives

LEMMA SteepArrives ==
    ASSUME NEW x0 \in Int, NEW y0 \in Int, NEW dy \in Nat \ {0}, NEW dx \in 0 .. dy,
           NEW sx \in Sign, NEW sy \in Sign, NEW f, IsLine(f, x0, y0, dx, dy, sx, sy)
    PROVE  Arrives(f, x0, y0, dx, dy, sx, sy, dy)
<1> DEFINE At(n, k) == Steep(x0, y0, dx, dy, sx, sy, n, k)
           On(n, k) == f[n] = At(n, k) /\ Err(dy, dx, n, k) \in 0 .. dy - 1
           T == {n \in 0 .. dy : \E k \in Nat : On(n, k)}
<1>1. f[0] = [err |-> Picture!FirstErr(dx, dy), x |-> x0, y |-> y0]
  BY DEF IsLine
<1>2. \A n \in 1 .. dy : f[n] = Picture!Further(f[n - 1], dx, dy, sx, sy)
  <2>1. \A n \in 1 .. dy : n \in 0 .. dx + dy /\ n # 0
    OBVIOUS
  <2> QED
    BY <2>1 DEF IsLine
<1>3. On(0, 0)
  <2>1. Err(dy, dx, 0, 0) = dy \div 2 /\ Err(dy, dx, 0, 0) \in 0 .. dy - 1
    BY FirstOfErr
  <2>2. Picture!FirstErr(dx, dy) = -(dy \div 2)
    BY DEF Picture!FirstErr, Picture!Quotient
  <2>3. x0 + sx * 0 = x0 /\ y0 + sy * 0 = y0
    BY DEF Sign
  <2> QED
    BY <1>1, <2>1, <2>2, <2>3 DEF Steep
<1>4. ASSUME NEW m \in Nat, NEW k \in Nat, Err(dy, dx, m, k) \in 0 .. dy - 1
      PROVE  \E z \in {k, k + 1} :
                /\ Picture!Further(Steep(x0, y0, dx, dy, sx, sy, m, k), dx, dy, sx, sy)
                       = Steep(x0, y0, dx, dy, sx, sy, m + 1, z)
                /\ Err(dy, dx, m + 1, z) \in 0 .. dy - 1
  BY <1>4, FurtherSteep, SMTT(30)
<1>5. ASSUME NEW n \in 1 .. dy, NEW k \in Nat, On(n - 1, k)
      PROVE  \E z \in {k, k + 1} : On(n, z)
  <2> DEFINE m == n - 1
  <2>1. m \in Nat /\ m + 1 = n
    OBVIOUS
  <2>2. f[n] = Picture!Further(At(m, k), dx, dy, sx, sy) /\ Err(dy, dx, m, k) \in 0 .. dy - 1
    BY <1>2, <1>5
  <2> HIDE DEF m
  <2>3. \E z \in {k, k + 1} :
            /\ Picture!Further(At(m, k), dx, dy, sx, sy) = At(m + 1, z)
            /\ Err(dy, dx, m + 1, z) \in 0 .. dy - 1
    BY <1>4, <2>1, <2>2, Zenon
  <2> QED
    BY <2>1, <2>2, <2>3
<1>6. 0 \in T /\ \A n \in 1 .. dy : n - 1 \in T => n \in T
  BY <1>3, <1>5
<1>7. \A n \in 0 .. dy : \E k \in Nat : On(n, k)
  <2> HIDE DEF T
  <2>1. \A n \in 0 .. dy : n \in T
    BY <1>6, Upwards
  <2> QED
    BY <2>1 DEF T
<1>8. \A n \in 0 .. dy, k \in Nat : On(n, k) => f[n].x = x0 + sx * k /\ f[n].y = y0 + sy * n
  BY DEF Steep
<1>9. Pixel(f, 0) = <<x0, y0>>
  BY <1>1 DEF Pixel
<1>10. ASSUME NEW n \in 0 .. dy
       PROVE  Pixel(f, n) = <<x0 + sx * dx, y0 + sy * dy>> <=> n = dy
  <2>1. PICK k \in Nat : On(n, k)
    BY <1>7
  <2>2. Pixel(f, n) = <<x0 + sx * k, y0 + sy * n>>
    BY <1>8, <2>1 DEF Pixel
  <2>3. CASE n = dy
    <3>1. k = dx
      BY <2>1, <2>3, LastOfErr
    <3> QED
      BY <2>2, <2>3, <3>1
  <2>4. CASE n # dy
    <3>1. y0 + sy * n # y0 + sy * dy
      BY <2>4 DEF Sign
    <3> QED
      BY <2>2, <2>4, <3>1
  <2> QED
    BY <2>3, <2>4
<1>11. ASSUME NEW n \in 1 .. dy
       PROVE  Picture!Near(Pixel(f, n - 1), Pixel(f, n))
  <2>1. n - 1 \in 0 .. dy
    OBVIOUS
  <2>2. PICK k \in Nat : On(n - 1, k)
    BY <1>7, <2>1
  <2>3. PICK z \in {k, k + 1} : On(n, z)
    BY <1>5, <2>2
  <2>4. /\ Pixel(f, n - 1) = <<x0 + sx * k, y0 + sy * (n - 1)>>
        /\ Pixel(f, n) = <<x0 + sx * z, y0 + sy * n>>
    BY <1>8, <2>1, <2>2, <2>3 DEF Pixel
  <2>5. (y0 + sy * (n - 1)) - (y0 + sy * n) \in {1, -1}
    BY DEF Sign
  <2>6. (x0 + sx * k) - (x0 + sx * z) \in {0, 1, -1}
    BY DEF Sign
  <2>7. /\ y0 + sy * (n - 1) \in Int /\ y0 + sy * n \in Int
        /\ x0 + sx * k \in Int /\ x0 + sx * z \in Int
    BY DEF Sign
  <2> QED
    BY <2>4, <2>5, <2>6, <2>7, NextTo
<1>12. ASSUME NEW n \in 0 .. dy
       PROVE  2 * Picture!Abs((f[n].x - x0) * (sy * dy) - (f[n].y - y0) * (sx * dx)) <= dy
  <2>1. PICK k \in Nat : On(n, k)
    BY <1>7
  <2>2. f[n].x - x0 = sx * k /\ f[n].y - y0 = sy * n
    <3>1. f[n].x = x0 + sx * k /\ f[n].y = y0 + sy * n
      BY <1>8, <2>1
    <3> QED
      BY <3>1 DEF Sign
  <2>3. Picture!Abs((sx * k) * (sy * dy) - (sy * n) * (sx * dx)) = Picture!Abs(n * dx - k * dy)
    BY Across
  <2>4. 2 * Picture!Abs(n * dx - k * dy) <= dy
    BY <2>1, OffLine
  <2> QED
    BY <2>2, <2>3, <2>4
<1> QED
  BY <1>9, <1>10, <1>11, <1>12 DEF Arrives

(* A line of a single pixel.                                                 *)
LEMMA DotArrives ==
    ASSUME NEW x0 \in Int, NEW y0 \in Int, NEW sx \in Sign, NEW sy \in Sign, NEW f,
           IsLine(f, x0, y0, 0, 0, sx, sy)
    PROVE  Arrives(f, x0, y0, 0, 0, sx, sy, 0)
<1>1. f[0].x = x0 /\ f[0].y = y0
  BY DEF IsLine
<1>2. sx * 0 = 0 /\ sy * 0 = 0
  BY DEF Sign
<1>3. (f[0].x - x0) * (sy * 0) - (f[0].y - y0) * (sx * 0) = 0
  BY <1>1, <1>2
<1>4. Picture!Abs((f[0].x - x0) * (sy * 0) - (f[0].y - y0) * (sx * 0)) = 0
  BY <1>3 DEF Picture!Abs
<1>5. \A n \in 0 .. 0 : n = 0
  OBVIOUS
<1>6. x0 + sx * 0 = x0 /\ y0 + sy * 0 = y0 /\ 1 .. 0 = {}
  BY <1>2
<1> QED
  BY <1>1, <1>4, <1>5, <1>6 DEF Arrives, Pixel

LEMMA LineArrives ==
    ASSUME NEW x0 \in Int, NEW y0 \in Int, NEW dx \in Nat, NEW dy \in Nat,
           NEW sx \in Sign, NEW sy \in Sign, NEW f, IsLine(f, x0, y0, dx, dy, sx, sy)
    PROVE  Arrives(f, x0, y0, dx, dy, sx, sy, IF dx > dy THEN dx ELSE dy)
<1>1. CASE dx > dy
  <2>1. dx \in Nat \ {0} /\ dy \in 0 .. dx - 1
    BY <1>1
  <2> QED
    BY <1>1, <2>1, FlatArrives, SMTT(30)
<1>2. CASE ~(dx > dy) /\ dy # 0
  <2>1. dy \in Nat \ {0} /\ dx \in 0 .. dy
    BY <1>2
  <2> QED
    BY <1>2, <2>1, SteepArrives, SMTT(30)
<1>3. CASE ~(dx > dy) /\ dy = 0
  <2>1. dx = 0
    BY <1>3
  <2>2. IsLine(f, x0, y0, 0, 0, sx, sy)
    BY <1>3, <2>1
  <2> QED
    BY <1>3, <2>1, <2>2, DotArrives, SMTT(30)
<1> QED
  BY <1>1, <1>2, <1>3

LEMMA FurtherState ==
    ASSUME NEW s \in State, NEW dx \in Nat, NEW dy \in Nat, NEW sx \in Sign, NEW sy \in Sign
    PROVE  Picture!Further(s, dx, dy, sx, sy) \in State
<1>1. s.err \in Int /\ s.x \in Int /\ s.y \in Int
  BY DEF State
<1>2. \A a \in {0, dy}, b \in {0, dx} : s.err - a + b \in Int
  BY <1>1
<1>3. s.x + sx \in Int /\ s.y + sy \in Int
  BY <1>1 DEF Sign
<1> QED
  BY <1>1, <1>2, <1>3 DEF Picture!Further, State

LEMMA LineExists ==
    ASSUME NEW x0 \in Int, NEW y0 \in Int, NEW dx \in Nat, NEW dy \in Nat,
           NEW sx \in Sign, NEW sy \in Sign
    PROVE  \E f \in [0 .. dx + dy -> State] : IsLine(f, x0, y0, dx, dy, sx, sy)
<1> DEFINE a == [err |-> Picture!FirstErr(dx, dy), x |-> x0, y |-> y0]
           G == [s \in State |-> Picture!Further(s, dx, dy, sx, sy)]
           N == dx + dy
<1>1. a \in State
  BY DEF Picture!FirstErr, Picture!Quotient, State
<1>2. G \in [State -> State]
  BY FurtherState
<1>3. \A s \in State : G[s] = Picture!Further(s, dx, dy, sx, sy)
  OBVIOUS
<1>4. N \in Nat
  OBVIOUS
<1> HIDE DEF a, G, N
<1>5. PICK g \in [0 .. N -> State] : Same(g, N, a, G)
  BY <1>1, <1>2, <1>4, Repeated
<1>6. \A n \in 0 .. N : n # 0 => n - 1 \in 0 .. N
  BY <1>4
<1>7. \A n \in 0 .. N :
          g[n] = IF n = 0 THEN a ELSE Picture!Further(g[n - 1], dx, dy, sx, sy)
  <2>1. \A n \in 0 .. N : g[n] = IF n = 0 THEN a ELSE G[g[n - 1]]
    BY <1>5, Zenon DEF Same
  <2>2. \A n \in 0 .. N : g[n] \in State
    BY <1>5
  <2> QED
    BY <1>3, <1>6, <2>1, <2>2, Zenon
<1>8. g = [n \in 0 .. N |-> IF n = 0 THEN a ELSE Picture!Further(g[n - 1], dx, dy, sx, sy)]
  BY <1>5, <1>7
<1>9. IsLine(g, x0, y0, dx, dy, sx, sy)
  BY <1>8, Zenon DEF IsLine, a, N
<1> QED
  BY <1>5, <1>9, Zenon DEF N

(* The line goes by way of dx and dy, to the side its signs say.             *)
LEMMA SideOf ==
    ASSUME NEW a \in Int, NEW b \in Int
    PROVE  LET d == Picture!Abs(b - a)
               s == IF a < b THEN 1 ELSE -1
           IN  d \in Nat /\ s \in Sign /\ s * d = b - a /\ a + s * d = b
BY DEF Picture!Abs, Sign

LEMMA LineStraight ==
    ASSUME NEW x0 \in Int, NEW y0 \in Int, NEW x1 \in Int, NEW y1 \in Int
    PROVE  Picture!Straight(x0, y0, x1, y1)
<1> DEFINE dx == Picture!Abs(x1 - x0)
           dy == Picture!Abs(y1 - y0)
           sx == IF x0 < x1 THEN 1 ELSE -1
           sy == IF y0 < y1 THEN 1 ELSE -1
           N == dx + dy
           long == IF dx > dy THEN dx ELSE dy
           f == CHOOSE g : IsLine(g, x0, y0, dx, dy, sx, sy)
           ends == {n \in DOMAIN f : f[n].x = x1 /\ f[n].y = y1}
           final == CHOOSE n \in ends : \A m \in ends : n <= m
           line == Picture!TFT_DrawLine(x0, y0, x1, y1)
<1>1. /\ dx \in Nat /\ sx \in Sign /\ sx * dx = x1 - x0 /\ x0 + sx * dx = x1
      /\ dy \in Nat /\ sy \in Sign /\ sy * dy = y1 - y0 /\ y0 + sy * dy = y1
  BY SideOf
<1>2. line = IF ends = {} THEN << >>
             ELSE [n \in 1 .. final + 1 |-> <<f[n - 1].x, f[n - 1].y>>]
  BY Zenon DEF Picture!TFT_DrawLine, IsLine
<1> HIDE DEF dx, dy, sx, sy
<1>3. IsLine(f, x0, y0, dx, dy, sx, sy)
  <2>1. \E g : IsLine(g, x0, y0, dx, dy, sx, sy)
    BY <1>1, LineExists
  <2> QED
    BY <2>1, Zenon
<1> HIDE DEF f
<1>4. Arrives(f, x0, y0, dx, dy, sx, sy, long)
  BY <1>1, <1>3, LineArrives, SMTT(30)
<1>5. long \in Nat /\ long \in 0 .. N /\ N \in Nat
  BY <1>1
<1>6. DOMAIN f = 0 .. N
  BY <1>3 DEF IsLine
<1> HIDE DEF N, long
<1>7. \A n \in 0 .. long : Pixel(f, n) = <<x1, y1>> <=> n = long
  BY <1>1, <1>4 DEF Arrives
<1>8. \A n \in 0 .. N : n \in ends <=> Pixel(f, n) = <<x1, y1>>
  BY <1>6 DEF Pixel
<1>9. long \in ends /\ ends \subseteq 0 .. N
  BY <1>5, <1>6, <1>7, <1>8
<1>10. \A m \in ends : long <= m
  <2>1. ASSUME NEW m \in ends, ~(long <= m) PROVE FALSE
    <3>1. m \in 0 .. N /\ m \in 0 .. long /\ m # long
      BY <1>5, <1>9, <2>1
    <3> QED
      BY <1>7, <1>8, <3>1
  <2> QED
    BY <2>1
<1> HIDE DEF ends
<1>11. final = long
  <2>1. final \in ends /\ \A m \in ends : final <= m
    BY <1>9, <1>10
  <2>2. final <= long /\ long <= final /\ final \in 0 .. N
    BY <1>9, <1>10, <2>1
  <2> QED
    BY <1>5, <2>2
<1> HIDE DEF final
<1>12. line = [n \in 1 .. long + 1 |-> Pixel(f, n - 1)]
  BY <1>2, <1>9, <1>11 DEF Pixel
<1> HIDE DEF line
<1>13. Len(line) = long + 1 /\ DOMAIN line = 1 .. long + 1
  BY <1>5, <1>12
<1>14. \A n \in 1 .. long + 1 : line[n] = Pixel(f, n - 1) /\ n - 1 \in 0 .. long
  BY <1>5, <1>12
<1>15. line[1] = <<x0, y0>> /\ line[long + 1] = <<x1, y1>>
  <2>1. 1 \in 1 .. long + 1 /\ long + 1 \in 1 .. long + 1 /\ 1 - 1 = 0 /\ (long + 1) - 1 = long
    BY <1>5
  <2>2. line[1] = Pixel(f, 0) /\ line[long + 1] = Pixel(f, long)
    BY <1>14, <2>1
  <2>3. Pixel(f, 0) = <<x0, y0>> /\ Pixel(f, long) = <<x1, y1>>
    BY <1>4, <1>5, <1>7 DEF Arrives
  <2> QED
    BY <2>2, <2>3
<1>16. ASSUME NEW n \in 1 .. long PROVE Picture!Near(line[n], line[n + 1])
  <2>1. n \in 1 .. long + 1 /\ n + 1 \in 1 .. long + 1 /\ (n + 1) - 1 = n
    BY <1>5
  <2>2. line[n] = Pixel(f, n - 1) /\ line[n + 1] = Pixel(f, n)
    BY <1>14, <2>1
  <2>3. Picture!Near(Pixel(f, n - 1), Pixel(f, n))
    BY <1>4 DEF Arrives
  <2> QED
    BY <2>2, <2>3
<1>17. ASSUME NEW n \in 1 .. long + 1
       PROVE  2 * Picture!Abs((line[n][1] - x0) * (y1 - y0) - (line[n][2] - y0) * (x1 - x0)) <= long
  <2> DEFINE m == n - 1
  <2>1. line[n] = Pixel(f, m) /\ m \in 0 .. long
    BY <1>14
  <2> HIDE DEF m
  <2>2. line[n][1] = f[m].x /\ line[n][2] = f[m].y
    BY <2>1 DEF Pixel
  <2>3. 2 * Picture!Abs((f[m].x - x0) * (sy * dy) - (f[m].y - y0) * (sx * dx)) <= long
    BY <1>4, <2>1, Zenon DEF Arrives
  <2>4. sx * dx = x1 - x0 /\ sy * dy = y1 - y0
    BY <1>1
  <2> QED
    BY <2>2, <2>3, <2>4
<1>18. long = IF Picture!Abs(x1 - x0) > Picture!Abs(y1 - y0)
              THEN Picture!Abs(x1 - x0) ELSE Picture!Abs(y1 - y0)
  BY DEF long, dx, dy
<1> QED
  BY <1>13, <1>15, <1>16, <1>17, <1>18, Zenon DEF Picture!Straight, line

-----------------------------------------------------------------------------
(* Circles.  The error term is the square of the distance from the centre,   *)
(* less that of the radius; a pixel further out is at the radius or beyond.  *)
Ring == [x : Int, y : Int, dx : Int, dy : Int, err : Int]

OnCircle(s, r, n) ==
    /\ s.y = n /\ s.dx = 2 * (r - s.x) - 1 /\ s.dy = 2 * n + 1
    /\ s.err = s.x * s.x + n * n - r * r
    /\ s.x \in -1 .. r - 1
    /\ (s.x + 1) * (s.x + 1) + n * n >= r * r
    /\ s.x >= n => s.err <= 0

LEMMA Squares ==
    ASSUME NEW x \in Int
    PROVE  /\ x * x \in Int
           /\ (x + 1) * (x + 1) = x * x + 2 * x + 1
           /\ (x - 1) * (x - 1) = x * x - 2 * x + 1
OBVIOUS

LEMMA AroundRing ==
    ASSUME NEW s \in Ring, NEW r \in Nat
    PROVE  Picture!Around(s, r) \in Ring
<1>1. s.x \in Int /\ s.y \in Int /\ s.dx \in Int /\ s.dy \in Int /\ s.err \in Int
  BY DEF Ring
<1> DEFINE up == IF s.err <= 0
                 THEN [s EXCEPT !.y = @ + 1, !.err = @ + s.dy, !.dy = @ + 2] ELSE s
<1>2. up \in Ring
  <2>1. CASE s.err <= 0
    <3>1. up = [s EXCEPT !.y = s.y + 1, !.err = s.err + s.dy, !.dy = s.dy + 2]
      BY <2>1
    <3>2. s.y + 1 \in Int /\ s.err + s.dy \in Int /\ s.dy + 2 \in Int
      BY <1>1
    <3> QED
      BY <3>1, <3>2 DEF Ring
  <2> QED
    BY <2>1
<1> HIDE DEF up
<1>3. \A t \in Ring : Picture!Inwards(t, r) \in Ring
  <2>1. ASSUME NEW t \in Ring PROVE Picture!Inwards(t, r) \in Ring
    <3>1. t.x \in Int /\ t.dx \in Int /\ t.err \in Int
      BY DEF Ring
    <3>2. t.x - 1 \in Int /\ t.dx + 2 \in Int /\ t.err - 2 * r + t.dx + 2 \in Int
      BY <3>1
    <3> QED
      BY <3>2 DEF Picture!Inwards, Ring
  <2> QED
    BY <2>1
<1> QED
  BY <1>2, <1>3 DEF Picture!Around, up

LEMMA AroundCircle ==
    ASSUME NEW s \in Ring, NEW r \in Nat, NEW n \in Nat, OnCircle(s, r, n), s.x >= n
    PROVE  /\ OnCircle(Picture!Around(s, r), r, n + 1)
           /\ Picture!Around(s, r).x \in {s.x, s.x - 1}
<1> DEFINE x == s.x
           up == [s EXCEPT !.y = s.y + 1, !.err = s.err + s.dy, !.dy = s.dy + 2]
           g == Picture!Around(s, r)
<1>1. x \in Int /\ x >= n /\ x <= r - 1
  BY DEF Ring, OnCircle
<1>2. /\ s.y = n /\ s.dx = 2 * (r - x) - 1 /\ s.dy = 2 * n + 1 /\ s.err = x * x + n * n - r * r
      /\ s.err <= 0 /\ (x + 1) * (x + 1) + n * n >= r * r
  BY <1>1 DEF OnCircle
<1>3. /\ x * x \in Int /\ n * n \in Int /\ r * r \in Int
      /\ (x + 1) * (x + 1) = x * x + 2 * x + 1 /\ (x - 1) * (x - 1) = x * x - 2 * x + 1
      /\ (n + 1) * (n + 1) = n * n + 2 * n + 1
  BY <1>1, Squares
<1> DEFINE e == x * x + (n + 1) * (n + 1) - r * r
<1>4. e \in Int
  BY <1>3
<1>5. up.x = x /\ up.y = n + 1 /\ up.dx = 2 * (r - x) - 1 /\ up.dy = 2 * (n + 1) + 1 /\ up.err = e
  <2>1. s.err + s.dy = e /\ s.dy + 2 = 2 * (n + 1) + 1 /\ s.y + 1 = n + 1
    BY <1>2, <1>3
  <2> HIDE DEF e
  <2>2. /\ up.x = x /\ up.y = s.y + 1 /\ up.dx = s.dx /\ up.dy = s.dy + 2
        /\ up.err = s.err + s.dy
    BY DEF Ring
  <2> QED
    BY <1>2, <2>1, <2>2
<1>6. up \in Ring
  <2>1. s.y \in Int /\ s.err \in Int /\ s.dy \in Int
    BY DEF Ring
  <2>2. s.y + 1 \in Int /\ s.err + s.dy \in Int /\ s.dy + 2 \in Int
    BY <2>1
  <2> QED
    BY <2>2 DEF Ring
<1>7. g = IF e > 0 THEN Picture!Inwards(up, r) ELSE up
  BY <1>2, <1>5 DEF Picture!Around
<1> HIDE DEF up, g
<1>8. ASSUME e > 0 PROVE OnCircle(g, r, n + 1) /\ g.x \in {x, x - 1}
  <2>1. g = [up EXCEPT !.x = up.x - 1, !.dx = up.dx + 2, !.err = up.err - 2 * r + up.dx + 2]
    BY <1>7, <1>8 DEF Picture!Inwards
  <2>2. /\ g.x = x - 1 /\ g.y = n + 1 /\ g.dx = 2 * (r - x) - 1 + 2 /\ g.dy = 2 * (n + 1) + 1
        /\ g.err = e - 2 * r + (2 * (r - x) - 1) + 2
    BY <1>5, <1>6, <2>1 DEF Ring
  <2>3. g.dx = 2 * (r - g.x) - 1
    BY <1>1, <2>2
  <2>4. g.err = g.x * g.x + (n + 1) * (n + 1) - r * r
    BY <1>1, <1>3, <2>2
  <2>5. g.x \in -1 .. r - 1
    BY <1>1, <2>2
  <2>6. (g.x + 1) * (g.x + 1) + (n + 1) * (n + 1) >= r * r
    <3>1. g.x + 1 = x
      BY <1>1, <2>2
    <3> QED
      BY <1>3, <1>8, <3>1
  <2>7. g.x >= n + 1 => g.err <= 0
    BY <1>1, <1>2, <1>3, <2>2
  <2> QED
    BY <2>2, <2>3, <2>4, <2>5, <2>6, <2>7, Zenon DEF OnCircle
<1>9. ASSUME ~(e > 0) PROVE OnCircle(g, r, n + 1) /\ g.x \in {x, x - 1}
  <2>1. g.x = x /\ g.y = n + 1 /\ g.dx = 2 * (r - x) - 1 /\ g.dy = 2 * (n + 1) + 1 /\ g.err = e
    BY <1>5, <1>7, <1>9
  <2>2. (x + 1) * (x + 1) + (n + 1) * (n + 1) >= r * r
    BY <1>1, <1>2, <1>3
  <2>3. e <= 0 /\ x \in -1 .. r - 1
    BY <1>1, <1>4, <1>9
  <2>4. OnCircle(g, r, n + 1)
    BY <2>1, <2>2, <2>3, Zenon DEF OnCircle, e
  <2> QED
    BY <2>1, <2>4
<1> QED
  BY <1>8, <1>9 DEF g

FirstOfCircle(r) == [x |-> r - 1, y |-> 0, dx |-> 1, dy |-> 1, err |-> 1 - 2 * r]

IsCircle(f, r) ==
    f = [n \in 0 .. 2 * r |-> IF n = 0 THEN [x |-> r - 1, y |-> 0, dx |-> 1, dy |-> 1, err |-> 1 - 2 * r]
                              ELSE Picture!Around(f[n - 1], r)]

LEMMA FirstOnCircle ==
    ASSUME NEW r \in Nat \ {0}
    PROVE  FirstOfCircle(r) \in Ring /\ OnCircle(FirstOfCircle(r), r, 0)
<1>1. r * r \in Int /\ (r - 1) * (r - 1) = r * r - 2 * r + 1 /\ (r - 1) + 1 = r
  BY Squares
<1>2. 1 - 2 * r = (r - 1) * (r - 1) + 0 * 0 - r * r /\ 1 - 2 * r <= 0
  BY <1>1
<1>3. r * r + 0 * 0 >= r * r /\ 1 = 2 * (r - (r - 1)) - 1 /\ 1 = 2 * 0 + 1 /\ r - 1 \in -1 .. r - 1
  BY <1>1
<1> QED
  BY <1>1, <1>2, <1>3 DEF FirstOfCircle, OnCircle, Ring

LEMMA CircleExists ==
    ASSUME NEW r \in Nat \ {0}
    PROVE  \E f \in [0 .. 2 * r -> Ring] : IsCircle(f, r)
<1> DEFINE a == FirstOfCircle(r)
           G == [s \in Ring |-> Picture!Around(s, r)]
           N == 2 * r
<1>1. a \in Ring
  BY FirstOnCircle
<1>2. G \in [Ring -> Ring]
  BY AroundRing
<1>3. \A s \in Ring : G[s] = Picture!Around(s, r)
  OBVIOUS
<1>4. N \in Nat
  OBVIOUS
<1> HIDE DEF a, G, N
<1>5. PICK g \in [0 .. N -> Ring] : Same(g, N, a, G)
  BY <1>1, <1>2, <1>4, Repeated
<1>6. \A n \in 0 .. N : n # 0 => n - 1 \in 0 .. N
  BY <1>4
<1>7. \A n \in 0 .. N : g[n] = IF n = 0 THEN a ELSE Picture!Around(g[n - 1], r)
  <2>1. \A n \in 0 .. N : g[n] = IF n = 0 THEN a ELSE G[g[n - 1]]
    BY <1>5, Zenon DEF Same
  <2>2. \A n \in 0 .. N : g[n] \in Ring
    BY <1>5
  <2> QED
    BY <1>3, <1>6, <2>1, <2>2, Zenon
<1>8. g = [n \in 0 .. N |-> IF n = 0 THEN a ELSE Picture!Around(g[n - 1], r)]
  BY <1>5, <1>7
<1>9. IsCircle(g, r)
  BY <1>8, Zenon DEF IsCircle, FirstOfCircle, a, N
<1> QED
  BY <1>5, <1>9, Zenon DEF N

(* An eighth of a circle of radius r, in b rows, from the x axis up to the   *)
(* diagonal: X is how far out the pixel of a row is.                         *)
Eighth(X, b, r) ==
    /\ b \in Nat \ {0} /\ X \in [0 .. b -> Int]
    /\ X[0] = r - 1 /\ X[b] < b
    /\ \A n \in 0 .. b - 1 :
           /\ X[n] >= n /\ X[n + 1] \in {X[n], X[n] - 1}
           /\ X[n] * X[n] + n * n \in (r - 1) * (r - 1) .. r * r
    /\ r > 1 => b > 1

(* No pixel of a row is nearer than the radius below.                        *)
LEMMA RowsOut ==
    ASSUME NEW s \in Ring, NEW r \in Nat \ {0}, NEW n \in Nat, OnCircle(s, r, n), s.x >= n
    PROVE  s.x * s.x + n * n \in (r - 1) * (r - 1) .. r * r
<1> DEFINE x == s.x
<1>1. x \in Int /\ x <= r - 1
  BY DEF Ring, OnCircle
<1>2. /\ x * x \in Int /\ n * n \in Int /\ r * r \in Int
      /\ (x + 1) * (x + 1) = x * x + 2 * x + 1 /\ (r - 1) * (r - 1) = r * r - 2 * r + 1
  BY <1>1, Squares
<1>3. (x + 1) * (x + 1) + n * n >= r * r /\ x * x + n * n - r * r <= 0
  BY DEF OnCircle
<1> HIDE DEF x
<1>4. x * x + n * n \in (r - 1) * (r - 1) .. r * r
  BY <1>1, <1>2, <1>3
<1> QED
  BY <1>4 DEF x

LEMMA CircleSteps ==
    ASSUME NEW r \in Nat \ {0}, NEW f \in [0 .. 2 * r -> Ring], IsCircle(f, r)
    PROVE  \E b \in 1 .. r :
              /\ Eighth([n \in 0 .. b |-> f[n].x], b, r)
              /\ f[b].x < f[b].y /\ \A n \in 0 .. b - 1 : f[n].x >= f[n].y
              /\ \A n \in 0 .. b : f[n].y = n
<1>1. f[0] = FirstOfCircle(r)
  BY DEF IsCircle, FirstOfCircle
<1>2. \A n \in 1 .. 2 * r : f[n] = Picture!Around(f[n - 1], r)
  <2>1. \A n \in 1 .. 2 * r : n \in 0 .. 2 * r /\ n # 0
    OBVIOUS
  <2> QED
    BY <2>1 DEF IsCircle
<1>3. \A n \in 0 .. r : n \in 0 .. 2 * r /\ f[n] \in Ring /\ n \in Nat
  OBVIOUS
<1> DEFINE Beyond == {n \in 0 .. r : f[n].x < n}
           T == {n \in 0 .. r : (\A m \in 0 .. n - 1 : m \notin Beyond) => OnCircle(f[n], r, n)}
<1>4. 0 \in T
  BY <1>1, FirstOnCircle
<1>5. ASSUME NEW n \in 1 .. r, n - 1 \in 0 .. r, OnCircle(f[n - 1], r, n - 1), n - 1 \notin Beyond
      PROVE  OnCircle(f[n], r, n) /\ f[n].x \in {f[n - 1].x, f[n - 1].x - 1}
  <2> DEFINE m == n - 1
  <2>1. m \in Nat /\ m + 1 = n /\ m \in 0 .. r /\ n \in 1 .. 2 * r
    OBVIOUS
  <2>2. f[n] = Picture!Around(f[m], r) /\ f[m] \in Ring
    BY <1>2, <1>3, <2>1
  <2>3. f[m].x >= m
    <3>1. f[m].x \in Int /\ ~(f[m].x < m)
      BY <1>5, <2>1, <2>2 DEF Ring
    <3> QED
      BY <2>1, <3>1
  <2>4. OnCircle(f[m], r, m)
    BY <1>5
  <2> HIDE DEF m
  <2>5. OnCircle(Picture!Around(f[m], r), r, m + 1) /\ Picture!Around(f[m], r).x \in {f[m].x, f[m].x - 1}
    BY <2>1, <2>2, <2>3, <2>4, AroundCircle
  <2> QED
    BY <2>1, <2>2, <2>5 DEF m
<1>6. ASSUME NEW n \in 1 .. r, n - 1 \in T PROVE n \in T
  <2>1. SUFFICES ASSUME \A m \in 0 .. n - 1 : m \notin Beyond PROVE OnCircle(f[n], r, n)
    OBVIOUS
  <2>2. n - 1 \in 0 .. r /\ n - 1 \in 0 .. n - 1 /\ \A m \in 0 .. (n - 1) - 1 : m \in 0 .. n - 1
    OBVIOUS
  <2>3. n - 1 \notin Beyond /\ OnCircle(f[n - 1], r, n - 1)
    <3> HIDE DEF Beyond
    <3> QED
      BY <1>6, <2>1, <2>2
  <2> HIDE DEF Beyond
  <2> QED
    BY <1>5, <2>2, <2>3
<1>7. \A n \in 0 .. r : n \in T
  <2> HIDE DEF T
  <2> QED
    BY <1>4, <1>6, Upwards
<1>8. Beyond # {}
  <2>1. SUFFICES ASSUME Beyond = {} PROVE FALSE
    OBVIOUS
  <2>2. r \in 0 .. r
    OBVIOUS
  <2>3. OnCircle(f[r], r, r)
    <3>1. \A m \in 0 .. r - 1 : m \notin Beyond
      BY <2>1
    <3> HIDE DEF Beyond
    <3> QED
      BY <1>7, <2>2, <3>1
  <2>4. f[r].x < r
    BY <2>3 DEF OnCircle
  <2> QED
    BY <2>1, <2>2, <2>4
<1>9. PICK b \in Beyond : \A m \in Beyond : b <= m
  <2>1. Beyond \subseteq Nat
    OBVIOUS
  <2> HIDE DEF Beyond
  <2> QED
    BY <1>8, <2>1, Least
<1>10. b \in 0 .. r /\ f[b].x < b
  BY <1>9
<1>11. b # 0
  <2>1. f[0].x = r - 1 /\ ~(r - 1 < 0)
    BY <1>1 DEF FirstOfCircle
  <2> QED
    BY <1>10, <2>1
<1>12. b \in 1 .. r
  BY <1>10, <1>11
<1>13. \A n \in 0 .. b - 1 : n \notin Beyond /\ n \in 0 .. r
  <2>1. \A n \in 0 .. b - 1 : ~(b <= n) /\ n \in 0 .. r
    BY <1>12
  <2> HIDE DEF Beyond
  <2> QED
    BY <1>9, <2>1
<1>14. \A n \in 0 .. b : OnCircle(f[n], r, n)
  <2>1. ASSUME NEW n \in 0 .. b PROVE OnCircle(f[n], r, n)
    <3>1. n \in 0 .. r /\ \A m \in 0 .. n - 1 : m \in 0 .. b - 1
      BY <1>12
    <3>2. \A m \in 0 .. n - 1 : m \notin Beyond
      BY <1>13, <3>1
    <3> HIDE DEF Beyond
    <3> QED
      BY <1>7, <3>1, <3>2
  <2> QED
    BY <2>1
<1>15. \A n \in 0 .. b - 1 : f[n].x >= n
  <2>1. \A n \in 0 .. b - 1 : f[n].x \in Int
    BY <1>3, <1>13 DEF Ring
  <2> QED
    BY <1>13, <2>1
<1>16. \A n \in 0 .. b : f[n].y = n
  BY <1>14 DEF OnCircle
<1>17. \A n \in 0 .. b - 1 : f[n + 1].x \in {f[n].x, f[n].x - 1}
  <2>1. ASSUME NEW n \in 0 .. b - 1 PROVE f[n + 1].x \in {f[n].x, f[n].x - 1}
    <3> DEFINE k == n + 1
    <3>1. k \in 1 .. r /\ k - 1 = n /\ n \in 0 .. r /\ n \in 0 .. b
      BY <1>12
    <3>2. OnCircle(f[n], r, n) /\ n \notin Beyond
      BY <1>13, <1>14, <3>1
    <3> HIDE DEF k, Beyond
    <3>3. f[k].x \in {f[k - 1].x, f[k - 1].x - 1}
      BY <1>5, <3>1, <3>2
    <3> QED
      BY <3>1, <3>3 DEF k
  <2> QED
    BY <2>1
<1>18. \A n \in 0 .. b - 1 : f[n].x * f[n].x + n * n \in (r - 1) * (r - 1) .. r * r
  <2>1. \A n \in 0 .. b - 1 : n \in 0 .. b /\ n \in Nat /\ n \in 0 .. r
    BY <1>12
  <2> QED
    BY <1>3, <1>14, <1>15, <2>1, RowsOut
<1>19. r > 1 => b > 1
  <2>1. SUFFICES ASSUME r > 1, b = 1 PROVE FALSE
    BY <1>12
  <2>2. f[1].x < 1 /\ OnCircle(f[1], r, 1) /\ f[1].x \in {f[0].x, f[0].x - 1} /\ f[0].x = r - 1
    <3>1. 0 \in 0 .. b - 1 /\ 1 \in 0 .. b /\ 0 + 1 = 1
      BY <2>1
    <3> HIDE DEF Beyond
    <3>2. f[0].x = r - 1
      BY <1>1 DEF FirstOfCircle
    <3> QED
      BY <1>10, <1>14, <1>17, <2>1, <3>1, <3>2
  <2>3. r = 2 /\ f[1].x = 0
    BY <2>1, <2>2
  <2>4. (0 + 1) * (0 + 1) + 1 * 1 >= 2 * 2
    BY <2>2, <2>3 DEF OnCircle
  <2> QED
    BY <2>4
<1> DEFINE X == [n \in 0 .. b |-> f[n].x]
<1>20. Eighth(X, b, r)
  <2>1. \A n \in 0 .. b : n \in 0 .. r /\ f[n].x \in Int
    <3>1. \A n \in 0 .. b : n \in 0 .. r
      BY <1>12
    <3> QED
      BY <1>3, <3>1 DEF Ring
  <2>2. X \in [0 .. b -> Int] /\ \A n \in 0 .. b : X[n] = f[n].x
    BY <2>1
  <2> HIDE DEF X
  <2>3. /\ 0 \in 0 .. b /\ b \in 0 .. b /\ b \in Nat \ {0}
        /\ \A n \in 0 .. b - 1 : n \in 0 .. b /\ n + 1 \in 0 .. b
    BY <1>12
  <2>4. X[0] = r - 1 /\ X[b] < b
    BY <1>1, <1>10, <2>2, <2>3 DEF FirstOfCircle
  <2>5. ASSUME NEW n \in 0 .. b - 1
        PROVE  /\ X[n] >= n /\ X[n + 1] \in {X[n], X[n] - 1}
               /\ X[n] * X[n] + n * n \in (r - 1) * (r - 1) .. r * r
    <3>1. X[n] = f[n].x /\ X[n + 1] = f[n + 1].x
      BY <2>2, <2>3
    <3> QED
      BY <1>15, <1>17, <1>18, <3>1
  <2> QED
    BY <1>19, <2>2, <2>3, <2>4, <2>5 DEF Eighth
<1>21. \A n \in 0 .. b - 1 : n \in 0 .. b
  BY <1>12
<1>22. b \in 0 .. b
  BY <1>12
<1> HIDE DEF X, Beyond
<1>23. f[b].x < f[b].y /\ \A n \in 0 .. b - 1 : f[n].x >= f[n].y
  BY <1>10, <1>15, <1>16, <1>21, <1>22
<1> QED
  BY <1>12, <1>16, <1>20, <1>23 DEF X

(* The pixels of a circle are those of its eighth and their reflections.     *)
InCircle(X, b, c, d) ==
    \E n \in 0 .. b - 1 : \/ Picture!Abs(c) = X[n] /\ Picture!Abs(d) = n
                          \/ Picture!Abs(c) = n /\ Picture!Abs(d) = X[n]

LEMMA Turned ==
    ASSUME NEW a \in Int, NEW c \in Int, NEW s \in Sign
    PROVE  /\ Picture!Abs(s * a - s * c) = Picture!Abs(a - c)
           /\ Picture!Abs(s * c) = Picture!Abs(c)
           /\ s * a = s * c <=> a = c
           /\ s * c \in Int
BY DEF Sign, Picture!Abs

LEMMA Unsigned ==
    ASSUME NEW c \in Int
    PROVE  /\ \E s \in Sign : c = s * Picture!Abs(c)
           /\ Picture!Abs(c) \in Nat
           /\ Picture!Abs(c) * Picture!Abs(c) = c * c
<1>1. CASE c < 0
  <2>1. Picture!Abs(c) = -c /\ c = -1 * (-c) /\ (-c) * (-c) = c * c
    BY <1>1 DEF Picture!Abs
  <2> QED
    BY <1>1, <2>1 DEF Sign
<1>2. CASE ~(c < 0)
  <2>1. Picture!Abs(c) = c /\ c = 1 * c
    BY <1>2 DEF Picture!Abs
  <2> QED
    BY <1>2, <2>1 DEF Sign
<1> QED
  BY <1>1, <1>2

LEMMA NearTurned ==
    ASSUME NEW a \in Int, NEW b \in Int, NEW c \in Int, NEW d \in Int,
           NEW s \in Sign, NEW t \in Sign, Picture!Near(<<a, b>>, <<c, d>>)
    PROVE  /\ Picture!Near(<<s * a, t * b>>, <<s * c, t * d>>)
           /\ Picture!Near(<<t * b, s * a>>, <<t * d, s * c>>)
<1>1. Picture!Abs(a - c) <= 1 /\ Picture!Abs(b - d) <= 1 /\ ~(a = c /\ b = d)
  BY DEF Picture!Near
<1>2. /\ Picture!Abs(s * a - s * c) <= 1 /\ Picture!Abs(t * b - t * d) <= 1
      /\ ~(s * a = s * c /\ t * b = t * d)
  BY <1>1, Turned
<1> QED
  BY <1>2 DEF Picture!Near

LEMMA AbsOfNat == ASSUME NEW k \in Nat PROVE Picture!Abs(k) = k /\ Picture!Abs(-k) = k
BY DEF Picture!Abs

LEMMA EighthTypes ==
    ASSUME NEW X, NEW b, NEW r \in Nat \ {0}, Eighth(X, b, r)
    PROVE  /\ b \in Nat \ {0} /\ \A n \in 0 .. b : X[n] \in Int
           /\ \A n \in 0 .. b - 1 : X[n] \in Nat /\ X[n] >= n /\ X[n + 1] \in {X[n], X[n] - 1}
<1>1. b \in Nat \ {0} /\ \A n \in 0 .. b : X[n] \in Int
  BY DEF Eighth
<1>2. \A n \in 0 .. b - 1 : n \in 0 .. b /\ n \in Nat
  BY <1>1
<1>3. \A n \in 0 .. b - 1 : X[n] >= n /\ X[n + 1] \in {X[n], X[n] - 1}
  BY DEF Eighth
<1> QED
  BY <1>1, <1>2, <1>3

(* A pixel of the eighth is next to one of the row below, and to one of the  *)
(* row above or, at the diagonal, beyond it.                                 *)
Beside(X, b, p, c, d) ==
    c \in Int /\ d \in Int /\ InCircle(X, b, c, d) /\ Picture!Near(p, <<c, d>>)

LEMMA BesideRow ==
    ASSUME NEW X, NEW b, NEW r \in Nat \ {0}, Eighth(X, b, r), r > 1, NEW n \in 0 .. b - 1
    PROVE  \E c, d, e, f \in Int :
               /\ <<c, d>> # <<e, f>>
               /\ Beside(X, b, <<X[n], n>>, c, d) /\ Beside(X, b, <<X[n], n>>, e, f)
<1> DEFINE p == <<X[n], n>>
<1>1. b > 1 /\ b \in Nat /\ X[b] < b
  BY DEF Eighth
<1>2. /\ \A k \in 0 .. b : X[k] \in Int
      /\ \A k \in 0 .. b - 1 : X[k] \in Nat /\ X[k] >= k /\ X[k + 1] \in {X[k], X[k] - 1}
  BY EighthTypes
<1>3. \A k \in 0 .. b - 1 : InCircle(X, b, X[k], k) /\ InCircle(X, b, k, X[k]) /\ InCircle(X, b, X[k], -k)
  <2>1. \A k \in 0 .. b - 1 : k \in Nat /\ X[k] \in Nat
    BY <1>2
  <2>2. \A k \in 0 .. b - 1 :
            Picture!Abs(k) = k /\ Picture!Abs(-k) = k /\ Picture!Abs(X[k]) = X[k]
    BY <2>1, AbsOfNat
  <2> QED
    BY <2>2 DEF InCircle
<1>4. CASE n = 0
  <2>1. 1 \in 0 .. b - 1 /\ X[1] \in {X[0], X[0] - 1} /\ X[0] \in Int /\ X[1] \in Int
    <3>1. 0 \in 0 .. b - 1 /\ 1 \in 0 .. b - 1 /\ 0 + 1 = 1
      BY <1>1
    <3> QED
      BY <1>2, <3>1
  <2>2. InCircle(X, b, X[1], 1) /\ InCircle(X, b, X[1], -1)
    BY <1>3, <2>1
  <2>3. X[0] - X[1] \in {0, 1, -1} /\ 0 - 1 \in {1, -1} /\ 0 - -1 \in {1, -1}
    BY <2>1
  <2>4. Picture!Near(<<X[0], 0>>, <<X[1], 1>>) /\ Picture!Near(<<X[0], 0>>, <<X[1], -1>>)
    <3>1. X[0] \in Int /\ X[1] \in Int /\ 0 \in Int /\ 1 \in Int /\ -1 \in Int
      BY <2>1
    <3> QED
      BY <2>3, <3>1, NextTo, Zenon
  <2>5. Beside(X, b, p, X[1], 1) /\ Beside(X, b, p, X[1], -1)
    BY <1>4, <2>1, <2>2, <2>4 DEF Beside
  <2>6. <<X[1], 1>> # <<X[1], -1>> /\ 1 \in Int /\ -1 \in Int
    OBVIOUS
  <2> QED
    BY <2>1, <2>5, <2>6, Zenon
<1>5. CASE n # 0
  <2> DEFINE m == n - 1
  <2>1. m \in 0 .. b - 1 /\ m + 1 = n /\ n \in 0 .. b
    BY <1>1, <1>5
  <2>2. X[m] \in {X[n], X[n] + 1} /\ X[m] \in Int /\ X[n] \in Int /\ X[n] >= n /\ m \in Int /\ n \in Int
    BY <1>2, <2>1
  <2>3. Beside(X, b, p, X[m], m)
    <3>1. n - m \in {1, -1} /\ X[n] - X[m] \in {0, 1, -1}
      BY <2>1, <2>2
    <3>2. Picture!Near(<<X[n], n>>, <<X[m], m>>)
      BY <2>2, <3>1, NextTo, Zenon
    <3> QED
      BY <1>3, <2>1, <2>2, <3>2 DEF Beside
  <2> HIDE DEF m
  <2>4. CASE n + 1 \in 0 .. b - 1
    <3> DEFINE k == n + 1
    <3>1. k \in 0 .. b - 1 /\ X[k] \in Int /\ X[k] \in {X[n], X[n] - 1} /\ k \in Int
      BY <1>2, <2>4
    <3>2. n - k \in {1, -1} /\ X[n] - X[k] \in {0, 1, -1} /\ k # m
      BY <2>1, <2>2, <3>1
    <3> HIDE DEF k
    <3>3. Picture!Near(<<X[n], n>>, <<X[k], k>>)
      BY <2>2, <3>1, <3>2, NextTo, Zenon
    <3>4. Beside(X, b, p, X[k], k)
      BY <1>3, <3>1, <3>3 DEF Beside
    <3>5. <<X[m], m>> # <<X[k], k>>
      BY <3>2
    <3> QED
      BY <2>2, <2>3, <3>1, <3>4, <3>5, Zenon
  <2>5. CASE n + 1 \notin 0 .. b - 1
    <3>1. n + 1 = b
      BY <1>1, <2>5
    <3>2. X[n] \in {n, n + 1}
      <4>1. X[n + 1] < n + 1 /\ X[n + 1] \in {X[n], X[n] - 1}
        BY <1>1, <1>2, <3>1
      <4> QED
        BY <2>2, <4>1
    <3>3. CASE X[n] = n + 1
      <4>1. X[n] - n \in {1, -1} /\ n - X[n] \in {0, 1, -1} /\ X[n] # m
        BY <2>1, <2>2, <3>3
      <4>2. Picture!Near(<<X[n], n>>, <<n, X[n]>>)
        BY <2>2, <4>1, NextTo, Zenon
      <4>3. Beside(X, b, p, n, X[n])
        BY <1>3, <2>2, <4>2 DEF Beside
      <4>4. <<X[m], m>> # <<n, X[n]>>
        BY <4>1
      <4> QED
        BY <2>2, <2>3, <4>3, <4>4
    <3>4. CASE X[n] = n
      <4>1. X[n] - m \in {1, -1} /\ n - X[m] \in {0, 1, -1} /\ X[m] # m
        BY <2>1, <2>2, <3>4
      <4>2. Picture!Near(<<X[n], n>>, <<m, X[m]>>)
        BY <2>2, <4>1, NextTo, Zenon
      <4>3. Beside(X, b, p, m, X[m])
        BY <1>3, <2>1, <2>2, <4>2 DEF Beside
      <4>4. <<X[m], m>> # <<m, X[m]>>
        BY <4>1
      <4> QED
        BY <2>2, <2>3, <4>3, <4>4
    <3> QED
      BY <3>2, <3>3, <3>4
  <2> QED
    BY <2>4, <2>5
<1> QED
  BY <1>4, <1>5

(* So is any pixel of the circle next to two.                                *)
LEMMA InTurned ==
    ASSUME NEW X, NEW b, NEW c \in Int, NEW d \in Int, NEW s \in Sign, NEW t \in Sign,
           InCircle(X, b, c, d)
    PROVE  InCircle(X, b, s * c, t * d) /\ InCircle(X, b, t * d, s * c)
<1>1. Picture!Abs(s * c) = Picture!Abs(c) /\ Picture!Abs(t * d) = Picture!Abs(d)
  BY Turned
<1> QED
  BY <1>1, Zenon DEF InCircle

LEMMA BesideTurned ==
    ASSUME NEW X, NEW b, NEW u \in Int, NEW v \in Int, NEW s \in Sign, NEW t \in Sign,
           NEW c \in Int, NEW d \in Int, Beside(X, b, <<u, v>>, c, d)
    PROVE  /\ Beside(X, b, <<s * u, t * v>>, s * c, t * d)
           /\ Beside(X, b, <<t * v, s * u>>, t * d, s * c)
<1>1. s * c \in Int /\ t * d \in Int
  BY Turned
<1>2. InCircle(X, b, s * c, t * d) /\ InCircle(X, b, t * d, s * c)
  BY InTurned DEF Beside
<1>3. /\ Picture!Near(<<s * u, t * v>>, <<s * c, t * d>>)
      /\ Picture!Near(<<t * v, s * u>>, <<t * d, s * c>>)
  BY NearTurned DEF Beside
<1> QED
  BY <1>1, <1>2, <1>3 DEF Beside

LEMMA BesideAll ==
    ASSUME NEW X, NEW b, NEW r \in Nat \ {0}, Eighth(X, b, r), r > 1,
           NEW u \in Int, NEW v \in Int, InCircle(X, b, u, v)
    PROVE  \E c, d, e, f \in Int :
               /\ <<c, d>> # <<e, f>>
               /\ Beside(X, b, <<u, v>>, c, d) /\ Beside(X, b, <<u, v>>, e, f)
<1>1. PICK s \in Sign : u = s * Picture!Abs(u)
  BY Unsigned
<1>2. PICK t \in Sign : v = t * Picture!Abs(v)
  BY Unsigned
<1>3. PICK n \in 0 .. b - 1 : \/ Picture!Abs(u) = X[n] /\ Picture!Abs(v) = n
                              \/ Picture!Abs(u) = n /\ Picture!Abs(v) = X[n]
  BY DEF InCircle
<1>4. PICK c, d, e, f \in Int :
          /\ <<c, d>> # <<e, f>>
          /\ Beside(X, b, <<X[n], n>>, c, d) /\ Beside(X, b, <<X[n], n>>, e, f)
  BY BesideRow
<1>5. X[n] \in Int /\ n \in Int
  BY EighthTypes
<1>6. CASE u = s * X[n] /\ v = t * n
  <2>1. /\ Beside(X, b, <<s * X[n], t * n>>, s * c, t * d)
        /\ Beside(X, b, <<s * X[n], t * n>>, s * e, t * f)
    BY <1>4, <1>5, BesideTurned, Zenon
  <2>2. <<s * c, t * d>> # <<s * e, t * f>> /\ s * c \in Int /\ t * d \in Int /\ s * e \in Int /\ t * f \in Int
    BY <1>4, Turned
  <2> QED
    BY <1>6, <2>1, <2>2, Zenon
<1>7. CASE u = s * n /\ v = t * X[n]
  <2>1. /\ Beside(X, b, <<s * n, t * X[n]>>, s * d, t * c)
        /\ Beside(X, b, <<s * n, t * X[n]>>, s * f, t * e)
    BY <1>4, <1>5, BesideTurned, Zenon
  <2>2. <<s * d, t * c>> # <<s * f, t * e>> /\ s * d \in Int /\ t * c \in Int /\ s * f \in Int /\ t * e \in Int
    BY <1>4, Turned
  <2> QED
    BY <1>7, <2>1, <2>2, Zenon
<1> QED
  BY <1>1, <1>2, <1>3, <1>6, <1>7

Rows(X, b) == {<<X[n], n>> : n \in 0 .. b - 1}

Turns(eighth) ==
    LET quarter == eighth \cup {<<p[2], p[1]>> : p \in eighth}
    IN  {<<0 + s * p[1], 0 + t * p[2]>> : s \in {-1, 1}, t \in {-1, 1}, p \in quarter}

LEMMA CirclePixels ==
    ASSUME NEW X, NEW b, NEW r \in Nat \ {0}, Eighth(X, b, r),
           NEW circle, circle = Turns(Rows(X, b))
    PROVE  /\ \A p \in circle : \E c, d \in Int : p = <<c, d>> /\ InCircle(X, b, c, d)
           /\ \A c, d \in Int : InCircle(X, b, c, d) => <<c, d>> \in circle
<1> DEFINE eighth == Rows(X, b)
           quarter == eighth \cup {<<p[2], p[1]>> : p \in eighth}
<1>0. circle = {<<0 + s * p[1], 0 + t * p[2]>> : s \in {-1, 1}, t \in {-1, 1}, p \in quarter}
  BY DEF Turns
<1>1. \A n \in 0 .. b - 1 : n \in Nat /\ X[n] \in Nat
  BY EighthTypes
<1>2. \A n \in 0 .. b - 1 : <<X[n], n>> \in quarter /\ <<n, X[n]>> \in quarter
  <2>1. ASSUME NEW n \in 0 .. b - 1 PROVE <<X[n], n>> \in quarter /\ <<n, X[n]>> \in quarter
    <3> DEFINE p == <<X[n], n>>
    <3>1. p \in eighth /\ p[1] = X[n] /\ p[2] = n
      BY DEF Rows
    <3> HIDE DEF p
    <3>2. <<p[2], p[1]>> \in quarter /\ p \in quarter
      BY <3>1
    <3> QED
      BY <3>1, <3>2 DEF p
  <2> QED
    BY <2>1
<1>3. \A p \in quarter : \E n \in 0 .. b - 1 : p = <<X[n], n>> \/ p = <<n, X[n]>>
  <2>1. ASSUME NEW p \in quarter
        PROVE  \E n \in 0 .. b - 1 : p = <<X[n], n>> \/ p = <<n, X[n]>>
    <3>1. CASE p \in eighth
      BY <3>1 DEF Rows
    <3>2. CASE p \notin eighth
      <4>1. PICK z \in eighth : p = <<z[2], z[1]>>
        BY <3>2
      <4>2. PICK n \in 0 .. b - 1 : z = <<X[n], n>>
        BY DEF Rows
      <4> QED
        BY <4>1, <4>2
    <3> QED
      BY <3>1, <3>2
  <2> QED
    BY <2>1
<1> HIDE DEF quarter
<1>4. \A s \in Sign, k \in Nat : Picture!Abs(s * k) = k /\ 0 + s * k = s * k /\ s * k \in Int
  BY DEF Sign, Picture!Abs
<1>5. ASSUME NEW p \in circle PROVE \E c, d \in Int : p = <<c, d>> /\ InCircle(X, b, c, d)
  <2>1. PICK s \in Sign, t \in Sign, z \in quarter : p = <<0 + s * z[1], 0 + t * z[2]>>
    BY <1>0 DEF Sign
  <2>2. PICK n \in 0 .. b - 1 : z = <<X[n], n>> \/ z = <<n, X[n]>>
    BY <1>3
  <2> DEFINE c == s * z[1]
             d == t * z[2]
  <2>3. z[1] \in Nat /\ z[2] \in Nat /\ ((z[1] = X[n] /\ z[2] = n) \/ (z[1] = n /\ z[2] = X[n]))
    BY <1>1, <2>2
  <2>4. p = <<c, d>> /\ c \in Int /\ d \in Int /\ Picture!Abs(c) = z[1] /\ Picture!Abs(d) = z[2]
    BY <1>4, <2>1, <2>3
  <2> HIDE DEF c, d
  <2>5. InCircle(X, b, c, d)
    BY <2>3, <2>4 DEF InCircle
  <2> QED
    BY <2>4, <2>5
<1>6. ASSUME NEW c \in Int, NEW d \in Int, InCircle(X, b, c, d) PROVE <<c, d>> \in circle
  <2>1. PICK s \in Sign : c = s * Picture!Abs(c)
    BY Unsigned
  <2>2. PICK t \in Sign : d = t * Picture!Abs(d)
    BY Unsigned
  <2> DEFINE z == <<Picture!Abs(c), Picture!Abs(d)>>
  <2>3. z \in quarter
    BY <1>2, <1>6 DEF InCircle
  <2>4. z[1] = Picture!Abs(c) /\ z[2] = Picture!Abs(d) /\ Picture!Abs(c) \in Nat /\ Picture!Abs(d) \in Nat
    BY Unsigned
  <2> HIDE DEF z
  <2>5. c = 0 + s * z[1] /\ d = 0 + t * z[2]
    BY <1>4, <2>1, <2>2, <2>4
  <2>6. s \in {-1, 1} /\ t \in {-1, 1}
    BY DEF Sign
  <2> QED
    BY <1>0, <2>3, <2>5, <2>6
<1> QED
  BY <1>5, <1>6

LEMMA CircleRound ==
    ASSUME NEW r \in Nat \ {0}
    PROVE  Picture!Round(r)
<1> DEFINE step == CHOOSE f : IsCircle(f, r)
           beyond == CHOOSE n \in DOMAIN step :
                         step[n].x < step[n].y /\ \A m \in 0 .. n - 1 : step[m].x >= step[m].y
           eighth == {<<step[n].x, step[n].y>> : n \in 0 .. beyond - 1}
           quarter == eighth \cup {<<p[2], p[1]>> : p \in eighth}
           circle == {<<0 + s * p[1], 0 + t * p[2]>> : s \in {-1, 1}, t \in {-1, 1}, p \in quarter}
<1>1. Picture!TFT_drawcircle_int(0, 0, r) = circle
  BY DEF Picture!TFT_drawcircle_int, IsCircle
<1>2. IsCircle(step, r) /\ step \in [0 .. 2 * r -> Ring]
  <2>1. PICK f \in [0 .. 2 * r -> Ring] : IsCircle(f, r)
    BY CircleExists
  <2>2. IsCircle(step, r)
    BY <2>1, Zenon
  <2> HIDE DEF step
  <2>3. DOMAIN step = 0 .. 2 * r
    BY <2>2 DEF IsCircle
  <2>4. step = [n \in 0 .. 2 * r |-> step[n]]
    BY <2>2 DEF IsCircle
  <2>5. \A n \in 0 .. 2 * r : step[n] \in Ring
    <3> DEFINE T == {n \in 0 .. 2 * r : step[n] \in Ring}
    <3>1. \A n \in 0 .. 2 * r : step[n] = IF n = 0 THEN FirstOfCircle(r) ELSE Picture!Around(step[n - 1], r)
      BY <2>2, <2>3 DEF IsCircle, FirstOfCircle
    <3>2. 0 \in T
      BY <3>1, FirstOnCircle
    <3>3. \A n \in 1 .. 2 * r : n - 1 \in T => n \in T
      <4>1. \A n \in 1 .. 2 * r : n \in 0 .. 2 * r /\ n # 0
        OBVIOUS
      <4> QED
        BY <3>1, <4>1, AroundRing
    <3>4. 2 * r \in Nat
      OBVIOUS
    <3> HIDE DEF T
    <3>5. \A n \in 0 .. 2 * r : n \in T
      BY <3>2, <3>3, <3>4, Upwards
    <3> QED
      BY <3>5 DEF T
  <2> QED
    BY <2>2, <2>4, <2>5
<1> HIDE DEF step
<1>3. PICK b \in 1 .. r :
          /\ Eighth([n \in 0 .. b |-> step[n].x], b, r)
          /\ step[b].x < step[b].y /\ \A n \in 0 .. b - 1 : step[n].x >= step[n].y
          /\ \A n \in 0 .. b : step[n].y = n
  BY <1>2, CircleSteps
<1>4. \A n \in 0 .. 2 * r : step[n].x \in Int /\ step[n].y \in Int
  BY <1>2 DEF Ring
<1>5. beyond = b
  <2> DEFINE P(n) == step[n].x < step[n].y /\ \A m \in 0 .. n - 1 : step[m].x >= step[m].y
  <2>1. DOMAIN step = 0 .. 2 * r /\ b \in 0 .. 2 * r
    BY <1>2
  <2>2. P(b)
    BY <1>3
  <2>3. ASSUME NEW n \in 0 .. 2 * r, P(n), n # b PROVE FALSE
    <3>1. CASE n < b
      <4>1. n \in 0 .. b - 1
        BY <3>1
      <4>2. step[n].x >= step[n].y /\ step[n].x < step[n].y
        BY <1>3, <2>3, <4>1
      <4> QED
        BY <1>4, <4>2
    <3>2. CASE ~(n < b)
      <4>1. b \in 0 .. n - 1
        BY <2>3, <3>2
      <4>2. step[b].x >= step[b].y /\ step[b].x < step[b].y
        BY <1>3, <2>3, <4>1
      <4> QED
        BY <1>4, <2>1, <4>2
    <3> QED
      BY <3>1, <3>2
  <2>4. beyond = CHOOSE n \in DOMAIN step : P(n)
    OBVIOUS
  <2> HIDE DEF P, beyond
  <2> QED
    BY <2>1, <2>2, <2>3, <2>4
<1> DEFINE X == [n \in 0 .. b |-> step[n].x]
<1>6. Eighth(X, b, r)
  BY <1>3
<1> HIDE DEF beyond
<1>7. eighth = Rows(X, b)
  <2>1. \A n \in 0 .. b - 1 : n \in 0 .. b
    OBVIOUS
  <2>2. \A n \in 0 .. b - 1 : step[n].x = X[n] /\ step[n].y = n
    BY <1>3, <2>1
  <2> HIDE DEF X
  <2> QED
    BY <1>5, <2>2 DEF Rows
<1> HIDE DEF X, eighth
<1>8. circle = Turns(eighth)
  BY DEF Turns
<1>9. circle = Turns(Rows(X, b))
  BY <1>7, <1>8
<1> HIDE DEF quarter, circle
<1>10. /\ \A p \in circle : \E c, d \in Int : p = <<c, d>> /\ InCircle(X, b, c, d)
       /\ \A c, d \in Int : InCircle(X, b, c, d) => <<c, d>> \in circle
  BY <1>6, <1>9, CirclePixels
<1>11. ASSUME NEW p \in circle
       PROVE  p[1] * p[1] + p[2] * p[2] \in (r - 1) * (r - 1) .. r * r
  <2>1. PICK c \in Int, d \in Int : p = <<c, d>> /\ InCircle(X, b, c, d)
    BY <1>10
  <2>2. PICK n \in 0 .. b - 1 : \/ Picture!Abs(c) = X[n] /\ Picture!Abs(d) = n
                                \/ Picture!Abs(c) = n /\ Picture!Abs(d) = X[n]
    BY <2>1 DEF InCircle
  <2>3. c * c = Picture!Abs(c) * Picture!Abs(c) /\ d * d = Picture!Abs(d) * Picture!Abs(d)
    BY Unsigned
  <2>4. X[n] * X[n] + n * n \in (r - 1) * (r - 1) .. r * r
    BY <1>6 DEF Eighth
  <2>5. X[n] * X[n] + n * n = n * n + X[n] * X[n]
    <3>1. X[n] \in Int /\ n \in Int
      BY <1>6, EighthTypes
    <3> QED
      BY <3>1
  <2>6. p[1] = c /\ p[2] = d
    BY <2>1
  <2> QED
    BY <2>2, <2>3, <2>4, <2>5, <2>6
<1>12. ASSUME NEW p \in circle, r > 1
       PROVE  LET near == {z \in circle : Picture!Near(p, z)}
              IN  \E u, v \in near : u # v
  <2>1. PICK c \in Int, d \in Int : p = <<c, d>> /\ InCircle(X, b, c, d)
    BY <1>10
  <2>2. PICK u, v, w, z \in Int :
            <<u, v>> # <<w, z>> /\ Beside(X, b, <<c, d>>, u, v) /\ Beside(X, b, <<c, d>>, w, z)
    BY <1>6, <1>12, <2>1, BesideAll
  <2>3. /\ <<u, v>> \in circle /\ Picture!Near(p, <<u, v>>)
        /\ <<w, z>> \in circle /\ Picture!Near(p, <<w, z>>)
    BY <1>10, <2>1, <2>2 DEF Beside
  <2> QED
    BY <2>2, <2>3, Zenon
<1>13. \A p \in circle :
           /\ p[1] * p[1] + p[2] * p[2] \in (r - 1) * (r - 1) .. r * r
           /\ r > 1 => LET near == {z \in circle : Picture!Near(p, z)}
                       IN  \E u, v \in near : u # v
  BY <1>11, <1>12, Zenon
<1> QED
  BY <1>1, <1>13, Zenon DEF Picture!Round

-----------------------------------------------------------------------------
(* Pixels in the frame buffer: the bytes of a line are those of its pixels,  *)
(* and what is left of line_length.                                          *)
LEMMA PixelsOwn ==
    ASSUME NEW xres \in Nat, NEW yres \in Nat, NEW bytes \in Nat \ {0}, NEW row \in Nat,
           xres * bytes <= row, NEW x \in 0 .. xres - 1, NEW y \in 0 .. yres - 1
    PROVE  LET first == (xres - x - 1) * bytes + (yres - y - 1) * row
           IN  /\ first \in Nat /\ first + bytes <= yres * row
               /\ (yres - y - 1) * row <= first
               /\ first + bytes <= (yres - y - 1) * row + row
<1> DEFINE a == xres - x - 1
           c == yres - y - 1
           u == a * bytes
           v == c * row
<1>1. a \in Nat /\ c \in Nat /\ a + 1 <= xres /\ c + 1 <= yres
  OBVIOUS
<1>2. u \in Nat /\ v \in Nat /\ xres * bytes \in Nat /\ yres * row \in Nat
  BY <1>1
<1>3. u + bytes <= xres * bytes
  <2>1. (a + 1) * bytes <= xres * bytes
    BY <1>1, Product
  <2>2. (a + 1) * bytes = u + bytes
    BY <1>1
  <2> QED
    BY <2>1, <2>2
<1>4. v + row <= yres * row
  <2>1. (c + 1) * row <= yres * row
    BY <1>1, Product
  <2>2. (c + 1) * row = v + row
    BY <1>1
  <2> QED
    BY <2>1, <2>2
<1>5. u + v \in Nat /\ u + v + bytes <= yres * row /\ v <= u + v /\ u + v + bytes <= v + row
  <2> HIDE DEF u, v
  <2> QED
    BY <1>2, <1>3, <1>4
<1> QED
  BY <1>5

LEMMA ScreenOwn ==
    ASSUME NEW screen \in ScreenInputs
    PROVE  Picture!OwnBytes(screen)
<1> DEFINE xres == screen.xres
           yres == screen.yres
           bytes == screen.bytes
           row == screen.line_length
           first(x, y) == (xres - x - 1) * bytes + (yres - y - 1) * row
           pixels == Picture!TFT_Fill_Rectangle(0, 0, screen.xres, screen.yres)
<1>1. /\ xres \in Nat /\ yres \in Nat /\ bytes \in Nat \ {0} /\ row \in Nat /\ xres * bytes <= row
  BY FigureInputs
<1>2. pixels = (0 .. xres - 1) \X (0 .. yres - 1)
  BY DEF Picture!TFT_Fill_Rectangle
<1>3. ASSUME NEW x \in 0 .. xres - 1, NEW y \in 0 .. yres - 1
      PROVE  Picture!draw_pixel(screen, x, y) = first(x, y) .. first(x, y) + bytes - 1
  <2>1. ~(x >= xres) /\ ~(y >= yres)
    BY <1>1
  <2> QED
    BY <2>1, Zenon DEF Picture!draw_pixel
<1> HIDE DEF xres, yres, bytes, row
<1>4. \A x \in 0 .. xres - 1, y \in 0 .. yres - 1 :
          /\ first(x, y) \in Nat /\ first(x, y) + bytes <= yres * row
          /\ (yres - y - 1) * row <= first(x, y)
          /\ first(x, y) + bytes <= (yres - y - 1) * row + row
  BY <1>1, PixelsOwn
<1> HIDE DEF first
<1>5. yres * row \in Nat
  BY <1>1
<1>6. ASSUME NEW x \in 0 .. xres - 1, NEW y \in 0 .. yres - 1
      PROVE  \E n \in 0 .. yres * row - bytes :
                 Picture!draw_pixel(screen, x, y) = n .. n + bytes - 1
  <2> DEFINE n == first(x, y)
  <2>1. n \in Nat /\ n + bytes <= yres * row
    BY <1>4
  <2>2. Picture!draw_pixel(screen, x, y) = n .. n + bytes - 1
    BY <1>3
  <2> HIDE DEF n
  <2>3. n \in 0 .. yres * row - bytes
    BY <1>1, <1>5, <2>1
  <2> QED
    BY <2>2, <2>3, Zenon
<1>7. ASSUME NEW x \in 0 .. xres - 1, NEW y \in 0 .. yres - 1,
             NEW u \in 0 .. xres - 1, NEW v \in 0 .. yres - 1, y < v \/ (y = v /\ x < u)
      PROVE  first(u, v) + bytes <= first(x, y)
  <2>1. CASE y < v
    <3> DEFINE c == yres - y - 1
               d == yres - v - 1
    <3>1. c \in Nat /\ d \in Nat /\ d + 1 <= c
      BY <1>1, <2>1
    <3>2. first(u, v) + bytes <= d * row + row /\ c * row <= first(x, y)
      BY <1>4
    <3> HIDE DEF c, d
    <3>3. (d + 1) * row <= c * row
      BY <1>1, <3>1, Product
    <3>4. (d + 1) * row = d * row + row /\ c * row \in Int /\ d * row \in Int
      BY <1>1, <3>1
    <3>5. first(u, v) \in Int /\ first(x, y) \in Int
      BY <1>4
    <3> QED
      BY <1>1, <3>2, <3>3, <3>4, <3>5
  <2>2. CASE y = v /\ x < u
    <3> DEFINE c == xres - x - 1
               d == xres - u - 1
               w == (yres - v - 1) * row
    <3>1. c \in Nat /\ d \in Nat /\ d + 1 <= c
      BY <1>1, <2>2
    <3>2. first(u, v) = d * bytes + w /\ first(x, y) = c * bytes + w
      BY <2>2 DEF first
    <3>3. w \in Int
      BY <1>1
    <3> HIDE DEF c, d, w
    <3>4. (d + 1) * bytes <= c * bytes
      BY <1>1, <3>1, Product
    <3>5. (d + 1) * bytes = d * bytes + bytes /\ c * bytes \in Int /\ d * bytes \in Int
      BY <1>1, <3>1
    <3> QED
      BY <1>1, <3>2, <3>3, <3>4, <3>5
  <2> QED
    BY <1>7, <2>1, <2>2
<1>8. ASSUME NEW x \in 0 .. xres - 1, NEW y \in 0 .. yres - 1,
             NEW u \in 0 .. xres - 1, NEW v \in 0 .. yres - 1, x # u \/ y # v
      PROVE  Picture!draw_pixel(screen, x, y) \cap Picture!draw_pixel(screen, u, v) = {}
  <2> DEFINE n == first(x, y)
             m == first(u, v)
  <2>1. n \in Nat /\ m \in Nat
    BY <1>4
  <2>2. m + bytes <= n \/ n + bytes <= m
    <3>1. \/ y < v \/ (y = v /\ x < u)
          \/ v < y \/ (v = y /\ u < x)
      BY <1>1, <1>8
    <3> QED
      BY <1>7, <3>1
  <2> HIDE DEF n, m
  <2>3. (n .. n + bytes - 1) \cap (m .. m + bytes - 1) = {}
    BY <1>1, <2>1, <2>2
  <2>4. /\ Picture!draw_pixel(screen, x, y) = n .. n + bytes - 1
        /\ Picture!draw_pixel(screen, u, v) = m .. m + bytes - 1
    BY <1>3 DEF n, m
  <2> QED
    BY <2>3, <2>4
<1> HIDE DEF pixels
<1>9. ASSUME NEW p \in pixels
      PROVE  /\ \E n \in 0 .. yres * row - bytes :
                    Picture!draw_pixel(screen, p[1], p[2]) = n .. n + bytes - 1
             /\ \A z \in pixels :
                    p # z => Picture!draw_pixel(screen, p[1], p[2])
                                 \cap Picture!draw_pixel(screen, z[1], z[2]) = {}
  <2>1. p[1] \in 0 .. xres - 1 /\ p[2] \in 0 .. yres - 1
    BY <1>2
  <2>2. ASSUME NEW z \in pixels, p # z
        PROVE  /\ z[1] \in 0 .. xres - 1 /\ z[2] \in 0 .. yres - 1
               /\ p[1] # z[1] \/ p[2] # z[2]
    BY <1>2, <2>2
  <2> QED
    BY <1>6, <1>8, <2>1, <2>2
<1> QED
  BY <1>9, Zenon DEF Picture!OwnBytes, pixels, xres, yres, bytes, row

-----------------------------------------------------------------------------
LEMMA InitInput == InitCodecs => InputKnown
  BY DEF InitCodecs, InputKnown

LEMMA NextInput == InputKnown /\ [NextCodecs]_input => InputKnown'
  BY DEF NextCodecs, InputKnown

LEMMA InputAlways == SpecCodecs => []InputKnown
  BY InitInput, NextInput, PTL DEF SpecCodecs

LEMMA InputShown == InputKnown => BarShown
<1> SUFFICES ASSUME InputKnown, input.codec = "bar"
             PROVE  Bars!Shown(input.picture, input, input.values)
  BY DEF BarShown
<1>1. input \in BarInputs
  BY SocketInputs, GpsInputs, BoardInputs, FigureInputs, OtherInputs DEF InputKnown, Nothing
<1> QED
  BY <1>1, BarKnown

LEMMA InputDrawn == InputKnown => FiguresDrawn
<1> SUFFICES ASSUME InputKnown PROVE FiguresDrawn
  OBVIOUS
<1>1. ASSUME input.codec = "line"
      PROVE  Picture!Straight(input.x0, input.y0, input.x0 + input.dx, input.y0 + input.dy)
  <2>1. input \in LineInputs
    BY <1>1, SocketInputs, GpsInputs, BoardInputs, FigureInputs, OtherInputs
    DEF InputKnown, Nothing
  <2>2. /\ input.x0 \in Int /\ input.x0 + input.dx \in Int
        /\ input.y0 \in Int /\ input.y0 + input.dy \in Int
    BY <2>1, FigureInputs
  <2> QED
    BY <2>2, LineStraight
<1>2. ASSUME input.codec = "circle" PROVE Picture!Round(input.radius)
  <2>1. input \in CircleInputs
    BY <1>2, SocketInputs, GpsInputs, BoardInputs, FigureInputs, OtherInputs
    DEF InputKnown, Nothing
  <2>2. input.radius \in Nat \ {0}
    BY <2>1, FigureInputs
  <2> QED
    BY <2>2, CircleRound
<1>3. ASSUME input.codec = "screen" PROVE Picture!OwnBytes(input)
  <2>1. input \in ScreenInputs
    BY <1>3, SocketInputs, GpsInputs, BoardInputs, FigureInputs, OtherInputs
    DEF InputKnown, Nothing
  <2> QED
    BY <2>1, ScreenOwn
<1> QED
  BY <1>1, <1>2, <1>3 DEF FiguresDrawn

(* Updates of a bar leave the picture of its last value (bargraph.cpp).       *)
THEOREM BarsCorrect == SpecCodecs => []BarShown
  BY InputAlways, InputShown, PTL

(* Lines go straight to their ends, circles have no gap and are round, and    *)
(* pixels have bytes of their own (display_draw.cpp, display.cpp).            *)
THEOREM FiguresCorrect == SpecCodecs => []FiguresDrawn
  BY InputAlways, InputDrawn, PTL
=============================================================================
