------------------------------ MODULE BarGraph ------------------------------
(* display/bargraph.cpp: bars that are updated by drawing no more than what  *)
(* has changed since the last value.  A picture is a function of the pixels  *)
(* to their colours; titles, labels and the text of a value are left out.    *)
EXTENDS Integers, Sequences

Draw == INSTANCE Drawing

Drawn(picture, pixels, colour) ==
    [p \in DOMAIN picture |-> IF p \in pixels THEN colour ELSE picture[p]]

(* The end of the bar.  With maxval and value as integers the exact product  *)
(* is a whole number or well away from one; err is 1 where floats make a     *)
(* whole number a little less.                                               *)
End(pb, value) ==
    LET n == (value - pb.minval) * (2 * pb.width - 1)
        v == Draw!Quotient(n, 2 * pb.maxval)
    IN  pb.minx + 1 + IF n > 0 /\ n % (2 * pb.maxval) = 0 THEN v - pb.err ELSE v

(* What drawmode 0 draws before the bar.                                     *)
Frame(picture, pb) ==
    Drawn(Drawn(picture,
                Draw!TFT_Rectangle_filled(pb.minx, pb.miny, pb.minx + pb.width, pb.miny + pb.height),
                "black"),
          Draw!TFT_Rectangle(pb.minx, pb.miny, pb.minx + pb.width, pb.miny + pb.height, 1), "red")

(* From the last end to the new one, in either direction.                    *)
Change(g, xe) ==
    IF xe > g.lastval
    THEN Drawn(g.picture, Draw!TFT_Rectangle_filled(g.lastval, g.ytop, xe, g.ybottom), "yellow")
    ELSE Drawn(g.picture, Draw!TFT_Rectangle_filled(xe, g.ytop, g.lastval, g.ybottom), "black")

(* The field of the value, right of the bar, is cleared.                     *)
ClearValue(picture, pb) ==
    IF pb.showvalue
    THEN Drawn(picture, Draw!TFT_Rectangle_filled(pb.minx + pb.bgx, pb.miny + pb.bgy,
                            pb.minx + pb.bgx + pb.bgw, pb.miny + pb.bgy + pb.bgh), "background")
    ELSE picture

(* Mutant: a bar that gets shorter does not move its last end.               *)
putvalue_bargraph_up(g, pb, value, drawmode) ==
    LET xe == End(pb, value)
        whole == IF drawmode = 0
                 THEN [g EXCEPT !.picture = Frame(@, pb), !.lastval = xe,
                                !.ytop = pb.miny + 1, !.ybottom = pb.miny + pb.height - 1]
                 ELSE g
        changed == [whole EXCEPT !.picture = ClearValue(Change(whole, xe), pb)]
    IN  [(IF drawmode \in {0, 1} THEN changed ELSE whole)
            EXCEPT !.lastval = IF xe > @ THEN xe ELSE @]

putvalue_bargraph(g, pb, value, drawmode) ==
    LET xe == End(pb, value)
        whole == IF drawmode = 0
                 THEN [g EXCEPT !.picture = Frame(@, pb), !.lastval = xe,
                                !.ytop = pb.miny + 1, !.ybottom = pb.miny + pb.height - 1]
                 ELSE g
        changed == [whole EXCEPT !.picture = ClearValue(Change(whole, xe), pb)]
    IN  [(IF drawmode \in {0, 1} THEN changed ELSE whole) EXCEPT !.lastval = xe]

(* The graph's entry of bgint[] and the picture, before any value is drawn.  *)
create_bargraph(picture, pb) ==
    putvalue_bargraph([picture |-> picture, lastval |-> 0, ytop |-> 0, ybottom |-> 0], pb, 0, 2)

(* The graph drawn whole at its minimum, then each of the values in turn.    *)
Put(picture, pb, values) ==
    LET after[n \in 0 .. Len(values)] ==
            IF n = 0 THEN putvalue_bargraph(create_bargraph(picture, pb), pb, pb.minval, 0)
            ELSE putvalue_bargraph(after[n - 1], pb, values[n], 1)
    IN  after[Len(values)].picture

-----------------------------------------------------------------------------
(* The picture is that of the last value alone: yellow up to its end, black  *)
(* in the rest of the frame, the red frame whole, and nothing outside it but *)
(* the value's field.  A bar from 0 is full at its maximum; the code divides *)
(* by maxval, so that one from more than 0 is not.                           *)
Shown(picture, pb, values) ==
    LET now == Put(picture, pb, values)
        last == values[Len(values)]
        right == pb.minx + pb.width
        bottom == pb.miny + pb.height
        Colour(p) ==
            IF p[1] \notin pb.minx .. right \/ p[2] \notin pb.miny .. bottom
            THEN IF /\ pb.showvalue
                    /\ p[1] - pb.minx \in pb.bgx .. pb.bgx + pb.bgw - 1
                    /\ p[2] - pb.miny \in pb.bgy .. pb.bgy + pb.bgh - 1
                 THEN "background" ELSE picture[p]
            ELSE IF p[1] \in {pb.minx, right} \/ p[2] \in {pb.miny, bottom} THEN "red"
            ELSE IF p[1] < End(pb, last) /\ p[2] < bottom - 1 THEN "yellow"
            ELSE "black"
    IN  /\ \A p \in DOMAIN picture : now[p] = Colour(p)
        /\ last = pb.maxval /\ pb.minval = 0 => End(pb, last) = right
=============================================================================
