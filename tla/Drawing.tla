------------------------------- MODULE Drawing ------------------------------
(* display/display.cpp and display_draw.cpp: what the drawing functions draw *)
(* is a set of pixels, all of one colour, and what a pixel becomes in the    *)
(* frame buffer is a set of bytes.  Parameters are those of the code; lines  *)
(* and circles are one pixel wide and lines are without a pattern.           *)
EXTENDS Integers, Sequences

Abs(n) == IF n < 0 THEN -n ELSE n

(* Division of an int.                                                       *)
Quotient(n, d) == IF n < 0 THEN -((-n) \div d) ELSE n \div d

(* The bytes of a pixel, turned by half a circle (FLIPVERT), of a screen     *)
(* with xres, yres, line_length and so many bytes per pixel.                 *)
draw_pixel(screen, x, y) ==
    IF x >= screen.xres \/ y >= screen.yres THEN {}
    ELSE LET first == (screen.xres - x - 1) * screen.bytes
                      + (screen.yres - y - 1) * screen.line_length
         IN  first .. first + screen.bytes - 1

(* Fills up to, but not with, xe and ye.                                     *)
TFT_Fill_Rectangle(xs, ys, xe, ye) == (xs .. xe - 1) \X (ys .. ye - 1)

TFT_Hor_Line(xs, xe, ypos, linewidth) == (xs .. xe - 1) \X (ypos .. ypos + linewidth - 1)

TFT_Vert_Line(xpos, ys, ye, linewidth) == (xpos .. xpos + linewidth - 1) \X (ys .. ye - 1)

TFT_Rectangle(xs, ys, xe, ye, linewidth) ==
    TFT_Hor_Line(xs + linewidth, xe + 1, ys, linewidth)
    \cup TFT_Hor_Line(xs + linewidth, xe + linewidth - 1, ye, linewidth)
    \cup TFT_Vert_Line(xs, ys, ye + linewidth, linewidth)
    \cup TFT_Vert_Line(xe, ys, ye + linewidth, linewidth)

TFT_Rectangle_filled(xs, ys, xe, ye) ==
    UNION {TFT_Hor_Line(xs, xe, y, 1) : y \in ys .. ye - 1}

FirstErr(dx, dy) == Quotient(IF dx > dy THEN dx ELSE -dy, 2)

(* The next pixel of a line that goes dx to the side sx and dy to sy.        *)
Further(s, dx, dy, sx, sy) ==
    LET right == s.err > -dx
        down == s.err < dy
    IN  [err |-> s.err - (IF right THEN dy ELSE 0) + (IF down THEN dx ELSE 0),
         x |-> IF right THEN s.x + sx ELSE s.x,
         y |-> IF down THEN s.y + sy ELSE s.y]

(* The pixels a line visits, the last step first; empty if it had not ended  *)
(* after all the steps that could have got nearer to its end.                *)
TFT_DrawLine(x0, y0, x1, y1) ==
    LET dx == Abs(x1 - x0)
        dy == Abs(y1 - y0)
        sx == IF x0 < x1 THEN 1 ELSE -1
        sy == IF y0 < y1 THEN 1 ELSE -1
        step[n \in 0 .. dx + dy] ==
            IF n = 0 THEN [err |-> FirstErr(dx, dy), x |-> x0, y |-> y0]
            ELSE Further(step[n - 1], dx, dy, sx, sy)
        ends == {n \in DOMAIN step : step[n].x = x1 /\ step[n].y = y1}
        last == CHOOSE n \in ends : \A m \in ends : n <= m
    IN  IF ends = {} THEN << >>
        ELSE [n \in 1 .. last + 1 |-> <<step[n - 1].x, step[n - 1].y>>]

(* Mutant: the error is not corrected for the smaller radius.                *)
InwardsLate(s, radius) == [s EXCEPT !.x = @ - 1, !.dx = @ + 2, !.err = @ - 2 * radius + s.dx]

Inwards(s, radius) ==
    [s EXCEPT !.x = @ - 1, !.dx = @ + 2, !.err = @ - 2 * radius + s.dx + 2]

(* The next pixel of a circle: one up, and one inwards if it is outside.     *)
Around(s, radius) ==
    LET up == IF s.err <= 0
              THEN [s EXCEPT !.y = @ + 1, !.err = @ + s.dy, !.dy = @ + 2] ELSE s
    IN  IF up.err > 0 THEN Inwards(up, radius) ELSE up

(* An eighth of the circle, from its x axis to the diagonal, and its seven   *)
(* reflections.                                                              *)
TFT_drawcircle_int(x0, y0, radius) ==
    LET step[n \in 0 .. 2 * radius] ==
            IF n = 0 THEN [x |-> radius - 1, y |-> 0, dx |-> 1, dy |-> 1, err |-> 1 - 2 * radius]
            ELSE Around(step[n - 1], radius)
        beyond == CHOOSE n \in DOMAIN step :
                      step[n].x < step[n].y /\ \A m \in 0 .. n - 1 : step[m].x >= step[m].y
        eighth == {<<step[n].x, step[n].y>> : n \in 0 .. beyond - 1}
        quarter == eighth \cup {<<p[2], p[1]>> : p \in eighth}
    IN  {<<x0 + i * p[1], y0 + j * p[2]>> : i \in {-1, 1}, j \in {-1, 1}, p \in quarter}

-----------------------------------------------------------------------------
Near(p, q) == p # q /\ Abs(p[1] - q[1]) <= 1 /\ Abs(p[2] - q[2]) <= 1

(* A line goes from end to end, one pixel in each column or row it is longer *)
(* in, and nowhere leaves the straight line by more than half a pixel.       *)
Straight(x0, y0, x1, y1) ==
    LET line == TFT_DrawLine(x0, y0, x1, y1)
        dx == x1 - x0
        dy == y1 - y0
        long == IF Abs(dx) > Abs(dy) THEN Abs(dx) ELSE Abs(dy)
    IN  /\ Len(line) = long + 1
        /\ line[1] = <<x0, y0>> /\ line[long + 1] = <<x1, y1>>
        /\ \A n \in 1 .. long : Near(line[n], line[n + 1])
        /\ \A n \in DOMAIN line :
               2 * Abs((line[n][1] - x0) * dy - (line[n][2] - y0) * dx) <= long

(* A circle has no gap and lies between the circles of radius - 1 and radius.*)
Round(radius) ==
    LET circle == TFT_drawcircle_int(0, 0, radius)
    IN  \A p \in circle :
            /\ p[1] * p[1] + p[2] * p[2] \in (radius - 1) * (radius - 1) .. radius * radius
            /\ radius > 1 => LET near == {q \in circle : Near(p, q)}
                             IN  \E q, r \in near : q # r

(* No two pixels share a byte, and all are in the buffer.                    *)
OwnBytes(screen) ==
    LET pixels == TFT_Fill_Rectangle(0, 0, screen.xres, screen.yres)
        Bytes(p) == draw_pixel(screen, p[1], p[2])
    IN  \A p \in pixels :
            /\ \E n \in 0 .. screen.yres * screen.line_length - screen.bytes :
                   Bytes(p) = n .. n + screen.bytes - 1
            /\ \A q \in pixels : p # q => Bytes(p) \cap Bytes(q) = {}
=============================================================================
