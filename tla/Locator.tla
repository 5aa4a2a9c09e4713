------------------------------- MODULE Locator ------------------------------
(* gps/gps.cpp: the QTH locator of a position.  The receiver sends degrees   *)
(* and hundredths of a minute; the code turns them into a float of degrees   *)
(* and that into ten thousandths.  Letters and digits count from 0.          *)
EXTENDS Integers, Sequences

(* Truncated, and one less where the float was a little too small.           *)
TenThousandths(degrees, minutes, err) ==
    LET n == (5 * (6000 * degrees + minutes)) \div 3 IN IF n = 0 THEN 0 ELSE n - err

(* uint32_t, but the sum of a wrapped -n and the offset is offset - n.       *)
Offset(n, negative, offset) == IF negative THEN offset - n ELSE offset + n

(* Mutant: the lengths of a longitude and a latitude sub-square swapped.     *)
SubSwapped(rest, degrees) == rest \div (IF degrees = 2 THEN 25000 ELSE 50000)

Sub(rest, degrees) == rest \div (IF degrees = 2 THEN 50000 ELSE 25000)

(* Field, square of so many degrees, and sub-square of one coordinate.       *)
Digits(n, degrees) ==
    LET m == n * 60
        field == m \div (10 * degrees * 600000)
        rest == m - field * (10 * degrees * 600000)
        square == rest \div (degrees * 600000)
    IN  <<field, square, Sub(rest - square * (degrees * 600000), degrees)>>

CalculateGridSquare(lon, lat, west, south) ==
    LET x == Digits(Offset(lon, west, 1800000), 2)
        y == Digits(Offset(lat, south, 900000), 1)
    IN  <<x[1], y[1], x[2], y[2], x[3], y[3]>>

-----------------------------------------------------------------------------
(* In 6000ths of a degree: where a coordinate is, and where its field,       *)
(* square and sub-square begin and how long the last is.                     *)
Position(degrees, minutes, negative, offset) ==
    IF negative THEN 6000 * (offset - degrees) - minutes
                ELSE 6000 * (offset + degrees) + minutes
Corner(d, degrees) == degrees * (60000 * d[1] + 6000 * d[2] + 250 * d[3])

(* Two ten thousandths, which truncation and the float may make up.          *)
Tolerance == 2

(* The sub-square is the one the position is in, or the next one if it is on *)
(* its border, with letters A to R and A to X: west of 180 E, south of 90 N. *)
Inside(place, d, degrees) ==
    /\ place \in Corner(d, degrees) - Tolerance .. Corner(d, degrees) + 250 * degrees - 1 + Tolerance
    /\ d[1] \in 0 .. 17 /\ d[2] \in 0 .. 9 /\ d[3] \in 0 .. 23

Contains(lon, lat) ==
    LET grid == CalculateGridSquare(TenThousandths(lon.degrees, lon.minutes, lon.err),
                                    TenThousandths(lat.degrees, lat.minutes, lat.err),
                                    lon.negative, lat.negative)
    IN  /\ Inside(Position(lon.degrees, lon.minutes, lon.negative, 180), <<grid[1], grid[3], grid[5]>>, 2)
        /\ Inside(Position(lat.degrees, lat.minutes, lat.negative, 90), <<grid[2], grid[4], grid[6]>>, 1)
=============================================================================
