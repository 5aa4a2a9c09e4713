----------------------------- MODULE Thermistor -----------------------------
(* i2c_rpi/max11615.cpp: a conversion of a temperature channel in degrees.   *)
(* Floats are whole numbers of tenths of an ohm and of hundredths of a degree.*)
EXTENDS Integers, Sequences

FullScale == 4096     \* VREF as a conversion
RV == 82000

temptab ==
    <<326500, 253900, 199000, 157100, 124900, 100000, 80570, 65310, 53270, 43690,
      36030, 29860, 24880, 20830, 17520, 14810, 12580, 10720, 9177, 7885, 6800,
      5886, 5112, 4454, 3893, 3417, 3009, 2654, 2348, 2083, 1853>>

(* The mean of eight conversions of 12 bits.                                 *)
read_adc16(fifo) ==
    LET sum[n \in 0 .. 8] == IF n = 0 THEN 0 ELSE sum[n - 1] + fifo[n]
    IN  sum[8] \div 8

(* What getADCvoltage gives when nothing was converted in time.              *)
Unanswered == 65535

(* The thermistor's resistance, with RV to VREF.  At VREF the division gives *)
(* infinity; above it the resistance is negative.                            *)
Infinite == 2000000000
Rntc(dv) ==
    IF dv < FullScale THEN (dv * RV) \div (FullScale - dv)
    ELSE IF dv = FullScale THEN Infinite ELSE -1

(* Mutant: interpolated from the wrong end of the interval.                  *)
InterpolateUp(r, i) ==
    500 * (i - 1) - (500 * (r - temptab[i])) \div (temptab[i] - temptab[i - 1])

(* Between the entries i and i - 1 of the table, five degrees apart.         *)
Interpolate(r, i) ==
    500 * (i - 1) - (500 * (r - temptab[i])) \div (temptab[i - 1] - temptab[i])

cf_calc_temp(dv) ==
    LET r == Rntc(dv)
        below == {i \in DOMAIN temptab : temptab[i] <= r}
        first == CHOOSE i \in below : \A j \in below : i <= j
    IN  IF below = {} THEN 16000
        ELSE IF first = 1 THEN -1000
        ELSE Interpolate(r, first)

-----------------------------------------------------------------------------
(* Two conversions in a row: the lower one never reads colder, and the       *)
(* reading jumps only at the ends of the table.                              *)
Smooth(t, colder) ==
    /\ t >= colder
    /\ t \in 0 .. 15000 /\ colder \in 0 .. 15000 => t - colder < 130

(* (At and below 0 degrees it is -10, above 150 it is 160, and so is a       *)
(* conversion that was never made.)                                          *)
Possible(t) == t \in {-1000} \cup 0 .. 15000 \cup {16000}

(* Between two entries the reading is between theirs.                        *)
BetweenEntries(r, t) ==
    \A i \in 2 .. Len(temptab) :
        r >= temptab[i] /\ r < temptab[i - 1] => t \in 500 * (i - 2) .. 500 * (i - 1)

(* A warmer thermistor has less resistance and a lower conversion.           *)
Steady(dv) ==
    LET t == cf_calc_temp(dv)
    IN  /\ Smooth(t, cf_calc_temp(dv + 1)) /\ Possible(t)
        /\ BetweenEntries(Rntc(dv), t)
=============================================================================
