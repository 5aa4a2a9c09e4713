------------------------------- MODULE SunDate ------------------------------
(* gps/sunposition.cpp: date and time of the GPS receiver as a Julian date,  *)
(* from which the position of the sun is calculated.  Half days and minutes  *)
(* keep the doubles whole; 365.25 and 30.6001 times an int is never so near  *)
(* a whole number that its double would fall on the other side.              *)
EXTENDS Integers, Sequences

(* An int8_t, of a century.                                                  *)
GregorianPart(jahr) == LET c == jahr \div 100 IN 2 - c + c \div 4

(* Mutant: February counts as a month of the new year.                       *)
MonatOfYear(monat) == monat <= 1

LateMonat(monat) == monat <= 2

(* jd0 in half days, and jd in minutes since 2451545.0, as it is used.       *)
Datum2JDatum(jetzt) ==
    LET late == LateMonat(jetzt.Monat)
        jahr == IF late THEN jetzt.Jahr - 1 ELSE jetzt.Jahr
        monat == IF late THEN jetzt.Monat + 12 ELSE jetzt.Monat
        b == (1461 * (jahr + 4716)) \div 4
        c == (306001 * (monat + 1)) \div 10000
        jd0 == 2 * (GregorianPart(jahr) + b + c + jetzt.Tag) - 3049
    IN  [jd0 |-> jd0, jd |-> 720 * (jd0 - 4903090) + 60 * jetzt.Stunden + jetzt.Minuten]

(* ddmmyy and hhmm as numbers.                                               *)
calcSonnenpos(tag, monat, jj, stunden, minuten) ==
    Datum2JDatum([Tag |-> tag, Monat |-> monat, Jahr |-> 2000 + jj,
                  Stunden |-> stunden, Minuten |-> minuten])

-----------------------------------------------------------------------------
Leap(jahr) == jahr % 4 = 0 /\ (jahr % 100 # 0 \/ jahr % 400 = 0)

DaysOf(monat, jj) ==
    CASE monat \in {4, 6, 9, 11} -> 30
      [] monat = 2 -> IF Leap(2000 + jj) THEN 29 ELSE 28
      [] OTHER -> 31

(* The day after, by the calendar.                                           *)
Tomorrow(tag, monat, jj) ==
    IF tag < DaysOf(monat, jj) THEN <<tag + 1, monat, jj>>
    ELSE IF monat < 12 THEN <<1, monat + 1, jj>> ELSE <<1, 1, jj + 1>>

(* One minute before midnight is a minute before the next day's midnight,    *)
(* and the first day of 2000 is the Julian day 2451544.5.                    *)
Counted(tag, monat, jj) ==
    LET next == Tomorrow(tag, monat, jj)
    IN  /\ calcSonnenpos(next[1], next[2], next[3], 0, 0).jd
               = calcSonnenpos(tag, monat, jj, 23, 59).jd + 1
        /\ <<tag, monat, jj>> = <<1, 1, 0>> =>
               calcSonnenpos(tag, monat, jj, 0, 0).jd0 = 4903089
=============================================================================
