---------------------------- MODULE GpsReceiver -----------------------------
(* gps/gps.cpp: gpsproc feeds the bytes of a receiver to gps_decoder, which  *)
(* cuts out sentences; evalGPS stores those with a right checksum that are   *)
(* of type RMC; getters of other threads read what is stored, each number    *)
(* under the mutex, several one after the other without.                     *)
(*                                                                           *)
(* A sentence is "$", two letters, "*" and two digits.  The first letter is  *)
(* its type, "R" for $GPRMC with its ten fields, the second its contents,    *)
(* "0" if the receiver has no position.  The checksum has two bits.          *)
EXTENDS Integers, Sequences, FiniteSetsExt

CONSTANTS
    GPSBUFLEN,     \* size of the sentence buffer (500)
    Pieces,        \* what the receiver, or noise, puts on the line
    MaxPieces,     \* bound: pieces in one behaviour
    MaxCalls       \* bound: calls of the getters in one behaviour

ASSUME GpsAssumption ==
    /\ GPSBUFLEN \in Nat /\ GPSBUFLEN > 6 /\ Pieces \subseteq Seq(STRING)
    /\ MaxPieces \in Nat /\ MaxCalls \in Nat

VARIABLES
    line, pieces,          \* bytes on their way, pieces sent
    s, receiving,          \* gps_decoder: the buffer up to idx, its state
    info,                  \* GPSINFO: the sentence each string comes from
    lock, storing,         \* the mutex is with evalGPS; the sentence it stores
    call, calls,           \* a getter: where it is, what it has read
    (* ghost *)
    heard,                 \* all bytes gpsproc has read
    stored                 \* sentences stored so far, by contents

gpsvars == <<s, receiving, info, lock, storing, heard, stored>>
vars == <<line, pieces, gpsvars, call, calls>>

(* Contents and number of the sentence; before the first, nothing.           *)
NoSentence == [n |-> 0, contents |-> "0"]
Empty(sentence) == sentence.contents = "0"

Init ==
    /\ line = <<>> /\ pieces = 0
    /\ s = <<>> /\ receiving = 0
    /\ info = [time |-> NoSentence, lat |-> NoSentence, lon |-> NoSentence, date |-> NoSentence]
    /\ lock = FALSE /\ storing = NoSentence
    /\ call = [at |-> "idle", read |-> <<>>, begun |-> 0, outside |-> FALSE] /\ calls = 0
    /\ heard = <<>> /\ stored = <<>>

-----------------------------------------------------------------------------
(* The checksum: two bits of each letter, and their text as two digits.      *)

Code(letter) ==
    CASE letter \in {"R", "1"} -> 1 [] letter \in {"G", "2"} -> 2 [] letter = "*" -> 3 [] OTHER -> 0
Bit(n) == IF n % 2 = 0 THEN "0" ELSE "1"
Sum(body, b) == FoldSet(LAMBDA i, n : n + (Code(body[i]) \div b), 0, DOMAIN body)
chktxt(body) == <<Bit(Sum(body, 2)), Bit(Sum(body, 1))>>

Body(sentence) == SubSeq(sentence, 2, Len(sentence) - 3)
Right(sentence) == SubSeq(sentence, Len(sentence) - 1, Len(sentence)) = chktxt(Body(sentence))
Rmc(sentence) == Len(Body(sentence)) = 2 /\ Body(sentence)[1] = "R"

-----------------------------------------------------------------------------
(* gpsproc                                                                   *)

(* The state after byte d, with the buffer up to it in t.                    *)
Decoded(d, t) ==
    CASE Len(t) >= GPSBUFLEN -> [s |-> <<>>, receiving |-> 0]
      [] Len(t) < GPSBUFLEN /\ d = "*" -> [s |-> t, receiving |-> 2]
      [] Len(t) < GPSBUFLEN /\ d # "*" /\ receiving = 2 /\ d # "$" -> [s |-> t, receiving |-> 3]
      [] Len(t) < GPSBUFLEN /\ d # "*" /\ receiving = 3 /\ d # "$" -> [s |-> <<>>, receiving |-> 0]
      [] OTHER -> [s |-> t, receiving |-> IF d = "$" THEN 1 ELSE receiving]

(* Mutant: a "$" does not interrupt a sentence.                              *)
FilledNoRestart(d) == IF receiving = 0 /\ d = "$" THEN <<d>> ELSE Append(s, d)

(* The buffer with d in it.                                                  *)
Filled(d) == IF d = "$" THEN <<d>> ELSE Append(s, d)

gps_decoder ==
    /\ line # <<>> /\ ~lock
    /\ line' = Tail(line)
    /\ LET d == Head(line)
           t == Filled(d)
           complete == receiving = 3 /\ d \notin {"*", "$"} /\ Len(t) < GPSBUFLEN
       IN  /\ heard' = Append(heard, d)
           /\ IF receiving = 0 /\ d # "$" THEN UNCHANGED <<s, receiving>>
              ELSE s' = Decoded(d, t).s /\ receiving' = Decoded(d, t).receiving
           /\ IF complete /\ Right(t) /\ Rmc(t)
              THEN /\ lock' = TRUE
                   /\ storing' = [n |-> Len(stored) + 1, contents |-> Body(t)[2]]
              ELSE UNCHANGED <<lock, storing>>
    /\ UNCHANGED <<pieces, info, call, calls, stored>>

(* evalGPS under the mutex, in two halves for those who look without it.     *)
StoreLatitude ==
    /\ lock /\ info.lat # storing
    /\ info' = [info EXCEPT !.time = storing, !.lat = storing]
    /\ UNCHANGED <<line, pieces, s, receiving, lock, storing, call, calls, heard, stored>>

StoreLongitude ==
    /\ lock /\ info.lat = storing
    /\ info' = [info EXCEPT !.lon = storing, !.date = storing]
    /\ stored' = Append(stored, storing.contents)
    /\ lock' = FALSE
    /\ UNCHANGED <<line, pieces, s, receiving, storing, call, calls, heard>>

gpsproc == gps_decoder \/ StoreLatitude \/ StoreLongitude

-----------------------------------------------------------------------------
(* A user                                                                    *)

Begin(place) ==
    /\ call.at = "idle"
    /\ calls < MaxCalls /\ calls' = calls + 1
    /\ call' = [at |-> place, read |-> <<>>, begun |-> Len(stored), outside |-> FALSE]
    /\ UNCHANGED <<line, pieces, gpsvars>>

(* Mutant: without the mutex.                                                *)
GetUnlocked(place, field, next) ==
    /\ call.at = place
    /\ call' = [call EXCEPT !.at = next, !.read = Append(@, info[field])]
    /\ UNCHANGED <<line, pieces, gpsvars, calls>>

(* One number under the mutex.                                               *)
Get(place, field, next) ==
    /\ call.at = place /\ ~lock
    /\ call' = [call EXCEPT !.at = next, !.read = Append(@, info[field])]
    /\ UNCHANGED <<line, pieces, gpsvars, calls>>

(* The four are arguments of one call: compilers evaluate them from the left *)
(* or from the right.                                                        *)
getSunPos ==
    \/ Begin("time") \/ Begin("lastlon")
    \/ Get("time", "time", "date") \/ Get("date", "date", "lat")
    \/ Get("lat", "lat", "lon") \/ Get("lon", "lon", "idle")
    \/ Get("lastlon", "lon", "lastlat") \/ Get("lastlat", "lat", "lastdate")
    \/ Get("lastdate", "date", "lasttime") \/ Get("lasttime", "time", "idle")

(* Mutant: without looking at the lengths.                                   *)
CheckLengthsNever ==
    /\ call.at = "lengths"
    /\ call' = [call EXCEPT !.at = "letters", !.begun = Len(stored)]
    /\ UNCHANGED <<line, pieces, gpsvars, calls>>

(* The lengths without the mutex, then the letters N/S and E/W in a section  *)
(* of their own, of strings that may have become empty since, then numbers.  *)
CheckLengths ==
    /\ call.at = "lengths"
    /\ call' = IF Empty(info.lon) \/ Empty(info.lat)
               THEN [call EXCEPT !.at = "idle"]
               ELSE [call EXCEPT !.at = "letters", !.begun = Len(stored)]
    /\ UNCHANGED <<line, pieces, gpsvars, calls>>

Letters ==
    /\ call.at = "letters" /\ ~lock
    /\ call' = [call EXCEPT !.at = "qthlon", !.outside = Empty(info.lon) \/ Empty(info.lat)]
    /\ UNCHANGED <<line, pieces, gpsvars, calls>>

getQTHloc ==
    \/ Begin("lengths") \/ CheckLengths \/ Letters
    \/ Get("qthlon", "lon", "qthlat") \/ Get("qthlat", "lat", "idle")

-----------------------------------------------------------------------------

Send ==
    /\ line = <<>> /\ ~lock
    /\ pieces < MaxPieces /\ pieces' = pieces + 1
    /\ line' \in Pieces
    /\ UNCHANGED <<gpsvars, call, calls>>

Next == gpsproc \/ getSunPos \/ getQTHloc \/ Send

Spec == Init /\ [][Next]_vars

-----------------------------------------------------------------------------
(* Properties                                                                *)

(* What a reader of the bytes would say has been sent: the sentences with a  *)
(* right checksum, which is what follows the last "*", in order.             *)
Whole(bytes, i) ==
    /\ i + 5 <= Len(bytes) /\ bytes[i] = "$" /\ \A j \in i + 1 .. i + 5 : bytes[j] # "$"
    /\ bytes[i + 3] = "*" /\ bytes[i + 4] # "*" /\ bytes[i + 5] # "*"

Rights(bytes) ==
    {i \in DOMAIN bytes :
        Whole(bytes, i) /\ bytes[i + 1] = "R" /\ Right(SubSeq(bytes, i, i + 5))}

(* The n-th of the numbers in S.                                             *)
Nth(S, n) == CHOOSE i \in S : Cardinality({j \in S : j <= i}) = n

Sentences(bytes) ==
    LET rights == Rights(bytes)
    IN  [n \in 1 .. Cardinality(rights) |-> bytes[Nth(rights, n) + 2]]

(* Each sentence is stored, whatever noise or cut sentence comes before it,  *)
(* and nothing that is not one (gps.cpp 130-248).                            *)
AllSentencesStored ==
    Sentences(heard) = stored \o (IF lock THEN <<storing.contents>> ELSE <<>>)

(* What a call reads number by number under the mutex is never older than    *)
(* the call, and never goes back in time; all of it is from one sentence if  *)
(* none was stored meanwhile (gps.cpp 342-363).                              *)
ReadsGoForward ==
    LET versions == {call.read[i].n : i \in DOMAIN call.read}
    IN  /\ \A i, j \in DOMAIN call.read : i <= j => call.read[i].n <= call.read[j].n
        /\ \A n \in versions : n \in call.begun .. Len(stored)

(* getQTHloc takes the letter before the start of an empty string only if a  *)
(* sentence without position was stored after it had looked at the lengths   *)
(* (gps.cpp 347-353).                                                        *)
LettersOfPosition ==
    call.outside => \E n \in call.begun + 1 .. Len(stored) : stored[n] = "0"
=============================================================================
