------------------------- MODULE GpsReceiverProofs -------------------------
(* Proofs about GpsReceiver                                                  *)
EXTENDS GpsReceiver, Codecs, SequenceTheorems, FiniteSetTheorems, TLAPS

-----------------------------------------------------------------------------
(* Types                                                                     *)

Contents == STRING \cup {"0"}
Sentence == [n : Nat, contents : Contents]
InfoType == [time : Sentence, lat : Sentence, lon : Sentence, date : Sentence]
CallPlaces == {"idle", "time", "date", "lat", "lon", "lastlon", "lastlat", "lastdate",
               "lasttime", "lengths", "letters", "qthlon", "qthlat"}
CallType == [at : CallPlaces, read : Seq(Sentence), begun : Nat, outside : BOOLEAN]

DecoderTypes ==
    /\ line \in Seq(STRING) /\ s \in Seq(STRING) /\ heard \in Seq(STRING)
    /\ receiving \in 0 .. 3

UserTypes ==
    /\ info \in InfoType /\ storing \in Sentence
    /\ lock \in BOOLEAN /\ stored \in Seq(Contents)
    /\ call \in CallType

TypeOK == DecoderTypes /\ UserTypes

LEMMA InitTypes == Init => TypeOK
<1> SUFFICES ASSUME Init PROVE TypeOK
  OBVIOUS
<1>1. NoSentence \in Sentence
  BY DEF NoSentence, Sentence, Contents
<1>2. /\ <<>> \in Seq(STRING) /\ <<>> \in Seq(Sentence)
  OBVIOUS
<1>3. DecoderTypes
  BY <1>2 DEF Init, DecoderTypes
<1>s. <<>> \in Seq(Contents)
  OBVIOUS
<1>4. call \in CallType
  BY <1>2 DEF Init, CallType, CallPlaces
<1>5. UserTypes
  BY <1>1, <1>s, <1>4 DEF Init, UserTypes, InfoType
<1> QED
  BY <1>3, <1>5 DEF TypeOK

(* A step of the decoder: the buffer, and what is left of the line.          *)
LEMMA DecoderStep ==
    ASSUME TypeOK, gps_decoder
    PROVE  /\ ~lock /\ line # <<>> /\ Head(line) \in STRING
           /\ line' = Tail(line) /\ line' \in Seq(STRING)
           /\ heard' = Append(heard, Head(line)) /\ heard' \in Seq(STRING)
           /\ Filled(Head(line)) \in Seq(STRING)
<1>1. line \in Seq(STRING) /\ heard \in Seq(STRING) /\ s \in Seq(STRING)
  BY DEF TypeOK, DecoderTypes
<1>2. ~lock /\ line # <<>> /\ line' = Tail(line) /\ heard' = Append(heard, Head(line))
  BY DEF gps_decoder
<1>3. Head(line) \in STRING /\ Tail(line) \in Seq(STRING)
  BY <1>1, <1>2
<1>4. Append(heard, Head(line)) \in Seq(STRING) /\ Append(s, Head(line)) \in Seq(STRING)
  BY <1>1, <1>3
<1>5. <<Head(line)>> \in Seq(STRING)
  BY <1>3
<1> QED
  BY <1>2, <1>3, <1>4, <1>5 DEF Filled

(* A complete sentence is six bytes long if it is of type RMC.               *)
LEMMA BodyOf ==
    ASSUME NEW t \in Seq(STRING), Rmc(t)
    PROVE  Len(t) = 6 /\ t[2] = "R" /\ Body(t)[2] = t[3] /\ Body(t)[2] \in STRING
<1> DEFINE n == Len(t) - 3
<1>0. Len(t) \in Nat /\ n \in Int
  OBVIOUS
<1>1. \A i \in 2 .. n : t[i] \in STRING
  BY <1>0
<1>2. Len(Body(t)) = 2 /\ Body(t)[1] = "R" /\ Body(t) = SubSeq(t, 2, n)
  BY DEF Rmc, Body
<1> HIDE DEF n
<1>3. /\ Len(Body(t)) = IF 2 <= n THEN n - 2 + 1 ELSE 0
      /\ \A i \in 1 .. n - 2 + 1 : Body(t)[i] = t[2 + i - 1]
  BY <1>0, <1>1, <1>2, SubSeqProperties
<1>4. n = 3
  BY <1>0, <1>2, <1>3
<1>5. Body(t)[1] = t[2] /\ Body(t)[2] = t[3]
  <2>1. \A i \in 1 .. 2 : Body(t)[i] = t[i + 1]
    BY <1>3, <1>4
  <2> QED
    BY <2>1
<1>6. Len(t) = 6
  BY <1>0, <1>4 DEF n
<1>7. t[3] \in STRING
  BY <1>6
<1> QED
  BY <1>2, <1>5, <1>6, <1>7

(* The state after a byte, case by case.                                     *)
LEMMA DecodedCases ==
    ASSUME NEW d, NEW t \in Seq(STRING), receiving \in 0 .. 3
    PROVE  /\ Len(t) >= GPSBUFLEN => Decoded(d, t) = [s |-> <<>>, receiving |-> 0]
           /\ Len(t) < GPSBUFLEN =>
                /\ d = "*" => Decoded(d, t) = [s |-> t, receiving |-> 2]
                /\ d = "$" => Decoded(d, t) = [s |-> t, receiving |-> 1]
                /\ d \notin {"*", "$"} =>
                     /\ receiving = 2 => Decoded(d, t) = [s |-> t, receiving |-> 3]
                     /\ receiving = 3 => Decoded(d, t) = [s |-> <<>>, receiving |-> 0]
                     /\ receiving < 2 => Decoded(d, t) = [s |-> t, receiving |-> receiving]
<1>1. Len(t) \in Nat /\ GPSBUFLEN \in Nat
  BY GpsAssumption
<1> QED
  BY <1>1 DEF Decoded

LEMMA DecodedTypes ==
    ASSUME NEW d, NEW t \in Seq(STRING), receiving \in 0 .. 3
    PROVE  Decoded(d, t).s \in Seq(STRING) /\ Decoded(d, t).receiving \in 0 .. 3
<1>1. <<>> \in Seq(STRING) /\ Len(t) \in Nat /\ GPSBUFLEN \in Nat
  BY GpsAssumption
<1>2. SUFFICES \E u \in Seq(STRING), r \in 0 .. 3 : Decoded(d, t) = [s |-> u, receiving |-> r]
  <2>1. ASSUME NEW u \in Seq(STRING), NEW r \in 0 .. 3,
               Decoded(d, t) = [s |-> u, receiving |-> r]
        PROVE  Decoded(d, t).s \in Seq(STRING) /\ Decoded(d, t).receiving \in 0 .. 3
    BY <2>1
  <2> QED
    BY <2>1
<1>3. CASE Len(t) >= GPSBUFLEN
  <2> WITNESS <<>> \in Seq(STRING), 0 \in 0 .. 3
  <2> QED
    BY <1>1, <1>3, DecodedCases
<1>4. CASE Len(t) < GPSBUFLEN /\ d = "*"
  BY <1>1, <1>4, DecodedCases
<1>5. CASE Len(t) < GPSBUFLEN /\ d = "$"
  BY <1>1, <1>5, DecodedCases
<1>6. CASE Len(t) < GPSBUFLEN /\ d \notin {"*", "$"} /\ receiving = 2
  BY <1>1, <1>6, DecodedCases
<1>7. CASE Len(t) < GPSBUFLEN /\ d \notin {"*", "$"} /\ receiving = 3
  <2> WITNESS <<>> \in Seq(STRING), 0 \in 0 .. 3
  <2> QED
    BY <1>1, <1>7, DecodedCases
<1>8. CASE Len(t) < GPSBUFLEN /\ d \notin {"*", "$"} /\ receiving < 2
  BY <1>1, <1>8, DecodedCases
<1> QED
  BY <1>1, <1>3, <1>4, <1>5, <1>6, <1>7, <1>8

LEMMA GetTypes ==
    ASSUME TypeOK, NEW place \in CallPlaces, NEW field \in {"time", "lat", "lon", "date"},
           NEW next \in CallPlaces, Get(place, field, next)
    PROVE  TypeOK'
<1>1. call \in CallType /\ info \in InfoType
  BY DEF TypeOK, UserTypes
<1>2. info[field] \in Sentence
  BY <1>1 DEF InfoType
<1>3. Append(call.read, info[field]) \in Seq(Sentence)
  BY <1>1, <1>2 DEF CallType
<1>4. call' \in CallType
  BY <1>1, <1>3 DEF Get, CallType
<1>5. UNCHANGED <<line, pieces, gpsvars, calls>>
  BY DEF Get
<1> QED
  BY <1>4, <1>5 DEF TypeOK, DecoderTypes, UserTypes, gpsvars

LEMMA BeginTypes ==
    ASSUME TypeOK, NEW place \in CallPlaces, Begin(place)
    PROVE  TypeOK'
<1>1. Len(stored) \in Nat /\ <<>> \in Seq(Sentence)
  BY DEF TypeOK, UserTypes
<1>2. call' \in CallType
  BY <1>1 DEF Begin, CallType
<1>3. UNCHANGED <<line, pieces, gpsvars>>
  BY DEF Begin
<1> QED
  BY <1>2, <1>3 DEF TypeOK, DecoderTypes, UserTypes, gpsvars

(* What a user does: one of these.                                           *)
Fields == {"time", "lat", "lon", "date"}
BeginPlaces == {"time", "lastlon", "lengths"}
ReadPlaces == CallPlaces \ {"lengths", "letters"}

LEMMA UserSteps ==
    ASSUME getSunPos \/ getQTHloc
    PROVE  \/ \E place \in BeginPlaces : Begin(place)
           \/ \E place, next \in ReadPlaces, field \in Fields : Get(place, field, next)
           \/ CheckLengths \/ Letters
BY DEF getSunPos, getQTHloc, CallPlaces, ReadPlaces, BeginPlaces, Fields

LEMMA NextTypes == TypeOK /\ [Next]_vars => TypeOK'
<1> SUFFICES ASSUME TypeOK, [Next]_vars PROVE TypeOK'
  OBVIOUS
<1>t. /\ line \in Seq(STRING) /\ s \in Seq(STRING) /\ heard \in Seq(STRING)
      /\ receiving \in 0 .. 3 /\ info \in InfoType /\ storing \in Sentence
      /\ lock \in BOOLEAN /\ stored \in Seq(Contents) /\ call \in CallType
  BY DEF TypeOK, DecoderTypes, UserTypes
<1>1. CASE gps_decoder
  <2> DEFINE d == Head(line)
             t == Filled(d)
  <2>1. t \in Seq(STRING) /\ line' \in Seq(STRING) /\ heard' \in Seq(STRING)
    BY <1>1, DecoderStep
  <2>3. Decoded(d, t).s \in Seq(STRING) /\ Decoded(d, t).receiving \in 0 .. 3
    <3> HIDE DEF d, t
    <3> QED
      BY <1>t, <2>1, DecodedTypes
  <2>4. \/ UNCHANGED <<s, receiving>>
        \/ s' = Decoded(d, t).s /\ receiving' = Decoded(d, t).receiving
    BY <1>1 DEF gps_decoder
  <2>5. \/ UNCHANGED <<lock, storing>>
        \/ /\ Rmc(t) /\ lock' = TRUE
           /\ storing' = [n |-> Len(stored) + 1, contents |-> Body(t)[2]]
    BY <1>1 DEF gps_decoder
  <2>6. lock' \in BOOLEAN /\ storing' \in Sentence
    <3>1. Len(stored) + 1 \in Nat
      BY <1>t
    <3>2. CASE Rmc(t) /\ lock' = TRUE
               /\ storing' = [n |-> Len(stored) + 1, contents |-> Body(t)[2]]
      <4>1. Body(t)[2] \in STRING
        BY <2>1, <3>2, BodyOf
      <4> QED
        BY <3>1, <3>2, <4>1 DEF Sentence, Contents
    <3> QED
      BY <1>t, <2>5, <3>2
  <2>7. UNCHANGED <<info, call, stored>>
    BY <1>1 DEF gps_decoder
  <2> HIDE DEF d, t
  <2>8. DecoderTypes'
    BY <1>t, <2>1, <2>3, <2>4 DEF DecoderTypes
  <2>9. UserTypes'
    BY <1>t, <2>6, <2>7 DEF UserTypes
  <2> QED
    BY <2>8, <2>9 DEF TypeOK
<1>2. CASE StoreLatitude
  <2>1. info' \in InfoType
    BY <1>t, <1>2 DEF StoreLatitude, InfoType
  <2> QED
    BY <1>t, <1>2, <2>1 DEF StoreLatitude, TypeOK, DecoderTypes, UserTypes
<1>3. CASE StoreLongitude
  <2>1. info' \in InfoType
    BY <1>t, <1>3 DEF StoreLongitude, InfoType
  <2>2. stored' \in Seq(Contents)
    <3>1. storing.contents \in Contents
      BY <1>t DEF Sentence
    <3> QED
      BY <1>t, <1>3, <3>1 DEF StoreLongitude
  <2> QED
    BY <1>t, <1>3, <2>1, <2>2 DEF StoreLongitude, TypeOK, DecoderTypes, UserTypes
<1>4. ASSUME NEW place \in BeginPlaces, Begin(place) PROVE TypeOK'
  BY <1>4, BeginTypes DEF BeginPlaces, CallPlaces
<1>5. ASSUME NEW place \in ReadPlaces, NEW next \in ReadPlaces, NEW field \in Fields,
             Get(place, field, next)
      PROVE  TypeOK'
  BY <1>5, GetTypes DEF Fields, ReadPlaces
<1>6. CASE CheckLengths
  <2>1. Len(stored) \in Nat
    BY <1>t
  <2>2. call' \in CallType
    BY <1>t, <1>6, <2>1 DEF CheckLengths, CallType, CallPlaces
  <2> QED
    BY <1>t, <1>6, <2>2 DEF CheckLengths, TypeOK, DecoderTypes, UserTypes, gpsvars
<1>7. CASE Letters
  <2>1. (Empty(info.lon) \/ Empty(info.lat)) \in BOOLEAN
    BY DEF Empty
  <2>2. call' \in CallType
    BY <1>t, <1>7, <2>1 DEF Letters, CallType, CallPlaces
  <2> QED
    BY <1>t, <1>7, <2>2 DEF Letters, TypeOK, DecoderTypes, UserTypes, gpsvars
<1>8. CASE Send
  <2>1. line' \in Seq(STRING)
    BY <1>8, GpsAssumption DEF Send
  <2> QED
    BY <1>t, <1>8, <2>1 DEF Send, TypeOK, DecoderTypes, UserTypes, gpsvars
<1>9. CASE UNCHANGED vars
  BY <1>t, <1>9 DEF vars, gpsvars, TypeOK, DecoderTypes, UserTypes
<1> QED
  BY <1>1, <1>2, <1>3, <1>4, <1>5, <1>6, <1>7, <1>8, <1>9, UserSteps DEF Next, gpsproc

(* The buffer, the strings of GPSINFO and the getters keep their types for   *)
(* any bytes on the line.                                                    *)
THEOREM TypeCorrect == Spec => []TypeOK
BY InitTypes, NextTypes, PTL DEF Spec

-----------------------------------------------------------------------------
(* Readers                                                                   *)

Latest(sentence) ==
    /\ sentence.n = Len(stored)
    /\ Len(stored) > 0 => sentence.contents = stored[Len(stored)]

(* Outside evalGPS all strings are of the last sentence, and inside it those *)
(* not yet overwritten are.                                                  *)
StoreInv ==
    /\ info.time = info.lat /\ info.date = info.lon /\ Latest(info.lon)
    /\ ~lock => info.lat = info.lon
    /\ lock => storing.n = Len(stored) + 1 /\ info.lat \in {storing, info.lon}

(* What a call has read lies between its begin and now; when it looks at     *)
(* letters after it has looked at the lengths, either a sentence came since  *)
(* or there is a position.                                                   *)
ReadInv ==
    /\ call.begun <= Len(stored) /\ ReadsGoForward /\ LettersOfPosition
    /\ call.at \in {"lengths", "letters"} => call.read = <<>> /\ ~call.outside
    /\ call.at = "letters" /\ call.begun = Len(stored) => ~Empty(info.lon)

LEMMA ReadsOrdered ==
    ReadsGoForward <=>
        /\ \A i, j \in DOMAIN call.read : i <= j => call.read[i].n <= call.read[j].n
        /\ \A i \in DOMAIN call.read : call.read[i].n \in call.begun .. Len(stored)
BY DEF ReadsGoForward

LEMMA InitReads == Init => StoreInv /\ ReadInv
<1> SUFFICES ASSUME Init PROVE StoreInv /\ ReadInv
  OBVIOUS
<1>1. /\ info = [time |-> NoSentence, lat |-> NoSentence, lon |-> NoSentence, date |-> NoSentence]
      /\ stored = <<>> /\ ~lock /\ Len(stored) = 0
      /\ call = [at |-> "idle", read |-> <<>>, begun |-> 0, outside |-> FALSE]
  BY DEF Init
<1>2. StoreInv
  BY <1>1 DEF StoreInv, Latest, NoSentence
<1>3. DOMAIN call.read = {} /\ call.begun = 0 /\ ~call.outside /\ call.at = "idle"
  BY <1>1
<1> QED
  BY <1>1, <1>2, <1>3, ReadsOrdered DEF ReadInv, LettersOfPosition

LEMMA NextStore == TypeOK /\ StoreInv /\ [Next]_vars => StoreInv'
<1> SUFFICES ASSUME TypeOK, StoreInv, [Next]_vars PROVE StoreInv'
  OBVIOUS
<1>t. /\ info \in InfoType /\ storing \in Sentence /\ lock \in BOOLEAN
      /\ stored \in Seq(Contents)
  BY DEF TypeOK, UserTypes
<1>n. Len(stored) \in Nat
  BY <1>t
<1>1. CASE gps_decoder
  <2>1. ~lock /\ UNCHANGED <<info, stored>>
    BY <1>1 DEF gps_decoder
  <2>2. lock' => storing'.n = Len(stored) + 1
    <3>1. lock' => \E c : storing' = [n |-> Len(stored) + 1, contents |-> c]
      BY <1>1, <2>1 DEF gps_decoder
    <3>2. \A c : storing' = [n |-> Len(stored) + 1, contents |-> c] => storing'.n = Len(stored) + 1
      OBVIOUS
    <3> QED
      BY <3>1, <3>2
  <2> QED
    BY <2>1, <2>2 DEF StoreInv, Latest
<1>2. CASE StoreLatitude
  <2>1. /\ lock /\ UNCHANGED <<lock, storing, stored>>
        /\ info' = [info EXCEPT !.time = storing, !.lat = storing]
    BY <1>2 DEF StoreLatitude
  <2>2. info'.time = storing /\ info'.lat = storing /\ info'.lon = info.lon /\ info'.date = info.date
    BY <1>t, <2>1 DEF InfoType
  <2> QED
    BY <2>1, <2>2 DEF StoreInv, Latest
<1>3. CASE StoreLongitude
  <2>1. /\ lock /\ ~lock' /\ info.lat = storing /\ storing' = storing
        /\ info' = [info EXCEPT !.lon = storing, !.date = storing]
        /\ stored' = Append(stored, storing.contents)
    BY <1>3 DEF StoreLongitude
  <2>2. info'.time = info.time /\ info'.lat = info.lat /\ info'.lon = storing /\ info'.date = storing
    BY <1>t, <2>1 DEF InfoType
  <2>3. storing.contents \in Contents
    BY <1>t DEF Sentence
  <2>4. Len(stored') = Len(stored) + 1 /\ stored'[Len(stored')] = storing.contents
    BY <1>t, <2>1, <2>3
  <2> QED
    BY <2>1, <2>2, <2>4 DEF StoreInv, Latest
<1>4. ASSUME UNCHANGED <<info, storing, lock, stored>> PROVE StoreInv'
  BY <1>4 DEF StoreInv, Latest
<1>5. CASE getSunPos \/ getQTHloc
  <2>1. UNCHANGED gpsvars
    BY <1>5, UserSteps DEF Begin, Get, CheckLengths, Letters
  <2> QED
    BY <1>4, <2>1 DEF gpsvars
<1>6. CASE Send \/ UNCHANGED vars
  BY <1>4, <1>6 DEF Send, vars, gpsvars
<1> QED
  BY <1>1, <1>2, <1>3, <1>5, <1>6 DEF Next, gpsproc

LEMMA NextReads == TypeOK /\ TypeOK' /\ StoreInv /\ ReadInv /\ [Next]_vars => ReadInv'
<1> SUFFICES ASSUME TypeOK, TypeOK', StoreInv, ReadInv, [Next]_vars PROVE ReadInv'
  OBVIOUS
<1>t. /\ info \in InfoType /\ lock \in BOOLEAN /\ stored \in Seq(Contents) /\ call \in CallType
  BY DEF TypeOK, UserTypes
<1>n. /\ Len(stored) \in Nat /\ call.begun \in Nat /\ call.read \in Seq(Sentence)
  BY <1>t DEF CallType
<1>f. /\ \A i, j \in DOMAIN call.read : i <= j => call.read[i].n <= call.read[j].n
      /\ \A i \in DOMAIN call.read : call.read[i].n \in call.begun .. Len(stored)
  BY ReadsOrdered DEF ReadInv
<1>l. call.outside => \E n \in call.begun + 1 .. Len(stored) : stored[n] = "0"
  BY DEF ReadInv, LettersOfPosition
<1>1. CASE call' = call /\ stored' = stored /\ info'.lon = info.lon
  BY <1>1 DEF ReadInv, ReadsGoForward, LettersOfPosition, Empty
<1>2. CASE gps_decoder \/ Send \/ UNCHANGED vars
  BY <1>1, <1>2 DEF gps_decoder, Send, vars, gpsvars
<1>3. CASE StoreLatitude
  BY <1>1, <1>3, <1>t DEF StoreLatitude, InfoType
<1>4. CASE StoreLongitude
  <2>1. call' = call /\ stored' = Append(stored, storing.contents)
    BY <1>4 DEF StoreLongitude
  <2>2. storing.contents \in Contents
    BY DEF TypeOK, UserTypes, Sentence
  <2>3. Len(stored') = Len(stored) + 1 /\ \A n \in 1 .. Len(stored) : stored'[n] = stored[n]
    BY <1>t, <2>1, <2>2
  <2>4. ReadsGoForward'
    <3>1. \A i \in DOMAIN call.read : call.read[i].n \in call.begun .. Len(stored')
      BY <1>n, <1>f, <2>3
    <3> QED
      BY <1>f, <2>1, <3>1 DEF ReadsGoForward
  <2>5. LettersOfPosition'
    BY <1>n, <1>l, <2>1, <2>3 DEF LettersOfPosition
  <2>6. call.begun <= Len(stored') /\ call.begun # Len(stored')
    BY <1>n, <2>3 DEF ReadInv
  <2> QED
    BY <2>1, <2>4, <2>5, <2>6 DEF ReadInv
<1>5. ASSUME NEW place \in BeginPlaces, Begin(place) PROVE ReadInv'
  <2>1. /\ call' = [at |-> place, read |-> <<>>, begun |-> Len(stored), outside |-> FALSE]
        /\ stored' = stored
    BY <1>5 DEF Begin, gpsvars
  <2>2. place # "letters"
    BY DEF BeginPlaces
  <2> QED
    BY <1>n, <2>1, <2>2 DEF ReadInv, ReadsGoForward, LettersOfPosition
<1>6. ASSUME NEW place \in ReadPlaces, NEW next \in ReadPlaces, NEW field \in Fields,
             Get(place, field, next)
      PROVE  ReadInv'
  <2> DEFINE r == call.read
  <2>1. /\ ~lock /\ call' = [call EXCEPT !.at = next, !.read = Append(call.read, info[field])]
        /\ stored' = stored
    BY <1>6 DEF Get, gpsvars
  <2>2. info[field] \in Sentence /\ info[field].n = Len(stored)
    BY <1>t, <2>1 DEF StoreInv, Latest, Fields, InfoType
  <2>3. /\ call'.read = Append(call.read, info[field]) /\ call'.begun = call.begun
        /\ call'.outside = call.outside /\ call'.at = next
    BY <1>t, <2>1 DEF CallType
  <2>4. /\ call'.read \in Seq(Sentence) /\ Len(call'.read) = Len(r) + 1
        /\ \A i \in 1 .. Len(r) : call'.read[i] = r[i]
        /\ call'.read[Len(r) + 1] = info[field]
    BY <1>n, <2>2, <2>3, AppendProperties
  <2>5. \A i \in 1 .. Len(r) : r[i].n \in call.begun .. Len(stored)
    BY <1>n, <1>f
  <2>6. ASSUME NEW i \in 1 .. Len(r) + 1
        PROVE  call'.read[i].n \in call.begun .. Len(stored)
    <3>1. CASE i \in 1 .. Len(r)
      BY <2>4, <2>5, <3>1
    <3>2. CASE i = Len(r) + 1
      BY <1>n, <2>2, <2>4, <3>2 DEF ReadInv
    <3> QED
      BY <1>n, <3>1, <3>2
  <2>7. ASSUME NEW i \in 1 .. Len(r) + 1, NEW j \in 1 .. Len(r) + 1, i <= j
        PROVE  call'.read[i].n <= call'.read[j].n
    <3>1. CASE j \in 1 .. Len(r)
      <4>1. i \in 1 .. Len(r)
        BY <1>n, <2>7, <3>1
      <4>2. i \in DOMAIN call.read /\ j \in DOMAIN call.read
        BY <1>n, <3>1, <4>1
      <4>3. call.read[i].n <= call.read[j].n
        BY <1>f, <2>7, <4>2
      <4> QED
        BY <2>4, <3>1, <4>1, <4>3
    <3>2. CASE j = Len(r) + 1
      <4>1. call'.read[i].n <= Len(stored) /\ call'.read[j].n = Len(stored)
        BY <1>n, <2>2, <2>4, <2>6, <3>2
      <4> QED
        BY <4>1
    <3> QED
      BY <1>n, <3>1, <3>2
  <2>8. DOMAIN call'.read = 1 .. Len(r) + 1
    BY <1>n, <2>4
  <2> HIDE DEF r
  <2>9. ReadsGoForward'
    BY <2>1, <2>3, <2>6, <2>7, <2>8 DEF ReadsGoForward
  <2>10. LettersOfPosition'
    BY <1>l, <2>1, <2>3 DEF LettersOfPosition
  <2> QED
    BY <2>1, <2>3, <2>9, <2>10 DEF ReadInv, ReadPlaces
<1>7. CASE CheckLengths
  <2>1. /\ call.at = "lengths" /\ UNCHANGED <<info, stored>>
        /\ call.read = <<>> /\ ~call.outside
    BY <1>7 DEF CheckLengths, gpsvars, ReadInv
  <2>2. \/ call' = [call EXCEPT !.at = "idle"]
        \/ ~Empty(info.lon) /\ call' = [call EXCEPT !.at = "letters", !.begun = Len(stored)]
    BY <1>7 DEF CheckLengths
  <2>3. /\ call'.read = <<>> /\ ~call'.outside /\ call'.begun \in {call.begun, Len(stored)}
        /\ call'.at = "letters" => ~Empty(info.lon)
    BY <1>t, <2>1, <2>2 DEF CallType
  <2>4. ReadsGoForward' /\ LettersOfPosition'
    BY <2>3 DEF ReadsGoForward, LettersOfPosition
  <2> QED
    BY <1>n, <2>1, <2>3, <2>4 DEF ReadInv, Empty
<1>8. CASE Letters
  <2>1. /\ call.at = "letters" /\ ~lock /\ UNCHANGED <<info, stored>>
        /\ call.read = <<>> /\ ~call.outside /\ info.lat = info.lon
    BY <1>8 DEF Letters, gpsvars, ReadInv, StoreInv
  <2>2. /\ call'.at = "qthlon" /\ call'.read = <<>> /\ call'.begun = call.begun
        /\ call'.outside => Empty(info.lon)
    BY <1>t, <1>8, <2>1 DEF Letters, CallType
  <2>3. ReadsGoForward'
    BY <2>2 DEF ReadsGoForward
  <2>4. LettersOfPosition'
    <3> SUFFICES ASSUME call'.outside
                 PROVE  \E n \in call.begun + 1 .. Len(stored) : stored[n] = "0"
      BY <2>1, <2>2 DEF LettersOfPosition
    <3>1. call.begun <= Len(stored) /\ call.begun # Len(stored)
      BY <2>1, <2>2 DEF ReadInv
    <3>2. Len(stored) \in call.begun + 1 .. Len(stored) /\ Len(stored) > 0
      BY <1>n, <3>1
    <3>3. stored[Len(stored)] = "0"
      BY <2>2, <3>2 DEF StoreInv, Latest, Empty
    <3> QED
      BY <3>2, <3>3
  <2> QED
    BY <2>1, <2>2, <2>3, <2>4 DEF ReadInv
<1> QED
  BY <1>2, <1>3, <1>4, <1>5, <1>6, <1>7, <1>8, UserSteps DEF Next, gpsproc

(* What a call reads number by number, with sentences stored in between, is  *)
(* never older than the call and never goes back, for any bytes on the line  *)
(* and any number of calls.                                                  *)
THEOREM ReadsCorrect == Spec => []ReadsGoForward
<1>1. ReadInv => ReadsGoForward
  BY DEF ReadInv
<1> QED
  BY <1>1, InitTypes, NextTypes, InitReads, NextStore, NextReads, PTL DEF Spec

(* getQTHloc looks before the start of an empty string only if a sentence    *)
(* without position was stored after it had looked at the lengths.           *)
THEOREM LettersCorrect == Spec => []LettersOfPosition
<1>1. ReadInv => LettersOfPosition
  BY DEF ReadInv
<1> QED
  BY <1>1, InitTypes, NextTypes, InitReads, NextStore, NextReads, PTL DEF Spec

-----------------------------------------------------------------------------
(* Sentences                                                                 *)

RightAt(bytes, i) ==
    Whole(bytes, i) /\ bytes[i + 1] = "R" /\ Right(SubSeq(bytes, i, i + 5))

(* The number of elements of S up to i.                                      *)
Place(S, i) == Cardinality({j \in S : j <= i})

(* Each number up to Cardinality(S) is the place of an element.  (It is so   *)
(* for every finite S; here it comes about byte by byte.)                    *)
Placed(S) == \A n \in 1 .. Cardinality(S) : \E i \in S : Place(S, i) = n

(* The bytes end with a "$" and k more that may begin a sentence.            *)
Begun(bytes, k) ==
    /\ k < Len(bytes) /\ bytes[Len(bytes) - k] = "$"
    /\ \A j \in 1 .. k : bytes[Len(bytes) - k + j] # "$"
    /\ k >= 1 => bytes[Len(bytes) - k + 1] = "R"
    /\ k >= 3 => bytes[Len(bytes) - k + 3] = "*"
    /\ k >= 4 => bytes[Len(bytes) - k + 4] # "*"

(* How far the decoder is then.                                              *)
Stages(k) == IF k < 2 THEN {1} ELSE IF k = 2 THEN {1, 2} ELSE {k - 1}

(* The buffer holds the last bytes from a "$" on.                            *)
BufferInv ==
    receiving # 0 =>
        /\ Len(s) \in 1 .. Len(heard)
        /\ s[1] = "$" /\ \A j \in 2 .. Len(s) : s[j] # "$"
        /\ \A j \in 1 .. Len(s) : s[j] = heard[Len(heard) - Len(s) + j]
        /\ receiving = 2 => s[Len(s)] = "*"
        /\ receiving = 3 => Len(s) >= 3 /\ s[Len(s) - 1] = "*" /\ s[Len(s)] # "*"

(* No beginning of a sentence is missed.                                     *)
BegunInv == \A k \in 0 .. 4 : Begun(heard, k) => Len(s) = k + 1 /\ receiving \in Stages(k)

SentenceInv == BufferInv /\ BegunInv /\ Placed(Rights(heard)) /\ AllSentencesStored

(* Counting in a set of numbers                                              *)

LEMMA NthIs ==
    ASSUME NEW S \in SUBSET Nat, IsFiniteSet(S), NEW n, NEW m \in S, Place(S, m) = n
    PROVE  Nth(S, n) = m
<1>1. Nth(S, n) \in S /\ Place(S, Nth(S, n)) = n
  <2>1. \E i \in S : Cardinality({j \in S : j <= i}) = n
    BY DEF Place
  <2> QED
    BY <2>1, Zenon DEF Nth, Place
<1>2. ASSUME NEW i \in S, NEW k \in S, i < k PROVE Place(S, i) # Place(S, k)
  <2> DEFINE A == {j \in S : j <= i}
             B == {j \in S : j <= k}
  <2>1. B \in SUBSET S /\ A \in SUBSET B /\ A # B
    <3>0. i \in Nat /\ k \in Nat
      OBVIOUS
    <3>1. A \subseteq B
      <4>1. \A j \in Nat : j <= i => j <= k
        BY <1>2, <3>0
      <4> QED
        BY <4>1
    <3>2. k \in B /\ k \notin A
      BY <1>2, <3>0
    <3> QED
      BY <3>1, <3>2
  <2>2. IsFiniteSet(B)
    BY <2>1, FS_Subset
  <2>3. Cardinality(A) # Cardinality(B)
    <3> HIDE DEF A, B
    <3> QED
      BY <2>1, <2>2, FS_Subset
  <2> QED
    BY <2>3 DEF Place
<1> QED
  <2>1. Nth(S, n) \in Nat /\ m \in Nat
    BY <1>1
  <2>2. Nth(S, n) < m \/ m < Nth(S, n) \/ Nth(S, n) = m
    BY <2>1
  <2> QED
    BY <1>1, <1>2, <2>2

(* A greater number comes last and leaves the places of the others.          *)
LEMMA PlaceGrow ==
    ASSUME NEW S \in SUBSET Nat, IsFiniteSet(S), NEW m \in Nat, \A i \in S : i < m
    PROVE  /\ IsFiniteSet(S \cup {m}) /\ Cardinality(S \cup {m}) = Cardinality(S) + 1
           /\ \A i \in S : Place(S \cup {m}, i) = Place(S, i)
           /\ Place(S \cup {m}, m) = Cardinality(S) + 1
<1>1. IsFiniteSet(S \cup {m}) /\ Cardinality(S \cup {m}) = Cardinality(S) + 1
  <2>1. m \notin S
    OBVIOUS
  <2> QED
    BY <2>1, FS_AddElement
<1>2. ASSUME NEW i \in S PROVE Place(S \cup {m}, i) = Place(S, i)
  <2>1. {j \in S \cup {m} : j <= i} = {j \in S : j <= i}
    OBVIOUS
  <2> QED
    BY <2>1 DEF Place
<1>3. {j \in S \cup {m} : j <= m} = S \cup {m}
  <2>1. \A j \in S \cup {m} : j <= m
    OBVIOUS
  <2> QED
    BY <2>1
<1> QED
  BY <1>1, <1>2, <1>3 DEF Place

LEMMA PlacedGrow ==
    ASSUME NEW S \in SUBSET Nat, IsFiniteSet(S), NEW m \in Nat, \A i \in S : i < m, Placed(S)
    PROVE  Placed(S \cup {m})
<1>1. Cardinality(S) \in Nat
  BY FS_CardinalityType
<1>2. ASSUME NEW n \in 1 .. Cardinality(S) + 1 PROVE \E i \in S \cup {m} : Place(S \cup {m}, i) = n
  <2>1. CASE n \in 1 .. Cardinality(S)
    <3>1. PICK i \in S : Place(S, i) = n
      BY <2>1 DEF Placed
    <3> QED
      BY <3>1, PlaceGrow
  <2>2. CASE n = Cardinality(S) + 1
    BY <2>2, PlaceGrow
  <2> QED
    BY <1>1, <1>2, <2>1, <2>2
<1> QED
  BY <1>2, PlaceGrow DEF Placed

-----------------------------------------------------------------------------
(* One byte more                                                             *)

LEMMA Piece ==
    ASSUME NEW b \in Seq(STRING), NEW i \in Nat, i >= 1, i + 5 <= Len(b)
    PROVE  /\ SubSeq(b, i, i + 5) \in Seq(STRING) /\ Len(SubSeq(b, i, i + 5)) = 6
           /\ \A j \in 1 .. 6 : SubSeq(b, i, i + 5)[j] = b[i + j - 1]
<1>1. \A j \in i .. i + 5 : b[j] \in STRING
  OBVIOUS
<1>2. i <= i + 5 /\ i + 5 - i + 1 = 6 /\ i + 5 \in Int /\ i \in Int
  OBVIOUS
<1> QED
  BY <1>1, <1>2, SubSeqProperties

(* b is h with one byte more.                                                *)
Longer(h, b) ==
    /\ h \in Seq(STRING) /\ b \in Seq(STRING) /\ Len(b) = Len(h) + 1
    /\ \A i \in 1 .. Len(h) : b[i] = h[i]

(* What comes later does not change what has been a sentence.                *)
LEMMA RightsGrow ==
    ASSUME NEW h, NEW b, Longer(h, b), NEW m, m = Len(h) - 4
    PROVE  /\ Rights(h) \in SUBSET Nat /\ IsFiniteSet(Rights(h))
           /\ \A i \in Rights(h) : i >= 1 /\ i + 5 <= Len(h)
           /\ m >= 1 /\ RightAt(b, m) => Rights(b) = Rights(h) \cup {m}
           /\ ~(m >= 1 /\ RightAt(b, m)) => Rights(b) = Rights(h)
<1>0. /\ h \in Seq(STRING) /\ b \in Seq(STRING) /\ Len(b) = Len(h) + 1 /\ Len(h) \in Nat
      /\ \A i \in 1 .. Len(h) : b[i] = h[i]
  BY DEF Longer
<1>1. \A i \in Rights(h) : i \in Nat /\ i >= 1 /\ i + 5 <= Len(h)
  BY DEF Rights, Whole
<1>2. IsFiniteSet(Rights(h))
  <2>1. \A i \in Rights(h) : i <= Len(h)
    BY <1>0, <1>1
  <2> QED
    BY <1>0, <1>1, <2>1, FS_BoundedSetOfNaturals
<1>3. \A i : i \in Rights(h) <=> i \in DOMAIN h /\ RightAt(h, i)
  BY DEF Rights, RightAt
<1>4. \A i : i \in Rights(b) <=> i \in DOMAIN b /\ RightAt(b, i)
  BY DEF Rights, RightAt
<1>5. ASSUME NEW i \in Nat, i >= 1, i + 5 <= Len(h) PROVE RightAt(b, i) <=> RightAt(h, i)
  <2>1. SubSeq(b, i, i + 5) = SubSeq(h, i, i + 5)
    <3> DEFINE p == SubSeq(b, i, i + 5)
               q == SubSeq(h, i, i + 5)
    <3>1. /\ p \in Seq(STRING) /\ Len(p) = 6 /\ q \in Seq(STRING) /\ Len(q) = 6
          /\ \A j \in 1 .. 6 : p[j] = b[i + j - 1] /\ q[j] = h[i + j - 1]
      BY <1>0, <1>5, Piece
    <3>2. \A j \in 1 .. 6 : b[i + j - 1] = h[i + j - 1]
      BY <1>0, <1>5
    <3> HIDE DEF p, q
    <3>3. p = q
      BY <3>1, <3>2, SeqEqual
    <3> QED
      BY <3>3 DEF p, q
  <2>2. \A j \in 0 .. 5 : b[i + j] = h[i + j]
    BY <1>0, <1>5
  <2>3. \A j \in i + 1 .. i + 5 : b[j] = h[j]
    BY <1>0, <1>5
  <2>4. b[i] = h[i] /\ b[i + 1] = h[i + 1] /\ b[i + 3] = h[i + 3] /\ b[i + 4] = h[i + 4] /\ b[i + 5] = h[i + 5]
    BY <1>0, <1>5
  <2>5. i + 5 <= Len(b)
    BY <1>0, <1>5
  <2> QED
    BY <1>5, <2>1, <2>3, <2>4, <2>5 DEF RightAt, Whole
<1>6. \A i : RightAt(b, i) => i + 5 <= Len(b)
  BY DEF RightAt, Whole
<1>7. ASSUME NEW i \in Rights(b) PROVE i \in Rights(h) \/ (i = m /\ m >= 1 /\ RightAt(b, m))
  <2>1. i \in Nat /\ i >= 1 /\ i + 5 <= Len(h) + 1 /\ RightAt(b, i)
    BY <1>0, <1>4, <1>6, <1>7
  <2>2. CASE i + 5 <= Len(h)
    BY <1>0, <1>3, <1>5, <2>1, <2>2
  <2>3. CASE i + 5 = Len(h) + 1
    BY <1>0, <2>1, <2>3
  <2> QED
    BY <1>0, <2>1, <2>2, <2>3
<1>8. Rights(h) \subseteq Rights(b)
  <2> SUFFICES ASSUME NEW i \in Rights(h) PROVE i \in Rights(b)
    OBVIOUS
  <2>1. i \in DOMAIN b
    BY <1>0, <1>1
  <2> QED
    BY <1>1, <1>3, <1>4, <1>5, <2>1
<1>9. m >= 1 /\ RightAt(b, m) => m \in Rights(b)
  <2>1. m >= 1 => m \in DOMAIN b
    BY <1>0
  <2> QED
    BY <1>4, <2>1
<1>10. /\ m >= 1 /\ RightAt(b, m) => Rights(b) = Rights(h) \cup {m}
       /\ ~(m >= 1 /\ RightAt(b, m)) => Rights(b) = Rights(h)
  BY <1>7, <1>8, <1>9
<1> QED
  BY <1>1, <1>2, <1>10

LEMMA SentencesOf ==
    ASSUME NEW h \in Seq(STRING), IsFiniteSet(Rights(h)), Rights(h) \in SUBSET Nat,
           \A i \in Rights(h) : i >= 1 /\ i + 5 <= Len(h), Placed(Rights(h))
    PROVE  /\ Sentences(h) \in Seq(STRING) /\ Len(Sentences(h)) = Cardinality(Rights(h))
           /\ Cardinality(Rights(h)) \in Nat
           /\ \A n \in 1 .. Cardinality(Rights(h)) :
                 /\ Nth(Rights(h), n) \in Rights(h) /\ Place(Rights(h), Nth(Rights(h), n)) = n
                 /\ Sentences(h)[n] = h[Nth(Rights(h), n) + 2]
<1> DEFINE R == Rights(h)
           C == Cardinality(R)
<1>1. C \in Nat
  BY FS_CardinalityType
<1>2. ASSUME NEW n \in 1 .. C PROVE Nth(R, n) \in R /\ Place(R, Nth(R, n)) = n
  <2>1. PICK i \in R : Place(R, i) = n
    BY DEF Placed
  <2>2. Nth(R, n) = i
    BY <2>1, NthIs
  <2> QED
    BY <2>1, <2>2
<1>3. ASSUME NEW i \in R PROVE h[i + 2] \in STRING
  <2>1. i \in Nat /\ i >= 1 /\ i + 5 <= Len(h) /\ Len(h) \in Nat
    OBVIOUS
  <2>2. i + 2 \in 1 .. Len(h)
    BY <2>1
  <2> QED
    BY <2>2
<1>4. Sentences(h) = [n \in 1 .. C |-> h[Nth(R, n) + 2]]
  BY DEF Sentences
<1> HIDE DEF R, C
<1>5. \A n \in 1 .. C : h[Nth(R, n) + 2] \in STRING
  BY <1>2, <1>3
<1>6. Sentences(h) \in [1 .. C -> STRING]
  BY <1>4, <1>5
<1>7. Sentences(h) \in Seq(STRING) /\ Len(Sentences(h)) = C
  BY <1>1, <1>6
<1>8. \A n \in 1 .. C : Sentences(h)[n] = h[Nth(R, n) + 2]
  BY <1>4
<1> QED
  BY <1>1, <1>2, <1>7, <1>8 DEF R, C

(* t is q with x at its end.                                                 *)
With(q, x, t) ==
    Len(t) = Len(q) + 1 /\ t[Len(q) + 1] = x /\ \A j \in 1 .. Len(q) : t[j] = q[j]

LEMMA Appended ==
    ASSUME NEW q \in Seq(STRING), NEW x \in STRING, NEW t, t = Append(q, x)
    PROVE  t \in Seq(STRING) /\ With(q, x, t)
BY AppendProperties DEF With

(* Each right sentence is one more, and its contents come last.              *)
LEMMA SentencesGrow ==
    ASSUME NEW h, NEW b, Longer(h, b), NEW m, m = Len(h) - 4, Placed(Rights(h))
    PROVE  /\ Placed(Rights(b)) /\ Sentences(h) \in Seq(STRING)
           /\ m >= 1 /\ RightAt(b, m) => Sentences(b) = Append(Sentences(h), b[m + 2])
           /\ ~(m >= 1 /\ RightAt(b, m)) => Sentences(b) = Sentences(h)
<1> DEFINE R == Rights(h)
           C == Cardinality(R)
<1>h. /\ h \in Seq(STRING) /\ b \in Seq(STRING) /\ Len(h) \in Nat /\ Len(b) = Len(h) + 1
      /\ \A i \in 1 .. Len(h) : b[i] = h[i]
  BY DEF Longer
<1>r. /\ R \in SUBSET Nat /\ IsFiniteSet(R) /\ \A i \in R : i >= 1 /\ i + 5 <= Len(h)
      /\ Placed(R)
  BY RightsGrow
<1>s. /\ Sentences(h) \in Seq(STRING) /\ Len(Sentences(h)) = C /\ C \in Nat
      /\ \A n \in 1 .. C : /\ Nth(R, n) \in R /\ Place(R, Nth(R, n)) = n
                           /\ Sentences(h)[n] = h[Nth(R, n) + 2]
  BY <1>h, <1>r, SentencesOf
<1>i. \A i \in R : b[i + 2] = h[i + 2]
  <2> SUFFICES ASSUME NEW i \in R PROVE b[i + 2] = h[i + 2]
    OBVIOUS
  <2>1. i + 2 \in 1 .. Len(h)
    BY <1>h, <1>r
  <2> QED
    BY <1>h, <2>1
<1> HIDE DEF R, C
<1>1. CASE m >= 1 /\ RightAt(b, m)
  <2>1. Rights(b) = R \cup {m} /\ m \in Nat /\ m + 5 = Len(b)
    BY <1>h, <1>1, RightsGrow DEF R
  <2>2. \A i \in R : i < m
    BY <1>h, <1>r
  <2>3. /\ IsFiniteSet(Rights(b)) /\ Cardinality(Rights(b)) = C + 1
        /\ \A i \in R : Place(Rights(b), i) = Place(R, i)
        /\ Place(Rights(b), m) = C + 1
    <3>1. /\ IsFiniteSet(R \cup {m}) /\ Cardinality(R \cup {m}) = Cardinality(R) + 1
          /\ \A i \in R : Place(R \cup {m}, i) = Place(R, i)
          /\ Place(R \cup {m}, m) = Cardinality(R) + 1
      BY <1>r, <2>1, <2>2, PlaceGrow
    <3> QED
      BY <2>1, <3>1 DEF C
  <2>4. Placed(Rights(b))
    BY <1>r, <2>1, <2>2, PlacedGrow
  <2>5. Rights(b) \in SUBSET Nat /\ \A i \in Rights(b) : i >= 1 /\ i + 5 <= Len(b)
    <3>1. m >= 1 /\ m + 5 <= Len(b)
      BY <1>h, <1>1, <2>1
    <3>2. \A i \in R : i >= 1 /\ i + 5 <= Len(b)
      BY <1>h, <1>r
    <3> QED
      BY <1>r, <2>1, <3>1, <3>2
  <2>6. /\ Sentences(b) \in Seq(STRING) /\ Len(Sentences(b)) = C + 1
        /\ \A n \in 1 .. C + 1 : Sentences(b)[n] = b[Nth(Rights(b), n) + 2]
    BY <1>h, <2>3, <2>4, <2>5, SentencesOf
  <2>7. ASSUME NEW n \in 1 .. C PROVE Sentences(b)[n] = Sentences(h)[n]
    <3>1. Nth(R, n) \in R /\ Place(Rights(b), Nth(R, n)) = n
      BY <1>s, <2>3
    <3>2. Nth(Rights(b), n) = Nth(R, n)
      BY <2>1, <2>3, <2>5, <3>1, NthIs
    <3>3. n \in 1 .. C + 1
      BY <1>s
    <3> QED
      BY <1>i, <1>s, <2>6, <3>1, <3>2, <3>3
  <2>8. Sentences(b)[C + 1] = b[m + 2]
    <3>1. Nth(Rights(b), C + 1) = m
      BY <2>1, <2>3, <2>5, NthIs
    <3>2. C + 1 \in 1 .. C + 1
      BY <1>s
    <3> QED
      BY <2>6, <3>1, <3>2
  <2>9. b[m + 2] \in STRING
    <3>1. m + 2 \in 1 .. Len(b)
      BY <1>h, <2>1
    <3> QED
      BY <1>h, <3>1
  <2>10. Sentences(b) = Append(Sentences(h), b[m + 2])
    <3> DEFINE x == b[m + 2]
               S == Sentences(h)
               T == Append(S, x)
    <3>1. /\ T \in Seq(STRING) /\ Len(T) = C + 1 /\ \A n \in 1 .. C : T[n] = S[n]
          /\ T[C + 1] = x
      <4> HIDE DEF x, S
      <4>1. x \in STRING /\ S \in Seq(STRING) /\ Len(S) = C
        BY <1>s, <2>9 DEF x, S
      <4>2. /\ T \in Seq(STRING)
            /\ With(S, x, T)
        BY ONLY <4>1, Appended
      <4>3. /\ Len(T) = C + 1
            /\ T[C + 1] = x
            /\ \A n \in 1 .. C : T[n] = S[n]
        BY <4>1, <4>2 DEF With
      <4> QED
        BY <4>2, <4>3
    <3>2. \A n \in 1 .. C + 1 : n \in 1 .. C \/ n = C + 1
      BY <1>s
    <3> HIDE DEF T
    <3>3. \A n \in 1 .. C + 1 : Sentences(b)[n] = T[n]
      BY <2>7, <2>8, <3>1, <3>2
    <3>4. Sentences(b) = T
      BY <2>6, <3>1, <3>3, SeqEqual
    <3> QED
      BY ONLY <3>4 DEF T
  <2> QED
    BY <1>1, <1>s, <2>4, <2>10
<1>2. CASE ~(m >= 1 /\ RightAt(b, m))
  <2>1. Rights(b) = R
    BY <1>2, RightsGrow DEF R
  <2>2. \A i \in R : i + 5 <= Len(b)
    BY <1>h, <1>r
  <2>3. /\ Sentences(b) \in Seq(STRING) /\ Len(Sentences(b)) = C
        /\ \A n \in 1 .. C : Sentences(b)[n] = b[Nth(R, n) + 2]
    BY <1>h, <1>r, <2>1, <2>2, SentencesOf DEF C
  <2>4. \A n \in 1 .. C : Sentences(b)[n] = Sentences(h)[n]
    BY <1>i, <1>s, <2>3
  <2>5. Sentences(b) = Sentences(h)
    BY <1>s, <2>3, <2>4, SeqEqual
  <2> QED
    BY <1>2, <1>r, <1>s, <2>1, <2>5
<1> QED
  BY <1>1, <1>2

-----------------------------------------------------------------------------
(* The decoder                                                               *)

(* A sentence that has begun had begun a byte before.                        *)
LEMMA BegunBefore ==
    ASSUME NEW h, NEW b, Longer(h, b), NEW d, d = b[Len(b)], NEW k \in 0 .. 5, Begun(b, k)
    PROVE  /\ k = 0 => d = "$"
           /\ k >= 1 => Begun(h, k - 1) /\ d # "$"
           /\ k = 1 => d = "R"
           /\ k = 3 => d = "*"
           /\ k = 4 => d # "*"
<1>h. /\ h \in Seq(STRING) /\ b \in Seq(STRING) /\ Len(h) \in Nat /\ Len(b) = Len(h) + 1
      /\ \A i \in 1 .. Len(h) : b[i] = h[i]
  BY DEF Longer
<1>b. /\ k < Len(b) /\ b[Len(b) - k] = "$" /\ \A j \in 1 .. k : b[Len(b) - k + j] # "$"
      /\ k >= 1 => b[Len(b) - k + 1] = "R"
      /\ k >= 3 => b[Len(b) - k + 3] = "*"
      /\ k >= 4 => b[Len(b) - k + 4] # "*"
  BY DEF Begun
<1>1. k = 0 => d = "$"
  BY <1>h, <1>b
<1>2. (k = 1 => d = "R") /\ (k = 3 => d = "*")
  BY <1>h, <1>b
<1>3. k = 4 => d # "*"
  BY <1>h, <1>b
<1>4. ASSUME k >= 1 PROVE Begun(h, k - 1) /\ d # "$"
  <2> DEFINE l == k - 1
             B == Len(h) - l
  <2>1. l \in 0 .. 4 /\ B \in 1 .. Len(h) /\ B = Len(b) - k
    BY <1>h, <1>b, <1>4
  <2>2. d # "$"
    <3>1. k \in 1 .. k /\ Len(b) - k + k = Len(b)
      BY <1>h, <1>4
    <3> QED
      BY <1>b, <3>1
  <2>3. \A j \in 0 .. l : h[B + j] = b[B + j]
    BY <1>h, <2>1
  <2>4. h[B] = "$"
    BY <1>h, <1>b, <2>1
  <2>c. /\ \A j \in 1 .. k : b[B + j] # "$"
        /\ b[B + 1] = "R" /\ (k >= 3 => b[B + 3] = "*") /\ (k >= 4 => b[B + 4] # "*")
    BY <1>b, <1>4, <2>1
  <2>k. /\ l >= 1 => 1 \in 0 .. l
        /\ l >= 3 => 3 \in 0 .. l /\ k >= 3
        /\ l >= 4 => 4 \in 0 .. l /\ k >= 4
        /\ 1 .. l \subseteq 1 .. k /\ 1 .. l \subseteq 0 .. l
    BY <2>1
  <2> HIDE DEF l, B
  <2>5. \A j \in 1 .. l : h[B + j] # "$"
    BY <2>3, <2>c, <2>k
  <2>6. l >= 1 => h[B + 1] = "R"
    BY <2>3, <2>c, <2>k
  <2>7. (l >= 3 => h[B + 3] = "*") /\ (l >= 4 => h[B + 4] # "*")
    BY <2>3, <2>c, <2>k
  <2>8. l < Len(h) /\ B = Len(h) - l
    BY <1>h, <2>1 DEF B
  <2> QED
    BY <2>2, <2>4, <2>5, <2>6, <2>7, <2>8 DEF Begun, l
<1> QED
  BY <1>1, <1>2, <1>3, <1>4

LEMMA Heard ==
    ASSUME TypeOK, gps_decoder
    PROVE  Longer(heard, heard') /\ heard'[Len(heard')] = Head(line)
<1>1. heard \in Seq(STRING) /\ Head(line) \in STRING /\ heard' = Append(heard, Head(line))
  BY DecoderStep DEF TypeOK, DecoderTypes
<1>2. /\ heard' \in Seq(STRING) /\ Len(heard') = Len(heard) + 1
      /\ \A i \in 1 .. Len(heard) : heard'[i] = heard[i]
      /\ heard'[Len(heard) + 1] = Head(line)
  BY <1>1, AppendProperties
<1> QED
  BY <1>1, <1>2 DEF Longer

LEMMA NextBuffer == ASSUME TypeOK, BufferInv, BegunInv, gps_decoder PROVE BufferInv' /\ BegunInv'
<1> DEFINE d == Head(line)
           t == Filled(d)
           L == Len(heard)
<1>h. /\ Longer(heard, heard') /\ heard'[Len(heard')] = d /\ d \in STRING
      /\ heard \in Seq(STRING) /\ Len(heard') = L + 1 /\ L \in Nat
      /\ \A i \in 1 .. L : heard'[i] = heard[i]
  BY Heard, DecoderStep DEF Longer
<1>s. /\ s \in Seq(STRING) /\ Len(s) \in Nat /\ receiving \in 0 .. 3 /\ t \in Seq(STRING)
      /\ GPSBUFLEN \in Nat /\ GPSBUFLEN > 6
  BY DecoderStep, GpsAssumption DEF TypeOK, DecoderTypes
<1>d. /\ receiving = 0 /\ d # "$" => s' = s /\ receiving' = receiving
      /\ receiving # 0 \/ d = "$" => s' = Decoded(d, t).s /\ receiving' = Decoded(d, t).receiving
  BY DEF gps_decoder
<1>b. ASSUME NEW k \in 1 .. 4, Begun(heard', k)
      PROVE  /\ d # "$" /\ Len(s) = k /\ receiving \in Stages(k - 1)
             /\ (k = 1 => d = "R") /\ (k = 3 => d = "*") /\ (k = 4 => d # "*")
  <2>1. /\ Begun(heard, k - 1) /\ d # "$"
        /\ (k = 1 => d = "R") /\ (k = 3 => d = "*") /\ (k = 4 => d # "*")
    BY <1>h, <1>b, BegunBefore
  <2>2. k - 1 \in 0 .. 4 /\ (k - 1) + 1 = k
    OBVIOUS
  <2> QED
    BY <2>1, <2>2 DEF BegunInv
<1>z. Begun(heard', 0) => d = "$"
  BY <1>h, BegunBefore
<1>k. \A k \in 0 .. 4 : k = 0 \/ k \in 1 .. 4
  OBVIOUS
<1> HIDE DEF d, L
<1>1. CASE receiving = 0 /\ d # "$"
  <2>1. s' = s /\ receiving' = 0
    BY <1>1, <1>d
  <2>2. BegunInv'
    <3> SUFFICES ASSUME NEW k \in 0 .. 4, Begun(heard', k) PROVE FALSE
      BY DEF BegunInv
    <3>1. k \in 1 .. 4
      BY <1>1, <1>k, <1>z
    <3>2. receiving \in Stages(k - 1)
      BY <1>b, <3>1
    <3> QED
      BY <1>1, <3>1, <3>2 DEF Stages
  <2> QED
    BY <2>1, <2>2 DEF BufferInv
<1>2. CASE d = "$"
  <2>1. t = <<"$">> /\ Len(t) = 1 /\ Len(t) < GPSBUFLEN
    BY <1>2, <1>s DEF Filled
  <2>2. s' = t /\ receiving' = 1
    <3>1. Decoded(d, t) = [s |-> t, receiving |-> 1]
      BY <1>2, <1>s, <2>1, DecodedCases
    <3> HIDE DEF t
    <3> QED
      BY <1>2, <1>d, <3>1
  <2>3. BufferInv'
    BY <1>2, <1>h, <2>1, <2>2 DEF BufferInv
  <2>4. BegunInv'
    <3> SUFFICES ASSUME NEW k \in 0 .. 4, Begun(heard', k)
                 PROVE  Len(s') = k + 1 /\ receiving' \in Stages(k)
      BY DEF BegunInv
    <3>1. k = 0
      BY <1>2, <1>b, <1>k
    <3> QED
      BY <2>1, <2>2, <3>1 DEF Stages
  <2> QED
    BY <2>3, <2>4
<1>3. CASE receiving # 0 /\ d # "$"
  <2> DEFINE n == Len(s)
  <2>1. t = Append(s, d)
    BY <1>3 DEF Filled
  <2>2. /\ Len(t) = n + 1 /\ t[n + 1] = d /\ \A j \in 1 .. n : t[j] = s[j]
    <3> HIDE DEF t
    <3>1. s \in Seq(STRING) /\ d \in STRING
      BY <1>h, <1>s
    <3>2. With(s, d, t)
      BY <2>1, <3>1, Appended
    <3> QED
      BY <3>2 DEF With
  <2>3. /\ n \in 1 .. L /\ s[1] = "$" /\ \A j \in 2 .. n : s[j] # "$"
        /\ \A j \in 1 .. n : s[j] = heard[L - n + j]
        /\ receiving = 2 => s[n] = "*"
        /\ receiving = 3 => n >= 3 /\ s[n - 1] = "*" /\ s[n] # "*"
    BY <1>3 DEF BufferInv, L
  <2> HIDE DEF t, n
  <2>4. /\ t[1] = "$" /\ \A j \in 2 .. n + 1 : t[j] # "$"
    <3>1. t[1] = "$"
      BY <1>h, <2>2, <2>3
    <3>2. ASSUME NEW j \in 2 .. n + 1 PROVE t[j] # "$"
      <4>1. CASE j = n + 1
        BY <1>3, <2>2, <4>1
      <4>2. CASE j \in 2 .. n
        BY <2>2, <2>3, <4>2
      <4> QED
        BY <1>h, <2>3, <4>1, <4>2
    <3> QED
      BY <3>1, <3>2
  <2>5. \A j \in 1 .. n + 1 : t[j] = heard'[(L + 1) - (n + 1) + j]
    <3> TAKE j \in 1 .. n + 1
    <3>1. CASE j = n + 1
      BY <1>h, <2>2, <2>3, <3>1
    <3>2. CASE j \in 1 .. n
      <4>1. L - n + j \in 1 .. L /\ (L + 1) - (n + 1) + j = L - n + j
        BY <1>h, <2>3, <3>2
      <4> QED
        BY <1>h, <2>2, <2>3, <3>2, <4>1
    <3> QED
      BY <1>h, <2>3, <3>1, <3>2
  <2>6. n \in Nat /\ n >= 1 /\ n <= L
    BY <1>h, <2>3
  <2>7. CASE Len(t) >= GPSBUFLEN
    <3>1. receiving' = 0
      <4>1. Decoded(d, t) = [s |-> <<>>, receiving |-> 0]
        BY <1>s, <2>7, DecodedCases
      <4> QED
        BY <1>3, <1>d, <4>1
    <3>2. BegunInv'
      <4> SUFFICES ASSUME NEW k \in 0 .. 4, Begun(heard', k) PROVE FALSE
        BY DEF BegunInv
      <4>1. k \in 1 .. 4 /\ n = k
        BY <1>3, <1>b, <1>k, <1>z DEF n
      <4> QED
        BY <1>s, <2>2, <2>7, <4>1
    <3> QED
      BY <3>1, <3>2 DEF BufferInv
  <2>8. CASE Len(t) < GPSBUFLEN /\ ~(receiving = 3 /\ d # "*")
    <3>1. /\ s' = t
          /\ d = "*" => receiving' = 2
          /\ d # "*" /\ receiving = 2 => receiving' = 3
          /\ d # "*" /\ receiving = 1 => receiving' = 1
      <4> DEFINE r == IF d = "*" THEN 2 ELSE IF receiving = 2 THEN 3 ELSE 1
      <4>1. Decoded(d, t) = [s |-> t, receiving |-> r]
        BY <1>3, <1>s, <2>8, DecodedCases
      <4>2. s' = t /\ receiving' = r
        <5> HIDE DEF r
        <5> QED
          BY <1>3, <1>d, <4>1
      <4> QED
        BY <4>2
    <3>2. receiving = 1 \/ receiving = 2 \/ (receiving = 3 /\ d = "*")
      BY <1>3, <1>s, <2>8
    <3>3. /\ receiving' = 2 => d = "*"
          /\ receiving' = 3 => d # "*" /\ receiving = 2
      BY <3>1, <3>2
    <3>4. receiving' = 3 => n + 1 >= 3 /\ t[n] = "*" /\ t[n + 1] # "*"
      <4> SUFFICES ASSUME receiving' = 3 PROVE n + 1 >= 3 /\ t[n] = "*" /\ t[n + 1] # "*"
        OBVIOUS
      <4>1. s[n] = "*" /\ d # "*"
        BY <2>3, <3>3
      <4>2. n # 1
        BY <2>3, <4>1
      <4> QED
        BY <2>2, <2>6, <4>1, <4>2
    <3>5. BufferInv'
      <4>1. Len(s') = n + 1 /\ Len(s') \in 1 .. Len(heard')
        BY <1>h, <2>2, <2>6, <3>1
      <4>2. receiving' = 2 => t[n + 1] = "*"
        BY <2>2, <3>3
      <4>3. receiving' = 3 => Len(s') >= 3 /\ s'[Len(s') - 1] = "*" /\ s'[Len(s')] # "*"
        BY <2>6, <3>1, <3>4, <4>1
      <4> QED
        BY <1>h, <2>4, <2>5, <3>1, <4>1, <4>2, <4>3 DEF BufferInv
    <3>6. BegunInv'
      <4> SUFFICES ASSUME NEW k \in 0 .. 4, Begun(heard', k)
                   PROVE  Len(s') = k + 1 /\ receiving' \in Stages(k)
        BY DEF BegunInv
      <4>1. /\ k \in 1 .. 4 /\ n = k /\ receiving \in Stages(k - 1)
            /\ (k = 1 => d = "R") /\ (k = 3 => d = "*") /\ (k = 4 => d # "*")
        BY <1>3, <1>b, <1>k, <1>z DEF n
      <4>2. Len(s') = k + 1
        BY <2>2, <3>1, <4>1
      <4>3. receiving' \in Stages(k)
        <5>1. CASE k = 1
          BY <3>1, <4>1, <5>1 DEF Stages
        <5>2. CASE k = 2
          BY <3>1, <4>1, <5>2 DEF Stages
        <5>3. CASE k = 3
          BY <3>1, <4>1, <5>3 DEF Stages
        <5>4. CASE k = 4
          BY <3>1, <4>1, <5>4 DEF Stages
        <5> QED
          BY <4>1, <5>1, <5>2, <5>3, <5>4
      <4> QED
        BY <4>2, <4>3
    <3> QED
      BY <3>5, <3>6
  <2>9. CASE Len(t) < GPSBUFLEN /\ receiving = 3 /\ d # "*"
    <3>1. receiving' = 0
      <4>1. Decoded(d, t) = [s |-> <<>>, receiving |-> 0]
        BY <1>3, <1>s, <2>9, DecodedCases
      <4> QED
        BY <1>3, <1>d, <4>1
    <3>2. BegunInv'
      <4> SUFFICES ASSUME NEW k \in 0 .. 4, Begun(heard', k) PROVE FALSE
        BY DEF BegunInv
      <4>1. k \in 1 .. 4 /\ receiving \in Stages(k - 1)
        BY <1>3, <1>b, <1>k, <1>z
      <4> QED
        BY <2>9, <4>1 DEF Stages
    <3> QED
      BY <3>1, <3>2 DEF BufferInv
  <2> QED
    BY <1>s, <2>7, <2>8, <2>9
<1> QED
  BY <1>1, <1>2, <1>3

LEMMA RmcOf ==
    ASSUME NEW t \in Seq(STRING), Len(t) = 6, t[2] = "R"
    PROVE  Rmc(t)
<1>1. \A i \in 2 .. 3 : t[i] \in STRING
  OBVIOUS
<1>2. Body(t) = SubSeq(t, 2, 3)
  BY DEF Body
<1>3. /\ Len(SubSeq(t, 2, 3)) = IF 2 <= 3 THEN 3 - 2 + 1 ELSE 0
      /\ \A i \in 1 .. 3 - 2 + 1 : SubSeq(t, 2, 3)[i] = t[2 + i - 1]
  BY <1>1, SubSeqProperties
<1>4. Len(Body(t)) = 2 /\ \A i \in 1 .. 2 : Body(t)[i] = t[i + 1]
  BY <1>2, <1>3
<1>5. Body(t)[1] = "R"
  BY <1>4
<1> QED
  BY <1>4, <1>5 DEF Rmc

(* The decoder takes the buffer for a sentence exactly when a right one has  *)
(* come to its end.                                                          *)
LEMMA Completed ==
    ASSUME TypeOK, BufferInv, BegunInv, gps_decoder,
           NEW t, t = Filled(Head(line)), NEW m, m = Len(heard) - 4,
           NEW complete, complete \in BOOLEAN,
           complete <=> receiving = 3 /\ Head(line) \notin {"*", "$"} /\ Len(t) < GPSBUFLEN
    PROVE  /\ complete /\ Right(t) /\ Rmc(t) =>
                m >= 1 /\ RightAt(heard', m) /\ Body(t)[2] = heard'[m + 2]
           /\ m >= 1 /\ RightAt(heard', m) => complete /\ Right(t) /\ Rmc(t)
<1> DEFINE d == Head(line)
           b == heard'
<1>h. /\ Longer(heard, b) /\ b[Len(b)] = d /\ d \in STRING
      /\ heard \in Seq(STRING) /\ b \in Seq(STRING) /\ Len(b) = Len(heard) + 1
      /\ Len(heard) \in Nat
      /\ \A i \in 1 .. Len(heard) : b[i] = heard[i]
  BY Heard, DecoderStep DEF Longer
<1>s. /\ s \in Seq(STRING) /\ Len(s) \in Nat /\ receiving \in 0 .. 3 /\ t \in Seq(STRING)
      /\ GPSBUFLEN \in Nat /\ GPSBUFLEN > 6
  BY DecoderStep, GpsAssumption DEF TypeOK, DecoderTypes
<1> HIDE DEF d, b
(* Then the buffer is the last six bytes.                                    *)
<1>1. ASSUME receiving = 3, d # "$", Len(s) = 5
      PROVE  /\ m >= 1 /\ Len(t) = 6 /\ t = SubSeq(b, m, m + 5)
             /\ \A j \in 1 .. 6 : t[j] = b[m + j - 1]
             /\ t[1] = "$" /\ t[4] = "*" /\ t[5] # "*" /\ t[6] = d
             /\ \A j \in 2 .. 6 : t[j] # "$"
  <2>1. t = Append(s, d)
    BY <1>1 DEF Filled, d
  <2>2. Len(t) = 6 /\ t[6] = d /\ \A j \in 1 .. 5 : t[j] = s[j]
    <3>1. With(s, d, t)
      BY <1>h, <1>s, <2>1, Appended
    <3> QED
      BY <1>1, <3>1 DEF With
  <2>3. /\ 5 <= Len(heard) /\ s[1] = "$" /\ \A j \in 2 .. 5 : s[j] # "$"
        /\ \A j \in 1 .. 5 : s[j] = heard[Len(heard) - 5 + j]
        /\ s[4] = "*" /\ s[5] # "*"
    BY <1>1, <1>s DEF BufferInv
  <2>4. m >= 1 /\ m \in Nat /\ m + 5 = Len(b)
    BY <1>h, <2>3
  <2>5. ASSUME NEW j \in 1 .. 6 PROVE t[j] = b[m + j - 1]
    <3>1. CASE j = 6
      BY <1>h, <2>2, <2>4, <3>1
    <3>2. CASE j \in 1 .. 5
      <4>1. m + j - 1 \in 1 .. Len(heard) /\ m + j - 1 = Len(heard) - 5 + j
        BY <1>h, <2>4, <3>2
      <4> QED
        BY <1>h, <2>2, <2>3, <3>2, <4>1
    <3> QED
      BY <3>1, <3>2
  <2>6. t = SubSeq(b, m, m + 5)
    <3> DEFINE p == SubSeq(b, m, m + 5)
    <3>1. /\ p \in Seq(STRING) /\ Len(p) = 6 /\ \A j \in 1 .. 6 : p[j] = b[m + j - 1]
      BY <1>h, <2>4, Piece
    <3> HIDE DEF p
    <3>2. \A j \in 1 .. 6 : t[j] = p[j]
      BY <2>5, <3>1
    <3>3. t \in Seq(STRING) /\ p \in Seq(STRING) /\ Len(t) = Len(p)
      BY <1>s, <2>2, <3>1
    <3>4. \A j \in 1 .. Len(t) : t[j] = p[j]
      BY <2>2, <3>2
    <3>5. t = p
      BY ONLY <3>3, <3>4, SeqEqual
    <3> QED
      BY ONLY <3>5 DEF p
  <2>7. ASSUME NEW j \in 2 .. 6 PROVE t[j] # "$"
    <3>1. CASE j = 6
      BY <1>1, <2>2, <3>1
    <3>2. CASE j \in 2 .. 5
      <4>1. j \in 1 .. 5 /\ s[j] # "$"
        BY <2>3, <3>2
      <4> QED
        BY <2>2, <4>1
    <3> QED
      BY <3>1, <3>2
  <2>8. t[1] = "$" /\ t[4] = "*" /\ t[5] # "*"
    BY <2>2, <2>3
  <2> QED
    BY <2>2, <2>4, <2>5, <2>6, <2>7, <2>8
<1>2. ASSUME complete, Right(t), Rmc(t)
      PROVE  m >= 1 /\ RightAt(b, m) /\ Body(t)[2] = b[m + 2]
  <2>1. receiving = 3 /\ d \notin {"*", "$"}
    BY <1>2 DEF d
  <2>2. Len(t) = 6 /\ t[2] = "R" /\ Body(t)[2] = t[3]
    BY <1>2, <1>s, BodyOf
  <2>3. Len(s) = 5
    <3>1. t = Append(s, d)
      BY <2>1 DEF Filled, d
    <3>2. With(s, d, t)
      BY <1>h, <1>s, <3>1, Appended
    <3>3. Len(t) = Len(s) + 1
      BY <3>2 DEF With
    <3>4. Len(t) = 6 /\ Len(s) \in Nat
      BY <1>s, <2>2
    <3>5. Len(s) + 1 = 6
      BY ONLY <3>3, <3>4
    <3>6. \A n \in Nat : n + 1 = 6 => n = 5
      OBVIOUS
    <3>7. Len(s) \in Nat
      BY ONLY <3>4
    <3> QED
      BY ONLY <3>5, <3>6, <3>7, Zenon
  <2>4. /\ m >= 1 /\ t = SubSeq(b, m, m + 5) /\ \A j \in 1 .. 6 : t[j] = b[m + j - 1]
        /\ t[1] = "$" /\ t[4] = "*" /\ t[5] # "*" /\ t[6] = d
        /\ \A j \in 2 .. 6 : t[j] # "$"
    BY <1>1, <2>1, <2>3
  <2>5. /\ t[1] = b[m] /\ t[2] = b[m + 1] /\ t[3] = b[m + 2] /\ t[4] = b[m + 3]
        /\ t[5] = b[m + 4] /\ t[6] = b[m + 5]
    BY <1>h, <2>4
  <2>6. \A j \in m + 1 .. m + 5 : b[j] # "$"
    <3> TAKE j \in m + 1 .. m + 5
    <3>1. j - m + 1 \in 2 .. 6 /\ m + (j - m + 1) - 1 = j
      BY <1>h
    <3>2. t[j - m + 1] = b[m + (j - m + 1) - 1]
      BY <2>4, <3>1
    <3> QED
      BY <2>4, <3>1, <3>2
  <2>7. Whole(b, m)
    BY <1>h, <2>1, <2>4, <2>5, <2>6 DEF Whole
  <2>8. RightAt(b, m)
    BY <1>2, <2>2, <2>4, <2>5, <2>7 DEF RightAt
  <2> QED
    BY <2>2, <2>4, <2>5, <2>8
<1>3. ASSUME m >= 1, RightAt(b, m)
      PROVE  complete /\ Right(t) /\ Rmc(t)
  <2>1. /\ b[m] = "$" /\ \A j \in m + 1 .. m + 5 : b[j] # "$"
        /\ b[m + 1] = "R" /\ b[m + 3] = "*" /\ b[m + 4] # "*" /\ b[m + 5] # "*"
        /\ Right(SubSeq(b, m, m + 5))
    BY <1>3 DEF RightAt, Whole
  <2>2. m \in Nat /\ m + 5 = Len(b) /\ m + 4 = Len(heard)
    BY <1>h, <1>3
  <2>3. Begun(b, 5)
    <3>1. Len(b) - 5 = m /\ 5 < Len(b)
      BY <1>h, <1>3, <2>2
    <3>2. \A j \in 1 .. 5 : m + j \in m + 1 .. m + 5
      BY <2>2
    <3> QED
      BY <2>1, <3>1, <3>2 DEF Begun
  <2>4. Begun(heard, 4) /\ d # "$"
    BY <1>h, <2>3, BegunBefore
  <2>5. receiving = 3 /\ Len(s) = 5
    BY <2>4 DEF BegunInv, Stages
  <2>6. d # "*"
    BY <1>h, <2>1, <2>2
  <2>7. /\ Len(t) = 6 /\ t = SubSeq(b, m, m + 5) /\ \A j \in 1 .. 6 : t[j] = b[m + j - 1]
    BY <1>1, <2>4, <2>5
  <2>8. t[2] = "R"
    BY <2>1, <2>2, <2>7
  <2>9. complete
    BY <1>s, <2>4, <2>5, <2>6, <2>7 DEF d
  <2> QED
    BY <1>s, <2>1, <2>7, <2>8, <2>9, RmcOf
<1> QED
  BY <1>2, <1>3 DEF b

LEMMA InitSentences == Init => SentenceInv
<1> SUFFICES ASSUME Init PROVE SentenceInv
  OBVIOUS
<1>1. heard = <<>> /\ stored = <<>> /\ ~lock /\ receiving = 0
  BY DEF Init
<1>2. Rights(heard) = {} /\ Cardinality(Rights(heard)) = 0
  <2>1. Rights(heard) = {}
    BY <1>1 DEF Rights
  <2> QED
    BY <2>1, FS_EmptySet
<1>3. Placed(Rights(heard))
  BY <1>2 DEF Placed
<1>4. Sentences(heard) = <<>>
  <2>1. Sentences(heard) = [n \in 1 .. 0 |-> heard[Nth(Rights(heard), n) + 2]]
    BY <1>2 DEF Sentences
  <2> QED
    BY <2>1
<1>5. AllSentencesStored
  BY <1>1, <1>4 DEF AllSentencesStored
<1>6. BegunInv
  <2>1. \A k \in 0 .. 4 : ~(k < Len(heard))
    BY <1>1
  <2> QED
    BY <2>1 DEF BegunInv, Begun
<1> QED
  BY <1>1, <1>3, <1>5, <1>6 DEF SentenceInv, BufferInv

LEMMA NextSentences == TypeOK /\ TypeOK' /\ SentenceInv /\ [Next]_vars => SentenceInv'
<1> SUFFICES ASSUME TypeOK, TypeOK', SentenceInv, [Next]_vars PROVE SentenceInv'
  OBVIOUS
<1>i. BufferInv /\ BegunInv /\ Placed(Rights(heard)) /\ AllSentencesStored
  BY DEF SentenceInv
<1>t. heard \in Seq(STRING) /\ stored \in Seq(Contents) /\ storing \in Sentence
  BY DEF TypeOK, DecoderTypes, UserTypes
<1>1. CASE gps_decoder
  <2> DEFINE t == Filled(Head(line))
             m == Len(heard) - 4
             complete == receiving = 3 /\ Head(line) \notin {"*", "$"} /\ Len(t) < GPSBUFLEN
  <2>1. BufferInv' /\ BegunInv'
    BY <1>1, <1>i, NextBuffer
  <2>2. Longer(heard, heard') /\ ~lock /\ stored' = stored
    BY <1>1, Heard, DecoderStep DEF gps_decoder
  <2>3. /\ complete /\ Right(t) /\ Rmc(t) =>
              lock' = TRUE /\ storing' = [n |-> Len(stored) + 1, contents |-> Body(t)[2]]
        /\ ~(complete /\ Right(t) /\ Rmc(t)) => lock' = lock
    BY <1>1 DEF gps_decoder
  <2>4. /\ complete /\ Right(t) /\ Rmc(t) =>
                m >= 1 /\ RightAt(heard', m) /\ Body(t)[2] = heard'[m + 2]
        /\ m >= 1 /\ RightAt(heard', m) => complete /\ Right(t) /\ Rmc(t)
    BY <1>1, <1>i, Completed
  <2> HIDE DEF t, m, complete
  <2>5. /\ Placed(Rights(heard')) /\ Sentences(heard) \in Seq(STRING)
        /\ m >= 1 /\ RightAt(heard', m) => Sentences(heard') = Append(Sentences(heard), heard'[m + 2])
        /\ ~(m >= 1 /\ RightAt(heard', m)) => Sentences(heard') = Sentences(heard)
    BY <1>i, <2>2, SentencesGrow DEF m
  <2>6. Sentences(heard) = stored
    <3>1. Sentences(heard) = stored \o <<>>
      BY <1>i, <2>2 DEF AllSentencesStored
    <3> QED
      BY <1>t, <3>1
  <2>7. AllSentencesStored'
    <3>1. CASE complete /\ Right(t) /\ Rmc(t)
      <4>1. Sentences(heard') = Append(stored, storing'.contents) /\ lock'
        BY <2>3, <2>4, <2>5, <2>6, <3>1
      <4>2. storing'.contents \in Contents
        BY DEF TypeOK, UserTypes, Sentence
      <4>3. Append(stored, storing'.contents) = stored \o <<storing'.contents>>
        BY <1>t, <4>2, AppendIsConcat
      <4> QED
        BY <2>2, <4>1, <4>3 DEF AllSentencesStored
    <3>2. CASE ~(complete /\ Right(t) /\ Rmc(t))
      <4>1. Sentences(heard') = stored /\ lock' = lock
        BY <2>3, <2>4, <2>5, <2>6, <3>2
      <4>2. stored \o <<>> = stored
        BY <1>t
      <4> QED
        BY <2>2, <4>1, <4>2 DEF AllSentencesStored
    <3> QED
      BY <3>1, <3>2
  <2> QED
    BY <2>1, <2>5, <2>7 DEF SentenceInv
<1>2. ASSUME UNCHANGED <<s, receiving, heard>>, AllSentencesStored' PROVE SentenceInv'
  BY <1>i, <1>2 DEF SentenceInv, BufferInv, BegunInv
<1>3. ASSUME UNCHANGED <<s, receiving, heard, stored, lock, storing>> PROVE SentenceInv'
  <2>1. AllSentencesStored'
    BY <1>i, <1>3 DEF AllSentencesStored
  <2> QED
    BY <1>2, <1>3, <2>1
<1>4. CASE StoreLatitude
  BY <1>3, <1>4 DEF StoreLatitude
<1>5. CASE StoreLongitude
  <2>1. /\ lock /\ ~lock' /\ UNCHANGED <<s, receiving, heard>>
        /\ stored' = Append(stored, storing.contents)
    BY <1>5 DEF StoreLongitude
  <2>2. Sentences(heard) = stored \o <<storing.contents>>
    BY <1>i, <2>1 DEF AllSentencesStored
  <2>3. storing.contents \in Contents
    BY <1>t DEF Sentence
  <2>4. Append(stored, storing.contents) = stored \o <<storing.contents>>
    BY <1>t, <2>3, AppendIsConcat
  <2>5. stored' \o <<>> = stored'
    BY DEF TypeOK, UserTypes
  <2>6. AllSentencesStored'
    BY <2>1, <2>2, <2>4, <2>5 DEF AllSentencesStored
  <2> QED
    BY <1>2, <2>1, <2>6
<1>6. CASE getSunPos \/ getQTHloc
  <2>1. UNCHANGED gpsvars
    BY <1>6, UserSteps DEF Begin, Get, CheckLengths, Letters
  <2> QED
    BY <1>3, <2>1 DEF gpsvars
<1>7. CASE Send \/ UNCHANGED vars
  BY <1>3, <1>7 DEF Send, vars, gpsvars
<1> QED
  BY <1>1, <1>4, <1>5, <1>6, <1>7 DEF Next, gpsproc

(* Whatever bytes come over the line, the decoder stores the right sentences *)
(* in their order, each once, and nothing else, as long as the buffer is     *)
(* longer than a sentence.                                                   *)
THEOREM SentencesCorrect == Spec => []AllSentencesStored
<1>1. SentenceInv => AllSentencesStored
  BY DEF SentenceInv
<1> QED
  BY <1>1, InitTypes, NextTypes, InitSentences, NextSentences, PTL DEF Spec

-----------------------------------------------------------------------------
(* What is converted.                                                        *)

LEMMA InitInput == InitCodecs => InputKnown
  BY DEF InitCodecs, InputKnown

LEMMA NextInput == InputKnown /\ [NextCodecs]_input => InputKnown'
  BY DEF NextCodecs, InputKnown

LEMMA InputAlways == SpecCodecs => []InputKnown
  BY InitInput, NextInput, PTL DEF SpecCodecs

-----------------------------------------------------------------------------
(* The locator of a position.                                                *)

(* t ten thousandths of a degree are d degrees and m hundredths of a minute,  *)
(* less at most one and two thirds.                                          *)
Near(t, d, m) ==
    t \in Nat /\ 3 * t <= 5 * (6000 * d + m) /\ 3 * t >= 5 * (6000 * d + m) - 5

LEMMA TenThousandthsNear ==
    ASSUME NEW d \in Nat, NEW m \in Nat, NEW err \in {0, 1}
    PROVE  Near(Locators!TenThousandths(d, m, err), d, m)
<1> DEFINE x == 5 * (6000 * d + m)
           n == x \div 3
<1>1. x \in Nat
  OBVIOUS
<1> HIDE DEF x
<1>2. n \in Nat /\ 3 * n <= x /\ 3 * n >= x - 2
  BY <1>1
<1>3. Locators!TenThousandths(d, m, err) = IF n = 0 THEN 0 ELSE n - err
  BY DEF Locators!TenThousandths, x
<1> HIDE DEF n
<1>4. 3 * (n - 1) = 3 * n - 3
  BY <1>2
<1> QED
  BY <1>1, <1>2, <1>3, <1>4 DEF x, Near

(* Field, square and sub-square of a longitude, and where they begin.        *)
LEMMA LonDigits ==
    ASSUME NEW n \in Nat, n < 3600000
    PROVE  LET d == Locators!Digits(n, 2)
           IN  /\ d[1] \in 0 .. 17 /\ d[2] \in 0 .. 9 /\ d[3] \in 0 .. 23
               /\ 60 * n >= 100 * Locators!Corner(d, 2) /\ 60 * n < 100 * Locators!Corner(d, 2) + 50000
<1> DEFINE m == n * 60
           field == m \div 12000000
           rest == m - field * 12000000
           square == rest \div 1200000
           last == rest - square * 1200000
           sub == last \div 50000
<1>1. m \in Nat /\ m < 216000000
  BY SMT
<1> HIDE DEF m
<1>2. field \in 0 .. 17 /\ rest \in Nat /\ rest < 12000000
  BY <1>1, SMT
<1> HIDE DEF rest
<1>3. square \in 0 .. 9 /\ last \in Nat /\ last < 1200000
  BY <1>2, SMT
<1> HIDE DEF last
<1>4. sub \in 0 .. 23 /\ last >= sub * 50000 /\ last < sub * 50000 + 50000
  BY <1>3, SMT
<1>5. Locators!Digits(n, 2) = <<field, square, sub>>
  BY SMT DEF Locators!Digits, Locators!Sub, m, rest, last
<1>6. m = field * 12000000 + square * 1200000 + last
  BY <1>1, <1>2, <1>3, SMT DEF rest, last
<1> DEFINE d == Locators!Digits(n, 2)
<1>7. d[1] = field /\ d[2] = square /\ d[3] = sub
  BY <1>5, SMT
<1> HIDE DEF field, square, sub, d
<1>8. Locators!Corner(d, 2) = 2 * (60000 * field + 6000 * square + 250 * sub)
  BY <1>7, SMT DEF Locators!Corner
<1> QED
  BY <1>2, <1>3, <1>4, <1>6, <1>7, <1>8, SMT DEF m, d

(* Field, square and sub-square of a latitude, and where they begin.         *)
LEMMA LatDigits ==
    ASSUME NEW n \in Nat, n < 1800000
    PROVE  LET d == Locators!Digits(n, 1)
           IN  /\ d[1] \in 0 .. 17 /\ d[2] \in 0 .. 9 /\ d[3] \in 0 .. 23
               /\ 60 * n >= 100 * Locators!Corner(d, 1) /\ 60 * n < 100 * Locators!Corner(d, 1) + 25000
<1> DEFINE m == n * 60
           field == m \div 6000000
           rest == m - field * 6000000
           square == rest \div 600000
           last == rest - square * 600000
           sub == last \div 25000
<1>1. m \in Nat /\ m < 108000000
  BY SMT
<1> HIDE DEF m
<1>2. field \in 0 .. 17 /\ rest \in Nat /\ rest < 6000000
  BY <1>1, SMT
<1> HIDE DEF rest
<1>3. square \in 0 .. 9 /\ last \in Nat /\ last < 600000
  BY <1>2, SMT
<1> HIDE DEF last
<1>4. sub \in 0 .. 23 /\ last >= sub * 25000 /\ last < sub * 25000 + 25000
  BY <1>3, SMT
<1>5. Locators!Digits(n, 1) = <<field, square, sub>>
  BY SMT DEF Locators!Digits, Locators!Sub, m, rest, last
<1>6. m = field * 6000000 + square * 600000 + last
  BY <1>1, <1>2, <1>3, SMT DEF rest, last
<1> DEFINE d == Locators!Digits(n, 1)
<1>7. d[1] = field /\ d[2] = square /\ d[3] = sub
  BY <1>5, SMT
<1> HIDE DEF field, square, sub, d
<1>8. Locators!Corner(d, 1) = 1 * (60000 * field + 6000 * square + 250 * sub)
  BY <1>7, SMT DEF Locators!Corner
<1> QED
  BY <1>2, <1>3, <1>4, <1>6, <1>7, <1>8, SMT DEF m, d

(* A coordinate as ten thousandths from the corner of the map.               *)
LEMMA OffsetNear ==
    ASSUME NEW range \in Nat, NEW c \in Coordinate(range),
           NEW offset, offset = range * 10000, NEW limit, limit = range * 20000,
           NEW n, n = Locators!Offset(Locators!TenThousandths(c.degrees, c.minutes, c.err), c.negative, offset),
           NEW place, place = Locators!Position(c.degrees, c.minutes, c.negative, range)
    PROVE  /\ n \in Nat /\ n < limit /\ place \in Int
           /\ 60 * n >= 100 * place - 100 /\ 60 * n <= 100 * place + 100
<1> DEFINE t == Locators!TenThousandths(c.degrees, c.minutes, c.err)
           P == 6000 * c.degrees + c.minutes
<1>c. /\ c.degrees \in Nat /\ c.minutes \in Nat /\ c.minutes < 6000
      /\ c.err \in {0, 1} /\ c.degrees < range
  BY DEF Coordinate
<1>1. t \in Nat /\ 3 * t <= 5 * P /\ 3 * t >= 5 * P - 5
  <2>1. Near(t, c.degrees, c.minutes)
    BY <1>c, TenThousandthsNear
  <2> QED
    BY <2>1 DEF Near
<1> HIDE DEF t
<1>2. P \in Nat /\ P < 6000 * range
  BY <1>c
<1>3. n = IF c.negative THEN range * 10000 - t ELSE range * 10000 + t
  BY DEF Locators!Offset, t
<1>4. place = IF c.negative THEN 6000 * range - P ELSE 6000 * range + P
  BY <1>c, SMT DEF Locators!Position
<1> HIDE DEF P
<1>5. /\ n \in Nat /\ n < limit /\ place \in Int
      /\ 60 * n >= 100 * place - 100 /\ 60 * n <= 100 * place + 100
  <2>1. CASE c.negative
    <3>1. n = range * 10000 - t
      BY ONLY <1>3, <2>1
    <3>2. place = 6000 * range - P
      BY <1>4, <2>1
    <3> QED
      BY <1>1, <1>2, <3>1, <3>2, SMT
  <2>2. CASE ~c.negative
    <3>1. n = range * 10000 + t
      BY ONLY <1>3, <2>2
    <3>2. place = 6000 * range + P
      BY <1>4, <2>2
    <3> QED
      BY <1>1, <1>2, <3>1, <3>2, SMT
  <2> QED
    BY <2>1, <2>2
<1> QED
  BY <1>5

(* CalculateGridSquare gives the sub-square a position is in, or the next    *)
(* one if it is on its border, for every position a receiver can send, west  *)
(* of 180 degrees east and south of 90 north (gps.cpp 394-424).              *)
THEOREM SquareContains ==
    ASSUME NEW lon \in Coordinate(180), NEW lat \in Coordinate(90)
    PROVE  Locators!Contains(lon, lat)
<1> DEFINE x == Locators!Offset(Locators!TenThousandths(lon.degrees, lon.minutes, lon.err), lon.negative, 1800000)
           y == Locators!Offset(Locators!TenThousandths(lat.degrees, lat.minutes, lat.err), lat.negative, 900000)
           px == Locators!Position(lon.degrees, lon.minutes, lon.negative, 180)
           py == Locators!Position(lat.degrees, lat.minutes, lat.negative, 90)
           dx == Locators!Digits(x, 2)
           dy == Locators!Digits(y, 1)
<1>n. /\ 180 \in Nat /\ 180 * 10000 = 1800000 /\ 180 * 20000 = 3600000
      /\ 90 \in Nat /\ 90 * 10000 = 900000 /\ 90 * 20000 = 1800000
  BY SMT
<1>1. /\ x \in Nat /\ x < 3600000 /\ px \in Int
      /\ 60 * x >= 100 * px - 100 /\ 60 * x <= 100 * px + 100
  BY <1>n, OffsetNear
<1>2. /\ y \in Nat /\ y < 1800000 /\ py \in Int
      /\ 60 * y >= 100 * py - 100 /\ 60 * y <= 100 * py + 100
  BY <1>n, OffsetNear
<1> HIDE DEF x, y, px, py
<1>3. /\ dx[1] \in 0 .. 17 /\ dx[2] \in 0 .. 9 /\ dx[3] \in 0 .. 23
      /\ 60 * x >= 100 * Locators!Corner(dx, 2) /\ 60 * x < 100 * Locators!Corner(dx, 2) + 50000
  BY <1>1, LonDigits
<1>4. /\ dy[1] \in 0 .. 17 /\ dy[2] \in 0 .. 9 /\ dy[3] \in 0 .. 23
      /\ 60 * y >= 100 * Locators!Corner(dy, 1) /\ 60 * y < 100 * Locators!Corner(dy, 1) + 25000
  BY <1>2, LatDigits
<1> HIDE DEF dx, dy
<1>5. Locators!Inside(px, <<dx[1], dx[2], dx[3]>>, 2)
  <2>0. dx[1] \in Int /\ dx[2] \in Int /\ dx[3] \in Int
    BY <1>3
  <2>1. Locators!Corner(dx, 2) \in Int /\ Locators!Corner(<<dx[1], dx[2], dx[3]>>, 2) = Locators!Corner(dx, 2)
    BY ONLY <2>0, SMT DEF Locators!Corner
  <2>2. px >= Locators!Corner(dx, 2) - 2 /\ px <= Locators!Corner(dx, 2) + 250 * 2 - 1 + 2
    BY <1>1, <1>3, <2>1, SMT
  <2> QED
    BY <1>1, <1>3, <2>1, <2>2, SMT DEF Locators!Inside, Locators!Tolerance
<1>6. Locators!Inside(py, <<dy[1], dy[2], dy[3]>>, 1)
  <2>0. dy[1] \in Int /\ dy[2] \in Int /\ dy[3] \in Int
    BY <1>4
  <2>1. Locators!Corner(dy, 1) \in Int /\ Locators!Corner(<<dy[1], dy[2], dy[3]>>, 1) = Locators!Corner(dy, 1)
    BY ONLY <2>0, SMT DEF Locators!Corner
  <2>2. py >= Locators!Corner(dy, 1) - 2 /\ py <= Locators!Corner(dy, 1) + 250 * 1 - 1 + 2
    BY <1>2, <1>4, <2>1, SMT
  <2> QED
    BY <1>2, <1>4, <2>1, <2>2, SMT DEF Locators!Inside, Locators!Tolerance
<1> QED
  BY <1>5, <1>6 DEF Locators!Contains, Locators!CalculateGridSquare, x, y, px, py, dx, dy

LEMMA PositionKnown ==
    ASSUME InputKnown, input.codec = "position"
    PROVE  input.lon \in Coordinate(180) /\ input.lat \in Coordinate(90)
<1>1. input \in PositionInputs
  BY SocketInputs, GpsInputs, BoardInputs, FigureInputs, OtherInputs DEF InputKnown, Nothing
<1> QED
  BY <1>1, GpsInputs

(* The locator that is asked for is the one of the position that was read.   *)
THEOREM LocatorCorrect == SpecCodecs => []LocatorContains
<1>1. InputKnown => LocatorContains
  <2> SUFFICES ASSUME InputKnown, input.codec = "position"
               PROVE  Locators!Contains(input.lon, input.lat)
    BY DEF LocatorContains
  <2> QED
    BY PositionKnown, SquareContains
<1> QED
  BY <1>1, InputAlways, PTL

-----------------------------------------------------------------------------
(* The days of the calendar.                                                 *)

LEMMA DateKnown ==
    ASSUME InputKnown, input.codec = "date"
    PROVE  /\ input.tag \in 1 .. 31 /\ input.monat \in 1 .. 12 /\ input.jj \in Nat
           /\ input.tag <= Sun!DaysOf(input.monat, input.jj)
<1>1. input \in DateInputs
  BY SocketInputs, GpsInputs, BoardInputs, FigureInputs, OtherInputs DEF InputKnown, Nothing
<1> QED
  BY <1>1, GpsInputs

(* The days before a month of a year that begins in March, and the years     *)
(* before it: what Datum2JDatum adds to the day of the month.                *)
Before(monat, jahr) ==
    Sun!GregorianPart(jahr) + (1461 * (jahr + 4716)) \div 4 + (306001 * (monat + 1)) \div 10000

LEMMA BeforeInteger ==
    ASSUME NEW monat \in Nat, NEW jahr \in Nat
    PROVE  Before(monat, jahr) \in Int
BY SMT DEF Before, Sun!GregorianPart

(* The days up to a month of the calendar.                                   *)
Upto(monat, jj) ==
    IF monat <= 2 THEN Before(monat + 12, 1999 + jj) ELSE Before(monat, 2000 + jj)

LEMMA UptoInteger ==
    ASSUME NEW monat \in 1 .. 12, NEW jj \in Nat
    PROVE  Upto(monat, jj) \in Int
<1>1. 1999 + jj \in Nat /\ 2000 + jj \in Nat /\ monat + 12 \in Nat /\ monat \in Nat
  OBVIOUS
<1> QED
  BY <1>1, BeforeInteger DEF Upto

(* Half days to the first of January 2000, at noon.                         *)
Epoch == 4903090

(* A date on a day that is so many days late, at a time of it.               *)
Dated(date, day, stunden, minuten) ==
    /\ date.jd0 = 2 * day - 3049
    /\ date.jd = 720 * (2 * day - 3049 - Epoch) + 60 * stunden + minuten

LEMMA JulianDate ==
    ASSUME NEW tag \in Nat, NEW monat \in 1 .. 12, NEW jj \in Nat,
           NEW stunden \in Nat, NEW minuten \in Nat
    PROVE  Dated(Sun!calcSonnenpos(tag, monat, jj, stunden, minuten),
                 Upto(monat, jj) + tag, stunden, minuten)
<1>1. 2000 + jj - 1 = 1999 + jj
  OBVIOUS
<1>2. CASE monat <= 2
  BY <1>1, <1>2, SMT DEF Sun!calcSonnenpos, Sun!Datum2JDatum, Sun!LateMonat, Before,
     Upto, Epoch, Dated
<1>3. CASE ~(monat <= 2)
  BY <1>3, SMT DEF Sun!calcSonnenpos, Sun!Datum2JDatum, Sun!LateMonat, Before,
     Upto, Epoch, Dated
<1> QED
  BY <1>2, <1>3

(* February is as long as the leap years make it.                            *)
LEMMA March ==
    ASSUME NEW jj \in Nat
    PROVE  Before(3, 2000 + jj) = Before(14, 1999 + jj) + (IF Sun!Leap(2000 + jj) THEN 29 ELSE 28)
<1> DEFINE j == 2000 + jj
           c == j \div 100
<1>1. j \in Nat /\ 1999 + jj = j - 1 /\ j > 0
  OBVIOUS
<1> HIDE DEF j
<1>2. (j - 1) \div 100 = IF j % 100 = 0 THEN c - 1 ELSE c
  BY <1>1, SMT
<1>3. c \in Nat /\ (j % 100 = 0 => c > 0)
  BY <1>1, SMT
<1>4. j % 400 = 0 <=> j % 100 = 0 /\ c % 4 = 0
  BY <1>1, SMT
<1>5. j % 100 = 0 => j % 4 = 0
  BY <1>1, SMT
<1> HIDE DEF c
<1>6. (c - 1) \div 4 = IF c % 4 = 0 THEN c \div 4 - 1 ELSE c \div 4
  BY <1>3, SMT
<1>7. Sun!GregorianPart(j) = 2 - c + c \div 4
  BY DEF Sun!GregorianPart, c
<1>8. Sun!GregorianPart(j - 1) =
          IF j % 100 = 0 THEN 2 - (c - 1) + (c - 1) \div 4 ELSE 2 - c + c \div 4
  BY <1>2 DEF Sun!GregorianPart
<1>9. (1461 * (j + 4716)) \div 4
          = (1461 * (j - 1 + 4716)) \div 4 + (IF j % 4 = 0 THEN 366 ELSE 365)
  BY <1>1, SMT
<1>10. (306001 * (3 + 1)) \div 10000 = 122 /\ (306001 * (14 + 1)) \div 10000 = 459
  BY SMT
<1>11. c \div 4 \in Int /\ (1461 * (j - 1 + 4716)) \div 4 \in Int
  BY <1>1, <1>3, SMT
<1>12. Sun!Leap(j) <=> j % 4 = 0 /\ (j % 100 # 0 \/ c % 4 = 0)
  BY <1>4 DEF Sun!Leap
<1> DEFINE g == Sun!GregorianPart(j)
           h == Sun!GregorianPart(j - 1)
           b == (1461 * (j - 1 + 4716)) \div 4
<1>13. g \in Int /\ h = IF j % 100 = 0 THEN (IF c % 4 = 0 THEN g ELSE g + 1) ELSE g
  BY <1>3, <1>6, <1>7, <1>8, <1>11, SMT
<1>14. Before(3, j) = g + (b + (IF j % 4 = 0 THEN 366 ELSE 365)) + 122
  BY <1>9, <1>10 DEF Before
<1>15. Before(14, j - 1) = h + b + 459
  BY <1>10 DEF Before
<1>16. Before(3, j) = Before(14, j - 1) + (IF Sun!Leap(j) THEN 29 ELSE 28)
  <2> HIDE DEF g, h, b
  <2>1. CASE j % 100 = 0
    BY <1>5, <1>11, <1>12, <1>13, <1>14, <1>15, <2>1 DEF b
  <2>2. CASE j % 100 # 0
    BY <1>11, <1>12, <1>13, <1>14, <1>15, <2>2 DEF b
  <2> QED
    BY <2>1, <2>2
<1> QED
  BY <1>1, <1>16 DEF j

(* The other months of the year that begins in March.                        *)
LEMMA MonthLater ==
    ASSUME NEW jahr \in Nat, NEW monat \in 3 .. 13
    PROVE  Before(monat + 1, jahr)
               = Before(monat, jahr) + (IF monat \in {4, 6, 9, 11} THEN 30 ELSE 31)
<1> DEFINE f(m) == (306001 * (m + 1)) \div 10000
<1>1. f(monat + 1) = f(monat) + (IF monat \in {4, 6, 9, 11} THEN 30 ELSE 31)
  BY SMT
<1>2. f(monat) \in Int /\ (1461 * (jahr + 4716)) \div 4 \in Int /\ Sun!GregorianPart(jahr) \in Int
  BY SMT DEF Sun!GregorianPart
<1> QED
  BY <1>1, <1>2 DEF Before

(* Datum2JDatum counts a day for every day of the calendar, in every year.   *)
THEOREM CalendarCounted ==
    ASSUME NEW monat \in 1 .. 12, NEW jj \in Nat, NEW tag \in 1 .. 31,
           tag <= Sun!DaysOf(monat, jj)
    PROVE  Sun!Counted(tag, monat, jj)
<1>2. ASSUME NEW t \in Nat, NEW m \in 1 .. 12, NEW j \in Nat, Upto(m, j) + t = Upto(monat, jj) + tag + 1
      PROVE  Sun!calcSonnenpos(t, m, j, 0, 0).jd = Sun!calcSonnenpos(tag, monat, jj, 23, 59).jd + 1
  <2>1. /\ Upto(m, j) \in Int
        /\ Dated(Sun!calcSonnenpos(t, m, j, 0, 0), Upto(m, j) + t, 0, 0)
    BY UptoInteger, JulianDate
  <2>2. /\ Upto(monat, jj) \in Int
        /\ Dated(Sun!calcSonnenpos(tag, monat, jj, 23, 59), Upto(monat, jj) + tag, 23, 59)
    <3>1. tag \in Nat /\ 23 \in Nat /\ 59 \in Nat
      OBVIOUS
    <3> QED
      BY <3>1, UptoInteger, JulianDate
  <2>3. Epoch \in Int
    BY SMT DEF Epoch
  <2> QED
    BY <1>2, <2>1, <2>2, <2>3, SMT DEF Dated
<1>3. ASSUME NEW t \in Nat, NEW m \in 1 .. 12, NEW j \in Nat,
             Sun!Tomorrow(tag, monat, jj) = <<t, m, j>>, Upto(m, j) + t = Upto(monat, jj) + tag + 1
      PROVE  LET next == Sun!Tomorrow(tag, monat, jj)
             IN  Sun!calcSonnenpos(next[1], next[2], next[3], 0, 0).jd
                     = Sun!calcSonnenpos(tag, monat, jj, 23, 59).jd + 1
  BY <1>2, <1>3
<1>4. Upto(monat, jj) \in Int
  BY UptoInteger
<1>5. LET next == Sun!Tomorrow(tag, monat, jj)
      IN  Sun!calcSonnenpos(next[1], next[2], next[3], 0, 0).jd
              = Sun!calcSonnenpos(tag, monat, jj, 23, 59).jd + 1
  <2>1. CASE tag < Sun!DaysOf(monat, jj)
    <3>1. Sun!Tomorrow(tag, monat, jj) = <<tag + 1, monat, jj>>
      BY <2>1 DEF Sun!Tomorrow
    <3>2. tag + 1 \in Nat /\ Upto(monat, jj) + (tag + 1) = Upto(monat, jj) + tag + 1
      BY <1>4
    <3> QED
      BY <1>3, <3>1, <3>2
  <2>2. CASE ~(tag < Sun!DaysOf(monat, jj))
    <3>0. Sun!DaysOf(monat, jj) \in Int
      BY DEF Sun!DaysOf
    <3>1. tag = Sun!DaysOf(monat, jj)
      BY <2>2, <3>0
    <3>2. CASE monat < 12
      <4>1. Sun!Tomorrow(tag, monat, jj) = <<1, monat + 1, jj>> /\ monat + 1 \in 1 .. 12
        BY <2>2, <3>2 DEF Sun!Tomorrow
      <4>2. Upto(monat + 1, jj) = Upto(monat, jj) + tag
        <5>1. CASE monat = 1
          <6>1. Sun!DaysOf(monat, jj) = 31
            BY <5>1 DEF Sun!DaysOf
          <6>2. 1999 + jj \in Nat /\ Before(13 + 1, 1999 + jj) = Before(13, 1999 + jj) + 31
            BY MonthLater
          <6> QED
            BY <3>1, <5>1, <6>1, <6>2 DEF Upto
        <5>2. CASE monat = 2
          <6>1. Sun!DaysOf(monat, jj) = IF Sun!Leap(2000 + jj) THEN 29 ELSE 28
            BY <5>2 DEF Sun!DaysOf
          <6> QED
            BY <3>1, <5>2, <6>1, March DEF Upto
        <5>3. CASE monat > 2
          <6>1. Sun!DaysOf(monat, jj) = IF monat \in {4, 6, 9, 11} THEN 30 ELSE 31
            BY <5>3 DEF Sun!DaysOf
          <6>2. monat \in 3 .. 13 /\ 2000 + jj \in Nat
            BY <5>3
          <6>3. Before(monat + 1, 2000 + jj)
                    = Before(monat, 2000 + jj) + (IF monat \in {4, 6, 9, 11} THEN 30 ELSE 31)
            BY <6>2, MonthLater
          <6> QED
            BY <3>1, <5>3, <6>1, <6>3 DEF Upto
        <5> QED
          BY <5>1, <5>2, <5>3
      <4>3. Upto(monat + 1, jj) + 1 = Upto(monat, jj) + tag + 1
        BY <1>4, <4>2
      <4> QED
        BY <1>3, <4>1, <4>3
    <3>3. CASE ~(monat < 12)
      <4>1. monat = 12
        BY <3>3
      <4>2. Sun!Tomorrow(tag, monat, jj) = <<1, 1, jj + 1>> /\ jj + 1 \in Nat
        BY <2>2, <3>3 DEF Sun!Tomorrow
      <4>3. Sun!DaysOf(monat, jj) = 31
        BY <4>1 DEF Sun!DaysOf
      <4>4. 1999 + (jj + 1) = 2000 + jj /\ 2000 + jj \in Nat
        OBVIOUS
      <4>5. Before(12 + 1, 2000 + jj) = Before(12, 2000 + jj) + 31
        BY <4>4, MonthLater
      <4>6. Upto(1, jj + 1) = Upto(12, jj) + 31
        BY <4>4, <4>5 DEF Upto
      <4>7. Upto(1, jj + 1) + 1 = Upto(monat, jj) + tag + 1
        BY <1>4, <3>1, <4>1, <4>3, <4>6
      <4> QED
        BY <1>3, <4>2, <4>7
    <3> QED
      BY <3>2, <3>3
  <2> QED
    BY <2>1, <2>2
<1>6. <<tag, monat, jj>> = <<1, 1, 0>> => Sun!calcSonnenpos(tag, monat, jj, 0, 0).jd0 = 4903089
  <2> SUFFICES ASSUME tag = 1, monat = 1, jj = 0
               PROVE  Sun!calcSonnenpos(1, 1, 0, 0, 0).jd0 = 4903089
    BY SMT
  <2>1. Sun!calcSonnenpos(1, 1, 0, 0, 0).jd0 = 2 * (Before(13, 1999) + 1) - 3049
    BY JulianDate, SMT DEF Upto, Dated
  <2>2. Before(13, 1999) = 2453068
    BY SMT DEF Before, Sun!GregorianPart
  <2> QED
    BY <2>1, <2>2, SMT
<1> QED
  BY <1>5, <1>6, SMT DEF Sun!Counted

(* The sun is calculated for the day that it is.                             *)
THEOREM DaysCorrect == SpecCodecs => []DaysCounted
<1>1. InputKnown => DaysCounted
  BY DateKnown, CalendarCounted DEF DaysCounted
<1> QED
  BY <1>1, InputAlways, PTL
=============================================================================
