--------------------------- MODULE EncoderProofs ---------------------------
(* Proofs about Encoder and the I2cInputs under it: what a question to the   *)
(* ADC is answered with, and that the turns of the wheel are counted, for    *)
(* any number of askers, channels, polls, failed transfers and turns; and    *)
(* about the thermistor at the ADC.                                          *)
EXTENDS Encoder, Codecs, TLAPS, WellFoundedInduction

-----------------------------------------------------------------------------
(* Types                                                                     *)

Bit == {0, 1}
Bits == [a : Bit, b : Bit]
Cells == [asked : BOOLEAN, waiting : SUBSET Askers]

BusPlaces == {"a", "b", "store", "adc", "convert"}

(* The askers and the channels                                               *)
AskTypes ==
    /\ bus \in [at : BusPlaces, channel : Channels, began : SUBSET Askers]
    /\ adcinputs \in [Channels -> Cells]
    /\ apc \in [Askers -> Channels \cup {Idle}] /\ to \in [Askers -> Int]
    /\ answer \in [Askers -> {"none", "fresh", "under way", "0xffff"}]
    /\ asks \in Nat

(* The registers, the wheel and the counting thread                          *)
WheelTypes ==
    /\ inputs \in Bits /\ u2 \in Bits
    /\ faults \in [gpio : Nat, adc : Nat]
    /\ wheel \in 0 .. 3 /\ way \in {1, -1} /\ turned \in Nat /\ edges \in Nat
    /\ aval \in Bit /\ oldaval \in Bit /\ encsteps \in Int /\ total \in Int
    /\ at \in {"A", "B"} /\ seen \in {"nobody", "bus", "image", "half", "thread"}

TypeOK == AskTypes /\ WheelTypes

LEMMA InitTypes == Init => TypeOK
<1> SUFFICES ASSUME Init PROVE TypeOK
  OBVIOUS
<1> USE InputsAssumption DEF Init, InitInputs
<1>1. Conversion({}) \in Cells
  BY DEF Conversion, Cells
<1>2. AskTypes
  BY <1>1 DEF AskTypes, BusPlaces
<1>3. WheelTypes
  BY DEF WheelTypes, Bits, Bit
<1> QED
  BY <1>2, <1>3 DEF TypeOK

(* The level on a wire, in both readings of the remainder.                   *)
LEMMA Wires ==
    ASSUME wheel \in 0 .. 3
    PROVE  /\ WireA = (IF wheel \in {2, 3} THEN 1 ELSE 0)
           /\ WireB = (IF wheel \in {1, 2} THEN 1 ELSE 0)
BY DEF WireA, WireB

LEMMA WireBits == TypeOK => WireA \in Bit /\ WireB \in Bit
BY DEF TypeOK, WheelTypes, WireA, WireB, Bit

(* What the reading of a register does to each piece of the state.           *)
LEMMA RegisterRead ==
    ASSUME TypeOK, NEW r \in {"a", "b"}, NEW next \in BusPlaces, NEW level \in Bit,
           ReadRegister(r, next, level)
    PROVE  /\ bus.at = r /\ bus' = [bus EXCEPT !.at = next] /\ bus'.at = next
           /\ bus'.channel = bus.channel /\ bus'.began = bus.began
           /\ u2' \in Bits /\ faults' \in [gpio : Nat, adc : Nat]
           /\ r = "a" => u2'.b = u2.b
           /\ r = "b" => u2'.a = u2.a
           /\ \/ faults' = faults /\ u2'[r] = level
              \/ faults'.gpio = faults.gpio + 1 /\ faults' # faults /\ u2'[r] = 0
           /\ UNCHANGED <<inputs, adcvars>>
<1> USE DEF ReadRegister, Goto
<1>1. /\ bus \in [at : BusPlaces, channel : Channels, began : SUBSET Askers]
      /\ u2 \in Bits /\ faults \in [gpio : Nat, adc : Nat]
  BY DEF TypeOK, AskTypes, WheelTypes
<1>2. /\ bus.at = r /\ bus' = [bus EXCEPT !.at = next] /\ bus'.at = next
      /\ bus'.channel = bus.channel /\ bus'.began = bus.began
      /\ UNCHANGED <<inputs, adcvars>>
  BY <1>1
<1>3. CASE u2' = [u2 EXCEPT ![r] = level] /\ UNCHANGED faults
  BY <1>1, <1>2, <1>3 DEF Bits
<1>4. CASE Fault("gpio") /\ u2' = [u2 EXCEPT ![r] = 0]
  <2>1. u2' \in Bits /\ u2'[r] = 0 /\ (r = "a" => u2'.b = u2.b) /\ (r = "b" => u2'.a = u2.a)
    BY <1>1, <1>4 DEF Bits, Bit
  <2>2. /\ faults'.gpio = faults.gpio + 1 /\ faults' # faults
        /\ faults' \in [gpio : Nat, adc : Nat]
    BY <1>1, <1>4 DEF Fault
  <2> QED
    BY <1>2, <2>1, <2>2
<1> QED
  BY <1>3, <1>4

LEMMA NextTypes == TypeOK /\ [Next]_vars => TypeOK'
<1> SUFFICES ASSUME TypeOK, [Next]_vars PROVE TypeOK'
  OBVIOUS
<1>a. /\ bus \in [at : BusPlaces, channel : Channels, began : SUBSET Askers]
      /\ adcinputs \in [Channels -> Cells]
      /\ apc \in [Askers -> Channels \cup {Idle}] /\ to \in [Askers -> Int]
      /\ answer \in [Askers -> {"none", "fresh", "under way", "0xffff"}]
      /\ asks \in Nat
  BY DEF TypeOK, AskTypes
<1>w. /\ inputs \in Bits /\ u2 \in Bits /\ faults \in [gpio : Nat, adc : Nat]
      /\ wheel \in 0 .. 3 /\ way \in {1, -1} /\ turned \in Nat /\ edges \in Nat
      /\ aval \in Bit /\ oldaval \in Bit /\ encsteps \in Int /\ total \in Int
      /\ at \in {"A", "B"} /\ seen \in {"nobody", "bus", "image", "half", "thread"}
  BY DEF TypeOK, WheelTypes
<1>b. WireA \in Bit /\ WireB \in Bit /\ inputs.a \in Bit
  BY <1>w, WireBits DEF Bits
<1>c. Requested \in Cells /\ \A ws \in SUBSET Askers : Conversion(ws) \in Cells
  BY DEF Requested, Conversion, Cells
<1>ask. ASSUME UNCHANGED <<bus, adcvars>> PROVE AskTypes'
  BY <1>a, <1>ask DEF AskTypes, adcvars
<1>whl. ASSUME UNCHANGED <<u2, inputs, faults, encvars, wheelvars, seen, total>> PROVE WheelTypes'
  BY <1>w, <1>whl DEF WheelTypes, encvars, wheelvars
<1>1. CASE Turn
  <2>1. AskTypes'
    BY <1>1, <1>ask DEF Turn, busvars
  <2>2. wheel' \in 0 .. 3 /\ edges' \in Nat /\ turned' \in Nat
    BY <1>1, <1>w DEF Turn
  <2>3. WheelTypes'
    BY <1>1, <1>w, <2>2 DEF Turn, WheelTypes, busvars, encvars
  <2> QED
    BY <2>1, <2>3 DEF TypeOK
<1>2. CASE GetA
  <2>1. AskTypes'
    BY <1>2, <1>ask DEF GetA, Undisturbed, busvars
  <2>2. WheelTypes'
    BY <1>2, <1>w, <1>b DEF GetA, Undisturbed, WheelTypes, busvars, wheelvars
  <2> QED
    BY <2>1, <2>2 DEF TypeOK
<1>3. CASE GetB
  <2>1. AskTypes'
    BY <1>3, <1>ask DEF GetB, Undisturbed, busvars
  <2>2. WheelTypes'
    BY <1>3, <1>w DEF GetB, Undisturbed, WheelTypes, busvars, wheelvars, Count
  <2> QED
    BY <2>1, <2>2 DEF TypeOK
<1>4. CASE getEncSteps
  <2>1. AskTypes'
    BY <1>4, <1>ask DEF getEncSteps, Undisturbed, busvars
  <2>2. WheelTypes'
    BY <1>4, <1>w DEF getEncSteps, Undisturbed, WheelTypes, busvars, wheelvars
  <2> QED
    BY <2>1, <2>2 DEF TypeOK
<1>5. CASE read_gpios /\ UNCHANGED <<encvars, wheelvars, total>>
  <2>1. CASE ReadRegister("a", "b", WireA) /\ ScanBegins
    <3>1. /\ bus' = [bus EXCEPT !.at = "b"] /\ u2' \in Bits
          /\ faults' \in [gpio : Nat, adc : Nat] /\ UNCHANGED <<inputs, adcvars>>
      BY <1>b, <2>1, RegisterRead DEF BusPlaces
    <3>2. bus' \in [at : BusPlaces, channel : Channels, began : SUBSET Askers]
      BY <1>a, <3>1 DEF BusPlaces
    <3>3. AskTypes'
      BY <1>a, <3>1, <3>2 DEF AskTypes, adcvars
    <3>4. seen' \in {"nobody", "bus", "image", "half", "thread"}
      BY <1>w, <2>1 DEF ScanBegins
    <3>5. WheelTypes'
      BY <1>5, <1>w, <3>1, <3>4 DEF WheelTypes, encvars, wheelvars
    <3> QED
      BY <3>3, <3>5 DEF TypeOK
  <2>2. CASE /\ ReadRegister("b", "store", WireB)
             /\ seen' = IF seen = "bus" /\ faults' # faults THEN "nobody" ELSE seen
    <3>1. /\ bus' = [bus EXCEPT !.at = "store"] /\ u2' \in Bits
          /\ faults' \in [gpio : Nat, adc : Nat] /\ UNCHANGED <<inputs, adcvars>>
      BY <1>b, <2>2, RegisterRead DEF BusPlaces
    <3>2. bus' \in [at : BusPlaces, channel : Channels, began : SUBSET Askers]
      BY <1>a, <3>1 DEF BusPlaces
    <3>3. AskTypes'
      BY <1>a, <3>1, <3>2 DEF AskTypes, adcvars
    <3>4. seen' \in {"nobody", "bus", "image", "half", "thread"}
      BY <1>w, <2>2
    <3>5. WheelTypes'
      BY <1>5, <1>w, <3>1, <3>4 DEF WheelTypes, encvars, wheelvars
    <3> QED
      BY <3>3, <3>5 DEF TypeOK
  <2>3. CASE StoreInputs /\ seen' = IF seen = "bus" THEN "image" ELSE seen
    <3>1. AskTypes'
      BY <1>a, <2>3, InputsAssumption DEF StoreInputs, AskTypes, adcvars, BusPlaces
    <3>2. WheelTypes'
      BY <1>5, <1>w, <2>3 DEF StoreInputs, WheelTypes, encvars, wheelvars
    <3> QED
      BY <3>1, <3>2 DEF TypeOK
  <2> QED
    BY <1>5, <2>1, <2>2, <2>3 DEF read_gpios
<1>6. CASE read_adc /\ UNCHANGED rest
  <2>n. NextChannel => bus' \in [at : BusPlaces, channel : Channels, began : SUBSET Askers]
    <3>1. [at |-> "a", channel |-> 0, began |-> {}]
               \in [at : BusPlaces, channel : Channels, began : SUBSET Askers]
      BY InputsAssumption DEF BusPlaces
    <3>2. bus.channel + 1 \in Channels =>
            [at |-> "adc", channel |-> bus.channel + 1, began |-> {}]
               \in [at : BusPlaces, channel : Channels, began : SUBSET Askers]
      BY DEF BusPlaces
    <3> QED
      BY <3>1, <3>2 DEF NextChannel
  <2>1. CASE SkipChannel
    <3>1. AskTypes' /\ UNCHANGED <<u2, inputs, faults>>
      BY <1>a, <2>1, <2>n DEF SkipChannel, AskTypes, adcvars
    <3> QED
      BY <1>6, <1>whl, <3>1 DEF TypeOK, rest
  <2>2. CASE BeginConversion
    <3>1. bus' \in [at : BusPlaces, channel : Channels, began : SUBSET Askers]
      BY <1>a, <2>2 DEF BeginConversion, BusPlaces
    <3>2. AskTypes' /\ UNCHANGED <<u2, inputs, faults>>
      BY <1>a, <2>2, <3>1 DEF BeginConversion, AskTypes, adcvars
    <3> QED
      BY <1>6, <1>whl, <3>2 DEF TypeOK, rest
  <2>3. CASE EndConversion
    <3>1. adcinputs' \in [Channels -> Cells]
      <4>1. bus.began \in SUBSET Askers
        BY <1>a
      <4>2. PICK v \in Cells : adcinputs' = [adcinputs EXCEPT ![bus.channel] = v]
        BY <1>c, <2>3, <4>1 DEF EndConversion
      <4> QED
        BY <1>a, <4>2
    <3>2. AskTypes'
      BY <1>a, <2>3, <2>n, <3>1 DEF EndConversion, AskTypes
    <3>3. faults' \in [gpio : Nat, adc : Nat]
      BY <1>w, <2>3 DEF EndConversion, Fault
    <3>4. WheelTypes'
      BY <1>6, <1>w, <2>3, <3>3 DEF EndConversion, WheelTypes, rest, encvars, wheelvars
    <3> QED
      BY <3>2, <3>4 DEF TypeOK
  <2> QED
    BY <1>6, <2>1, <2>2, <2>3 DEF read_adc
<1>7. ASSUME NEW u \in Askers, Look(u), UNCHANGED rest PROVE TypeOK'
  <2>1. /\ apc' \in [Askers -> Channels \cup {Idle}] /\ to' \in [Askers -> Int]
        /\ answer' \in [Askers -> {"none", "fresh", "under way", "0xffff"}]
    <3>0. to[u] \in Int
      BY <1>a
    <3>1. to[u] - 1 \in Int /\ Idle \in Channels \cup {Idle}
      BY <3>0
    <3>2. /\ apc' = apc \/ apc' = [apc EXCEPT ![u] = Idle]
          /\ to' = to \/ to' = [to EXCEPT ![u] = to[u] - 1]
          /\ \/ answer' = answer
             \/ \E x \in {"none", "fresh", "under way", "0xffff"} :
                   answer' = [answer EXCEPT ![u] = x]
      <4>1. CASE adcinputs[apc[u]] # Requested
        BY <1>7, <4>1 DEF Look
      <4>2. CASE adcinputs[apc[u]] = Requested
        BY <1>7, <4>2 DEF Look
      <4> QED
        BY <4>1, <4>2
    <3>3. apc' \in [Askers -> Channels \cup {Idle}]
      BY <1>a, <3>1, <3>2
    <3>4. to' \in [Askers -> Int]
      BY <1>a, <3>1, <3>2
    <3>5. answer' \in [Askers -> {"none", "fresh", "under way", "0xffff"}]
      BY <1>a, <3>2
    <3> QED
      BY <3>3, <3>4, <3>5
  <2>2. AskTypes'
    BY <1>a, <1>7, <2>1 DEF Look, AskTypes, busvars
  <2>3. WheelTypes'
    BY <1>7, <1>whl DEF Look, rest, busvars
  <2> QED
    BY <2>2, <2>3 DEF TypeOK
<1>8. ASSUME NEW u \in Askers, NEW c \in Channels, Ask(u, c), UNCHANGED rest PROVE TypeOK'
  <2>1. bus' \in [at : BusPlaces, channel : Channels, began : SUBSET Askers]
    BY <1>a, <1>8 DEF Ask
  <2>2. /\ apc' \in [Askers -> Channels \cup {Idle}] /\ to' \in [Askers -> Int]
        /\ answer' \in [Askers -> {"none", "fresh", "under way", "0xffff"}]
        /\ asks' \in Nat
    <3>1. Polls \in Int /\ c \in Channels \cup {Idle}
      BY InputsAssumption
    <3>2. apc' \in [Askers -> Channels \cup {Idle}]
      BY <1>a, <1>8, <3>1 DEF Ask
    <3>3. to' \in [Askers -> Int]
      BY <1>a, <1>8, <3>1 DEF Ask
    <3>4. answer' \in [Askers -> {"none", "fresh", "under way", "0xffff"}]
      BY <1>a, <1>8 DEF Ask
    <3>5. asks' \in Nat
      <4>1. asks' = asks + 1 /\ asks \in Nat
        BY <1>a, <1>8 DEF Ask
      <4> QED
        BY <4>1
    <3> QED
      BY <3>2, <3>3, <3>4, <3>5
  <2>3. adcinputs' \in [Channels -> Cells]
    BY <1>a, <1>c, <1>8 DEF Ask
  <2>4. AskTypes'
    BY <2>1, <2>2, <2>3 DEF AskTypes
  <2>5. WheelTypes'
    BY <1>8, <1>whl DEF Ask, rest
  <2> QED
    BY <2>4, <2>5 DEF TypeOK
<1>9. CASE UNCHANGED vars
  BY <1>9, <1>ask, <1>whl DEF vars, busvars, TypeOK
<1> QED
  BY <1>1, <1>2, <1>3, <1>4, <1>5, <1>6, <1>7, <1>8, <1>9 DEF Next, i2cproc, rotencproc

(* The image, the channels, the askers and the counting thread keep their    *)
(* types, also after transfers that failed.                                  *)
THEOREM TypeCorrect == Spec => []TypeOK
BY InitTypes, NextTypes, PTL DEF Spec

-----------------------------------------------------------------------------
(* Questions                                                                 *)

(* Until the second question there is at most one asker, and what is or gets *)
(* stored for the channel was begun with the asker waiting.                  *)
AskInv ==
    /\ asks = 0 =>
          /\ \A u \in Askers : apc[u] = Idle
          /\ \A c \in Channels : adcinputs[c] # Requested
          /\ bus.at # "convert"
    /\ asks = 1 =>
          \A u \in Askers : apc[u] # Idle =>
              /\ adcinputs[apc[u]] = Requested \/ u \in adcinputs[apc[u]].waiting
              /\ bus.at = "convert" /\ bus.channel = apc[u] => u \in bus.began
    /\ asks < 2 => \A u \in Askers : answer[u] # "under way"

LEMMA InitAsk == Init => AskInv
BY DEF Init, InitInputs, AskInv, Conversion, Requested

LEMMA NextAsk == TypeOK /\ AskInv /\ [Next]_vars => AskInv'
<1> SUFFICES ASSUME TypeOK, AskInv, [Next]_vars PROVE AskInv'
  OBVIOUS
<1>a. /\ bus \in [at : BusPlaces, channel : Channels, began : SUBSET Askers]
      /\ adcinputs \in [Channels -> Cells]
      /\ apc \in [Askers -> Channels \cup {Idle}]
      /\ answer \in [Askers -> {"none", "fresh", "under way", "0xffff"}]
  BY DEF TypeOK, AskTypes
<1>n. asks \in Nat
  BY DEF TypeOK, AskTypes
<1>i. /\ Idle \notin Channels
      /\ \A ws : Conversion(ws) # Requested /\ Conversion(ws).waiting = ws
  BY InputsAssumption DEF Idle, Conversion, Requested
<1>0. asks = 0 => /\ \A u \in Askers : apc[u] = Idle
                  /\ \A c \in Channels : adcinputs[c] # Requested
                  /\ bus.at # "convert"
  BY DEF AskInv
<1>1. asks = 1 => \A u \in Askers : apc[u] # Idle =>
              /\ adcinputs[apc[u]] = Requested \/ u \in adcinputs[apc[u]].waiting
              /\ bus.at = "convert" /\ bus.channel = apc[u] => u \in bus.began
  BY DEF AskInv
<1>2. asks < 2 => \A u \in Askers : answer[u] # "under way"
  BY DEF AskInv
(* A step of the bus thread that converts nothing.                           *)
<1>k. ASSUME UNCHANGED adcvars, bus'.at # "convert" PROVE AskInv'
  BY <1>0, <1>1, <1>2, <1>k DEF AskInv, adcvars
<1>3. ASSUME UNCHANGED <<bus, adcvars>> PROVE AskInv'
  BY <1>0, <1>1, <1>2, <1>3 DEF AskInv, adcvars
<1>4. CASE Turn \/ GetA \/ GetB \/ getEncSteps \/ UNCHANGED vars
  <2>1. UNCHANGED <<bus, adcvars>>
    BY <1>4 DEF Turn, GetA, GetB, getEncSteps, Undisturbed, vars, busvars
  <2> QED
    BY <1>3, <2>1
<1>5. CASE read_gpios
  <2>1. CASE ReadRegister("a", "b", WireA)
    BY <1>k, <2>1, RegisterRead, WireBits DEF BusPlaces
  <2>2. CASE ReadRegister("b", "store", WireB)
    BY <1>k, <2>2, RegisterRead, WireBits DEF BusPlaces
  <2>3. CASE StoreInputs
    BY <1>k, <2>3 DEF StoreInputs
  <2> QED
    BY <1>5, <2>1, <2>2, <2>3 DEF read_gpios
<1>6. CASE SkipChannel
  <2>1. UNCHANGED adcvars /\ bus'.at # "convert"
    BY <1>6 DEF SkipChannel, NextChannel
  <2> QED
    BY <1>k, <2>1
<1>7. CASE BeginConversion
  <2>1. /\ UNCHANGED adcvars /\ bus'.channel = bus.channel
        /\ bus'.began = {u \in Askers : apc[u] = bus.channel}
        /\ adcinputs[bus.channel] = Requested /\ bus.channel \in Channels
    BY <1>a, <1>7 DEF BeginConversion
  <2>2. asks = 1 => \A u \in Askers : apc'[u] # Idle =>
              /\ adcinputs'[apc'[u]] = Requested \/ u \in adcinputs'[apc'[u]].waiting
              /\ bus'.channel = apc'[u] => u \in bus'.began
    BY <1>1, <2>1 DEF adcvars
  <2>3. asks # 0
    BY <1>a, <1>0, <2>1
  <2> QED
    BY <1>0, <1>2, <2>1, <2>2, <2>3 DEF AskInv, adcvars
<1>8. CASE EndConversion
  <2>1. /\ bus.at = "convert" /\ UNCHANGED <<asks, apc, answer>> /\ bus'.at # "convert"
        /\ \/ adcinputs' = [adcinputs EXCEPT ![bus.channel] = Conversion(bus.began)]
           \/ adcinputs' = [adcinputs EXCEPT ![bus.channel] = Requested]
    BY <1>8 DEF EndConversion, NextChannel
  <2>2. asks # 0
    BY <1>0, <2>1
  <2>3. ASSUME asks = 1, NEW u \in Askers, apc[u] # Idle
        PROVE  adcinputs'[apc[u]] = Requested \/ u \in adcinputs'[apc[u]].waiting
    <3>1. apc[u] \in Channels
      BY <1>a, <2>3
    <3>2. CASE apc[u] = bus.channel
      BY <1>a, <1>i, <1>1, <2>1, <2>3, <3>1, <3>2
    <3>3. CASE apc[u] # bus.channel
      <4>1. adcinputs'[apc[u]] = adcinputs[apc[u]]
        BY <1>a, <2>1, <3>1, <3>3
      <4> QED
        BY <1>1, <2>3, <4>1
    <3> QED
      BY <3>2, <3>3
  <2> QED
    BY <1>2, <2>1, <2>2, <2>3 DEF AskInv
<1>9. ASSUME NEW u \in Askers, Look(u) PROVE AskInv'
  <2>1. /\ apc[u] # Idle /\ UNCHANGED <<bus, adcinputs, asks>>
        /\ apc' = apc \/ apc' = [apc EXCEPT ![u] = Idle]
    BY <1>9 DEF Look, busvars
  <2>2. asks # 0
    BY <1>0, <2>1
  <2>3. \A v \in Askers : apc'[v] # Idle => apc'[v] = apc[v]
    BY <1>a, <2>1
  <2>4. asks = 1 => answer'[u] # "under way" /\ \A v \in Askers : answer'[v] # "under way"
    <3> SUFFICES ASSUME asks = 1 PROVE \A v \in Askers : answer'[v] # "under way"
      OBVIOUS
    <3>0. \A v \in Askers : answer[v] # "under way"
      <4>1. asks < 2
        BY <1>n
      <4> QED
        BY <1>2, <4>1
    <3>1. CASE adcinputs[apc[u]] = Requested
      <4>1. answer' = answer \/ answer' = [answer EXCEPT ![u] = "0xffff"]
        BY <1>9, <3>1 DEF Look
      <4> QED
        BY <1>a, <3>0, <4>1
    <3>2. CASE adcinputs[apc[u]] # Requested
      <4>1. answer' = [answer EXCEPT ![u] = "fresh"]
        BY <1>1, <1>9, <2>1, <3>2 DEF Look
      <4> QED
        BY <1>a, <3>0, <4>1
    <3> QED
      BY <3>1, <3>2
  <2>5. asks < 2 => asks = 1
    BY <1>n, <2>2
  <2> QED
    BY <1>1, <2>1, <2>2, <2>3, <2>4, <2>5 DEF AskInv
<1>10. ASSUME NEW u \in Askers, NEW c \in Channels, Ask(u, c) PROVE AskInv'
  <2>1. /\ asks' = asks + 1 /\ bus'.at = bus.at
        /\ adcinputs' = [adcinputs EXCEPT ![c] = Requested]
        /\ apc' = [apc EXCEPT ![u] = c] /\ answer' = [answer EXCEPT ![u] = "none"]
    BY <1>a, <1>10 DEF Ask
  <2>2. asks' # 0 /\ (asks' < 2 => asks' = 1 /\ asks = 0)
    BY <1>n, <2>1
  <2>3. ASSUME asks = 0, NEW v \in Askers, apc'[v] # Idle
        PROVE  adcinputs'[apc'[v]] = Requested /\ bus'.at # "convert"
    <3>1. v = u
      BY <1>a, <1>0, <2>1, <2>3
    <3> QED
      BY <1>a, <1>0, <2>1, <2>3, <3>1
  <2>4. asks < 2 => \A v \in Askers : answer'[v] # "under way"
    BY <1>a, <1>2, <2>1
  <2>5. asks' < 2 => \A v \in Askers : answer'[v] # "under way"
    <3>1. asks' < 2 => asks < 2
      BY <1>n, <2>1
    <3> QED
      BY <2>4, <3>1
  <2>6. asks' = 1 => asks = 0
    BY <1>n, <2>1
  <2> QED
    BY <2>2, <2>3, <2>5, <2>6 DEF AskInv
<1> QED
  BY <1>4, <1>5, <1>6, <1>7, <1>8, <1>9, <1>10 DEF Next, i2cproc, rotencproc, read_adc

(* A conversion that was under way when the question was asked is only taken *)
(* for the answer where another question came before it, for any number of   *)
(* askers, channels and polls and whatever transfers fail.                   *)
THEOREM AnswersCorrect == Spec => []AnswerIsNew
<1>1. TypeOK /\ AskInv => AnswerIsNew
  <2>1. TypeOK => (asks < 2 \/ asks >= 2)
    <3> SUFFICES ASSUME TypeOK PROVE asks < 2 \/ asks >= 2
      OBVIOUS
    <3>1. asks \in Nat
      BY DEF TypeOK, AskTypes
    <3> QED
      BY <3>1
  <2> QED
    BY <2>1 DEF AskInv, AnswerIsNew
<1> QED
  BY <1>1, InitTypes, NextTypes, InitAsk, NextAsk, PTL DEF Spec

-----------------------------------------------------------------------------
(* Turns                                                                     *)

(* The contact A on its way to the thread: what counted last, what the       *)
(* thread has read, the image, what the bus thread has read, the wire.       *)
Scanning == bus.at \in {"b", "store"}
Taken == IF at = "B" THEN aval ELSE oldaval
Scanned == IF Scanning THEN u2.a ELSE inputs.a

Rise(x, y) == IF x = 0 /\ y = 1 THEN 1 ELSE 0

(* Edges the thread may still count.                                         *)
Rises ==
    Rise(oldaval, Taken) + Rise(Taken, inputs.a) + Rise(inputs.a, Scanned)
        + Rise(Scanned, WireA)

(* Counts in the wheel's way, less its edges.                                *)
Ahead == (IF way = 1 THEN total + encsteps ELSE -(total + encsteps)) - edges

(* The wheel has just made an edge.  It is counted, and rightly, if the      *)
(* first sample that has it comes with the right B and if the wheel does not *)
(* turn before it is there.                                                  *)
RightB == IF way = 1 THEN 1 ELSE 0
OnEdge == wheel = (IF way = 1 THEN 2 ELSE 3)

RightImage == inputs.b = RightB /\ (bus.at = "store" => u2.b = RightB)

WillCount ==
    /\ OnEdge /\ seen # "thread" /\ oldaval = 0
    /\ IF Taken = 1 THEN RightImage
       ELSE IF inputs.a = 1 THEN RightImage /\ seen # "half"
       ELSE IF Scanned = 1 THEN /\ seen \notin {"image", "half"}
                                /\ bus.at = "store" => u2.b = RightB
       ELSE seen \notin {"bus", "image", "half"}

(* What the rises on their way will add at least: one that is right, all     *)
(* others wrong.                                                             *)
Credit == IF WillCount THEN 3 - 2 * Rises ELSE -Rises

(* Where the wheel has been seen no contact reads closed that is open.       *)
NoGhosts ==
    /\ seen = "bus" => Scanning
    /\ seen = "half" => at = "B"
    /\ WireA = 0 =>
          /\ seen # "nobody" /\ Scanning => u2.a = 0
          /\ seen \in {"image", "half", "thread"} => inputs.a = 0
          /\ seen \in {"half", "thread"} => Taken = 0
          /\ seen = "thread" => oldaval = 0

CountInv ==
    /\ NoGhosts
    /\ Ahead + Rises <= 1 + 2 * faults.gpio
    /\ Ahead + Credit >= -(1 + 2 * faults.gpio)

LEMMA BusTypes == TypeOK => bus \in [at : BusPlaces, channel : Channels, began : SUBSET Askers]
BY DEF TypeOK, AskTypes

LEMMA LookApart == ASSUME NEW u \in Askers, Look(u) PROVE UNCHANGED <<busvars, faults>>
BY DEF Look

LEMMA InitCount == Init => CountInv
<1> SUFFICES ASSUME Init PROVE CountInv
  OBVIOUS
<1>1. /\ inputs.a = 0 /\ bus.at = "a" /\ faults.gpio = 0 /\ seen = "nobody" /\ at = "A"
      /\ oldaval \in {0, 1} /\ encsteps = 0 /\ total = 0 /\ edges = 0
      /\ way \in {1, -1} /\ wheel \in 0 .. 3
  BY DEF Init, InitInputs
<1>2. WireA \in {0, 1}
  BY <1>1 DEF WireA
<1>3. Scanned = 0 /\ Taken = oldaval /\ NoGhosts
  BY <1>1 DEF Scanned, Scanning, Taken, NoGhosts
<1>4. Rises \in {0, 1} /\ Ahead = 0
  <2>1. Rises = Rise(0, WireA)
    <3>1. CASE oldaval = 0
      BY <1>1, <1>2, <1>3, <3>1 DEF Rises, Rise
    <3>2. CASE oldaval = 1
      BY <1>1, <1>2, <1>3, <3>2 DEF Rises, Rise
    <3> QED
      BY <1>1, <3>1, <3>2
  <2>2. Ahead = 0
    <3>1. \A n \in Int : -n = 0 - n
      OBVIOUS
    <3>2. total + encsteps \in Int /\ total + encsteps = 0
      BY <1>1
    <3>3. -(total + encsteps) = 0
      BY <3>1, <3>2
    <3> QED
      BY <1>1, <3>2, <3>3 DEF Ahead
  <2> QED
    BY <1>2, <2>1, <2>2 DEF Rise
<1>5. Credit \in {-1, 0, 1, 3}
  BY <1>4 DEF Credit
<1> QED
  BY <1>1, <1>3, <1>4, <1>5 DEF CountInv

LEMMA NextCount == TypeOK /\ TypeOK' /\ CountInv /\ [Next]_vars => CountInv'
<1> SUFFICES ASSUME TypeOK, TypeOK', CountInv, [Next]_vars PROVE CountInv'
  OBVIOUS
<1> USE DEF NoGhosts, Ahead, Rises, Rise, Credit, WillCount, OnEdge, RightB, RightImage, Taken, Scanned, Scanning
<1>w. /\ inputs.a \in {0, 1} /\ inputs.b \in {0, 1} /\ u2.a \in {0, 1} /\ u2.b \in {0, 1}
      /\ faults.gpio \in Nat
      /\ wheel \in 0 .. 3 /\ way \in {1, -1} /\ edges \in Nat
      /\ aval \in {0, 1} /\ oldaval \in {0, 1} /\ encsteps \in Int /\ total \in Int
      /\ at \in {"A", "B"} /\ seen \in {"nobody", "bus", "image", "half", "thread"}
  BY DEF TypeOK, WheelTypes, Bits, Bit
<1>b. bus \in [at : BusPlaces, channel : Channels, began : SUBSET Askers]
  BY BusTypes
<1>c. bus.at \in {"a", "b", "store", "adc", "convert"}
  BY <1>b DEF BusPlaces
<1>v. WireA = (IF wheel \in {2, 3} THEN 1 ELSE 0) /\ WireB = (IF wheel \in {1, 2} THEN 1 ELSE 0)
  BY <1>w, Wires
<1>2. CASE GetA
  <2>1. /\ at = "A" /\ at' = "B" /\ aval' = inputs.a
        /\ seen' = (IF seen = "image" THEN "half" ELSE seen)
        /\ UNCHANGED <<oldaval, encsteps, total, bus, u2, inputs, faults, wheel, way, edges>>
        /\ WireA' = WireA
    BY <1>2 DEF GetA, Undisturbed, busvars, wheelvars, WireA
  <2>2. NoGhosts'
    BY <1>w, <2>1 DEF CountInv
  <2> QED
    BY <1>w, <2>1, <2>2 DEF CountInv
<1>3. CASE GetB
  <2>1. /\ at = "B" /\ at' = "A" /\ oldaval' = aval /\ encsteps' = encsteps + Count
        /\ seen' = (IF seen = "half" THEN "thread" ELSE seen)
        /\ UNCHANGED <<aval, total, bus, u2, inputs, faults, wheel, way, edges>>
        /\ WireA' = WireA
    BY <1>3 DEF GetB, Undisturbed, busvars, wheelvars, WireA
  <2>2. NoGhosts'
    BY <1>w, <2>1 DEF CountInv
  <2> QED
    BY <1>w, <1>v, <2>1, <2>2 DEF CountInv, Count<1>4. CASE getEncSteps
  <2>1. /\ total' = total + encsteps /\ encsteps' = 0
        /\ UNCHANGED <<at, seen, aval, oldaval, bus, u2, inputs, faults, wheel, way, edges>>
        /\ WireA' = WireA
    BY <1>4 DEF getEncSteps, Undisturbed, busvars, wheelvars, WireA
  <2>2. NoGhosts'
    BY <1>w, <2>1 DEF CountInv
  <2> QED
    BY <1>w, <1>v, <2>1, <2>2 DEF CountInv
<1>1. CASE Turn
  <2>1. /\ seen = "thread" /\ seen' = "nobody" /\ way' = way
        /\ wheel' = (wheel + way) % 4
        /\ edges' = IF WireA = 0 /\ WireA' = 1 THEN edges + 1 ELSE edges
        /\ UNCHANGED <<aval, oldaval, encsteps, at, total, bus, u2, inputs, faults>>
    BY <1>1 DEF Turn, busvars, encvars
  <2>2. wheel' = (IF way = 1 THEN IF wheel = 3 THEN 0 ELSE wheel + 1
                  ELSE IF wheel = 0 THEN 3 ELSE wheel - 1)
    BY <1>w, <2>1
  <2>3. wheel' \in 0 .. 3 /\ WireA' = (IF wheel' \in {2, 3} THEN 1 ELSE 0)
    BY <1>w, <2>2 DEF WireA
  <2>4. NoGhosts'
    BY <1>w, <2>1 DEF CountInv
  <2> QED
    BY <1>w, <1>v, <2>1, <2>2, <2>3, <2>4 DEF CountInv<1>5. CASE read_gpios /\ UNCHANGED <<encvars, wheelvars, total>>
  <2>1. CASE ReadRegister("a", "b", WireA) /\ ScanBegins
    <3>0. WireA \in Bit
      BY WireBits
    <3>1. /\ bus.at = "a" /\ bus'.at = "b" /\ UNCHANGED inputs /\ u2' \in Bits
          /\ faults' \in [gpio : Nat, adc : Nat]
          /\ \/ faults' = faults /\ u2'.a = WireA
             \/ faults'.gpio = faults.gpio + 1 /\ faults' # faults /\ u2'.a = 0
      BY <2>1, <3>0, RegisterRead DEF BusPlaces
    <3>2. /\ seen' = IF seen = "nobody" /\ faults' = faults THEN "bus" ELSE seen
          /\ UNCHANGED <<aval, oldaval, encsteps, at, wheel, way, edges, total>>
          /\ WireA' = WireA
      BY <1>5, <2>1 DEF ScanBegins, encvars, wheelvars, WireA
    <3>3. NoGhosts'
      BY <1>w, <3>1, <3>2 DEF CountInv
    <3> QED
      BY <1>w, <1>v, <3>1, <3>2, <3>3 DEF CountInv
  <2>2. CASE /\ ReadRegister("b", "store", WireB)
             /\ seen' = IF seen = "bus" /\ faults' # faults THEN "nobody" ELSE seen
    <3>0. WireB \in Bit
      BY WireBits
    <3>1. /\ bus.at = "b" /\ bus'.at = "store" /\ UNCHANGED inputs /\ u2' \in Bits
          /\ faults' \in [gpio : Nat, adc : Nat] /\ u2'.a = u2.a
          /\ \/ faults' = faults /\ u2'.b = WireB
             \/ faults'.gpio = faults.gpio + 1 /\ faults' # faults /\ u2'.b = 0
      BY <2>2, <3>0, RegisterRead DEF BusPlaces
    <3>2. /\ seen' = IF seen = "bus" /\ faults' # faults THEN "nobody" ELSE seen
          /\ UNCHANGED <<aval, oldaval, encsteps, at, wheel, way, edges, total>>
          /\ WireA' = WireA
      BY <1>5, <2>2 DEF encvars, wheelvars, WireA
    <3>3. NoGhosts'
      BY <1>w, <3>1, <3>2 DEF CountInv
    <3> QED
      BY <1>w, <1>v, <3>1, <3>2, <3>3 DEF CountInv
  <2>3. CASE StoreInputs /\ seen' = IF seen = "bus" THEN "image" ELSE seen
    <3>1. /\ bus.at = "store" /\ bus'.at = "adc" /\ inputs' = u2 /\ UNCHANGED <<u2, faults>>
          /\ seen' = IF seen = "bus" THEN "image" ELSE seen
          /\ UNCHANGED <<aval, oldaval, encsteps, at, wheel, way, edges, total>>
          /\ WireA' = WireA
      BY <1>5, <2>3 DEF StoreInputs, encvars, wheelvars, WireA
    <3>2. NoGhosts'
      BY <1>w, <3>1 DEF CountInv
    <3> QED
      BY <1>w, <1>v, <3>1, <3>2 DEF CountInv
  <2> QED
    BY <1>5, <2>1, <2>2, <2>3 DEF read_gpios
(* Nothing of the wheel, of the image and of the two registers is touched.   *)
<1>k. ASSUME UNCHANGED <<inputs, u2, encvars, wheelvars, seen, total>>, faults'.gpio = faults.gpio,
             bus'.at = bus.at \/ (~Scanning /\ ~Scanning')
      PROVE  CountInv'
  <2>1. /\ UNCHANGED <<inputs, u2, aval, oldaval, encsteps, at, wheel, way, edges, seen, total>>
        /\ WireA' = WireA /\ faults'.gpio = faults.gpio
        /\ Scanning' = Scanning /\ (bus'.at = "store" <=> bus.at = "store")
    BY <1>k DEF encvars, wheelvars, WireA
  <2>2. NoGhosts'
    BY <2>1 DEF CountInv
  <2> QED
    BY <1>w, <2>1, <2>2 DEF CountInv
<1>6. CASE read_adc /\ UNCHANGED rest
  <2>1. UNCHANGED <<inputs, u2>> /\ ~Scanning /\ ~Scanning' /\ faults'.gpio = faults.gpio
    <3>1. CASE SkipChannel
      BY <3>1 DEF SkipChannel, NextChannel
    <3>2. CASE BeginConversion
      BY <1>b, <3>2 DEF BeginConversion
    <3>3. CASE EndConversion
      <4>1. faults \in [gpio : Nat, adc : Nat]
        BY DEF TypeOK, WheelTypes
      <4> QED
        BY <3>3, <4>1 DEF EndConversion, NextChannel, Fault
    <3> QED
      BY <1>6, <3>1, <3>2, <3>3 DEF read_adc
  <2> QED
    BY <1>6, <1>k, <2>1 DEF rest
<1>7. ASSUME NEW u \in Askers, UNCHANGED rest, Look(u) \/ \E c \in Channels : Ask(u, c)
      PROVE  CountInv'
  <2>1. UNCHANGED <<inputs, u2, faults>> /\ bus'.at = bus.at
    <3>1. CASE Look(u)
      <4>1. UNCHANGED <<busvars, faults>>
        BY <3>1, LookApart
      <4> QED
        BY <4>1 DEF busvars
    <3>2. ASSUME NEW c \in Channels, Ask(u, c) PROVE UNCHANGED <<inputs, u2, faults>> /\ bus'.at = bus.at
      BY <1>b, <3>2 DEF Ask
    <3> QED
      BY <1>7, <3>1, <3>2
  <2>2. UNCHANGED <<inputs, u2, encvars, wheelvars, seen, total>> /\ faults'.gpio = faults.gpio
    BY <1>7, <2>1 DEF rest
  <2>3. bus'.at = bus.at \/ (~Scanning /\ ~Scanning')
    BY <2>1
  <2> QED
    BY <1>k, <2>2, <2>3
<1>8. CASE UNCHANGED vars
  <2>1. /\ UNCHANGED <<inputs, u2, encvars, wheelvars, seen, total>>
        /\ bus'.at = bus.at /\ faults'.gpio = faults.gpio
    BY <1>8 DEF vars, busvars
  <2>2. bus'.at = bus.at \/ (~Scanning /\ ~Scanning')
    BY <2>1
  <2> QED
    BY <1>k, <2>1, <2>2
<1> QED
  BY <1>1, <1>2, <1>3, <1>4, <1>5, <1>6, <1>7, <1>8 DEF Next, i2cproc, rotencproc

(* A wheel that is turned no faster than the thread can see is counted edge  *)
(* by edge in its direction, but for one count at the start and two per      *)
(* transfer that failed, for any number of turns, faults and readers.        *)
THEOREM EdgesCorrect == Spec => []EdgesCounted
<1>1. TypeOK /\ CountInv => EdgesCounted
  <2> SUFFICES ASSUME TypeOK, CountInv, seen = "thread"
               PROVE  total + encsteps - way * edges \in -(1 + 2 * faults.gpio) .. 1 + 2 * faults.gpio
    BY DEF EdgesCounted
  <2>1. /\ faults.gpio \in Nat /\ way \in {1, -1} /\ edges \in Nat
        /\ encsteps \in Int /\ total \in Int
    BY DEF TypeOK, WheelTypes
  <2>2. Rises \in Nat /\ Credit = -Rises
    <3>1. \A x, y : Rise(x, y) \in {0, 1}
      BY DEF Rise
    <3>2. Rises \in Nat
      BY <3>1 DEF Rises
    <3> QED
      BY <3>2 DEF Credit, WillCount
  <2>3. Ahead \in Int
    BY <2>1 DEF Ahead
  <2>4. Ahead <= 1 + 2 * faults.gpio /\ Ahead >= -(1 + 2 * faults.gpio)
    BY <2>1, <2>2, <2>3 DEF CountInv
  <2>5. CASE way = 1
    <3>1. Ahead = total + encsteps - way * edges
      BY <2>1, <2>5 DEF Ahead
    <3> QED
      BY <2>1, <2>3, <2>4, <3>1
  <2>6. CASE way = -1
    <3>1. total + encsteps - way * edges = -Ahead
      BY <2>1, <2>6 DEF Ahead
    <3> QED
      BY <2>1, <2>3, <2>4, <3>1
  <2> QED
    BY <2>1, <2>5, <2>6
<1> QED
  BY <1>1, InitTypes, NextTypes, InitCount, NextCount, PTL DEF Spec

-----------------------------------------------------------------------------
(* The thermistor                                                            *)

(* A quotient of natural numbers, without division.                          *)
LEMMA Quotient ==
    ASSUME NEW a \in Nat, NEW b \in Nat \ {0}
    PROVE  a \div b \in Nat /\ (a \div b) * b <= a /\ a < (a \div b) * b + b
OBVIOUS

LEMMA Product ==
    ASSUME NEW a \in Nat, NEW b \in Nat, NEW n \in Nat, a <= b
    PROVE  a * n <= b * n
OBVIOUS

LEMMA Cancel ==
    ASSUME NEW a \in Int, NEW b \in Int, NEW n \in Nat \ {0}, a * n < b * n
    PROVE  a < b
OBVIOUS

Entry(i) == Sensor!temptab[i]

LEMMA Size == Len(Sensor!temptab) = 31 /\ DOMAIN Sensor!temptab = 1 .. 31
BY DEF Sensor!temptab

(* Between the resistances U and T, a conversion one higher means at most    *)
(* G + 1 ohms more, since there it is at least M below full scale; these are *)
(* at most 64 of the 500 hundredths that the interval stands for.            *)
Slow(T, U, M, G) ==
    /\ U < T /\ T <= 326500 /\ 1 <= U
    /\ (M - 1) * (82000 + T) <= 335872000 /\ 335872000 <= G * (M * (M - 1))
    /\ 500 * (G + 1) <= 64 * (T - U)

Interval(i) == \E M \in Nat \ {0, 1}, G \in Nat : Slow(Entry(i - 1), Entry(i), M, G)

(* The table, entry by entry.                                                *)
LEMMA Intervals == \A i \in 2 .. 31 : Entry(i) \in Nat /\ Entry(i - 1) \in Nat /\ Interval(i)
<1>2. Slow(Entry(1), Entry(2), 823, 497)
  BY DEF Slow, Entry, Sensor!temptab
<1>3. Slow(Entry(2), Entry(3), 1000, 337)
  BY DEF Slow, Entry, Sensor!temptab
<1>4. Slow(Entry(3), Entry(4), 1196, 236)
  BY DEF Slow, Entry, Sensor!temptab
<1>5. Slow(Entry(4), Entry(5), 1405, 171)
  BY DEF Slow, Entry, Sensor!temptab
<1>6. Slow(Entry(5), Entry(6), 1624, 128)
  BY DEF Slow, Entry, Sensor!temptab
<1>7. Slow(Entry(6), Entry(7), 1846, 99)
  BY DEF Slow, Entry, Sensor!temptab
<1>8. Slow(Entry(7), Entry(8), 2067, 79)
  BY DEF Slow, Entry, Sensor!temptab
<1>9. Slow(Entry(8), Entry(9), 2281, 65)
  BY DEF Slow, Entry, Sensor!temptab
<1>10. Slow(Entry(9), Entry(10), 2483, 55)
  BY DEF Slow, Entry, Sensor!temptab
<1>11. Slow(Entry(10), Entry(11), 2673, 48)
  BY DEF Slow, Entry, Sensor!temptab
<1>12. Slow(Entry(11), Entry(12), 2846, 42)
  BY DEF Slow, Entry, Sensor!temptab
<1>13. Slow(Entry(12), Entry(13), 3003, 38)
  BY DEF Slow, Entry, Sensor!temptab
<1>14. Slow(Entry(13), Entry(14), 3143, 35)
  BY DEF Slow, Entry, Sensor!temptab
<1>15. Slow(Entry(14), Entry(15), 3267, 32)
  BY DEF Slow, Entry, Sensor!temptab
<1>16. Slow(Entry(15), Entry(16), 3375, 30)
  BY DEF Slow, Entry, Sensor!temptab
<1>17. Slow(Entry(16), Entry(17), 3470, 28)
  BY DEF Slow, Entry, Sensor!temptab
<1>18. Slow(Entry(17), Entry(18), 3552, 27)
  BY DEF Slow, Entry, Sensor!temptab
<1>19. Slow(Entry(18), Entry(19), 3623, 26)
  BY DEF Slow, Entry, Sensor!temptab
<1>20. Slow(Entry(19), Entry(20), 3684, 25)
  BY DEF Slow, Entry, Sensor!temptab
<1>21. Slow(Entry(20), Entry(21), 3737, 25)
  BY DEF Slow, Entry, Sensor!temptab
<1>22. Slow(Entry(21), Entry(22), 3783, 24)
  BY DEF Slow, Entry, Sensor!temptab
<1>23. Slow(Entry(22), Entry(23), 3822, 23)
  BY DEF Slow, Entry, Sensor!temptab
<1>24. Slow(Entry(23), Entry(24), 3856, 23)
  BY DEF Slow, Entry, Sensor!temptab
<1>25. Slow(Entry(24), Entry(25), 3885, 23)
  BY DEF Slow, Entry, Sensor!temptab
<1>26. Slow(Entry(25), Entry(26), 3911, 22)
  BY DEF Slow, Entry, Sensor!temptab
<1>27. Slow(Entry(26), Entry(27), 3933, 22)
  BY DEF Slow, Entry, Sensor!temptab
<1>28. Slow(Entry(27), Entry(28), 3952, 22)
  BY DEF Slow, Entry, Sensor!temptab
<1>29. Slow(Entry(28), Entry(29), 3968, 22)
  BY DEF Slow, Entry, Sensor!temptab
<1>30. Slow(Entry(29), Entry(30), 3982, 22)
  BY DEF Slow, Entry, Sensor!temptab
<1>31. Slow(Entry(30), Entry(31), 3995, 22)
  BY DEF Slow, Entry, Sensor!temptab
<1>32. \A i \in 1 .. 31 : Entry(i) \in Nat
  BY DEF Entry, Sensor!temptab
<1>33. \A i \in 2 .. 31 : Interval(i)
  <2> SUFFICES ASSUME NEW i \in 2 .. 31
               PROVE  \E M \in Nat \ {0, 1}, G \in Nat : Slow(Entry(i - 1), Entry(i), M, G)
    BY DEF Interval
  <2>1. CASE i \in 2 .. 11
    BY <2>1, <1>2, <1>3, <1>4, <1>5, <1>6, <1>7, <1>8, <1>9, <1>10, <1>11
  <2>2. CASE i \in 12 .. 21
    BY <2>2, <1>12, <1>13, <1>14, <1>15, <1>16, <1>17, <1>18, <1>19, <1>20, <1>21
  <2>3. CASE i \in 22 .. 31
    BY <2>3, <1>22, <1>23, <1>24, <1>25, <1>26, <1>27, <1>28, <1>29, <1>30, <1>31
  <2> QED
    BY <2>1, <2>2, <2>3
<1> QED
  BY <1>32, <1>33

(* The resistance at dv, below full scale.                                   *)
Conversions == 0 .. 4095
Lower == 0 .. 4094
Ohms(dv) == (dv * 82000) \div (4096 - dv)

LEMMA OhmsOf == \A dv \in Conversions : Sensor!Rntc(dv) = Ohms(dv)
<1>1. \A dv \in Conversions : dv < 4096
  BY SMT DEF Conversions
<1> QED
  BY <1>1, SMT DEF Sensor!Rntc, Ohms, Sensor!FullScale, Sensor!RV

LEMMA OhmsFull == Sensor!Rntc(4096) = 2000000000
BY SMT DEF Sensor!Rntc, Sensor!FullScale, Sensor!Infinite

Bounds(q, a, b) == q \in Nat /\ q * b <= a /\ a < q * b + b

Divided(dv) == Bounds(Ohms(dv), dv * 82000, 4096 - dv)

LEMMA OhmsBetween == \A dv \in Conversions : Divided(dv)
<1> TAKE dv \in Conversions
<1> DEFINE a == dv * 82000
           m == 4096 - dv
<1>1. a \in Nat /\ m \in Nat \ {0}
  BY SMT DEF Conversions
<1> HIDE DEF a, m
<1>2. Bounds(a \div m, a, m)
  BY <1>1, Quotient, SMT DEF Bounds
<1> QED
  BY <1>2, SMT DEF Divided, Ohms, a, m

(* Two conversions in a row.                                                 *)
Quotients(dv, m, n, a) ==
    /\ n = m - 1 /\ a = 335872000 - 82000 * m
    /\ Bounds(Ohms(dv), a, m) /\ Bounds(Ohms(dv + 1), a + 82000, n)

Following(dv) == \E m \in Nat \ {0, 1}, n \in Nat, a \in Nat : Quotients(dv, m, n, a)

LEMMA OhmsNext == \A dv \in Lower : Following(dv)
<1> TAKE dv \in Lower
<1>1. dv \in 0 .. 4094
  BY SMT DEF Lower
<1>2. Divided(dv) /\ Divided(dv + 1)
  <2> DEFINE d == dv + 1
  <2>1. dv \in Conversions /\ d \in Conversions
    BY <1>1, SMT DEF Conversions
  <2> HIDE DEF d
  <2>2. Divided(dv) /\ Divided(d)
    BY <2>1, OhmsBetween, Zenon
  <2> QED
    BY <2>2, SMT DEF d
<1> DEFINE m == 4096 - dv
           n == m - 1
           a == dv * 82000
<1>3. m \in Nat \ {0, 1} /\ n \in Nat /\ a \in Nat /\ n = m - 1 /\ a = 335872000 - 82000 * m
  BY <1>1, SMT
<1>4. (dv + 1) * 82000 = a + 82000 /\ 4096 - (dv + 1) = n
  BY <1>1, SMT
<1>5. Bounds(Ohms(dv), a, m) /\ Bounds(Ohms(dv + 1), a + 82000, n)
  <2>1. Bounds(Ohms(dv), a, m) /\ Bounds(Ohms(dv + 1), (dv + 1) * 82000, 4096 - (dv + 1))
    BY <1>2, SMT DEF Divided
  <2> QED
    BY <2>1, <1>4, SMT
<1> HIDE DEF m, n, a
<1>6. Quotients(dv, m, n, a)
  BY <1>3, <1>5, SMT DEF Quotients
<1> QED
  BY <1>3, <1>6, SMT DEF Following

(* A higher conversion has a higher resistance.                              *)
LEMMA OhmsRise ==
    ASSUME NEW dv \in Lower
    PROVE  Ohms(dv) <= Ohms(dv + 1)
<1> DEFINE r == Ohms(dv)
           s == Ohms(dv + 1)
<1>a. Following(dv)
  BY OhmsNext, Zenon
<1> PICK m \in Nat \ {0, 1}, n \in Nat, a \in Nat : Quotients(dv, m, n, a)
  BY <1>a, SMT DEF Following
<1>1. n = m - 1 /\ Bounds(r, a, m) /\ Bounds(s, a + 82000, n)
  BY SMT DEF Quotients
<1> HIDE DEF r, s
<1>2. r \in Nat /\ r * m <= a /\ s \in Nat /\ a + 82000 < s * n + n /\ n <= m
  BY <1>1, SMT DEF Bounds
<1>3. SUFFICES ASSUME s < r PROVE FALSE
  BY <1>2, SMT DEF r, s
<1>4. (s + 1) * n <= r * n /\ n * r <= m * r
  BY <1>2, <1>3, Product, SMT
<1>5. n * r = r * n /\ m * r = r * m /\ (s + 1) * n = s * n + n
  BY <1>2, SMT
<1> DEFINE x == r * n
           y == r * m
           z == s * n
<1>6. x \in Nat /\ y \in Nat /\ z \in Nat /\ z + n <= x /\ x <= y /\ y <= a /\ a + 82000 < z + n
  BY <1>2, <1>4, <1>5, SMT
<1> HIDE DEF x, y, z
<1> QED
  BY <1>6, SMT

(* Inside an interval of the table it is higher by a small part of it.       *)
LEMMA OhmsClose ==
    ASSUME NEW T \in Nat, NEW U \in Nat, NEW M \in Nat \ {0, 1}, NEW G \in Nat, Slow(T, U, M, G),
           NEW dv \in Lower, Ohms(dv) < T
    PROVE  500 * (Ohms(dv + 1) - Ohms(dv)) <= 64 * (T - U)
<1> DEFINE r == Ohms(dv)
           s == Ohms(dv + 1)
           L == M - 1
<1>a. Following(dv)
  BY OhmsNext, Zenon
<1> PICK m \in Nat \ {0, 1}, n \in Nat, a \in Nat : Quotients(dv, m, n, a)
  BY <1>a, SMT DEF Following
<1>0. /\ n = m - 1 /\ a = 335872000 - 82000 * m
      /\ Bounds(r, a, m) /\ Bounds(s, a + 82000, n)
  BY SMT DEF Quotients
<1>1. /\ r \in Nat /\ a < r * m + m /\ s \in Nat /\ s * n <= a + 82000 /\ r < T
  BY <1>0, SMT DEF Bounds
<1>2. n = m - 1 /\ a = 335872000 - 82000 * m /\ L \in Nat
  BY <1>0, SMT
<1>3. L * (82000 + T) <= 335872000 /\ 335872000 <= G * (M * L) /\ 500 * (G + 1) <= 64 * (T - U)
  BY SMT DEF Slow
<1> HIDE DEF r, s
<1>4. M <= m
  <2> SUFFICES ASSUME m <= L PROVE FALSE
    BY <1>2, SMT
  <2>1. (r + 1) * m <= T * m /\ (r + 1) * m = r * m + m
    BY <1>1, <1>2, Product, SMT
  <2>2. m * (82000 + T) <= L * (82000 + T)
    BY <1>2, Product, SMT
  <2>3. m * (82000 + T) = 82000 * m + T * m
    BY <1>2, SMT
  <2>4. r * m \in Nat /\ T * m \in Nat /\ L * (82000 + T) \in Nat
    BY <1>1, <1>2, SMT
  <2> HIDE DEF L
  <2> QED
    BY <1>1, <1>2, <1>3, <2>1, <2>2, <2>3, <2>4, SMT
<1>5. G * (M * L) <= G * (m * n)
  <2>1. L \in Nat /\ L <= n
    BY <1>2, <1>4, SMT
  <2> HIDE DEF L
  <2>2. M * L <= m * L /\ L * m <= n * m
    BY <1>2, <1>4, <2>1, Product, SMT
  <2>3. m * L = L * m /\ n * m = m * n /\ M * L \in Nat /\ m * n \in Nat /\ L * m \in Nat
    BY <1>2, <2>1, SMT
  <2>4. M * L <= m * n
    BY <2>2, <2>3, SMT
  <2> DEFINE x == M * L
             y == m * n
  <2>5. x \in Nat /\ y \in Nat /\ x <= y
    BY <2>3, <2>4, SMT
  <2> HIDE DEF x, y
  <2>6. x * G <= y * G /\ x * G = G * x /\ y * G = G * y
    BY <2>5, Product, SMT
  <2>7. x * G \in Nat /\ y * G \in Nat
    BY <2>5, SMT
  <2>8. G * x <= G * y
    BY <2>6, <2>7, SMT
  <2> QED
    BY <2>8, SMT DEF x, y
<1>6. s <= (r + 1) + G
  <2> SUFFICES ASSUME (r + 1) + (G + 1) <= s PROVE FALSE
    BY <1>1, SMT
  <2> DEFINE y == m * n
  <2>1. y \in Nat
    BY <1>2, SMT
  <2>2. ((r + 1) + (G + 1)) * y <= s * y
    <3>1. (r + 1) + (G + 1) \in Nat
      BY <1>1, SMT
    <3> HIDE DEF y
    <3> QED
      BY <1>1, <2>1, <3>1, Product, SMT
  <2>3. ((r + 1) + (G + 1)) * y = r * y + y + G * y + y
    <3> HIDE DEF y
    <3> QED
      BY <1>1, <2>1, SMT
  <2>4. s * y <= (a + 82000) * m
    <3> DEFINE x == s * n
    <3>1. x \in Nat /\ x <= a + 82000
      BY <1>1, <1>2, SMT
    <3>2. s * y = x * m
      BY <1>1, <1>2, SMT
    <3> HIDE DEF x, y
    <3>3. x * m <= (a + 82000) * m
      BY <1>2, <3>1, Product, SMT
    <3> QED
      BY <3>2, <3>3, SMT
  <2>5. (a + 1) * n <= r * y + y
    <3> DEFINE x == r * m + m
    <3>1. x \in Nat /\ a + 1 <= x
      BY <1>1, <1>2, SMT
    <3>2. r * y + y = x * n
      BY <1>1, <1>2, SMT
    <3> DEFINE d == a + 1
    <3>3. d \in Nat /\ d <= x
      BY <3>1, SMT
    <3> HIDE DEF x, y, d
    <3>4. d * n <= x * n
      BY <1>2, <3>1, <3>3, Product, SMT
    <3> QED
      BY <3>2, <3>4, SMT DEF d
  <2>6. (a + 82000) * m = a * m + 82000 * m /\ (a + 1) * n = a * m - a + m - 1
    BY <1>2, SMT
  <2>7. a * m \in Nat /\ r * y \in Nat /\ G * y \in Nat /\ s * y \in Nat
    BY <1>1, <1>2, <2>1, SMT
  <2>8. G * y >= 335872000
    <3>1. G * (M * L) \in Nat
      BY <1>2, SMT
    <3> HIDE DEF L
    <3> QED
      BY <1>3, <1>5, <2>7, <3>1, SMT
  <2> DEFINE am == a * m
             ry == r * y
             gy == G * y
             sy == s * y
  <2>9. /\ am \in Nat /\ ry \in Nat /\ gy \in Nat /\ sy \in Nat /\ y \in Nat
        /\ ry + y + gy + y <= sy /\ sy <= am + 82000 * m /\ am - a + m - 1 <= ry + y
        /\ 335872000 <= gy
    <3> HIDE DEF y
    <3> QED
      BY <2>1, <2>2, <2>3, <2>4, <2>5, <2>6, <2>7, <2>8, SMT
  <2> HIDE DEF y, am, ry, gy, sy
  <2> QED
    BY <1>2, <2>9, SMT
<1>7. 500 * (s - r) <= 500 * (G + 1)
  BY <1>1, <1>6, SMT
<1> QED
  BY <1>1, <1>3, <1>7, SMT DEF r, s

(* A set of numbers has a least one.                                         *)
LEMMA Least ==
    ASSUME NEW T, T \subseteq Nat, T # {}
    PROVE  \E x \in T : \A y \in T : x <= y
<1>1. PICK x \in T : \A y \in T : ~(<<y, x>> \in OpToRel(<, Nat))
  BY NatLessThanWellFounded, WFMin
<1>2. \A y \in T : y \in Nat /\ x \in Nat /\ ~(y < x)
  BY <1>1, Zenon DEF OpToRel
<1>3. \A y \in T : x <= y
  BY <1>2, SMT
<1> QED
  BY <1>3

Rows == 1 .. 31

(* The table falls, and less and less.                                       *)
LEMMA Falling ==
    /\ \A i \in Rows : Entry(i) \in Nat
    /\ \A i, j \in Rows : i < j => Entry(j) < Entry(i)
<1>1. \A i \in Rows : Entry(i) \in Nat
  BY SMT DEF Entry, Sensor!temptab, Rows
<1>2. ASSUME NEW i \in Rows PROVE \A j \in Rows : i < j => Entry(j) < Entry(i)
  <2> DEFINE T == {j \in Rows : i < j /\ ~(Entry(j) < Entry(i))}
  <2>1. SUFFICES ASSUME T # {} PROVE FALSE
    OBVIOUS
  <2>2. T \subseteq Nat
    BY SMT DEF Rows
  <2>3. PICK j \in T : \A k \in T : j <= k
    <3> HIDE DEF T
    <3> QED
      BY <2>1, <2>2, Least
  <2>4. /\ j \in 2 .. 31 /\ i < j /\ ~(Entry(j) < Entry(i))
        /\ j - 1 \in Rows /\ ~(j - 1 \in T)
    BY <2>3, SMT DEF Rows
  <2>5. Entry(j) < Entry(j - 1)
    BY <2>4, Intervals, SMT DEF Interval, Slow
  <2>6. j - 1 = i \/ Entry(j - 1) < Entry(i)
    BY <2>4, SMT DEF Rows
  <2>7. Entry(i) \in Nat /\ Entry(j) \in Nat /\ Entry(j - 1) \in Nat
    BY <1>1, <2>4, SMT DEF Rows
  <2> QED
    BY <2>4, <2>5, <2>6, <2>7, SMT
<1> QED
  BY <1>1, <1>2

Curved(i) == Entry(i - 1) - Entry(i) <= Entry(i - 2) - Entry(i - 1)

LEMMA Flattening == \A i \in 3 .. 31 : Curved(i)
BY SMT DEF Curved, Entry, Sensor!temptab

(* The entry that a resistance is interpolated down to, and the reading.     *)
Below(r) == {i \in DOMAIN Sensor!temptab : Sensor!temptab[i] <= r}
IsLeast(r, i) == i \in Below(r) /\ \A j \in Below(r) : i <= j
First(r) == CHOOSE i \in Below(r) : \A j \in Below(r) : i <= j
Between(r, i) == 500 * (i - 1) - (500 * (r - Entry(i))) \div (Entry(i - 1) - Entry(i))
Reading(r) ==
    IF Below(r) = {} THEN 16000 ELSE IF First(r) = 1 THEN -1000 ELSE Between(r, First(r))

LEMMA ReadingOf == \A dv : Sensor!cf_calc_temp(dv) = Reading(Sensor!Rntc(dv))
BY SMT DEF Sensor!cf_calc_temp, Sensor!Interpolate, Reading, First, Below, Between, Entry

LEMMA BelowIs == \A r, i : i \in Below(r) <=> i \in Rows /\ Entry(i) <= r
BY Size, SMT DEF Below, Entry, Rows

LEMMA FirstIs ==
    ASSUME NEW r, Below(r) # {}
    PROVE  IsLeast(r, First(r))
<1>1. Below(r) \subseteq Nat
  BY BelowIs, SMT DEF Rows
<1>2. \E i \in Below(r) : \A j \in Below(r) : i <= j
  BY <1>1, Least, Zenon
<1> QED
  BY <1>2, Zenon DEF First, IsLeast

(* What a reading from an interval is.                                       *)
In(r, i) == i \in 2 .. 31 /\ Entry(i) <= r /\ r < Entry(i - 1)

LEMMA Cases ==
    ASSUME NEW r \in Nat
    PROVE  \/ Below(r) = {} /\ Reading(r) = 16000 /\ r < Entry(31)
           \/ Entry(1) <= r /\ Reading(r) = -1000
           \/ In(r, First(r)) /\ Reading(r) = Between(r, First(r))
<1>1. CASE Below(r) = {}
  <2>1. 31 \in Rows /\ ~(Entry(31) <= r) /\ Entry(31) \in Nat
    BY <1>1, Falling, BelowIs, SMT DEF Rows
  <2> QED
    BY <1>1, <2>1, SMT DEF Reading
<1>2. CASE Below(r) # {}
  <2> DEFINE f == First(r)
  <2>1. f \in Below(r) /\ \A j \in Below(r) : f <= j
    BY <1>2, FirstIs, Zenon DEF IsLeast
  <2>2. f = 1 => Reading(r) = -1000
    BY <1>2, SMT DEF Reading
  <2>3. f # 1 => Reading(r) = Between(r, f)
    BY <1>2, SMT DEF Reading
  <2> HIDE DEF f
  <2>4. f \in Rows /\ Entry(f) <= r
    BY <2>1, BelowIs, SMT
  <2>5. ASSUME f # 1 PROVE In(r, f)
    <3>1. f \in 2 .. 31 /\ f - 1 \in Rows /\ ~(f - 1 \in Below(r))
      BY <2>1, <2>4, <2>5, SMT DEF Rows
    <3>2. ~(Entry(f - 1) <= r) /\ Entry(f - 1) \in Nat
      BY <3>1, Falling, BelowIs, SMT
    <3> QED
      BY <3>1, <3>2, <2>4, SMT DEF In
  <2>6. CASE f = 1
    BY <2>2, <2>4, <2>6, SMT
  <2>7. CASE f # 1
    BY <2>3, <2>5, <2>7, SMT DEF f
  <2> QED
    BY <2>6, <2>7
<1> QED
  BY <1>1, <1>2

(* A resistance is in one interval only.                                     *)
LEMMA OneInterval ==
    ASSUME NEW r \in Nat, NEW i, In(r, i)
    PROVE  First(r) = i /\ Reading(r) = Between(r, i)
<1>1. i \in 2 .. 31 /\ i \in Rows /\ i - 1 \in Rows /\ Entry(i) <= r /\ r < Entry(i - 1)
  BY SMT DEF In, Rows
<1>2. i \in Below(r)
  BY <1>1, BelowIs, SMT
<1> DEFINE f == First(r)
<1>3. f \in Below(r) /\ \A j \in Below(r) : f <= j
  BY <1>2, FirstIs, Zenon DEF IsLeast
<1>4. Reading(r) = IF f = 1 THEN -1000 ELSE Between(r, f)
  BY <1>2, SMT DEF Reading
<1> HIDE DEF f
<1>5. f \in Rows /\ Entry(f) <= r /\ f <= i
  BY <1>2, <1>3, BelowIs, SMT
<1>6. f \in Rows /\ \A j, k \in Rows : j < k => Entry(k) < Entry(j)
  BY <1>5, Falling
<1>7. Entry(f) \in Nat /\ Entry(i - 1) \in Nat
  BY <1>1, <1>5, Falling
<1>8. ~(f < i - 1)
  BY <1>1, <1>5, <1>6, <1>7, SMT
<1>9. f # i - 1
  BY <1>1, <1>5, <1>7, SMT
<1>10. f = i
  BY <1>1, <1>5, <1>8, <1>9, SMT DEF Rows
<1>11. i # 1
  BY <1>1, SMT
<1> QED
  BY <1>4, <1>10, <1>11, SMT DEF f

(* A part e of w, in five hundredths.                                        *)
Part(e, w) == (500 * e) \div w

LEMMA PartIs ==
    ASSUME NEW e \in Nat, NEW w \in Nat \ {0}
    PROVE  Bounds(Part(e, w), 500 * e, w)
<1> DEFINE a == 500 * e
<1>1. a \in Nat
  BY SMT
<1> HIDE DEF a
<1>2. Bounds(a \div w, a, w)
  BY <1>1, Quotient, SMT DEF Bounds
<1> QED
  BY <1>2, SMT DEF Part, a

LEMMA PartStep ==
    ASSUME NEW e \in Nat, NEW f \in Nat, NEW w \in Nat \ {0}, NEW k \in Nat,
           500 * f <= 500 * e + k * w
    PROVE  Part(f, w) <= Part(e, w) + k
<1> DEFINE p == Part(e, w)
           q == Part(f, w)
<1>0. Bounds(p, 500 * e, w) /\ Bounds(q, 500 * f, w)
  BY PartIs, SMT
<1> HIDE DEF p, q
<1>1. p \in Nat /\ 500 * e < p * w + w /\ q \in Nat /\ q * w <= 500 * f
  BY <1>0, SMT DEF Bounds
<1>2. (p + k + 1) * w = p * w + k * w + w /\ p * w \in Nat /\ k * w \in Nat /\ q * w \in Nat
  BY <1>1, SMT
<1>3. q * w < (p + k + 1) * w
  BY <1>1, <1>2, SMT
<1>4. q < p + k + 1
  <2> DEFINE h == p + k + 1
  <2>1. h \in Int /\ q \in Int /\ q * w < h * w
    BY <1>1, <1>3, SMT
  <2> HIDE DEF h
  <2>2. q < h
    BY <2>1, Cancel, SMT
  <2> QED
    BY <2>2, SMT DEF h
<1> QED
  BY <1>1, <1>4, SMT DEF p, q

LEMMA PartRange ==
    ASSUME NEW e \in Nat, NEW w \in Nat \ {0}
    PROVE  /\ Part(e, w) \in Nat
           /\ e < w => Part(e, w) < 500
           /\ Part(0, w) = 0 /\ Part(w, w) = 500
<1>1. Part(e, w) \in Nat
  BY PartIs, SMT DEF Bounds
<1>2. ASSUME e < w PROVE Part(e, w) < 500
  <2> DEFINE p == Part(e, w)
  <2>1. p \in Nat /\ p * w <= 500 * e
    BY PartIs, SMT DEF Bounds
  <2> HIDE DEF p
  <2>2. p * w < 500 * w
    BY <1>2, <2>1, SMT
  <2>3. p < 500
    BY <2>1, <2>2, Cancel, SMT
  <2> QED
    BY <2>3, SMT DEF p
<1>3. Part(0, w) = 0
  <2> DEFINE p == Part(0, w)
  <2>1. p \in Nat /\ p * w <= 500 * 0
    BY PartIs, SMT DEF Bounds
  <2> HIDE DEF p
  <2>2. p * w < 1 * w
    BY <2>1, SMT
  <2>3. p < 1
    BY <2>1, <2>2, Cancel, SMT
  <2> QED
    BY <2>1, <2>3, SMT DEF p
<1>4. Part(w, w) = 500
  <2> DEFINE p == Part(w, w)
  <2>1. p \in Nat /\ p * w <= 500 * w /\ 500 * w < p * w + w
    BY PartIs, SMT DEF Bounds
  <2> HIDE DEF p
  <2>2. p * w < 501 * w /\ 500 * w < (p + 1) * w
    BY <2>1, SMT
  <2>3. p < 501
    BY <2>1, <2>2, Cancel, SMT
  <2>4. 500 < p + 1
    <3> DEFINE h == p + 1
    <3>1. h \in Int /\ 500 * w < h * w
      BY <2>1, <2>2, SMT
    <3> HIDE DEF h
    <3>2. 500 < h
      BY <3>1, Cancel, SMT
    <3> QED
      BY <3>2, SMT DEF h
  <2> QED
    BY <2>1, <2>3, <2>4, SMT DEF p
<1> QED
  BY <1>1, <1>2, <1>3, <1>4

(* A reading in an interval, from its lower entry U and its upper one T.     *)
Within(r, i, U, T) ==
    /\ i \in 2 .. 31 /\ U = Entry(i) /\ T = Entry(i - 1)
    /\ U \in Nat /\ T \in Nat /\ U <= r /\ r < T
    /\ Between(r, i) = 500 * (i - 1) - Part(r - U, T - U)

LEMMA InWithin ==
    ASSUME NEW r, NEW i, In(r, i)
    PROVE  Within(r, i, Entry(i), Entry(i - 1))
<1>1. i \in Rows /\ i - 1 \in Rows
  BY SMT DEF In, Rows
<1>2. Entry(i) \in Nat /\ Entry(i - 1) \in Nat
  BY <1>1, Falling
<1> QED
  BY <1>2, SMT DEF In, Within, Between, Part

Warm(t) == t \in 0 .. 15000
Span(t, i) == t \in 500 * (i - 2) .. 500 * (i - 1)

LEMMA ReadingRange ==
    ASSUME NEW r \in Nat, NEW i, In(r, i)
    PROVE  Span(Between(r, i), i) /\ Warm(Between(r, i))
<1> DEFINE U == Entry(i)
           T == Entry(i - 1)
           e == r - U
           w == T - U
           p == Part(e, w)
<1>1. Within(r, i, U, T)
  BY InWithin
<1> HIDE DEF U, T
<1>2. /\ i \in 2 .. 31 /\ e \in Nat /\ w \in Nat \ {0} /\ e < w
      /\ Between(r, i) = 500 * (i - 1) - p
  BY <1>1, SMT DEF Within
<1> HIDE DEF e, w
<1>3. p \in Nat /\ p < 500
  BY <1>2, PartRange
<1> HIDE DEF p
<1> QED
  BY <1>2, <1>3, SMT DEF Span, Warm

(* Two readings in a row are close, in one interval                          *)
Near(r, s, U, T) == 500 * (s - r) <= 64 * (T - U)

LEMMA SameInterval ==
    ASSUME NEW r \in Nat, NEW s \in Nat, NEW i, In(r, i), In(s, i), r <= s
    PROVE  /\ Between(s, i) <= Between(r, i)
           /\ Near(r, s, Entry(i), Entry(i - 1)) => Between(r, i) - Between(s, i) <= 64
<1> DEFINE U == Entry(i)
           T == Entry(i - 1)
           e == r - U
           f == s - U
           w == T - U
           p == Part(e, w)
           q == Part(f, w)
<1>1. Within(r, i, U, T) /\ Within(s, i, U, T)
  BY InWithin
<1>2. Near(r, s, Entry(i), Entry(i - 1)) <=> Near(r, s, U, T)
  OBVIOUS
<1> HIDE DEF U, T
<1>3. /\ i \in 2 .. 31 /\ e \in Nat /\ f \in Nat /\ w \in Nat \ {0} /\ f - e = s - r /\ e <= f
      /\ Between(r, i) = 500 * (i - 1) - p /\ Between(s, i) = 500 * (i - 1) - q
  BY <1>1, SMT DEF Within
<1>4. Near(r, s, U, T) <=> 500 * (f - e) <= 64 * w
  BY <1>3, SMT DEF Near
<1> HIDE DEF e, f, w
<1>5. p \in Nat /\ q \in Nat
  BY <1>3, PartRange
<1>6. p <= q
  <2>1. 500 * e <= 500 * f + 0 * w
    BY <1>3, SMT
  <2> DEFINE x == 0
  <2>2. x \in Nat /\ 500 * e <= 500 * f + x * w
    BY <2>1, SMT
  <2> HIDE DEF x, p, q
  <2>3. Part(e, w) <= Part(f, w) + x
    BY <2>2, <1>3, PartStep
  <2> QED
    BY <2>3, <1>5, SMT DEF x, p, q
<1>7. ASSUME 500 * (f - e) <= 64 * w PROVE q <= p + 64
  <2> DEFINE x == 64
  <2>1. x \in Nat /\ 500 * f <= 500 * e + x * w
    BY <1>3, <1>7, SMT
  <2> HIDE DEF x, p, q
  <2>2. Part(f, w) <= Part(e, w) + x
    BY <2>1, <1>3, PartStep
  <2> QED
    BY <2>2, SMT DEF x, p, q
<1> HIDE DEF p, q
<1> QED
  BY <1>2, <1>3, <1>4, <1>5, <1>6, <1>7, SMT

(* and in two.                                                               *)
LEMMA NextInterval ==
    ASSUME NEW r \in Nat, NEW s \in Nat, NEW i, In(r, i), In(s, i - 1),
           Near(r, s, Entry(i), Entry(i - 1))
    PROVE  Between(r, i) - Between(s, i - 1) <= 128
<1> DEFINE U == Entry(i)
           T == Entry(i - 1)
           S == Entry((i - 1) - 1)
           e == r - U
           w == T - U
           f == s - T
           v == S - T
           p == Part(e, w)
           q == Part(f, v)
<1>1. Within(r, i, U, T) /\ Within(s, i - 1, T, S) /\ Near(r, s, U, T)
  BY InWithin
<1>2. w <= v
  <2>1. i \in 3 .. 31 /\ (i - 1) - 1 = i - 2
    BY SMT DEF In
  <2> QED
    BY <2>1, Flattening, SMT DEF Curved
<1> HIDE DEF U, T, S
<1>3. /\ i \in 2 .. 31 /\ e \in Nat /\ w \in Nat \ {0} /\ f \in Nat /\ v \in Nat \ {0}
      /\ Between(r, i) = 500 * (i - 1) - p /\ Between(s, i - 1) = 500 * ((i - 1) - 1) - q
      /\ (w - e) + f = s - r /\ e <= w
  BY <1>1, SMT DEF Within
<1>4. 500 * ((w - e) + f) <= 64 * w
  BY <1>1, <1>3, SMT DEF Near
<1> HIDE DEF e, f, w, v
<1>5. p \in Nat /\ q \in Nat
  BY <1>3, PartRange
<1>6. 500 <= p + 64
  <2> DEFINE x == 64
  <2>1. x \in Nat /\ 500 * w <= 500 * e + x * w
    BY <1>3, <1>4, SMT
  <2> HIDE DEF x, p
  <2>2. Part(w, w) <= Part(e, w) + x
    BY <2>1, <1>3, PartStep
  <2>3. Part(w, w) = 500
    BY <1>3, PartRange
  <2> QED
    BY <2>2, <2>3, SMT DEF x, p
<1>7. q <= 64
  <2> DEFINE x == 64
             z == 0
  <2>1. x \in Nat /\ z \in Nat /\ 500 * f <= 500 * z + x * v
    BY <1>2, <1>3, <1>4, SMT
  <2>3. Part(z, v) = 0
    BY <1>3, PartRange
  <2> HIDE DEF x, z, q
  <2>2. Part(f, v) <= Part(z, v) + x
    BY <2>1, <1>3, PartStep
  <2> QED
    BY <2>2, <2>3, SMT DEF x, q
<1> HIDE DEF p, q
<1> QED
  BY <1>3, <1>5, <1>6, <1>7, SMT

LEMMA NearIs ==
    ASSUME NEW dv \in Lower, NEW i, In(Ohms(dv), i)
    PROVE  Near(Ohms(dv), Ohms(dv + 1), Entry(i), Entry(i - 1))
<1>1. i \in 2 .. 31 /\ Ohms(dv) < Entry(i - 1)
  BY SMT DEF In
<1>2. Entry(i) \in Nat /\ Entry(i - 1) \in Nat /\ Interval(i)
  BY <1>1, Intervals
<1>3. PICK M \in Nat \ {0, 1}, G \in Nat : Slow(Entry(i - 1), Entry(i), M, G)
  BY <1>2, Zenon DEF Interval
<1> QED
  BY <1>1, <1>2, <1>3, OhmsClose, Zenon DEF Near

LEMMA Neighbours ==
    ASSUME NEW r \in Nat, NEW s \in Nat, NEW i, NEW j, In(r, i), In(s, j), r <= s,
           Near(r, s, Entry(i), Entry(i - 1))
    PROVE  j = i \/ j = i - 1
<1>1. /\ i \in 2 .. 31 /\ Entry(i) <= r /\ r < Entry(i - 1)
      /\ j \in 2 .. 31 /\ Entry(j) <= s /\ s < Entry(j - 1)
  BY SMT DEF In
<1>2. i \in Rows /\ i - 1 \in Rows /\ j \in Rows /\ j - 1 \in Rows
  BY <1>1, SMT DEF Rows
<1>3. Entry(i) \in Nat /\ Entry(i - 1) \in Nat /\ Entry(j) \in Nat /\ Entry(j - 1) \in Nat
  BY <1>2, Falling
<1>4. ~(i < j)
  <2> SUFFICES ASSUME i < j PROVE FALSE
    OBVIOUS
  <2>1. i = j - 1 \/ i < j - 1
    BY <1>1, SMT
  <2>2. Entry(j - 1) <= Entry(i)
    <3>1. CASE i = j - 1
      BY <1>3, <3>1, SMT
    <3>2. CASE i < j - 1
      <4>1. Entry(j - 1) < Entry(i)
        BY <1>2, <3>2, Falling
      <4> QED
        BY <1>3, <4>1, SMT
    <3> QED
      BY <2>1, <3>1, <3>2
  <2> QED
    BY <1>1, <1>3, <2>2, SMT
<1>5. ~(j < i - 1)
  <2> SUFFICES ASSUME j < i - 1 PROVE FALSE
    OBVIOUS
  <2>1. i \in 3 .. 31 /\ i - 2 \in Rows /\ (j = i - 2 \/ j < i - 2)
    BY <1>1, SMT DEF Rows
  <2>2. Entry(i - 2) <= Entry(j) /\ Entry(i - 2) \in Nat
    <3>1. CASE j = i - 2
      BY <1>3, <3>1, SMT
    <3>2. CASE j < i - 2
      <4>1. Entry(i - 2) < Entry(j) /\ Entry(i - 2) \in Nat
        BY <1>2, <2>1, <3>2, Falling
      <4> QED
        BY <1>3, <4>1, SMT
    <3> QED
      BY <2>1, <3>1, <3>2
  <2>3. Entry(i - 1) - Entry(i) <= Entry(i - 2) - Entry(i - 1)
    BY <2>1, Flattening DEF Curved
  <2>4. 500 * (s - r) <= 64 * (Entry(i - 1) - Entry(i))
    BY SMT DEF Near
  <2> DEFINE U == Entry(i)
             T == Entry(i - 1)
             S == Entry(i - 2)
             V == Entry(j)
  <2>5. /\ U \in Nat /\ T \in Nat /\ S \in Nat /\ V \in Nat
        /\ U <= r /\ r < T /\ V <= s /\ S <= V /\ T - U <= S - T /\ 500 * (s - r) <= 64 * (T - U)
    BY <1>1, <1>3, <2>2, <2>3, <2>4, SMT
  <2> HIDE DEF U, T, S, V
  <2> QED
    BY <2>5, SMT
<1> QED
  BY <1>1, <1>4, <1>5, SMT

(* The readings of two conversions in a row, below full scale.               *)
LEMMA TwoReadings ==
    ASSUME NEW dv \in Lower
    PROVE  Sensor!Smooth(Reading(Ohms(dv)), Reading(Ohms(dv + 1)))
<1> DEFINE r == Ohms(dv)
           s == Ohms(dv + 1)
           i == First(r)
           j == First(s)
           t == Reading(r)
           u == Reading(s)
<1>1. r \in Nat /\ s \in Nat /\ r <= s
  <2>1. Following(dv)
    BY OhmsNext, Zenon
  <2>2. r \in Nat /\ s \in Nat
    BY <2>1, SMT DEF Following, Quotients, Bounds
  <2> QED
    BY <2>2, OhmsRise, Zenon
<1>2. In(r, i) => Near(r, s, Entry(i), Entry(i - 1))
  BY NearIs, Zenon
<1> HIDE DEF r, s
<1>3. \A k \in Rows : Entry(k) \in Nat
  BY Falling
<1>4. 1 \in Rows /\ 31 \in Rows
  BY SMT DEF Rows
<1>5. Entry(1) \in Nat /\ Entry(31) \in Nat /\ Entry(31) < Entry(1)
  <2>1. Entry(31) < Entry(1)
    BY <1>4, Falling, SMT
  <2> QED
    BY <1>3, <1>4, <2>1
<1>6. \/ Below(r) = {} /\ t = 16000 /\ r < Entry(31)
      \/ Entry(1) <= r /\ t = -1000
      \/ In(r, i) /\ t = Between(r, i)
  BY <1>1, Cases, SMT
<1>7. \/ Below(s) = {} /\ u = 16000 /\ s < Entry(31)
      \/ Entry(1) <= s /\ u = -1000
      \/ In(s, j) /\ u = Between(s, j)
  BY <1>1, Cases, SMT
<1>0. SUFFICES Sensor!Smooth(t, u)
  BY DEF t, u, r, s
<1> HIDE DEF i, j, t, u
<1>8. In(s, j) => (u \in 0 .. 15000 /\ Entry(31) <= s) \/ ~(u = Between(s, j))
  <2> SUFFICES ASSUME In(s, j), u = Between(s, j) PROVE u \in 0 .. 15000 /\ Entry(31) <= s
    OBVIOUS
  <2>0. Warm(Between(s, j))
    BY <1>1, ReadingRange, Zenon
  <2>1. u \in 0 .. 15000
    BY <2>0, SMT DEF Warm
  <2>2. j \in Rows /\ Entry(j) <= s /\ (j = 31 \/ j < 31)
    BY SMT DEF In, Rows
  <2>3. j < 31 => Entry(31) < Entry(j)
    BY <1>4, <2>2, Falling
  <2>4. Entry(j) \in Nat
    BY <1>3, <2>2
  <2> QED
    BY <1>1, <1>5, <2>1, <2>2, <2>3, <2>4, SMT
<1>9. CASE Below(r) = {} /\ t = 16000 /\ r < Entry(31)
  <2>1. t \in Int /\ t = 16000
    BY <1>9, SMT
  <2>2. u = 16000 \/ u = -1000 \/ u \in 0 .. 15000
    BY <1>7, <1>8
  <2>3. u \in Int /\ u <= 16000
    <3>1. CASE u = 16000
      BY <3>1, SMT
    <3>2. CASE u = -1000
      BY <3>2, SMT
    <3>3. CASE u \in 0 .. 15000
      BY <3>3, SMT
    <3> QED
      BY <2>2, <3>1, <3>2, <3>3
  <2>4. u <= t /\ ~(t \in 0 .. 15000)
    BY <2>1, <2>3, SMT
  <2> QED
    BY <2>1, <2>3, <2>4, SMT DEF Sensor!Smooth
<1>10. CASE Entry(1) <= r /\ t = -1000
  <2>1. ~(In(s, j))
    <3> SUFFICES ASSUME In(s, j) PROVE FALSE
      OBVIOUS
    <3>1. j - 1 \in Rows /\ s < Entry(j - 1) /\ (1 = j - 1 \/ 1 < j - 1)
      BY SMT DEF In, Rows
    <3>2. 1 < j - 1 => Entry(j - 1) < Entry(1)
      BY <1>4, <3>1, Falling
    <3>3. Entry(j - 1) \in Nat
      BY <1>3, <3>1
    <3> QED
      BY <1>1, <1>5, <1>10, <3>1, <3>2, <3>3, SMT
  <2>2. ~(s < Entry(31))
    BY <1>1, <1>5, <1>10, SMT
  <2> QED
    BY <1>7, <1>10, <2>1, <2>2, SMT DEF Sensor!Smooth
<1>11. CASE In(r, i) /\ t = Between(r, i)
  <2>1. t \in 0 .. 15000 /\ t \in 500 * (i - 2) .. 500 * (i - 1) /\ i \in 2 .. 31
    <3>1. Warm(Between(r, i)) /\ Span(Between(r, i), i)
      BY <1>1, <1>11, ReadingRange, Zenon
    <3> QED
      BY <3>1, <1>11, SMT DEF In, Warm, Span
  <2>2. CASE Entry(1) <= s /\ u = -1000
    BY <2>1, <2>2, SMT DEF Sensor!Smooth
  <2>3. CASE s < Entry(31)
    <3>1. i \in Rows /\ Entry(i) <= r /\ (i = 31 \/ i < 31)
      BY <1>11, SMT DEF In, Rows
    <3>2. i < 31 => Entry(31) < Entry(i)
      BY <1>4, <3>1, Falling
    <3>3. Entry(i) \in Nat
      BY <1>3, <3>1
    <3> QED
      BY <1>1, <1>5, <2>3, <3>1, <3>2, <3>3, SMT
  <2>4. CASE In(s, j) /\ u = Between(s, j)
    <3>1. j = i \/ j = i - 1
      BY <1>1, <1>2, <1>11, <2>4, Neighbours
    <3>2. u \in 0 .. 15000 /\ u \in 500 * (j - 2) .. 500 * (j - 1)
      <4>1. Warm(Between(s, j)) /\ Span(Between(s, j), j)
        BY <1>1, <2>4, ReadingRange, Zenon
      <4> QED
        BY <4>1, <2>4, SMT DEF Warm, Span
    <3>3. CASE j = i
      <4>1. In(s, i) /\ u = Between(s, i)
        BY <2>4, <3>3
      <4>2. Between(s, i) <= Between(r, i) /\ Between(r, i) - Between(s, i) <= 64
        BY <1>1, <1>2, <1>11, <4>1, SameInterval
      <4>3. u <= t /\ t - u <= 64
        BY <1>11, <4>1, <4>2
      <4> QED
        BY <2>1, <3>2, <4>3, SMT DEF Sensor!Smooth
    <3>4. CASE j = i - 1
      <4>1. In(s, i - 1) /\ u = Between(s, i - 1)
        BY <2>4, <3>4
      <4>2. Between(r, i) - Between(s, i - 1) <= 128
        BY <1>1, <1>2, <1>11, <4>1, NextInterval
      <4>3. t - u <= 128
        BY <1>11, <4>1, <4>2
      <4>4. u <= t
        BY <2>1, <3>2, <3>4, SMT
      <4> QED
        BY <2>1, <3>2, <4>3, <4>4, SMT DEF Sensor!Smooth
    <3> QED
      BY <3>1, <3>3, <3>4
  <2> QED
    BY <1>7, <2>2, <2>3, <2>4, SMT
<1> QED
  BY <1>6, <1>9, <1>10, <1>11, SMT

(* The highest conversion, and full scale.                                   *)
LEMMA Colder ==
    ASSUME NEW r \in Nat, Entry(1) <= r
    PROVE  Reading(r) = -1000 /\ \A i : ~In(r, i)
<1>1. 1 \in Rows /\ Entry(1) \in Nat
  BY Falling, SMT DEF Rows
<1>2. ASSUME NEW i, In(r, i) PROVE FALSE
  <2>1. i - 1 \in Rows /\ r < Entry(i - 1) /\ (1 = i - 1 \/ 1 < i - 1)
    BY <1>2, SMT DEF In, Rows
  <2>2. Entry(i - 1) \in Nat /\ (1 < i - 1 => Entry(i - 1) < Entry(1))
    BY <1>1, <2>1, Falling
  <2> QED
    BY <1>1, <2>1, <2>2, SMT
<1>3. Below(r) # {}
  BY <1>1, BelowIs
<1> QED
  BY <1>2, <1>3, Cases, SMT

(* What a reading may be.                                                    *)
LEMMA ReadingIs ==
    ASSUME NEW r \in Nat
    PROVE  Sensor!Possible(Reading(r))
<1> DEFINE i == First(r)
           t == Reading(r)
<1>1. t = 16000 \/ t = -1000 \/ (In(r, i) /\ t = Between(r, i))
  BY Cases, SMT
<1>2. In(r, i) => Warm(Between(r, i))
  BY ReadingRange, Zenon
<1> HIDE DEF i
<1>3. t = 16000 \/ t = -1000 \/ t \in 0 .. 15000
  BY <1>1, <1>2 DEF Warm
<1> QED
  BY <1>3, SMT DEF Sensor!Possible

LEMMA ReadingSteady == \A dv \in Conversions : Sensor!Steady(dv)
<1> TAKE dv \in Conversions
<1> DEFINE r == Ohms(dv)
           t == Reading(r)
           u == Sensor!cf_calc_temp(dv + 1)
<1>1. r \in Nat
  <2>1. Divided(dv)
    BY OhmsBetween, Zenon
  <2> QED
    BY <2>1, SMT DEF Divided, Bounds
<1>2. Sensor!Rntc(dv) = r /\ Sensor!cf_calc_temp(dv) = t
  <2>1. Sensor!Rntc(dv) = Ohms(dv)
    BY OhmsOf, Zenon
  <2> QED
    BY <2>1, ReadingOf, Zenon
<1>3. Sensor!Smooth(t, u)
  <2>1. CASE dv \in Lower
    <3> DEFINE d == dv + 1
    <3>1. d \in Conversions
      BY <2>1, SMT DEF Lower, Conversions
    <3> HIDE DEF d
    <3>a. Sensor!Rntc(d) = Ohms(d)
      BY <3>1, OhmsOf, Zenon
    <3>2. Sensor!Rntc(dv + 1) = Ohms(dv + 1)
      BY <3>a, SMT DEF d
    <3>3. u = Reading(Ohms(dv + 1))
      BY <3>2, ReadingOf, Zenon
    <3> QED
      BY <2>1, <3>3, TwoReadings, Zenon
  <2>2. CASE ~(dv \in Lower)
    <3>1. dv + 1 = 4096
      BY <2>2, SMT DEF Lower, Conversions
    <3> DEFINE s == Sensor!Rntc(dv + 1)
    <3>2. s = 2000000000
      BY <3>1, OhmsFull, SMT
    <3>3. Entry(1) = 326500
      BY SMT DEF Entry, Sensor!temptab
    <3>4. u = Reading(s)
      BY ReadingOf, Zenon
    <3> HIDE DEF s, u
    <3>5. s \in Nat /\ Entry(1) <= s
      BY <3>2, <3>3, SMT
    <3>6. u = -1000
      BY <3>4, <3>5, Colder, SMT
    <3>7. Sensor!Possible(t)
      BY <1>1, ReadingIs, Zenon
    <3> HIDE DEF t
    <3>8. t \in Int /\ u \in Int /\ u <= t /\ ~(u \in 0 .. 15000)
      BY <3>6, <3>7, SMT DEF Sensor!Possible
    <3> QED
      BY <3>8, SMT DEF Sensor!Smooth
  <2> QED
    BY <2>1, <2>2
<1>4. Sensor!Possible(t)
  BY <1>1, ReadingIs, Zenon
<1>5. ASSUME NEW i \in 2 .. 31, r >= Entry(i), r < Entry(i - 1)
      PROVE  Span(t, i)
  <2> HIDE DEF r
  <2>1. Entry(i) \in Nat
    BY Intervals
  <2>2. In(r, i)
    BY <1>1, <1>5, <2>1, SMT DEF In
  <2> QED
    BY <1>1, <2>2, OneInterval, ReadingRange, Zenon
<1> HIDE DEF r, t, u
<1>6. Sensor!BetweenEntries(r, t)
  <2> SUFFICES ASSUME NEW i \in 2 .. Len(Sensor!temptab),
                      r >= Sensor!temptab[i], r < Sensor!temptab[i - 1]
               PROVE  t \in 500 * (i - 2) .. 500 * (i - 1)
    BY Zenon DEF Sensor!BetweenEntries
  <2>1. i \in 2 .. 31
    BY Size, SMT
  <2>2. r >= Entry(i) /\ r < Entry(i - 1)
    BY SMT DEF Entry
  <2>3. Span(t, i)
    BY <1>5, <2>1, <2>2, Zenon
  <2> QED
    BY <2>3, SMT DEF Span
<1> QED
  BY <1>2, <1>3, <1>4, <1>6, Zenon DEF Sensor!Steady, u

(* An input of SpecCodecs is one of the twelve kinds.                        *)
LEMMA InitInput == InitCodecs => InputKnown
  BY DEF InitCodecs, InputKnown

LEMMA NextInput == InputKnown /\ [NextCodecs]_input => InputKnown'
  BY DEF NextCodecs, InputKnown

LEMMA InputSteady == InputKnown => TemperatureSteady
<1> SUFFICES ASSUME InputKnown, input.codec = "sensor" PROVE Sensor!Steady(input.dv)
  BY DEF TemperatureSteady
<1>1. input \in SensorInputs
  BY SocketInputs, GpsInputs, BoardInputs, FigureInputs, OtherInputs, SMT
  DEF InputKnown, Nothing
<1>2. input.dv \in Conversions
  BY <1>1, BoardInputs, SMT DEF Conversions
<1> QED
  BY <1>2, ReadingSteady, Zenon

(* A reading falls steadily with the conversion, from one end of the table   *)
(* to the other (cf_calc_temp).                                              *)
THEOREM TemperatureCorrect == SpecCodecs => []TemperatureSteady
<1>1. SpecCodecs => []InputKnown
  BY InitInput, NextInput, PTL DEF SpecCodecs
<1> QED
  BY <1>1, InputSteady, PTL
=============================================================================
