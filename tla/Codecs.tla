------------------------------- MODULE Codecs -------------------------------
(* The pure functions of the library: one state for each input, so that an   *)
(* invariant is a statement about all of them.                               *)
EXTENDS Integers, Sequences

CONSTANTS
    BlockLength, LengthBytes,      \* of a sha1 block
    (* what is decoded, converted or drawn, by each of them                  *)
    MessageInputs, TextInputs, Base64Inputs, Sha1Inputs, PositionInputs, DateInputs,
    SensorInputs, ConfigInputs, LineInputs, CircleInputs, ScreenInputs, BarInputs

Frames == INSTANCE WsFrames
Text64 == INSTANCE Base64
Sha1 == INSTANCE Sha1Blocks
Locators == INSTANCE Locator
Sun == INSTANCE SunDate
Sensor == INSTANCE Thermistor
Config == INSTANCE ConfigFile
Picture == INSTANCE Drawing
Bars == INSTANCE BarGraph

ASSUME BlocksAssumption ==
    BlockLength \in Nat /\ LengthBytes \in 1 .. BlockLength - 1

Octet == 0 .. 255

(* An int, with three more for the length in front of a message.             *)
MaxLength == 2147483644

(* A message for sha1: its length in bits has four bytes.                    *)
MaxHashed == 268435455

(* What ws_send is given is a length, what a browser sends a text and a mask.*)
ASSUME SocketInputs ==
    /\ MessageInputs \subseteq [codec : {"message"}, length : 0 .. MaxLength]
    /\ TextInputs \subseteq [codec : {"text"}, text : Seq(Octet), mask : [1 .. 4 -> Octet]]
    /\ Base64Inputs \subseteq [codec : {"base64"}, bytes : Seq(Octet)]
    /\ Sha1Inputs \subseteq [codec : {"sha1"}, message : Seq(Octet), cut : Nat]
    /\ \A x \in Sha1Inputs : x.cut <= Len(x.message) /\ Len(x.message) <= MaxHashed

(* Degrees below the range; err is 1 if a float was rounded down.            *)
Coordinate(range) ==
    {c \in [degrees : Nat, minutes : Nat, negative : BOOLEAN, err : {0, 1}] :
        c.degrees < range /\ c.minutes < 6000}

ASSUME GpsInputs ==
    /\ PositionInputs \subseteq
           [codec : {"position"}, lon : Coordinate(180), lat : Coordinate(90)]
    /\ DateInputs \subseteq [codec : {"date"}, tag : 1 .. 31, monat : 1 .. 12, jj : 0 .. 99]
    /\ \A d \in DateInputs : d.tag <= Sun!DaysOf(d.monat, d.jj)

(* A conversion has 12 bits.                                                 *)
ASSUME BoardInputs == SensorInputs \subseteq [codec : {"sensor"}, dv : 0 .. 4095]

ASSUME OtherInputs ==
    /\ \A x \in ConfigInputs : x.codec = "config"
    /\ \A x \in BarInputs : x.codec = "bar"

(* A circle has a radius (TFT_drawcircle takes 1 for less), and a line of    *)
(* the frame buffer room for its pixels.                                     *)
ASSUME FigureInputs ==
    /\ LineInputs \subseteq [codec : {"line"}, x0 : Int, y0 : Int, dx : Int, dy : Int]
    /\ CircleInputs \subseteq [codec : {"circle"}, radius : Nat \ {0}]
    /\ ScreenInputs \subseteq [codec : {"screen"}, xres : Nat, yres : Nat,
                                bytes : Nat \ {0}, line_length : Nat]
    /\ \A x \in ScreenInputs : x.xres * x.bytes <= x.line_length

(* Lines of a configuration file, as its comment has them.                   *)
ASSUME FileInputs ==
    \A x \in ConfigInputs :
        /\ x.elements \in Seq([name : Seq(Config!Text),
                                value : Seq(Config!Text \cup Config!Signs)])
        /\ \A i \in DOMAIN x.elements :
              x.elements[i] = Config!Other \/ Config!IsElement(x.elements[i])
        /\ x.blanks \in Nat \ {0} /\ Config!IsTail(x.tail) /\ Config!IsOther(x.other)
        /\ x.name \in Seq(Config!Text) /\ x.name # << >>

(* A bar of at least a pixel, from 0 or more up, and its values; the value   *)
(* is shown "right of the bar" (bargraph.h).                                 *)
ASSUME BarsAssumption ==
    \A x \in BarInputs :
        /\ x.minx \in Int /\ x.miny \in Int /\ x.width \in Nat \ {0} /\ x.height \in Nat \ {0}
        /\ x.minval \in Nat /\ x.maxval \in Nat \ {0} /\ x.err \in {0, 1}
        /\ x.showvalue \in BOOLEAN /\ x.bgx \in Nat /\ x.bgx > x.width
        /\ x.bgw \in Nat /\ x.bgy \in Int /\ x.bgh \in Nat
        /\ x.values \in Seq(x.minval .. x.maxval) /\ x.values # << >>
        /\ DOMAIN x.picture \subseteq Int \X Int
        /\ x.picture = [p \in DOMAIN x.picture |-> x.picture[p]]

VARIABLE input

Nothing == [codec |-> "none"]

InitCodecs == input = Nothing

NextCodecs ==
    /\ input = Nothing
    /\ \/ input' \in MessageInputs
       \/ input' \in TextInputs
       \/ input' \in Base64Inputs
       \/ input' \in Sha1Inputs
       \/ input' \in PositionInputs
       \/ input' \in DateInputs
       \/ input' \in SensorInputs
       \/ input' \in ConfigInputs
       \/ input' \in LineInputs
       \/ input' \in CircleInputs
       \/ input' \in ScreenInputs
       \/ input' \in BarInputs

InputKnown ==
    \/ input = Nothing
    \/ input \in MessageInputs \/ input \in TextInputs \/ input \in Base64Inputs
    \/ input \in Sha1Inputs \/ input \in PositionInputs \/ input \in DateInputs
    \/ input \in SensorInputs \/ input \in ConfigInputs \/ input \in LineInputs
    \/ input \in CircleInputs \/ input \in ScreenInputs \/ input \in BarInputs

SpecCodecs == InitCodecs /\ [][NextCodecs]_input

-----------------------------------------------------------------------------
(* Properties                                                                *)

(* What ws_send is given arrives at a browser that reads frames as RFC 6455  *)
(* says, and what a browser sends in one frame arrives at onmessage.         *)
FramesUnderstood ==
    /\ input.codec = "message" => Frames!Readable(input.length)
    /\ input.codec = "text" => Frames!Understood(input.text, input.mask)

(* base64_decode undoes base64_encode, which stays within its buffer.        *)
Base64Undone == input.codec = "base64" => Text64!RoundTrip(input.bytes)

(* SHA1Input, SHA1PadMessage and SHA1Result hash the padded message.         *)
HashedIsPadded ==
    input.codec = "sha1" => Sha1!PaddedRight(input.message, input.cut)

(* CalculateGridSquare gives the sub-square the position is in.              *)
LocatorContains ==
    input.codec = "position" => Locators!Contains(input.lon, input.lat)

(* cf_calc_temp falls steadily with the voltage.                             *)
TemperatureSteady == input.codec = "sensor" => Sensor!Steady(input.dv)

(* getConfigElement_string finds the first value of an element in a file     *)
(* that is written as its comment says.                                      *)
ConfigFound ==
    input.codec = "config" =>
        LET lines == [i \in DOMAIN input.elements |->
                         IF input.elements[i] = Config!Other THEN input.other
                         ELSE Config!Written(input.elements[i], input.blanks, input.tail)]
        IN  Config!getConfigElement_string(lines, input.name)
                = Config!FirstValue(input.elements, input.name)

(* TFT_DrawLine draws a line from end to end that nowhere strays from the    *)
(* straight one, TFT_drawcircle_int a circle without gaps within its radius, *)
(* and draw_pixel has bytes of its own for every pixel.                      *)
FiguresDrawn ==
    /\ input.codec = "line" =>
           Picture!Straight(input.x0, input.y0, input.x0 + input.dx, input.y0 + input.dy)
    /\ input.codec = "circle" => Picture!Round(input.radius)
    /\ input.codec = "screen" => Picture!OwnBytes(input)

(* However a bar came to its value, by putvalue_bargraph with drawmode 1, it *)
(* looks as if it had never had another one.                                 *)
BarShown == input.codec = "bar" => Bars!Shown(input.picture, input, input.values)

(* Datum2JDatum counts days as the calendar does.                            *)
DaysCounted == input.codec = "date" => Sun!Counted(input.tag, input.monat, input.jj)
=============================================================================
