------------------------------ MODULE MCCodecs ------------------------------
(* The library's pure functions on inputs chosen around their edges.         *)
EXTENDS Codecs

Bytes(n) == [i \in 1 .. n |-> (37 * i + 200) % 256]

MCMessageInputs ==
    [codec : {"message"}, length : 0 .. 300 \cup 29990 .. 29999 \cup 65525 .. 65540]

MCTextInputs ==
    [codec : {"text"}, text : {Bytes(n) : n \in 0 .. 9 \cup {124, 125, 126, 127, 128, 300}},
     mask : {<<0, 0, 0, 0>>, <<1, 2, 4, 255>>, <<200, 0, 55, 170>>}]

MCBase64Inputs ==
    [codec : {"base64"},
     bytes : UNION {[1 .. n -> {0, 3, 64, 175, 255}] : n \in 0 .. 3}
             \cup {Bytes(n) : n \in 4 .. 120}]

MCSha1Inputs ==
    {x \in [codec : {"sha1"}, message : {Bytes(n) : n \in 0 .. 5 * BlockLength},
            cut : 0 .. 5 * BlockLength] : x.cut <= Len(x.message)}

Ends(degrees, minutes) ==
    [degrees : degrees, minutes : minutes, negative : BOOLEAN, err : {0, 1}]

MCPositionInputs ==
    [codec : {"position"},
     lon : Ends({0, 1, 2, 19, 20, 179}, {0, 499, 500, 5999}),
     lat : Ends({0, 9, 10, 89}, {0, 249, 250, 5999})]

MCDateInputs ==
    {d \in [codec : {"date"}, tag : 1 .. 31, monat : 1 .. 12, jj : 0 .. 99] :
        d.tag <= Sun!DaysOf(d.monat, d.jj)}

MCSensorInputs == [codec : {"sensor"}, dv : 0 .. 4095]

Elements ==
    {Config!Element(name, value) :
        name \in {<<"a">>, <<"n">>, <<"a", "b">>}, value \in {<<"1">>, <<"n", ",", "1", ",">>}}

MCConfigInputs ==
    [codec : {"config"},
     elements : UNION {[1 .. n -> Elements \cup {Config!Other}] : n \in 0 .. 2},
     blanks : {1, 2}, tail : {<< >>, <<"\n">>, <<" ", "a", "\n">>},
     other : {<<"\n">>, <<" ", "\n">>, <<"#", "a", " ", "1", "\n">>},
     name : {<<"a">>, <<"n">>}]

MCLineInputs == [codec : {"line"}, x0 : {-3, 5}, y0 : {2}, dx : -9 .. 9, dy : -9 .. 9]

MCCircleInputs == [codec : {"circle"}, radius : 1 .. 30]

MCScreenInputs ==
    {[codec |-> "screen", xres |-> x, yres |-> y, bytes |-> b, line_length |-> x * b + pad] :
        x \in 1 .. 5, y \in 1 .. 4, b \in {2, 3}, pad \in {0, 2}}

MCBarInputs ==
    {[codec |-> "bar", values |-> values, minx |-> 1, width |-> width, miny |-> 1, height |-> 4,
      minval |-> minval, maxval |-> maxval, err |-> err, showvalue |-> showvalue,
      bgx |-> width + 2, bgw |-> 2, bgy |-> 1, bgh |-> 2,
      picture |-> [p \in (0 .. width + 6) \X (0 .. 6) |-> "grey"]] :
        values \in UNION {[1 .. n -> 2 .. 4] : n \in 1 .. 3}, width \in 3 .. 6,
        minval \in {0, 2}, maxval \in {4, 5}, err \in {0, 1}, showvalue \in BOOLEAN}
=============================================================================
