------------------------------ MODULE WsFrames ------------------------------
(* websocket/: what a message looks like on its way to a browser and back.   *)
(* Bytes are numbers, a payload to the browser is its length.                *)
EXTENDS Integers, Sequences

WS_FIN == 128
WS_FR_OP_TXT == 1
WS_FR_OP_BINARY == 2

(* The low eight bits of n >> 8 * k.                                         *)
Byte(n, k) ==
    IF k > 3 THEN 0 ELSE (n \div <<1, 256, 65536, 16777216>>[k + 1]) % 256

(* Exclusive or of two bytes, bit by bit.                                    *)
Xor(a, b) ==
    LET bit(p) == p * ((a \div p + b \div p) % 2)
    IN  bit(1) + bit(2) + bit(4) + bit(8) + bit(16) + bit(32) + bit(64) + bit(128)

(* The header before the data of ws_build_txframe; NoFrame below 10 bytes.   *)
NoFrame == << >>

ws_build_txframe(msglen) ==
    IF msglen + 3 < 10 THEN NoFrame ELSE <<0, Byte(msglen, 1), Byte(msglen, 0)>>

(* Mutant: the bytes of a 16-bit length the other way round.                *)
LengthSwapped(length) ==
    IF length <= 125 THEN <<length % 128>>
    ELSE IF length <= 65535 THEN <<126, Byte(length, 0), Byte(length, 1)>>
    ELSE <<127>> \o [i \in 1 .. 8 |-> Byte(length, 8 - i)]

Length(length) ==
    IF length <= 125 THEN <<length % 128>>
    ELSE IF length <= 65535 THEN <<126, Byte(length, 1), Byte(length, 0)>>
    ELSE <<127>> \o [i \in 1 .. 8 |-> Byte(length, 8 - i)]

ws_sendframe_binary(length) == <<WS_FIN + WS_FR_OP_BINARY>> \o Length(length)

(* Of a text frame the length only says where the mask begins: all that was  *)
(* read is its payload.                                                      *)
ws_receiveframe(frame) ==
    LET form == frame[2] % 128
        mask == IF form = 126 THEN 4 ELSE IF form = 127 THEN 10 ELSE 2
        data == mask + 4
    IN  IF frame[1] # WS_FIN + WS_FR_OP_TXT THEN NoFrame
        ELSE [j \in 1 .. Len(frame) - data |->
                 Xor(frame[data + j], frame[mask + 1 + ((j - 1) % 4)])]

-----------------------------------------------------------------------------
(* What the protocol says of the same bytes.                                 *)

Number(bytes) ==
    LET value[n \in 0 .. Len(bytes)] ==
            IF n = 0 THEN 0 ELSE 256 * value[n - 1] + bytes[n]
    IN  value[Len(bytes)]

(* Bytes of the length field, in the form that its first byte announces.     *)
Extra(form) == CASE form = 126 -> 2 [] form = 127 -> 8 [] OTHER -> 0

Payload(header) ==
    LET form == header[2]
    IN  IF form < 126 THEN form ELSE Number(SubSeq(header, 3, 2 + Extra(form)))

(* A browser's text frame: the same header with the mask bit, mask, data.    *)
Masked(text, mask) ==
    LET header == Length(Len(text))
    IN  <<WS_FIN + WS_FR_OP_TXT>> \o [header EXCEPT ![1] = @ + 128] \o mask
        \o [j \in 1 .. Len(text) |-> Xor(text[j], mask[1 + ((j - 1) % 4)])]

(* A message of the application arrives with its own length in front (ws_send*)
(* takes none above 29999 bytes) and in a frame of the right length, in the  *)
(* shortest form; or not at all.                                             *)
Readable(msglen) ==
    LET inner == ws_build_txframe(msglen)
        outer == ws_sendframe_binary(msglen + 3)
    IN  inner # NoFrame =>
            /\ Number(Tail(inner)) = msglen % 65536
            /\ Payload(outer) = msglen + 3
            /\ Len(outer) = 2 + Extra(outer[2])
            /\ outer[2] = 126 => Payload(outer) > 125
            /\ outer[2] = 127 => Payload(outer) > 65535

(* A text read in one piece is the text the browser sent, to its last byte.  *)
Understood(text, mask) == ws_receiveframe(Masked(text, mask)) = text
=============================================================================
