------------------------------- MODULE Base64 -------------------------------
(* websocket/base64.cpp.  A character is its place in base64_table; Pad and  *)
(* Newline come after them, and are also the only others that occur.         *)
EXTENDS Integers, Sequences

Pad == 64
Newline == 65
Codes == 0 .. 63

(* Three bytes, the missing ones 0, as four codes.                           *)
Block(b) ==
    << b[1] \div 4,
       (b[1] % 4) * 16 + (b[2] \div 16),
       (b[2] % 16) * 4 + (b[3] \div 64),
       b[3] % 64 >>

(* Mutant: two bytes left over are padded like one.                          *)
LastPadded(rest) ==
    SubSeq(Block(rest \o <<0, 0>>), 1, 2) \o <<Pad, Pad>>

Last(rest) ==
    SubSeq(Block(rest \o <<0, 0>>), 1, Len(rest) + 1) \o [i \in 1 .. 3 - Len(rest) |-> Pad]

(* The text of the first blocks, with a newline after each 18.               *)
Lines(src) ==
    LET after[n \in 0 .. Len(src) \div 3] ==
            IF n = 0 THEN << >>
            ELSE after[n - 1] \o Block(SubSeq(src, 3 * n - 2, 3 * n))
                 \o (IF n % 18 = 0 THEN <<Newline>> ELSE << >>)
    IN  after

(* And at the end of a line that is not full.                                *)
base64_encode(src) ==
    LET blocks == Len(src) \div 3
        rest == SubSeq(src, 3 * blocks + 1, Len(src))
    IN  IF rest # << >> THEN Lines(src)[blocks] \o Last(rest) \o <<Newline>>
        ELSE Lines(src)[blocks] \o (IF blocks % 18 = 0 THEN << >> ELSE <<Newline>>)

(* The size of the buffer that base64_encode allocates.                      *)
Allocated(len) == LET olen == (len * 4) \div 3 + 4 IN olen + (olen \div 72) + 1

(* Three bytes of four codes; each is cut to 8 bits.                         *)
Unblock(c) ==
    << c[1] * 4 + (c[2] \div 16),
       ((c[2] * 16) % 256) + (c[3] \div 4),
       ((c[3] * 64) % 256) + c[4] >>

Failure == <<"NULL">>

(* The characters that are in the table, or a pad.                           *)
Known(src) ==
    LET upto[i \in 0 .. Len(src)] ==
            IF i = 0 THEN << >>
            ELSE IF src[i] = Newline THEN upto[i - 1] ELSE Append(upto[i - 1], src[i])
    IN  upto[Len(src)]

Pads(known, n) ==
    LET pad(i) == IF known[4 * n - 4 + i] = Pad THEN 1 ELSE 0
    IN  pad(1) + pad(2) + pad(3) + pad(4)

(* The bytes of the first blocks.                                            *)
Bytes(known, end) ==
    LET code(i) == IF known[i] = Pad THEN 0 ELSE known[i]
        upto[n \in 0 .. end] ==
            IF n = 0 THEN << >>
            ELSE upto[n - 1] \o Unblock([i \in 1 .. 4 |-> code(4 * n - 4 + i)])
    IN  upto[end]

(* The first block with a pad ends the text, whatever follows.               *)
base64_decode(src) ==
    LET known == Known(src)
        padded == {n \in 1 .. Len(known) \div 4 : Pads(known, n) > 0}
        end == IF padded = {} THEN Len(known) \div 4
               ELSE CHOOSE n \in padded : \A m \in padded : n <= m
    IN  IF known = << >> \/ Len(known) % 4 # 0 \/ Pads(known, end) > 2 THEN Failure
        ELSE SubSeq(Bytes(known, end), 1, 3 * end - Pads(known, end))

-----------------------------------------------------------------------------
(* Decoding gives back the bytes that were encoded, the lines are 72 codes   *)
(* long, and the text with its terminator fits the buffer allocated for it.  *)
RoundTrip(src) ==
    LET text == base64_encode(src)
    IN  /\ base64_decode(text) = IF src = << >> THEN Failure ELSE src
        /\ Len(text) + 1 <= Allocated(Len(src))
        /\ \A i \in DOMAIN text : text[i] = Newline <=> i % 73 = 0 \/ i = Len(text)
=============================================================================
