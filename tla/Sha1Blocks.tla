----------------------------- MODULE Sha1Blocks -----------------------------
(* websocket/sha1.cpp: how a message that arrives in pieces is cut into      *)
(* blocks and padded.  What SHA1ProcessMessageBlock computes of a block is   *)
(* left out: a context remembers the blocks it was called with.              *)
EXTENDS Integers, Sequences

CONSTANTS
    BlockLength,     \* bytes of Message_Block (64)
    LengthBytes      \* bytes of the length at its end (8)

Start == BlockLength - LengthBytes

SHA1Reset ==
    [block |-> [i \in 0 .. BlockLength - 1 |-> 0], index |-> 0, length |-> 0,
     processed |-> << >>, computed |-> FALSE, corrupted |-> FALSE]

SHA1ProcessMessageBlock(c) ==
    [c EXCEPT !.processed = Append(@, c.block), !.index = 0]

Store(c, byte) ==
    LET stored == [c EXCEPT !.block[c.index] = byte, !.index = @ + 1, !.length = @ + 1]
    IN  IF stored.index = BlockLength THEN SHA1ProcessMessageBlock(stored) ELSE stored

SHA1Input(c, bytes) ==
    LET after[n \in 0 .. Len(bytes)] ==
            IF n = 0 THEN c ELSE Store(after[n - 1], bytes[n])
    IN  IF bytes = << >> \/ c.corrupted THEN c
        ELSE IF c.computed THEN [c EXCEPT !.corrupted = TRUE]
        ELSE after[Len(bytes)]

(* Zeros from the index up to place n.                                       *)
Fill(c, n) ==
    [c EXCEPT !.block = [i \in DOMAIN @ |-> IF i >= c.index /\ i < n THEN 0 ELSE @[i]],
              !.index = n]

Mark(c) == [c EXCEPT !.block[c.index] = 128, !.index = @ + 1]

(* Mutant: a block that is full up to the length is not ended.               *)
NoRoomLate(c) == c.index > Start

NoRoom(c) == c.index > Start - 1

(* The length is in bits, in big-endian bytes; no message is as long as 2^28.*)
StoreLength(c) ==
    LET byte(k) ==
            IF k > 3 THEN 0 ELSE ((8 * c.length) \div <<1, 256, 65536, 16777216>>[k + 1]) % 256
    IN  [c EXCEPT !.block =
            [i \in DOMAIN @ |-> IF i >= Start THEN byte(BlockLength - 1 - i) ELSE @[i]]]

SHA1PadMessage(c) ==
    LET room == IF NoRoom(c) THEN SHA1ProcessMessageBlock(Fill(Mark(c), BlockLength))
                             ELSE Mark(c)
    IN  SHA1ProcessMessageBlock(StoreLength(Fill(room, Start)))

SHA1Result(c) ==
    IF c.corrupted \/ c.computed THEN c
    ELSE [SHA1PadMessage(c) EXCEPT !.computed = TRUE, !.length = 0,
             !.block = [i \in DOMAIN @ |-> 0]]

-----------------------------------------------------------------------------
(* The padded message of the standard: the message, a 1 bit, as few zeros as *)
(* possible, the length.                                                     *)
Standard(message) ==
    LET n == Len(message)
        blocks == (n + LengthBytes) \div BlockLength + 1
        byte(p) ==
            IF p < n THEN message[p + 1] ELSE IF p = n THEN 128
            ELSE LET k == blocks * BlockLength - 1 - p
                 IN  IF k >= LengthBytes \/ k > 3 THEN 0
                     ELSE ((8 * n) \div <<1, 256, 65536, 16777216>>[k + 1]) % 256
    IN  [b \in 1 .. blocks |->
            [i \in 0 .. BlockLength - 1 |-> byte((b - 1) * BlockLength + i)]]

(* However a message is cut into two pieces, and although bytes of one block *)
(* stay in the buffer for the next, what is hashed is the padded message;    *)
(* asking again changes nothing, and more input is refused afterwards.       *)
PaddedRight(message, cut) ==
    LET first == SHA1Input(SHA1Reset, SubSeq(message, 1, cut))
        last == SHA1Result(SHA1Input(first, SubSeq(message, cut + 1, Len(message))))
        more == SHA1Input(last, <<1>>)
    IN  /\ last.processed = Standard(message)
        /\ SHA1Result(last) = last
        /\ more.corrupted /\ SHA1Result(more).processed = last.processed
=============================================================================
