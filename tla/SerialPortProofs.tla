-------------------------- MODULE SerialPortProofs --------------------------
(* Proofs about SerialPort, for pipes of any length: types, and what         *)
(* write_serial and write_serial_free promise.                               *)
EXTENDS SerialPort, TLAPS

-----------------------------------------------------------------------------
(* The ring                                                                  *)

(* The remainder of a difference of two slots.                               *)
LEMMA Remainder ==
    ASSUME NEW x \in Int, 0 - BUFFER_LENGTH < x, x < BUFFER_LENGTH
    PROVE  x % BUFFER_LENGTH = IF x < 0 THEN x + BUFFER_LENGTH ELSE x
<1> DEFINE B == BUFFER_LENGTH
<1>1. B \in Nat /\ B > 1
  BY SerialAssumption
<1>2. CASE x < 0
  BY <1>1, <1>2, SMTT(60)
<1>3. CASE x >= 0
  BY <1>1, <1>3, SMTT(60)
<1> QED
  BY <1>2, <1>3

LEMMA FullTurn == BUFFER_LENGTH % BUFFER_LENGTH = 0
  BY SerialAssumption, SMTT(60)

(* The next slot is the one the test for a full pipe means.                  *)
LEMMA NextSlot ==
    ASSUME NEW i \in Slots
    PROVE  Succ(i) \in Slots /\ (i + 1) % BUFFER_LENGTH = Succ(i)
<1>1. Succ(i) \in Slots
  BY SerialAssumption DEF Succ, Slots
<1>2. CASE i + 1 = BUFFER_LENGTH
  BY <1>1, <1>2, FullTurn DEF Succ
<1>3. CASE i + 1 # BUFFER_LENGTH
  <2>1. i + 1 \in Int /\ 0 - BUFFER_LENGTH < i + 1 /\ i + 1 < BUFFER_LENGTH /\ ~(i + 1 < 0)
    BY <1>3, SerialAssumption DEF Slots
  <2>2. (i + 1) % BUFFER_LENGTH = i + 1
    BY <2>1, Remainder
  <2> QED
    BY <1>1, <1>3, <2>2 DEF Succ
<1> QED
  BY <1>2, <1>3

(* The slots from r to w.                                                    *)
Filled(w, r) == (w - r) % BUFFER_LENGTH

LEMMA FilledIs ==
    ASSUME NEW w \in Slots, NEW r \in Slots
    PROVE  Filled(w, r) = IF w < r THEN w - r + BUFFER_LENGTH ELSE w - r
<1>1. w - r \in Int /\ 0 - BUFFER_LENGTH < w - r /\ w - r < BUFFER_LENGTH
  BY SerialAssumption DEF Slots
<1>2. (w - r) % BUFFER_LENGTH = IF w - r < 0 THEN w - r + BUFFER_LENGTH ELSE w - r
  BY <1>1, Remainder
<1> QED
  BY <1>2, SerialAssumption DEF Filled, Slots

(* A write adds one slot unless the pipe is full, a read takes one unless it *)
(* is empty.                                                                 *)
LEMMA FilledMoves ==
    ASSUME NEW w \in Slots, NEW r \in Slots
    PROVE  /\ Filled(w, r) \in Nat
           /\ (w + 1) % BUFFER_LENGTH # r => Filled(Succ(w), r) = Filled(w, r) + 1
           /\ r # w => Filled(w, Succ(r)) = Filled(w, r) - 1
<1>1. Succ(w) \in Slots /\ Succ(r) \in Slots /\ (w + 1) % BUFFER_LENGTH = Succ(w)
  BY NextSlot
<1>2. Filled(w, r) = IF w < r THEN w - r + BUFFER_LENGTH ELSE w - r
  BY FilledIs
<1>3. Filled(Succ(w), r) = IF Succ(w) < r THEN Succ(w) - r + BUFFER_LENGTH ELSE Succ(w) - r
  BY <1>1, FilledIs
<1>4. Filled(w, Succ(r)) = IF w < Succ(r) THEN w - Succ(r) + BUFFER_LENGTH ELSE w - Succ(r)
  BY <1>1, FilledIs
<1>5. Filled(w, r) \in Nat
  BY <1>2, SerialAssumption DEF Slots
<1>6. ASSUME (w + 1) % BUFFER_LENGTH # r PROVE Filled(Succ(w), r) = Filled(w, r) + 1
  BY <1>1, <1>2, <1>3, <1>6, SerialAssumption DEF Succ, Slots
<1>7. ASSUME r # w PROVE Filled(w, Succ(r)) = Filled(w, r) - 1
  BY <1>1, <1>2, <1>4, <1>7, SerialAssumption DEF Succ, Slots
<1> QED
  BY <1>5, <1>6, <1>7

-----------------------------------------------------------------------------
(* Types                                                                     *)

LEMMA InitTypes == Init => TypeOK
<1> SUFFICES ASSUME Init PROVE TypeOK
  OBVIOUS
<1> USE DEF Init
<1>1. 0 \in Slots
  BY SerialAssumption DEF Slots
<1>2. /\ buffer \in [Directions -> [Slots -> Cell]]
      /\ wridx \in [Directions -> Slots] /\ rdidx \in [Directions -> Slots]
  BY <1>1 DEF Cell
<1>3. /\ incoming \in Seq(Nat) /\ accepted \in Seq(Nat)
      /\ atpeer \in Seq(Cell) /\ atuser \in Seq(Cell)
  OBVIOUS
<1>4. /\ at \in {"loop", "store", "fetch", "send"} /\ fd \in {-1, Stale, Usable}
      /\ byte \in Cell /\ written \in Nat /\ arrived \in Nat /\ faults \in Nat
  BY DEF Cell
<1>5. plugged \in BOOLEAN /\ free \in BOOLEAN
  OBVIOUS
<1> QED
  BY <1>2, <1>3, <1>4, <1>5, Zenon DEF TypeOK

(* The next byte of a pipe, and the pipe with one more.                      *)
LEMMA PipeTypes ==
    ASSUME TypeOK, NEW d \in Directions
    PROVE  /\ Head1(d) \in Cell
           /\ read_serpipe(d) => rdidx' \in [Directions -> Slots]
           /\ \A b \in Cell : write_serpipe(d, b) =>
                 /\ buffer' \in [Directions -> [Slots -> Cell]]
                 /\ wridx' \in [Directions -> Slots]
<1> USE DEF TypeOK
<1>1. wridx[d] \in Slots /\ rdidx[d] \in Slots /\ buffer[d] \in [Slots -> Cell]
  OBVIOUS
<1>2. Succ(wridx[d]) \in Slots /\ Succ(rdidx[d]) \in Slots
  BY <1>1, NextSlot
<1>3. Head1(d) \in Cell
  BY <1>1 DEF Head1
<1>4. read_serpipe(d) => rdidx' \in [Directions -> Slots]
  BY <1>2 DEF read_serpipe
<1>5. ASSUME NEW b \in Cell, write_serpipe(d, b)
      PROVE  /\ buffer' \in [Directions -> [Slots -> Cell]]
             /\ wridx' \in [Directions -> Slots]
  <2>1. [buffer[d] EXCEPT ![wridx[d]] = b] \in [Slots -> Cell]
    BY <1>1
  <2>2. buffer' = [buffer EXCEPT ![d] = [buffer[d] EXCEPT ![wridx[d]] = b]]
    BY <1>5 DEF write_serpipe
  <2> QED
    BY <1>2, <1>5, <2>1, <2>2 DEF write_serpipe
<1> QED
  BY <1>3, <1>4, <1>5

LEMMA NextTypes == TypeOK /\ [Next]_vars => TypeOK'
<1> SUFFICES ASSUME TypeOK, [Next]_vars PROVE TypeOK'
  OBVIOUS
<1> USE DEF TypeOK, pipes, thread, port, user
<1>0. /\ "r" \in Directions /\ "w" \in Directions
      /\ Head1("r") \in Cell /\ Head1("w") \in Cell
      /\ None \in Cell /\ Nat \subseteq Cell
  BY PipeTypes DEF Directions, Cell
<1>1. CASE write_serial
  <2>1. written' \in Nat
    BY <1>1 DEF write_serial
  <2>2. CASE Full("w")
    BY <1>1, <2>1, <2>2 DEF write_serial
  <2>3. CASE ~Full("w")
    <3>1. write_serpipe("w", written') /\ accepted' = Append(accepted, written')
      BY <1>1, <2>3 DEF write_serial
    <3>2. /\ buffer' \in [Directions -> [Slots -> Cell]]
          /\ wridx' \in [Directions -> Slots]
      BY <1>0, <2>1, <3>1, PipeTypes
    <3>3. rdidx' = rdidx
      BY <3>1 DEF write_serpipe
    <3>4. accepted' \in Seq(Nat)
      BY <2>1, <3>1
    <3>5. free' \in BOOLEAN /\ UNCHANGED <<thread, port, atuser, atpeer>>
      BY <1>1 DEF write_serial
    <3> QED
      BY <2>1, <3>2, <3>3, <3>4, <3>5
  <2> QED
    BY <2>2, <2>3
<1>2. CASE write_serial_free
  BY <1>2 DEF write_serial_free
<1>3. CASE read_serial
  <2>1. rdidx' \in [Directions -> Slots] /\ UNCHANGED <<buffer, wridx>>
    BY <1>0, <1>3, PipeTypes DEF read_serial, read_serpipe
  <2>2. atuser' \in Seq(Cell)
    BY <1>0, <1>3 DEF read_serial
  <2> QED
    BY <1>3, <2>1, <2>2 DEF read_serial
<1>4. CASE OpenPort
  BY <1>4 DEF OpenPort
<1>5. CASE ReadPort
  <2>1. CASE fd = Usable /\ incoming # <<>>
    <3>1. Head(incoming) \in Nat /\ Tail(incoming) \in Seq(Nat)
      BY <2>1
    <3>2. byte' \in Cell
      BY <1>0, <1>5, <2>1, <3>1, SerialAssumption DEF ReadPort
    <3> QED
      BY <1>5, <2>1, <3>1, <3>2 DEF ReadPort, Goto
  <2>2. CASE ~(fd = Usable /\ incoming # <<>>)
    BY <1>5, <2>2 DEF ReadPort, Goto
  <2> QED
    BY <2>1, <2>2
<1>6. CASE Store
  <2>1. CASE Full("r")
    BY <1>0, <1>6, <2>1 DEF Store, Goto
  <2>2. CASE ~Full("r")
    <3>1. write_serpipe("r", byte)
      BY <1>6, <2>2 DEF Store
    <3>2. /\ buffer' \in [Directions -> [Slots -> Cell]]
          /\ wridx' \in [Directions -> Slots]
      BY <1>0, <3>1, PipeTypes
    <3>3. rdidx' = rdidx
      BY <3>1 DEF write_serpipe
    <3> QED
      BY <1>0, <1>6, <3>2, <3>3 DEF Store, Goto
  <2> QED
    BY <2>1, <2>2
<1>7. CASE Fetch
  <2>1. CASE Empty("w")
    BY <1>7, <2>1 DEF Fetch, Goto
  <2>2. CASE ~Empty("w")
    <3>1. rdidx' \in [Directions -> Slots] /\ UNCHANGED <<buffer, wridx>>
      BY <1>0, <1>7, <2>2, PipeTypes DEF Fetch, read_serpipe
    <3> QED
      BY <1>0, <1>7, <2>2, <3>1 DEF Fetch, Goto
  <2> QED
    BY <2>1, <2>2
<1>8. CASE Send
  <2>1. atpeer' \in Seq(Cell)
    <3>1. atpeer' = Append(atpeer, byte) \/ atpeer' = atpeer
      BY <1>8 DEF Send
    <3>2. Append(atpeer, byte) \in Seq(Cell)
      OBVIOUS
    <3> QED
      BY <3>1, <3>2
  <2>2. faults' \in Nat /\ fd' \in {-1, Stale, Usable}
    BY <1>8 DEF Send
  <2> QED
    BY <1>0, <1>8, <2>1, <2>2 DEF Send, Goto
<1>9. CASE PeerSends
  <2>1. arrived' \in Nat
    BY <1>9 DEF PeerSends
  <2>2. incoming' \in Seq(Nat)
    BY <1>9, <2>1 DEF PeerSends
  <2> QED
    BY <1>9, <2>1, <2>2 DEF PeerSends
<1>10. CASE Unplug
  <2>1. incoming' \in Seq(Nat)
    BY <1>10 DEF Unplug
  <2>2. faults' \in Nat
    BY <1>10 DEF Unplug
  <2>3. fd' \in {-1, Stale, Usable}
    <3>1. fd' = Stale \/ fd' = fd
      BY <1>10 DEF Unplug
    <3> QED
      BY <3>1
  <2>4. plugged' \in BOOLEAN
    BY <1>10 DEF Unplug
  <2> QED
    BY <1>10, <2>1, <2>2, <2>3, <2>4 DEF Unplug
<1>11. CASE Plug
  BY <1>11 DEF Plug
<1>12. CASE UNCHANGED vars
  BY <1>12 DEF vars
<1> QED
  BY <1>1, <1>2, <1>3, <1>4, <1>5, <1>6, <1>7, <1>8, <1>9, <1>10, <1>11, <1>12
     DEF Next, serialproc

(* The pipes, the thread and the bytes at both ends keep their types, in     *)
(* particular no index leaves its pipe, for pipes of any length.             *)
THEOREM TypeCorrect == Spec => []TypeOK
  BY InitTypes, NextTypes, PTL DEF Spec

-----------------------------------------------------------------------------
(* What the user is promised                                                 *)

Lost == Len(accepted) - Len(atpeer) - Waiting

(* A descriptor that has gone costs a byte once: the one the thread has out  *)
(* of the pipe, or takes out before it comes back to its loop.               *)
Doomed == IF fd = Stale \/ (fd = -1 /\ at # "loop") THEN 1 ELSE 0

LossInv ==
    /\ Lost >= 0 /\ Lost + Doomed <= faults
    /\ at = "store" => fd # -1
    /\ free => ~Full("w")

LEMMA InitLoss == Init => LossInv
<1> SUFFICES ASSUME Init PROVE LossInv
  OBVIOUS
<1>1. 0 \in Slots
  BY SerialAssumption DEF Slots
<1>2. Filled(0, 0) = 0
  BY <1>1, FilledIs, SerialAssumption
<1>3. Waiting = 0
  BY <1>2 DEF Init, Waiting, Filled, Directions
<1> QED
  BY <1>3 DEF Init, LossInv, Lost, Doomed, Stale

(* Bytes in the pipe, before and after its indices change.                   *)
LEMMA WaitingIs ==
    TypeOK => /\ Waiting = Filled(wridx["w"], rdidx["w"]) + (IF at = "send" THEN 1 ELSE 0)
              /\ wridx["w"] \in Slots /\ rdidx["w"] \in Slots
              /\ Filled(wridx["w"], rdidx["w"]) \in Nat
              /\ Waiting \in Nat
<1> SUFFICES ASSUME TypeOK
             PROVE  /\ Waiting = Filled(wridx["w"], rdidx["w"]) + (IF at = "send" THEN 1 ELSE 0)
                    /\ wridx["w"] \in Slots /\ rdidx["w"] \in Slots
                    /\ Filled(wridx["w"], rdidx["w"]) \in Nat
                    /\ Waiting \in Nat
  OBVIOUS
<1>1. wridx["w"] \in Slots /\ rdidx["w"] \in Slots
  BY DEF TypeOK, Directions
<1>2. Filled(wridx["w"], rdidx["w"]) \in Nat
  BY <1>1, FilledMoves
<1>3. Waiting = Filled(wridx["w"], rdidx["w"]) + (IF at = "send" THEN 1 ELSE 0)
  BY DEF Waiting, Filled
<1> QED
  BY <1>1, <1>2, <1>3

(* A loss within its bound stays there if no more is lost or doomed.         *)
LEMMA Slack ==
    \A l, d, e, f \in Int :
        /\ l <= f => l + 0 <= f
        /\ l + d <= f /\ e <= d => l + e <= f
        /\ l + d <= f /\ e <= d + 1 => l + e <= f + 1
  OBVIOUS

LEMMA NextLoss == TypeOK /\ TypeOK' /\ LossInv /\ [Next]_vars => LossInv'
<1> SUFFICES ASSUME TypeOK, TypeOK', LossInv, [Next]_vars PROVE LossInv'
  OBVIOUS
<1> DEFINE w == wridx["w"]
           r == rdidx["w"]
<1>a. /\ Waiting = Filled(w, r) + (IF at = "send" THEN 1 ELSE 0)
      /\ w \in Slots /\ r \in Slots /\ Filled(w, r) \in Nat /\ Waiting \in Nat
  BY WaitingIs
<1>b. Waiting' = Filled(w', r') + (IF at' = "send" THEN 1 ELSE 0)
  BY DEF Waiting, Filled
<1>c. /\ Len(accepted) \in Nat /\ Len(atpeer) \in Nat /\ faults \in Nat
      /\ fd \in {-1, Stale, Usable}
      /\ wridx \in [Directions -> Slots] /\ rdidx \in [Directions -> Slots]
  BY DEF TypeOK
<1> HIDE DEF w, r
<1>d. /\ Lost >= 0 /\ Lost + Doomed <= faults
      /\ at = "store" => fd # -1
      /\ free => ~Full("w")
  BY DEF LossInv
<1>e. ASSUME w' = w, r' = r PROVE Full("w")' = Full("w")
  BY <1>e DEF Full, w, r
<1>1. CASE write_serial
  <2>1. UNCHANGED <<at, fd, rdidx, atpeer, faults>> /\ free' = FALSE
    BY <1>1 DEF write_serial, thread, port, pipes, write_serpipe
  <2>2. CASE Full("w")
    <3>1. UNCHANGED <<wridx, accepted>>
      BY <1>1, <2>2 DEF write_serial, pipes
    <3>2. w' = w /\ r' = r
      BY <2>1, <3>1 DEF w, r
    <3>3. Lost' = Lost /\ Doomed' = Doomed
      BY <1>a, <1>b, <2>1, <3>1, <3>2 DEF Lost, Doomed
    <3> QED
      BY <1>d, <2>1, <3>3 DEF LossInv
  <2>3. CASE ~Full("w")
    <3>1. wridx' = [wridx EXCEPT !["w"] = Succ(@)] /\ accepted' = Append(accepted, written')
      BY <1>1, <2>3 DEF write_serial, write_serpipe
    <3>2. w' = Succ(w) /\ r' = r
      BY <1>c, <2>1, <3>1 DEF w, r, Directions
    <3>3. (w + 1) % BUFFER_LENGTH # r
      BY <2>3 DEF Full, w, r
    <3>4. Filled(w', r') = Filled(w, r) + 1
      BY <1>a, <3>2, <3>3, FilledMoves
    <3>5. Waiting' = Waiting + 1
      BY <1>a, <1>b, <2>1, <3>4
    <3>6. Len(accepted') = Len(accepted) + 1
      BY <3>1 DEF TypeOK
    <3>7. Lost' = Lost /\ Doomed' = Doomed
      BY <1>a, <1>c, <2>1, <3>5, <3>6 DEF Lost, Doomed
    <3> QED
      BY <1>d, <2>1, <3>7 DEF LossInv
  <2> QED
    BY <2>2, <2>3
<1>2. CASE Fetch
  <2>1. UNCHANGED <<fd, wridx, atpeer, faults, accepted, free>> /\ at = "fetch"
    BY <1>2 DEF Fetch, port, user, pipes, read_serpipe
  <2>2. CASE Empty("w")
    <3>1. at' = "loop" /\ rdidx' = rdidx
      BY <1>2, <2>2 DEF Fetch, Goto, pipes
    <3>2. w' = w /\ r' = r
      BY <2>1, <3>1 DEF w, r
    <3>3. Lost' = Lost
      BY <1>a, <1>b, <2>1, <3>1, <3>2 DEF Lost
    <3>4. Doomed' <= Doomed
      BY <2>1, <3>1 DEF Doomed
    <3>5. Full("w")' = Full("w")
      BY <3>2, <1>e
    <3>6. Lost \in Int /\ Doomed \in Int /\ Doomed' \in Int
      BY <1>a, <1>c DEF Lost, Doomed
    <3>7. Lost' >= 0 /\ Lost' + Doomed' <= faults'
      <4>1. Lost >= 0 /\ Lost + Doomed <= faults /\ faults \in Int /\ faults' = faults
        BY <1>c, <1>d, <2>1
      <4> QED
        BY <3>3, <3>4, <3>6, <4>1, Slack, Zenon
    <3> QED
      BY <1>d, <2>1, <3>1, <3>5, <3>7 DEF LossInv
  <2>3. CASE ~Empty("w")
    <3>1. at' = "send" /\ rdidx' = [rdidx EXCEPT !["w"] = Succ(@)]
      BY <1>2, <2>3 DEF Fetch, Goto, read_serpipe
    <3>2. w' = w /\ r' = Succ(r)
      BY <1>c, <2>1, <3>1 DEF w, r, Directions
    <3>3. r # w
      BY <2>3 DEF Empty, w, r
    <3>4. Filled(w', r') = Filled(w, r) - 1
      BY <1>a, <3>2, <3>3, FilledMoves
    <3>5. Waiting' = Waiting
      BY <1>a, <1>b, <2>1, <3>1, <3>4
    <3>6. Lost' = Lost /\ Doomed' = Doomed
      BY <2>1, <3>1, <3>5 DEF Lost, Doomed
    <3>7. ~Full("w")'
      <4>1. r' \in Slots /\ w \in Slots /\ (w + 1) % BUFFER_LENGTH = Succ(w)
        BY <1>a, <3>2, NextSlot
      <4>2. Succ(w) # Succ(r)
        BY <1>a, <3>3, SerialAssumption DEF Succ, Slots
      <4> QED
        BY <3>2, <4>1, <4>2 DEF Full, w, r
    <3> QED
      BY <1>d, <2>1, <3>1, <3>6, <3>7 DEF LossInv
  <2> QED
    BY <2>2, <2>3
<1>3. CASE Send
  <2>1. /\ UNCHANGED <<wridx, rdidx, accepted, free>> /\ at = "send" /\ at' = "loop"
        /\ fd' = IF fd = Stale THEN -1 ELSE fd
    BY <1>3 DEF Send, Goto, pipes, user
  <2>2. w' = w /\ r' = r
    BY <2>1 DEF w, r
  <2>3. Waiting' = Waiting - 1
    BY <1>a, <1>b, <2>1, <2>2
  <2>4. Full("w")' = Full("w")
    BY <2>2, <1>e
  <2>5. Doomed' = 0
    BY <2>1 DEF Doomed, Stale
  <2>6. /\ Lost' >= 0 /\ Lost' <= faults'
    <3>1. CASE fd = Usable /\ atpeer' = Append(atpeer, byte) /\ UNCHANGED faults
      <4>1. Len(atpeer') = Len(atpeer) + 1
        BY <3>1 DEF TypeOK
      <4>2. Lost' = Lost /\ Doomed = 0
        BY <1>a, <1>c, <2>1, <2>3, <3>1, <4>1 DEF Lost, Doomed, Stale, Usable
      <4> QED
        BY <1>d, <3>1, <4>2, <1>a, <1>c DEF Lost
    <3>2. CASE fd # Usable /\ UNCHANGED <<atpeer, faults>>
      <4>1. Lost' = Lost + 1 /\ Doomed = 1
        BY <1>a, <1>c, <2>1, <2>3, <3>2 DEF Lost, Doomed
      <4> QED
        BY <1>a, <1>c, <1>d, <3>2, <4>1 DEF Lost
    <3>3. CASE fd = Usable /\ faults' = faults + 1 /\ UNCHANGED atpeer
      <4>1. Lost' = Lost + 1 /\ Doomed = 0
        BY <1>a, <1>c, <2>1, <2>3, <3>3 DEF Lost, Doomed, Stale, Usable
      <4> QED
        BY <1>a, <1>c, <1>d, <3>3, <4>1 DEF Lost
    <3>4. \/ fd = Usable /\ atpeer' = Append(atpeer, byte) /\ UNCHANGED faults
          \/ fd # Usable /\ UNCHANGED <<atpeer, faults>>
          \/ fd = Usable /\ faults' = faults + 1 /\ UNCHANGED atpeer
      BY <1>3 DEF Send
    <3> QED
      BY <3>1, <3>2, <3>3, <3>4
  <2>7. Lost' \in Int /\ faults' \in Int
    <3>1. Len(accepted) \in Nat /\ Len(atpeer') \in Nat /\ faults' \in Nat
      BY DEF TypeOK
    <3> QED
      BY <1>a, <2>1, <2>3, <3>1 DEF Lost
  <2>8. Lost' + Doomed' <= faults'
    BY <2>5, <2>6, <2>7, Slack, Zenon
  <2> QED
    BY <1>d, <2>1, <2>4, <2>6, <2>8 DEF LossInv
<1>4. CASE ReadPort
  <2>1. /\ UNCHANGED <<wridx, rdidx, accepted, atpeer, faults, free>> /\ at = "loop" /\ fd # -1
        /\ fd' = IF fd = Stale THEN -1 ELSE fd
        /\ at' = IF fd = Usable /\ incoming # <<>> THEN "store" ELSE "fetch"
    BY <1>4 DEF ReadPort, Goto, pipes, user
  <2>2. w' = w /\ r' = r /\ Waiting' = Waiting
    BY <1>a, <1>b, <2>1 DEF w, r
  <2>3. Lost' = Lost
    BY <2>1, <2>2 DEF Lost
  <2>4. Doomed' = Doomed
    BY <1>c, <2>1 DEF Doomed, Stale, Usable
  <2>5. Full("w")' = Full("w")
    BY <2>2, <1>e
  <2>6. at' = "store" => fd' # -1
    BY <2>1 DEF Stale, Usable
  <2> QED
    BY <1>d, <2>1, <2>3, <2>4, <2>5, <2>6 DEF LossInv
<1>5. CASE Store
  <2>1. /\ UNCHANGED <<fd, accepted, atpeer, faults, free>> /\ at = "store" /\ at' = "fetch"
    BY <1>5 DEF Store, Goto, port, user
  <2>2. w' = w /\ r' = r
    BY <1>5, <1>c DEF Store, pipes, write_serpipe, w, r, Directions
  <2>3. Lost' = Lost /\ Doomed' = Doomed
    BY <1>a, <1>b, <2>1, <2>2 DEF Lost, Doomed
  <2>4. Full("w")' = Full("w")
    BY <2>2, <1>e
  <2> QED
    BY <1>d, <2>1, <2>3, <2>4 DEF LossInv
<1>6. CASE OpenPort
  <2>1. /\ UNCHANGED <<wridx, rdidx, accepted, atpeer, faults, free, at>>
        /\ at = "loop" /\ fd = -1 /\ fd' = Usable
    BY <1>6 DEF OpenPort, pipes, port, user
  <2>2. w' = w /\ r' = r
    BY <2>1 DEF w, r
  <2>3. Lost' = Lost /\ Doomed' = Doomed
    BY <1>a, <1>b, <2>1, <2>2 DEF Lost, Doomed, Stale, Usable
  <2>4. Full("w")' = Full("w")
    BY <2>2, <1>e
  <2> QED
    BY <1>d, <2>1, <2>3, <2>4 DEF LossInv
<1>7. CASE Unplug
  <2>1. /\ UNCHANGED <<wridx, rdidx, accepted, atpeer, free, at>> /\ faults' = faults + 1
        /\ fd' = IF fd = Usable THEN Stale ELSE fd
    BY <1>7 DEF Unplug, pipes, user
  <2>2. w' = w /\ r' = r
    BY <2>1 DEF w, r
  <2>3. Lost' = Lost
    BY <1>a, <1>b, <2>1, <2>2 DEF Lost
  <2>4. Doomed' \in Int /\ Doomed \in Int /\ Doomed' <= Doomed + 1 /\ Lost \in Int
    BY <1>a, <1>c, <2>1 DEF Doomed, Lost
  <2>5. Full("w")' = Full("w")
    BY <2>2, <1>e
  <2>6. at' = "store" => fd' # -1
    BY <1>d, <2>1 DEF Stale
  <2>7. Lost' >= 0 /\ Lost' + Doomed' <= faults'
    <3>1. Lost >= 0 /\ Lost + Doomed <= faults /\ faults \in Int /\ faults' = faults + 1
      BY <1>c, <1>d, <2>1
    <3> QED
      BY <2>3, <2>4, <3>1, Slack, Zenon
  <2> QED
    BY <1>d, <2>1, <2>5, <2>6, <2>7 DEF LossInv
<1>8. CASE write_serial_free
  <2>1. UNCHANGED <<wridx, rdidx, accepted, atpeer, faults, at, fd>> /\ ~Full("w")
    BY <1>8 DEF write_serial_free, pipes, thread, port
  <2>2. w' = w /\ r' = r
    BY <2>1 DEF w, r
  <2>3. Lost' = Lost /\ Doomed' = Doomed
    BY <1>a, <1>b, <2>1, <2>2 DEF Lost, Doomed
  <2>4. Full("w")' = Full("w")
    BY <2>2, <1>e
  <2> QED
    BY <1>d, <2>1, <2>3, <2>4 DEF LossInv
<1>9. CASE read_serial \/ PeerSends \/ Plug \/ UNCHANGED vars
  <2>1. UNCHANGED <<accepted, atpeer, faults, at, fd, free>>
    BY <1>9 DEF read_serial, PeerSends, Plug, vars, pipes, thread, port, user
  <2>2. w' = w /\ r' = r
    BY <1>9, <1>c
       DEF read_serial, read_serpipe, PeerSends, Plug, vars, pipes, thread, port, user, w, r,
           Directions
  <2>3. Lost' = Lost /\ Doomed' = Doomed
    BY <1>a, <1>b, <2>1, <2>2 DEF Lost, Doomed
  <2>4. Full("w")' = Full("w")
    BY <2>2, <1>e
  <2> QED
    BY <1>d, <2>1, <2>3, <2>4 DEF LossInv
<1> QED
  BY <1>1, <1>2, <1>3, <1>4, <1>5, <1>6, <1>7, <1>8, <1>9 DEF Next, serialproc

(* A byte that write_serial took is lost only with a fault of the port, one  *)
(* for each, and an answer of write_serial_free holds until the next write,  *)
(* for pipes of any length and any number of bytes and faults.               *)
THEOREM PromisesKept == Spec => []WritePromises
<1>1. TypeOK /\ LossInv => WritePromises
  <2> SUFFICES ASSUME TypeOK, LossInv PROVE WritePromises
    OBVIOUS
  <2>1. Lost \in Int /\ Doomed \in {0, 1} /\ faults \in Nat
    BY WaitingIs DEF Lost, Doomed, TypeOK
  <2>2. Lost >= 0 /\ Lost <= faults
    BY <2>1 DEF LossInv
  <2> QED
    BY <2>2 DEF LossInv, Lost, WritePromises
<1> QED
  BY <1>1, InitTypes, NextTypes, InitLoss, NextLoss, PTL DEF Spec
-----------------------------------------------------------------------------
(* The order of bytes                                                        *)

(* How many reads take the byte in a slot, and the slots that hold one.      *)
Ahead(r, s) == IF s >= r THEN s - r ELSE s - r + BUFFER_LENGTH
Age(d, s) == Ahead(rdidx[d], s)
Held(d) == {s \in Slots : Age(d, s) < Age(d, wridx[d])}

PipeOrder(d, skip) ==
    \A s, u \in Held(d) :
        /\ Age(d, s) < Age(d, u)
        /\ buffer[d][s] \notin skip /\ buffer[d][u] \notin skip
        => buffer[d][s] < buffer[d][u]

(* To the peer: what has arrived, then the byte in hand, then the pipe.      *)
OutOrder ==
    /\ Increasing(atpeer, {})
    /\ PipeOrder("w", {})
    /\ \A s \in Held("w") : buffer["w"][s] <= written
    /\ \A i \in DOMAIN atpeer :
          /\ atpeer[i] <= written
          /\ \A s \in Held("w") : atpeer[i] < buffer["w"][s]
    /\ at = "send" =>
          /\ byte <= written
          /\ \A s \in Held("w") : byte < buffer["w"][s]
          /\ \A i \in DOMAIN atpeer : atpeer[i] < byte

(* From the peer: what the user has, the pipe, the byte in hand, the port.   *)
Own(b) == b \notin Foreign

InOrder ==
    /\ Increasing(atuser, Foreign)
    /\ PipeOrder("r", Foreign)
    /\ Increasing(incoming, {})
    /\ \A k \in DOMAIN incoming : incoming[k] <= arrived
    /\ \A s \in Held("r") : Own(buffer["r"][s]) =>
          /\ buffer["r"][s] <= arrived
          /\ \A k \in DOMAIN incoming : buffer["r"][s] < incoming[k]
    /\ \A i \in DOMAIN atuser : Own(atuser[i]) =>
          /\ atuser[i] <= arrived
          /\ \A k \in DOMAIN incoming : atuser[i] < incoming[k]
          /\ \A s \in Held("r") : Own(buffer["r"][s]) => atuser[i] < buffer["r"][s]
    /\ at = "store" /\ Own(byte) =>
          /\ byte <= arrived
          /\ \A k \in DOMAIN incoming : byte < incoming[k]
          /\ \A s \in Held("r") : Own(buffer["r"][s]) => buffer["r"][s] < byte
          /\ \A i \in DOMAIN atuser : Own(atuser[i]) => atuser[i] < byte

LEMMA PipeParts ==
    ASSUME TypeOK, NEW d \in Directions
    PROVE  /\ wridx[d] \in Slots /\ rdidx[d] \in Slots
           /\ Succ(wridx[d]) \in Slots /\ Succ(rdidx[d]) \in Slots
           /\ \A s \in Slots : buffer[d][s] \in Cell
           /\ Full(d) <=> Succ(wridx[d]) = rdidx[d]
BY NextSlot DEF TypeOK, Full

LEMMA AheadOfWrite ==
    ASSUME NEW r \in Slots, NEW w \in Slots, NEW s \in Slots, Succ(w) # r
    PROVE  /\ Ahead(r, s) < Ahead(r, Succ(w)) <=> Ahead(r, s) < Ahead(r, w) \/ s = w
           /\ ~(Ahead(r, w) < Ahead(r, w))
BY SerialAssumption DEF Ahead, Succ, Slots

LEMMA AheadOfRead ==
    ASSUME NEW r \in Slots, NEW w \in Slots, NEW s \in Slots, r # w
    PROVE  /\ s # r => Ahead(r, r) < Ahead(r, s) /\ Ahead(Succ(r), s) = Ahead(r, s) - 1
           /\ Ahead(r, r) < Ahead(r, w)
           /\ Ahead(Succ(r), w) = Ahead(r, w) - 1
           /\ ~(Ahead(Succ(r), r) < Ahead(Succ(r), w))
           /\ Ahead(r, s) \in Int /\ Ahead(r, w) \in Int
BY SerialAssumption DEF Ahead, Succ, Slots

(* A write puts the youngest byte into a free slot.                          *)
LEMMA WriteHeld ==
    ASSUME TypeOK, NEW d \in Directions, NEW b \in Cell, ~Full(d), write_serpipe(d, b)
    PROVE  /\ wridx[d] \notin Held(d) /\ buffer'[d][wridx[d]] = b
           /\ \A s \in Slots : s \in Held(d)' <=> s \in Held(d) \/ s = wridx[d]
           /\ \A s \in Held(d) : buffer'[d][s] = buffer[d][s]
           /\ \A s \in Slots : Age(d, s)' = Age(d, s)
           /\ \A s \in Held(d) : Age(d, s) < Age(d, wridx[d])
           /\ \A e \in Directions \ {d} :
                 buffer'[e] = buffer[e] /\ wridx'[e] = wridx[e] /\ rdidx'[e] = rdidx[e]
<1> DEFINE w == wridx[d]
           r == rdidx[d]
<1>1. /\ w \in Slots /\ r \in Slots /\ Succ(w) # r
      /\ buffer \in [Directions -> [Slots -> Cell]] /\ wridx \in [Directions -> Slots]
  BY PipeParts DEF TypeOK
<1>2. wridx' = [wridx EXCEPT ![d] = Succ(w)] /\ rdidx' = rdidx
  BY DEF write_serpipe
<1>3. buffer' = [buffer EXCEPT ![d] = [buffer[d] EXCEPT ![w] = b]]
  BY DEF write_serpipe
<1>4. /\ buffer'[d][w] = b
      /\ \A s \in Slots : s # w => buffer'[d][s] = buffer[d][s]
  BY <1>1, <1>3
<1>5. wridx'[d] = Succ(w)
  BY <1>1, <1>2
<1>6. \A e \in Directions \ {d} :
         buffer'[e] = buffer[e] /\ wridx'[e] = wridx[e] /\ rdidx'[e] = rdidx[e]
  BY <1>1, <1>2, <1>3
<1>7. \A s \in Slots : Age(d, s)' = Age(d, s)
  BY <1>2 DEF Age
<1>8. \A s \in Slots : s \in Held(d)' <=> Age(d, s) < Age(d, Succ(w))
  <2>1. \A s \in Slots : s \in Held(d)' <=> Age(d, s)' < Age(d, wridx[d])'
    BY DEF Held
  <2>2. Age(d, wridx[d])' = Age(d, Succ(w))
    BY <1>2, <1>5 DEF Age
  <2> QED
    BY <1>7, <2>1, <2>2
<1>9. \A s \in Slots : Age(d, s) < Age(d, Succ(w)) <=> Age(d, s) < Age(d, w) \/ s = w
  BY <1>1, AheadOfWrite DEF Age
<1>10. w \notin Held(d) /\ \A s \in Held(d) : Age(d, s) < Age(d, w) /\ s \in Slots
  BY <1>1, AheadOfWrite DEF Held, Age
<1>11. \A s \in Slots : s \in Held(d) <=> Age(d, s) < Age(d, w)
  BY DEF Held
<1> QED
  BY <1>4, <1>6, <1>7, <1>8, <1>9, <1>10, <1>11

(* A read takes the oldest.                                                  *)
LEMMA ReadHeld ==
    ASSUME TypeOK, NEW d \in Directions, ~Empty(d), read_serpipe(d)
    PROVE  /\ rdidx[d] \in Held(d)
           /\ \A s \in Slots : s \in Held(d)' <=> s \in Held(d) /\ s # rdidx[d]
           /\ \A s \in Slots : s # rdidx[d] => /\ Age(d, rdidx[d]) < Age(d, s)
                                              /\ Age(d, s)' = Age(d, s) - 1
           /\ buffer' = buffer
           /\ \A e \in Directions \ {d} :
                 wridx'[e] = wridx[e] /\ rdidx'[e] = rdidx[e]
<1> DEFINE w == wridx[d]
           r == rdidx[d]
<1>1. w \in Slots /\ r \in Slots /\ Succ(r) \in Slots /\ rdidx \in [Directions -> Slots] /\ r # w
  BY PipeParts DEF TypeOK, Empty
<1>2. rdidx' = [rdidx EXCEPT ![d] = Succ(r)] /\ wridx' = wridx /\ buffer' = buffer
  BY DEF read_serpipe
<1>3. rdidx'[d] = Succ(r) /\ \A e \in Directions \ {d} : rdidx'[e] = rdidx[e]
  BY <1>1, <1>2
<1>4. \A s \in Slots : Age(d, s)' = Ahead(Succ(r), s)
  BY <1>3 DEF Age
<1>5. \A s \in Slots : s \in Held(d)' <=> Ahead(Succ(r), s) < Ahead(Succ(r), w)
  <2>1. \A s \in Slots : s \in Held(d)' <=> Age(d, s)' < Age(d, wridx[d])'
    BY DEF Held
  <2>2. Age(d, wridx[d])' = Ahead(Succ(r), w)
    BY <1>2, <1>3 DEF Age
  <2> QED
    BY <1>4, <2>1, <2>2
<1>6. \A s \in Slots : Age(d, s) = Ahead(r, s)
  BY DEF Age
<1>7. \A s \in Slots : s \in Held(d) <=> Ahead(r, s) < Ahead(r, w)
  BY DEF Held, Age
<1> HIDE DEF w, r
<1>8. \A s \in Slots : s # r => Ahead(r, r) < Ahead(r, s) /\ Ahead(Succ(r), s) = Ahead(r, s) - 1
  BY <1>1, AheadOfRead
<1>9. ASSUME NEW s \in Slots PROVE s \in Held(d)' <=> s \in Held(d) /\ s # r
  <2>1. CASE s = r
    BY <1>1, <1>5, <2>1, AheadOfRead
  <2>2. CASE s # r
    <3>1. /\ Ahead(Succ(r), s) = Ahead(r, s) - 1 /\ Ahead(Succ(r), w) = Ahead(r, w) - 1
          /\ Ahead(r, s) \in Int /\ Ahead(r, w) \in Int
      BY <1>1, <2>2, AheadOfRead
    <3>2. Ahead(Succ(r), s) < Ahead(Succ(r), w) <=> Ahead(r, s) < Ahead(r, w)
      BY <3>1
    <3> QED
      BY <1>5, <1>7, <2>2, <3>2
  <2> QED
    BY <2>1, <2>2
<1>10. r \in Held(d)
  BY <1>1, <1>7, AheadOfRead
<1>11. \A s \in Slots : s # r => Age(d, r) < Age(d, s) /\ Age(d, s)' = Age(d, s) - 1
  BY <1>1, <1>4, <1>6, <1>8
<1> QED
  BY <1>2, <1>3, <1>9, <1>10, <1>11 DEF r

(* A pipe nobody touches.                                                    *)
LEMMA HeldKept ==
    ASSUME NEW d \in Directions, buffer'[d] = buffer[d], wridx'[d] = wridx[d],
           rdidx'[d] = rdidx[d]
    PROVE  Held(d)' = Held(d) /\ \A skip : PipeOrder(d, skip)' = PipeOrder(d, skip)
BY DEF Held, Age, PipeOrder

LEMMA WriteOrder ==
    ASSUME TypeOK, NEW d \in Directions, NEW b \in Cell, NEW skip,
           ~Full(d), write_serpipe(d, b), PipeOrder(d, skip),
           b \notin skip => \A s \in Held(d) : buffer[d][s] \notin skip => buffer[d][s] < b
    PROVE  PipeOrder(d, skip)'
<1>1. \A s \in Held(d) : s \in Slots
  BY DEF Held
<1>2. \A s \in Held(d)' : s \in Slots
  BY DEF Held
<1>3. wridx[d] \in Slots /\ \A s \in Slots : Age(d, s) \in Int
  BY PipeParts, SerialAssumption DEF Age, Ahead, Slots
<1> SUFFICES ASSUME NEW s \in Held(d)', NEW u \in Held(d)', Age(d, s)' < Age(d, u)',
                    buffer'[d][s] \notin skip, buffer'[d][u] \notin skip
             PROVE  buffer'[d][s] < buffer'[d][u]
  BY DEF PipeOrder
<1>4. Age(d, s) < Age(d, u)
  BY <1>2, WriteHeld
<1>5. s # wridx[d]
  BY <1>2, <1>3, <1>4, WriteHeld
<1>6. s \in Held(d) /\ buffer'[d][s] = buffer[d][s]
  BY <1>2, <1>5, WriteHeld
<1>7. CASE u = wridx[d]
  BY <1>6, <1>7, WriteHeld
<1>8. CASE u # wridx[d]
  <2>1. u \in Held(d) /\ buffer'[d][u] = buffer[d][u]
    BY <1>2, <1>8, WriteHeld
  <2> QED
    BY <1>4, <1>6, <2>1 DEF PipeOrder
<1> QED
  BY <1>7, <1>8

LEMMA ReadOrder ==
    ASSUME TypeOK, NEW d \in Directions, NEW skip,
           ~Empty(d), read_serpipe(d), PipeOrder(d, skip)
    PROVE  /\ PipeOrder(d, skip)'
           /\ Head1(d) \notin skip =>
                 \A s \in Held(d)' : buffer[d][s] \notin skip => Head1(d) < buffer[d][s]
<1>1. \A s \in Held(d)' : s \in Slots /\ s \in Held(d) /\ s # rdidx[d]
  <2>1. \A s \in Held(d)' : s \in Slots
    BY DEF Held
  <2> QED
    BY <2>1, ReadHeld
<1>2. \A s \in Slots : Age(d, s) \in Int
  BY PipeParts, SerialAssumption DEF Age, Ahead, Slots
<1>3. PipeOrder(d, skip)'
  <2> SUFFICES ASSUME NEW s \in Held(d)', NEW u \in Held(d)', Age(d, s)' < Age(d, u)',
                      buffer'[d][s] \notin skip, buffer'[d][u] \notin skip
               PROVE  buffer'[d][s] < buffer'[d][u]
    BY DEF PipeOrder
  <2>1. Age(d, s) < Age(d, u)
    BY <1>1, <1>2, ReadHeld
  <2> QED
    BY <1>1, <2>1, ReadHeld DEF PipeOrder
<1>4. \A s \in Held(d)' : Age(d, rdidx[d]) < Age(d, s) /\ rdidx[d] \in Held(d)
  BY <1>1, ReadHeld
<1>5. ASSUME Head1(d) \notin skip, NEW s \in Held(d)', buffer[d][s] \notin skip
      PROVE  Head1(d) < buffer[d][s]
  BY <1>1, <1>4, <1>5 DEF PipeOrder, Head1
<1> QED
  BY <1>3, <1>5

(* A larger number at the end keeps numbers increasing.                      *)
LEMMA AppendOrder ==
    ASSUME NEW q \in Seq(Cell), NEW b \in Cell, NEW skip, Increasing(q, skip),
           b \notin skip => \A i \in DOMAIN q : q[i] \notin skip => q[i] < b
    PROVE  /\ Increasing(Append(q, b), skip)
           /\ \A i \in DOMAIN Append(q, b) :
                 \/ i \in DOMAIN q /\ Append(q, b)[i] = q[i]
                 \/ Append(q, b)[i] = b
<1>1. \A i \in DOMAIN Append(q, b) :
         \/ i \in DOMAIN q /\ i <= Len(q) /\ Append(q, b)[i] = q[i]
         \/ i = Len(q) + 1 /\ Append(q, b)[i] = b
  OBVIOUS
<1>2. DOMAIN Append(q, b) \subseteq Nat /\ Len(q) \in Nat
  OBVIOUS
<1>3. Increasing(Append(q, b), skip)
  <2> SUFFICES ASSUME NEW i \in DOMAIN Append(q, b), NEW j \in DOMAIN Append(q, b), i < j,
                      Append(q, b)[i] \notin skip, Append(q, b)[j] \notin skip
               PROVE  Append(q, b)[i] < Append(q, b)[j]
    BY DEF Increasing
  <2>1. j <= Len(q) + 1 /\ i # Len(q) + 1
    BY <1>1, <1>2
  <2>2. i \in DOMAIN q /\ Append(q, b)[i] = q[i]
    BY <1>1, <2>1
  <2>3. \/ j \in DOMAIN q /\ Append(q, b)[j] = q[j]
        \/ Append(q, b)[j] = b
    BY <1>1
  <2> QED
    BY <2>2, <2>3 DEF Increasing
<1> QED
  BY <1>1, <1>3

(* The rest of a sequence is increasing, and beyond its head.                *)
LEMMA TailOrder ==
    ASSUME NEW q \in Seq(Nat), q # <<>>, Increasing(q, {})
    PROVE  /\ Increasing(Tail(q), {})
           /\ \A k \in DOMAIN Tail(q) : /\ Head(q) < Tail(q)[k]
                                         /\ \E l \in DOMAIN q : Tail(q)[k] = q[l]
           /\ \E l \in DOMAIN q : Head(q) = q[l]
<1>1. \A k \in DOMAIN Tail(q) :
         k \in Nat /\ k > 0 /\ k + 1 \in DOMAIN q /\ Tail(q)[k] = q[k + 1]
  OBVIOUS
<1>2. 1 \in DOMAIN q /\ Head(q) = q[1]
  OBVIOUS
<1>3. \A k \in DOMAIN Tail(q) : Head(q) < Tail(q)[k]
  BY <1>1, <1>2 DEF Increasing
<1>4. Increasing(Tail(q), {})
  BY <1>1 DEF Increasing
<1> QED
  BY <1>1, <1>2, <1>3, <1>4

LEMMA InitOrder == Init => OutOrder /\ InOrder
<1> SUFFICES ASSUME Init PROVE OutOrder /\ InOrder
  OBVIOUS
<1>1. \A d \in Directions : Held(d) = {}
  BY SerialAssumption DEF Init, Held, Age, Ahead, Slots
<1>2. /\ DOMAIN atpeer = {} /\ DOMAIN atuser = {} /\ DOMAIN incoming = {} /\ at = "loop"
  BY DEF Init
<1> QED
  BY <1>1, <1>2 DEF OutOrder, InOrder, Increasing, PipeOrder, Directions

(* A direction that a step leaves alone.                                     *)
Kept(d) == buffer'[d] = buffer[d] /\ wridx'[d] = wridx[d] /\ rdidx'[d] = rdidx[d]

LEMMA OutKept ==
    ASSUME OutOrder, Kept("w"), UNCHANGED <<atpeer, written>>,
           at' # "send" \/ UNCHANGED <<at, byte>>
    PROVE  OutOrder'
<1>1. Held("w")' = Held("w") /\ PipeOrder("w", {})' = PipeOrder("w", {})
  BY HeldKept DEF Kept, Directions
<1> QED
  BY <1>1 DEF OutOrder, Kept, Increasing

LEMMA InKept ==
    ASSUME InOrder, Kept("r"), UNCHANGED <<atuser, incoming, arrived>>,
           at' # "store" \/ UNCHANGED <<at, byte>>
    PROVE  InOrder'
<1>1. Held("r")' = Held("r") /\ PipeOrder("r", Foreign)' = PipeOrder("r", Foreign)
  BY HeldKept DEF Kept, Directions
<1> QED
  BY <1>1 DEF InOrder, Kept, Increasing

LEMMA NextOutOrder == TypeOK /\ OutOrder /\ [Next]_vars => OutOrder'
<1> SUFFICES ASSUME TypeOK, OutOrder, [Next]_vars PROVE OutOrder'
  OBVIOUS
<1> USE DEF pipes, thread, port, user, Goto
<1>0. /\ "r" \in Directions /\ "w" \in Directions /\ written \in Nat
      /\ atpeer \in Seq(Cell) /\ byte \in Cell
      /\ \A s \in Held("w") : s \in Slots /\ buffer["w"][s] \in Nat \cup {None}
      /\ \A i \in DOMAIN atpeer : atpeer[i] \in Nat \cup {None}
  BY PipeParts DEF TypeOK, Directions, Held, Cell
<1>o. /\ Increasing(atpeer, {}) /\ PipeOrder("w", {})
      /\ \A s \in Held("w") : buffer["w"][s] <= written
      /\ \A i \in DOMAIN atpeer :
            /\ atpeer[i] <= written
            /\ \A s \in Held("w") : atpeer[i] < buffer["w"][s]
      /\ at = "send" =>
            /\ byte <= written
            /\ \A s \in Held("w") : byte < buffer["w"][s]
            /\ \A i \in DOMAIN atpeer : atpeer[i] < byte
  BY DEF OutOrder
<1>1. CASE write_serial
  <2>1. written' = written + 1 /\ UNCHANGED <<at, byte, atpeer>>
    BY <1>1 DEF write_serial
  <2>2. CASE Full("w")
    <3>1. Held("w")' = Held("w") /\ PipeOrder("w", {})' = PipeOrder("w", {}) /\ buffer' = buffer
      BY <1>0, <1>1, <2>2, HeldKept DEF write_serial
    <3> QED
      BY <1>0, <1>o, <2>1, <3>1 DEF OutOrder, Cell, None
  <2>3. CASE ~Full("w")
    <3>1. write_serpipe("w", written') /\ written' \in Cell
      BY <1>0, <1>1, <2>1, <2>3 DEF write_serial, Cell
    <3>2. \A s \in Held("w") : buffer["w"][s] < written'
      BY <1>0, <1>o, <2>1 DEF None
    <3>3. PipeOrder("w", {})'
      BY <1>0, <1>o, <2>3, <3>1, <3>2, WriteOrder
    <3>4. \A s \in Held("w")' : \/ s \in Held("w") /\ buffer'["w"][s] = buffer["w"][s]
                               \/ buffer'["w"][s] = written'
      <4>1. \A s \in Held("w")' : s \in Slots
        BY DEF Held
      <4> QED
        BY <1>0, <2>3, <3>1, <4>1, WriteHeld
    <3>5. \A s \in Held("w")' : buffer'["w"][s] <= written'
      BY <1>0, <2>1, <3>2, <3>4, <1>o DEF None
    <3>6. \A i \in DOMAIN atpeer : atpeer[i] < written'
      BY <1>0, <1>o, <2>1 DEF None
    <3>7. \A i \in DOMAIN atpeer : \A s \in Held("w")' : atpeer[i] < buffer'["w"][s]
      BY <1>o, <3>4, <3>6
    <3>8. \A i \in DOMAIN atpeer : atpeer[i] <= written'
      BY <1>0, <1>o, <2>1 DEF None
    <3>9. at = "send" => /\ byte <= written'
                         /\ \A s \in Held("w")' : byte < buffer'["w"][s]
      <4>1. at = "send" => byte < written' /\ byte <= written'
        BY <1>0, <1>o, <2>1 DEF Cell, None
      <4> QED
        BY <1>o, <3>4, <4>1
    <3> QED
      BY <1>o, <2>1, <3>3, <3>5, <3>7, <3>8, <3>9 DEF OutOrder
  <2> QED
    BY <2>2, <2>3
<1>2. CASE Fetch
  <2>1. UNCHANGED <<atpeer, written>>
    BY <1>2 DEF Fetch
  <2>2. CASE Empty("w")
    BY <1>2, <2>1, <2>2, OutKept DEF Fetch, Kept
  <2>3. CASE ~Empty("w")
    <3>1. read_serpipe("w") /\ byte' = Head1("w") /\ at' = "send"
      BY <1>2, <2>3 DEF Fetch
    <3>2. /\ PipeOrder("w", {})' /\ \A s \in Held("w")' : byte' < buffer["w"][s]
      BY <1>0, <1>o, <2>3, <3>1, ReadOrder
    <3>3. rdidx["w"] \in Held("w") /\ buffer' = buffer /\ \A s \in Held("w")' : s \in Held("w")
      <4>1. \A s \in Held("w")' : s \in Slots
        BY DEF Held
      <4> QED
        BY <1>0, <2>3, <3>1, <4>1, ReadHeld
    <3> QED
      BY <1>o, <2>1, <3>1, <3>2, <3>3 DEF OutOrder, Head1
  <2> QED
    BY <2>2, <2>3
<1>3. CASE Send
  <2>1. /\ at = "send" /\ at' = "loop" /\ UNCHANGED <<pipes, written>>
        /\ atpeer' = atpeer \/ atpeer' = Append(atpeer, byte)
    BY <1>3 DEF Send
  <2>2. CASE atpeer' = atpeer
    BY <2>1, <2>2, OutKept DEF Kept
  <2>3. CASE atpeer' = Append(atpeer, byte)
    <3>1. Increasing(atpeer', {}) /\ \A i \in DOMAIN atpeer' :
             (i \in DOMAIN atpeer /\ atpeer'[i] = atpeer[i]) \/ atpeer'[i] = byte
      BY <1>0, <1>o, <2>1, <2>3, AppendOrder
    <3>2. Held("w")' = Held("w") /\ PipeOrder("w", {})'
      BY <1>0, <1>o, <2>1, HeldKept
    <3> QED
      BY <1>o, <2>1, <3>1, <3>2 DEF OutOrder
  <2> QED
    BY <2>1, <2>2, <2>3
<1>4. CASE Store
  <2>1. UNCHANGED <<atpeer, written>> /\ at' = "fetch"
    BY <1>4 DEF Store
  <2>2. Kept("w")
    <3>1. CASE Full("r")
      BY <1>4, <3>1 DEF Store, Kept
    <3>2. CASE ~Full("r")
      <4>1. write_serpipe("r", byte)
        BY <1>4, <3>2 DEF Store
      <4> QED
        BY <1>0, <3>2, <4>1, WriteHeld DEF Kept
    <3> QED
      BY <3>1, <3>2
  <2> QED
    BY <2>1, <2>2, OutKept
<1>5. CASE read_serial
  <2>1. UNCHANGED <<atpeer, written, at, byte>> /\ ~Empty("r") /\ read_serpipe("r")
    BY <1>5 DEF read_serial
  <2>2. Kept("w")
    BY <1>0, <2>1, ReadHeld DEF Kept, read_serpipe
  <2> QED
    BY <2>1, <2>2, OutKept
<1>6. CASE ReadPort
  <2>1. UNCHANGED <<atpeer, written, pipes>> /\ at' \in {"store", "fetch"}
    BY <1>6 DEF ReadPort
  <2> QED
    BY <2>1, OutKept DEF Kept
<1>7. CASE OpenPort \/ write_serial_free \/ PeerSends \/ Unplug \/ Plug \/ UNCHANGED vars
  <2>1. UNCHANGED <<atpeer, written, pipes, at, byte>>
    BY <1>7 DEF OpenPort, write_serial_free, PeerSends, Unplug, Plug, vars
  <2> QED
    BY <2>1, OutKept DEF Kept
<1> QED
  BY <1>1, <1>2, <1>3, <1>4, <1>5, <1>6, <1>7 DEF Next, serialproc

LEMMA NextInOrder == TypeOK /\ TypeOK' /\ InOrder /\ [Next]_vars => InOrder'
<1> SUFFICES ASSUME TypeOK, TypeOK', InOrder, [Next]_vars PROVE InOrder'
  OBVIOUS
<1> USE DEF pipes, thread, port, user, Goto
<1>0. /\ "r" \in Directions /\ "w" \in Directions /\ arrived \in Nat
      /\ atuser \in Seq(Cell) /\ incoming \in Seq(Nat) /\ byte \in Cell
      /\ \A s \in Held("r") : s \in Slots /\ buffer["r"][s] \in Nat \cup {None}
      /\ \A i \in DOMAIN atuser : atuser[i] \in Nat \cup {None}
      /\ \A k \in DOMAIN incoming : incoming[k] \in Nat
  BY PipeParts DEF TypeOK, Directions, Held, Cell
<1>o. /\ Increasing(atuser, Foreign) /\ PipeOrder("r", Foreign) /\ Increasing(incoming, {})
      /\ \A k \in DOMAIN incoming : incoming[k] <= arrived
      /\ \A s \in Held("r") : Own(buffer["r"][s]) =>
            /\ buffer["r"][s] <= arrived
            /\ \A k \in DOMAIN incoming : buffer["r"][s] < incoming[k]
      /\ \A i \in DOMAIN atuser : Own(atuser[i]) =>
            /\ atuser[i] <= arrived
            /\ \A k \in DOMAIN incoming : atuser[i] < incoming[k]
            /\ \A s \in Held("r") : Own(buffer["r"][s]) => atuser[i] < buffer["r"][s]
      /\ at = "store" /\ Own(byte) =>
            /\ byte <= arrived
            /\ \A k \in DOMAIN incoming : byte < incoming[k]
            /\ \A s \in Held("r") : Own(buffer["r"][s]) => buffer["r"][s] < byte
            /\ \A i \in DOMAIN atuser : Own(atuser[i]) => atuser[i] < byte
  BY DEF InOrder
<1>1. CASE PeerSends
  <2>1. /\ arrived' = arrived + 1 /\ incoming' = Append(incoming, arrived')
        /\ UNCHANGED <<atuser, at, byte, pipes>>
    BY <1>1 DEF PeerSends
  <2>2. /\ arrived' \in Cell /\ incoming \in Seq(Cell)
        /\ \A k \in DOMAIN incoming : incoming[k] < arrived'
    <3>1. arrived' \in Nat /\ incoming \in Seq(Cell)
      BY <1>0, <2>1 DEF Cell
    <3>2. \A k \in DOMAIN incoming : incoming[k] < arrived'
      BY <1>0, <1>o, <2>1
    <3> QED
      BY <3>1, <3>2 DEF Cell
  <2>3. Increasing(incoming', {}) /\ \A k \in DOMAIN incoming' :
           (k \in DOMAIN incoming /\ incoming'[k] = incoming[k]) \/ incoming'[k] = arrived'
    BY <1>o, <2>1, <2>2, AppendOrder
  <2>4. \A x \in Nat \cup {None} : x <= arrived => x <= arrived' /\ x < arrived'
    BY <1>0, <2>1 DEF None
  <2>5. Held("r")' = Held("r") /\ PipeOrder("r", Foreign)'
    BY <1>0, <1>o, <2>1, HeldKept
  <2>6. \A k \in DOMAIN incoming' : incoming'[k] <= arrived'
    BY <1>0, <1>o, <2>1, <2>3, <2>4
  <2>7. ASSUME NEW x \in Nat \cup {None}, x <= arrived, \A k \in DOMAIN incoming : x < incoming[k]
        PROVE  x <= arrived' /\ \A k \in DOMAIN incoming' : x < incoming'[k]
    BY <2>3, <2>4, <2>7
  <2>8. \A s \in Held("r") : Own(buffer["r"][s]) =>
            /\ buffer["r"][s] <= arrived'
            /\ \A k \in DOMAIN incoming' : buffer["r"][s] < incoming'[k]
    BY <1>0, <1>o, <2>7
  <2>9. \A i \in DOMAIN atuser : Own(atuser[i]) =>
            /\ atuser[i] <= arrived'
            /\ \A k \in DOMAIN incoming' : atuser[i] < incoming'[k]
    BY <1>0, <1>o, <2>7
  <2>10. at = "store" /\ Own(byte) =>
            /\ byte <= arrived'
            /\ \A k \in DOMAIN incoming' : byte < incoming'[k]
    BY <1>0, <1>o, <2>7 DEF Cell
  <2> QED
    BY <1>o, <2>1, <2>3, <2>5, <2>6, <2>8, <2>9, <2>10 DEF InOrder, Own
<1>2. CASE ReadPort
  <2>1. UNCHANGED <<atuser, arrived, pipes>>
    BY <1>2 DEF ReadPort
  <2>2. CASE fd = Usable /\ incoming # <<>>
    <3>1. /\ at' = "store" /\ incoming' = Tail(incoming)
          /\ Own(byte') => byte' = Head(incoming)
      BY <1>2, <2>2 DEF ReadPort, Own
    <3>2. /\ Increasing(incoming', {})
          /\ \A k \in DOMAIN incoming' : /\ Head(incoming) < incoming'[k]
                                         /\ \E l \in DOMAIN incoming : incoming'[k] = incoming[l]
          /\ \E l \in DOMAIN incoming : Head(incoming) = incoming[l]
      BY <1>0, <1>o, <2>2, <3>1, TailOrder
    <3>3. Held("r")' = Held("r") /\ PipeOrder("r", Foreign)'
      BY <1>0, <1>o, <2>1, HeldKept
    <3>4. Own(byte') =>
            /\ byte' <= arrived
            /\ \A k \in DOMAIN incoming' : byte' < incoming'[k]
            /\ \A s \in Held("r") : Own(buffer["r"][s]) => buffer["r"][s] < byte'
            /\ \A i \in DOMAIN atuser : Own(atuser[i]) => atuser[i] < byte'
      BY <1>o, <3>1, <3>2
    <3>5. \A s \in Held("r") : Own(buffer["r"][s]) =>
             \A k \in DOMAIN incoming' : buffer["r"][s] < incoming'[k]
      BY <1>o, <3>2
    <3>6. \A i \in DOMAIN atuser : Own(atuser[i]) =>
             \A k \in DOMAIN incoming' : atuser[i] < incoming'[k]
      BY <1>o, <3>2
    <3>7. \A k \in DOMAIN incoming' : incoming'[k] <= arrived
      BY <1>o, <3>2
    <3> QED
      BY <1>o, <2>1, <3>1, <3>2, <3>3, <3>4, <3>5, <3>6, <3>7 DEF InOrder, Own
  <2>3. CASE ~(fd = Usable /\ incoming # <<>>)
    <3>1. UNCHANGED incoming /\ at' = "fetch"
      BY <1>2, <2>3 DEF ReadPort
    <3> QED
      BY <2>1, <3>1, InKept DEF Kept
  <2> QED
    BY <2>2, <2>3
<1>3. CASE Store
  <2>1. UNCHANGED <<atuser, incoming, arrived>> /\ at = "store" /\ at' = "fetch"
    BY <1>3 DEF Store
  <2>2. CASE Full("r")
    BY <1>3, <2>1, <2>2, InKept DEF Store, Kept
  <2>3. CASE ~Full("r")
    <3>1. write_serpipe("r", byte)
      BY <1>3, <2>3 DEF Store
    <3>2. PipeOrder("r", Foreign)'
      BY <1>0, <1>o, <2>1, <2>3, <3>1, WriteOrder DEF Own
    <3>3. \A s \in Held("r")' : \/ s \in Held("r") /\ buffer'["r"][s] = buffer["r"][s]
                               \/ buffer'["r"][s] = byte
      <4>1. \A s \in Held("r")' : s \in Slots
        BY DEF Held
      <4> QED
        BY <1>0, <2>3, <3>1, <4>1, WriteHeld
    <3> QED
      BY <1>o, <2>1, <3>2, <3>3 DEF InOrder
  <2> QED
    BY <2>2, <2>3
<1>4. CASE read_serial
  <2>1. /\ UNCHANGED <<incoming, arrived, at, byte>> /\ ~Empty("r") /\ read_serpipe("r")
        /\ atuser' = Append(atuser, Head1("r"))
    BY <1>4 DEF read_serial
  <2>2. /\ PipeOrder("r", Foreign)'
        /\ Own(Head1("r")) =>
              \A s \in Held("r")' : Own(buffer["r"][s]) => Head1("r") < buffer["r"][s]
    BY <1>0, <1>o, <2>1, ReadOrder DEF Own
  <2>3. rdidx["r"] \in Held("r") /\ buffer' = buffer /\ \A s \in Held("r")' : s \in Held("r")
    <3>1. \A s \in Held("r")' : s \in Slots
      BY DEF Held
    <3> QED
      BY <1>0, <2>1, <3>1, ReadHeld
  <2>4. Own(Head1("r")) => \A i \in DOMAIN atuser : Own(atuser[i]) => atuser[i] < Head1("r")
    BY <1>o, <2>3 DEF Head1
  <2>5. Head1("r") \in Cell
    BY <1>0, PipeTypes
  <2>6. Increasing(atuser', Foreign) /\ \A i \in DOMAIN atuser' :
           (i \in DOMAIN atuser /\ atuser'[i] = atuser[i]) \/ atuser'[i] = Head1("r")
    BY <1>0, <1>o, <2>1, <2>4, <2>5, AppendOrder DEF Own
  <2>7. Own(Head1("r")) => /\ Head1("r") <= arrived
                           /\ \A k \in DOMAIN incoming : Head1("r") < incoming[k]
                           /\ at = "store" /\ Own(byte) => Head1("r") < byte
    BY <1>o, <2>3 DEF Head1
  <2>8. \A i \in DOMAIN atuser' : Own(atuser'[i]) =>
            /\ atuser'[i] <= arrived
            /\ \A k \in DOMAIN incoming : atuser'[i] < incoming[k]
            /\ \A s \in Held("r")' : Own(buffer["r"][s]) => atuser'[i] < buffer["r"][s]
            /\ at = "store" /\ Own(byte) => atuser'[i] < byte
    BY <1>o, <2>2, <2>3, <2>6, <2>7
  <2> QED
    BY <1>o, <2>1, <2>2, <2>3, <2>6, <2>8 DEF InOrder, Own
<1>5. CASE Unplug
  <2>1. incoming' = <<>> /\ UNCHANGED <<atuser, arrived, at, byte, pipes>>
    BY <1>5 DEF Unplug
  <2>2. DOMAIN incoming' = {}
    BY <2>1
  <2>3. Held("r")' = Held("r") /\ PipeOrder("r", Foreign)'
    BY <1>0, <1>o, <2>1, HeldKept
  <2> QED
    BY <1>o, <2>1, <2>2, <2>3 DEF InOrder, Increasing
<1>6. CASE write_serial
  <2>1. UNCHANGED <<atuser, incoming, arrived, at, byte>>
    BY <1>6 DEF write_serial
  <2>2. Kept("r")
    <3>1. CASE Full("w")
      BY <1>6, <3>1 DEF write_serial, Kept
    <3>2. CASE ~Full("w")
      <4>1. write_serpipe("w", written') /\ written' \in Cell
        BY <1>6, <3>2 DEF write_serial, TypeOK, Cell
      <4> QED
        BY <1>0, <3>2, <4>1, WriteHeld DEF Kept
    <3> QED
      BY <3>1, <3>2
  <2> QED
    BY <2>1, <2>2, InKept
<1>7. CASE Fetch
  <2>1. UNCHANGED <<atuser, incoming, arrived>> /\ at' \in {"loop", "send"}
    BY <1>7 DEF Fetch
  <2>2. Kept("r")
    <3>1. CASE Empty("w")
      BY <1>7, <3>1 DEF Fetch, Kept
    <3>2. CASE ~Empty("w")
      <4>1. read_serpipe("w")
        BY <1>7, <3>2 DEF Fetch
      <4> QED
        BY <1>0, <3>2, <4>1, ReadHeld DEF Kept, read_serpipe
    <3> QED
      BY <3>1, <3>2
  <2> QED
    BY <2>1, <2>2, InKept
<1>8. CASE Send
  <2>1. UNCHANGED <<atuser, incoming, arrived, pipes>> /\ at' = "loop"
    BY <1>8 DEF Send
  <2> QED
    BY <2>1, InKept DEF Kept
<1>9. CASE OpenPort \/ write_serial_free \/ Plug \/ UNCHANGED vars
  <2>1. UNCHANGED <<atuser, incoming, arrived, pipes, at, byte>>
    BY <1>9 DEF OpenPort, write_serial_free, Plug, vars
  <2> QED
    BY <2>1, InKept DEF Kept
<1> QED
  BY <1>1, <1>2, <1>3, <1>4, <1>5, <1>6, <1>7, <1>8, <1>9 DEF Next, serialproc

(* Bytes arrive at either end in the order they were sent and none twice,    *)
(* however the user, the thread, the peer and unplugging interleave, for     *)
(* pipes of any length and any number of bytes and faults.                   *)
THEOREM OrderKept == Spec => []BytesInOrder
<1>1. OutOrder /\ InOrder => BytesInOrder
  BY DEF OutOrder, InOrder, BytesInOrder
<1> QED
  BY <1>1, InitTypes, NextTypes, InitOrder, NextOutOrder, NextInOrder, PTL DEF Spec
=============================================================================
