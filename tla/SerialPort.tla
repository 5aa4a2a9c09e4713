----------------------------- MODULE SerialPort -----------------------------
(* ttyUSB/serial_helper.cpp and serial/serial.cpp: one serial interface.     *)
(* The user writes bytes into the pipe "w" and reads them from the pipe "r"; *)
(* serialproc moves them to and from a port that may be unplugged at any     *)
(* time and opens it again.  A pipe is a ring under a mutex, one byte short. *)
EXTENDS Integers, Sequences

CONSTANTS
    BUFFER_LENGTH,   \* slots of a pipe (20)
    MaxBytes,        \* bound: bytes in either direction
    MaxFaults,       \* bound: ports unplugged, transfers refused
    Foreign          \* bytes that the threads of other interfaces may be reading

ASSUME SerialAssumption ==
    /\ BUFFER_LENGTH \in Nat \ {0, 1}
    /\ MaxBytes \in Nat /\ MaxFaults \in Nat /\ Foreign \subseteq {0}

VARIABLES
    buffer, wridx, rdidx,   \* the two pipes
    at, fd, byte,           \* serialproc: where it is, its descriptor, d or rp
    free,                   \* what write_serial_free told the user, until the next write
    plugged, incoming,      \* the port: there or not; bytes it holds for us
    written, arrived,       \* bytes the user offered, bytes the peer sent
    (* ghost *)
    accepted,               \* bytes write_serial took
    atpeer, atuser,         \* what arrived at either end, in order
    faults

pipes == <<buffer, wridx, rdidx>>
thread == <<at, fd, byte>>
port == <<plugged, incoming, arrived, faults>>
user == <<free, written, accepted, atuser>>
vars == <<pipes, thread, port, user, atpeer>>

Slots == 0 .. BUFFER_LENGTH - 1
Directions == {"r", "w"}
None == -1

(* Descriptors: one of the port as it is plugged in now, and one of a port   *)
(* that has been unplugged since, which fails from then on.                  *)
Usable == 1
Stale == 0

Init ==
    /\ buffer = [d \in Directions |-> [i \in Slots |-> None]]
    /\ wridx = [d \in Directions |-> 0] /\ rdidx = [d \in Directions |-> 0]
    /\ at = "loop" /\ fd = -1 /\ byte = None
    /\ free = FALSE /\ written = 0 /\ accepted = <<>> /\ atuser = <<>>
    /\ plugged \in BOOLEAN /\ incoming = <<>> /\ arrived = 0 /\ faults = 0
    /\ atpeer = <<>>

-----------------------------------------------------------------------------
(* The pipes: each operation is one section under the pipe's mutex.          *)

Succ(i) == IF i + 1 = BUFFER_LENGTH THEN 0 ELSE i + 1
Empty(d) == rdidx[d] = wridx[d]

(* Mutant: a pipe is full when the indices meet, unless it is empty.         *)
FullLate(d) == rdidx[d] = wridx[d] /\ ~Empty(d)

Full(d) == (wridx[d] + 1) % BUFFER_LENGTH = rdidx[d]

write_serpipe(d, b) ==
    /\ buffer' = [buffer EXCEPT ![d][wridx[d]] = b]
    /\ wridx' = [wridx EXCEPT ![d] = Succ(@)]
    /\ UNCHANGED rdidx

Head1(d) == buffer[d][rdidx[d]]

read_serpipe(d) ==
    /\ rdidx' = [rdidx EXCEPT ![d] = Succ(@)]
    /\ UNCHANGED <<buffer, wridx>>

-----------------------------------------------------------------------------
(* The user                                                                  *)

write_serial ==
    /\ written < MaxBytes /\ written' = written + 1
    /\ IF Full("w") THEN UNCHANGED <<pipes, accepted>>
       ELSE write_serpipe("w", written') /\ accepted' = Append(accepted, written')
    /\ free' = FALSE
    /\ UNCHANGED <<thread, port, atuser, atpeer>>

write_serial_free ==
    /\ ~free /\ ~Full("w")
    /\ free' = TRUE
    /\ UNCHANGED <<pipes, thread, port, written, accepted, atuser, atpeer>>

read_serial ==
    /\ ~Empty("r")
    /\ read_serpipe("r")
    /\ atuser' = Append(atuser, Head1("r"))
    /\ UNCHANGED <<thread, port, free, written, accepted, atpeer>>

-----------------------------------------------------------------------------
(* serialproc                                                                *)

Goto(place) == at' = place

OpenPort ==
    /\ at = "loop" /\ fd = -1 /\ plugged
    /\ fd' = Usable
    /\ UNCHANGED <<pipes, at, byte, port, user, atpeer>>

(* Mutant: a port that has gone ends the turn, and is kept.                  *)
ReadPortContinue ==
    /\ at = "loop" /\ fd # -1
    /\ IF fd = Usable /\ incoming # <<>>
       THEN byte' = Head(incoming) /\ incoming' = Tail(incoming) /\ Goto("store")
       ELSE Goto(IF fd = Stale THEN "loop" ELSE "fetch") /\ UNCHANGED <<byte, incoming>>
    /\ UNCHANGED <<pipes, fd, plugged, arrived, faults, user, atpeer>>

(* The thread goes on to the other direction also if the port has gone.  The *)
(* byte is read into a static variable that the threads of all interfaces    *)
(* share without a mutex, so that it may be another one when it is returned. *)
ReadPort ==
    /\ at = "loop" /\ fd # -1
    /\ fd' = IF fd = Stale THEN -1 ELSE fd
    /\ IF fd = Usable /\ incoming # <<>>
       THEN byte' \in {Head(incoming)} \cup Foreign /\ incoming' = Tail(incoming) /\ Goto("store")
       ELSE Goto("fetch") /\ UNCHANGED <<byte, incoming>>
    /\ UNCHANGED <<pipes, plugged, arrived, faults, user, atpeer>>

Store ==
    /\ at = "store"
    /\ IF Full("r") THEN UNCHANGED pipes ELSE write_serpipe("r", byte)
    /\ byte' = None
    /\ Goto("fetch")
    /\ UNCHANGED <<fd, port, user, atpeer>>

(* Mutant: the byte is read but the index stays.                             *)
FetchAgain ==
    /\ at = "fetch"
    /\ IF Empty("w") THEN Goto("loop") /\ UNCHANGED byte
       ELSE byte' = Head1("w") /\ Goto("send")
    /\ UNCHANGED <<pipes, fd, port, user, atpeer>>

Fetch ==
    /\ at = "fetch"
    /\ IF Empty("w") THEN Goto("loop") /\ UNCHANGED <<pipes, byte>>
       ELSE read_serpipe("w") /\ byte' = Head1("w") /\ Goto("send")
    /\ UNCHANGED <<fd, port, user, atpeer>>

(* The byte is gone from the pipe whether or not the port takes it.          *)
Send ==
    /\ at = "send"
    /\ fd' = IF fd = Stale THEN -1 ELSE fd
    /\ \/ fd = Usable /\ atpeer' = Append(atpeer, byte) /\ UNCHANGED faults
       \/ fd # Usable /\ UNCHANGED <<atpeer, faults>>
       \/ fd = Usable /\ faults < MaxFaults /\ faults' = faults + 1 /\ UNCHANGED atpeer
    /\ byte' = None
    /\ Goto("loop")
    /\ UNCHANGED <<pipes, plugged, incoming, arrived, user>>

serialproc == OpenPort \/ ReadPort \/ Store \/ Fetch \/ Send

-----------------------------------------------------------------------------
(* The port                                                                  *)

PeerSends ==
    /\ plugged /\ arrived < MaxBytes
    /\ arrived' = arrived + 1
    /\ incoming' = Append(incoming, arrived')
    /\ UNCHANGED <<pipes, thread, plugged, faults, user, atpeer>>

Unplug ==
    /\ plugged /\ faults < MaxFaults
    /\ plugged' = FALSE /\ faults' = faults + 1
    /\ fd' = IF fd = Usable THEN Stale ELSE fd
    /\ incoming' = <<>>
    /\ UNCHANGED <<pipes, at, byte, arrived, user, atpeer>>

Plug ==
    /\ ~plugged
    /\ plugged' = TRUE
    /\ UNCHANGED <<pipes, thread, incoming, arrived, faults, user, atpeer>>

Next ==
    \/ serialproc
    \/ write_serial \/ write_serial_free \/ read_serial
    \/ PeerSends \/ Unplug \/ Plug

Spec == Init /\ [][Next]_vars

(* The thread never blocks (both pipes and port are polled), and a port that *)
(* was unplugged comes back.                                                 *)
FairSpec == Spec /\ WF_vars(serialproc) /\ WF_vars(Plug)

-----------------------------------------------------------------------------
(* Properties                                                                *)

(* Bytes are numbered as they are sent; those in skip are not looked at.      *)
Increasing(s, skip) ==
    \A i, j \in DOMAIN s :
        i < j /\ s[i] \notin skip /\ s[j] \notin skip => s[i] < s[j]

Cell == Nat \cup {None}

(* Types of the pipes, the thread, the port and the two ends.                *)
TypeOK ==
    /\ buffer \in [Directions -> [Slots -> Cell]]
    /\ wridx \in [Directions -> Slots] /\ rdidx \in [Directions -> Slots]
    /\ at \in {"loop", "store", "fetch", "send"}
    /\ fd \in {-1, Stale, Usable} /\ plugged \in BOOLEAN /\ free \in BOOLEAN
    /\ byte \in Cell /\ atpeer \in Seq(Cell) /\ atuser \in Seq(Cell)
    /\ incoming \in Seq(Nat) /\ accepted \in Seq(Nat)
    /\ written \in Nat /\ arrived \in Nat /\ faults \in Nat

(* Neither direction changes the order of bytes or doubles one, whatever is  *)
(* lost or replaced in between.                                              *)
BytesInOrder ==
    Increasing(atpeer, {}) /\ Increasing(atuser, Foreign)

(* Bytes in the pipe "w", and the one the thread has taken out of it.        *)
Waiting == ((wridx["w"] - rdidx["w"]) % BUFFER_LENGTH) + (IF at = "send" THEN 1 ELSE 0)

(* What write_serial and write_serial_free promise.  A byte that was taken   *)
(* is lost only with a fault of the port, and then only the one byte that    *)
(* the thread had out of the pipe: what waits in the pipe survives until the *)
(* port is back.  And what was "ok" to write stays so until the user's next  *)
(* write (serial_helper.cpp 135-160, 339-398).                               *)
WritePromises ==
    LET lost == Len(accepted) - Len(atpeer) - Waiting
    IN  /\ lost >= 0 /\ lost <= faults
        /\ free => ~Full("w")

(* What has been accepted leaves the pipe, though the peer may keep sending. *)
PipeDrains == Waiting > 0 ~> Waiting = 0
=============================================================================
