-------------------------- MODULE WsClientsProofs --------------------------
(* Proofs about WsClients: types, that the client table only holds live      *)
(* connections, and that messages are sent in order and once, for any number *)
(* of browsers, slots and descriptors; that frames and Base64 texts are read *)
(* as what was written, for every length, text and sequence of bytes; and    *)
(* that sha1 pads every message, however it is cut.                          *)
EXTENDS WsClients, Codecs, SequenceTheorems, TLAPS, WellFoundedInduction

-----------------------------------------------------------------------------
(* What the searches find                                                    *)

LEMMA Least ==
    ASSUME NEW T, T \subseteq Nat, T # {}
    PROVE  \E x \in T : \A y \in T : x <= y
<1>1. PICK x \in T : \A y \in T : ~(<<y, x>> \in OpToRel(<, Nat))
  BY NatLessThanWellFounded, WFMin
<1>2. \A y \in T : y \in Nat /\ x \in Nat /\ ~(y < x)
  BY <1>1, Zenon DEF OpToRel
<1>3. \A y \in T : x <= y
  BY <1>2
<1> QED
  BY <1>3

(* The loops over the table find the first slot with a descriptor, and       *)
(* nothing only when no slot has it.                                         *)
LEMMA FindFinds ==
    ASSUME NEW f
    PROVE  \/ Find(f) = NoSlot /\ \A i \in Slots : socket[i] # f
           \/ Find(f) \in Slots /\ socket[Find(f)] = f
<1>1. CASE \A i \in Slots : socket[i] # f
  BY <1>1 DEF Find
<1>2. CASE \E i \in Slots : socket[i] = f
  <2> DEFINE T == {i \in Slots : socket[i] = f}
  <2>1. T \subseteq Nat /\ T # {}
    BY <1>2, WsAssumption DEF Slots
  <2>2. \E i \in T : \A j \in T : i <= j
    <3> HIDE DEF T
    <3> QED
      BY <2>1, Least
  <2>3. \E i \in Slots : socket[i] = f /\ \A j \in Slots : socket[j] = f => i <= j
    BY <2>2
  <2> QED
    BY <1>2, <2>3 DEF Find
<1> QED
  BY <1>1, <1>2

LEMMA NotASlot == NoSlot \notin Slots /\ NoFd \notin Fds
  BY WsAssumption DEF Slots, Fds, NoSlot, NoFd

(* accept() takes a descriptor that is free.                                 *)
LEMMA AcceptTakesFree ==
    ASSUME FreeFds # {}
    PROVE  (CHOOSE f \in FreeFds : \A g \in FreeFds : f <= g) \in FreeFds
<1>1. FreeFds \subseteq Nat
  BY WsAssumption DEF FreeFds, Fds
<1>2. \E f \in FreeFds : \A g \in FreeFds : f <= g
  BY <1>1, Least
<1> QED
  BY <1>2

-----------------------------------------------------------------------------
(* Types                                                                     *)

LEMMA InitTypes == Init => TypeOK
<1> SUFFICES ASSUME Init PROVE TypeOK
  OBVIOUS
<1> USE DEF Init
<1>1. /\ socket \in [Slots -> Fds \cup {NoFd}] /\ send \in [Slots -> {0, 1}]
      /\ alive \in [Slots -> Nat] /\ owner \in [Slots -> Conns \cup {"none"}]
  OBVIOUS
<1>2. msg \in [Slots -> [id : Nat, len : {"short", "long"}]]
  BY DEF Message
<1>3. /\ pc \in [Conns -> Places] /\ fd \in [Conns -> Fds \cup {NoFd}]
      /\ handshaked \in [Conns -> BOOLEAN] /\ slot \in [Conns -> Slots \cup {NoSlot}]
      /\ txdata \in [Conns -> Nat] /\ peer \in [Conns -> BOOLEAN]
      /\ tried \in [Conns -> Seq(Nat)]
  BY DEF Places
<1>4. /\ tpc \in {"idle", "look", "count", "who", "remove"}
      /\ ti \in Slots /\ tval \in Nat /\ tfd \in Fds \cup {NoFd} /\ sends \in Nat
  BY WsAssumption DEF Slots
<1>5. keeprunning \in BOOLEAN
  OBVIOUS
<1> QED
  BY <1>1, <1>2, <1>3, <1>4, <1>5 DEF TypeOK

LEMMA InsertTypes == TypeOK => \A c \in Conns : insert_socket(c) =>
    /\ socket' \in [Slots -> Fds \cup {NoFd}] /\ send' \in [Slots -> {0, 1}]
    /\ msg' = msg /\ alive' \in [Slots -> Nat]
    /\ owner' \in [Slots -> Conns \cup {"none"}]
<1> SUFFICES ASSUME TypeOK, NEW c \in Conns, insert_socket(c)
             PROVE  /\ socket' \in [Slots -> Fds \cup {NoFd}] /\ send' \in [Slots -> {0, 1}]
                    /\ msg' = msg /\ alive' \in [Slots -> Nat]
                    /\ owner' \in [Slots -> Conns \cup {"none"}]
  OBVIOUS
<1>1. AliveOpen \in Nat /\ fd[c] \in Fds \cup {NoFd}
  BY WsAssumption DEF TypeOK
<1>2. CASE Find(NoFd) = NoSlot
  BY <1>2 DEF TypeOK, insert_socket, table
<1>3. CASE Find(NoFd) # NoSlot
  BY <1>1, <1>3 DEF TypeOK, insert_socket
<1> QED
  BY <1>2, <1>3

LEMMA RemoveTypes == TypeOK => \A f : remove_socket(f) =>
    socket' \in [Slots -> Fds \cup {NoFd}] /\ UNCHANGED <<send, msg, alive, owner>>
  BY DEF TypeOK, remove_socket

LEMMA NextSlotTypes == TypeOK /\ NextSlot =>
    /\ tpc' \in {"idle", "look"} /\ ti' \in Slots
    /\ tval' \in Nat /\ tfd' \in Fds \cup {NoFd}
<1> SUFFICES ASSUME TypeOK, NextSlot
             PROVE  /\ tpc' \in {"idle", "look"} /\ ti' \in Slots
                    /\ tval' \in Nat /\ tfd' \in Fds \cup {NoFd}
  OBVIOUS
<1>1. ti \in Slots
  BY DEF TypeOK
<1>2. \A i \in Slots : i # MaxClients => i + 1 \in Slots
  BY WsAssumption DEF Slots
<1>3. 1 \in Slots
  BY WsAssumption DEF Slots
<1> QED
  BY <1>1, <1>2, <1>3 DEF NextSlot

(* The timer's steps.                                                        *)
LEMMA TimerTypes == TypeOK /\ ws_alive => TypeOK'
<1> SUFFICES ASSUME TypeOK, ws_alive PROVE TypeOK'
  OBVIOUS
<1> USE DEF TypeOK, table, local, world
<1>1. CASE Tick
  BY <1>1 DEF Tick
<1>2. CASE Look
  <2>1. alive[ti] > 0 => alive[ti] - 1 \in Nat
    OBVIOUS
  <2>2. /\ tpc' \in {"idle", "look", "count"} /\ ti' \in Slots
        /\ tval' \in Nat /\ tfd' \in Fds \cup {NoFd}
    BY <1>2, <2>1, NextSlotTypes DEF Look
  <2> QED
    BY <1>2, <2>2 DEF Look
<1>3. CASE CountDown
  <2>1. /\ tpc' \in {"idle", "look", "who"} /\ ti' \in Slots
        /\ tval' \in Nat /\ tfd' \in Fds \cup {NoFd}
    BY <1>3, NextSlotTypes DEF CountDown
  <2> QED
    BY <1>3, <2>1 DEF CountDown
<1>4. CASE Who
  <2>1. /\ tpc' \in {"idle", "look", "remove"} /\ ti' \in Slots
        /\ tval' \in Nat /\ tfd' \in Fds \cup {NoFd}
    BY <1>4, NextSlotTypes DEF Who
  <2> QED
    BY <1>4, <2>1 DEF Who
<1>5. CASE Remove
  BY <1>5, NextSlotTypes, RemoveTypes DEF Remove
<1> QED
  BY <1>1, <1>2, <1>3, <1>4, <1>5 DEF ws_alive

(* A thread builds a frame of a slot it has found.                           *)
HasSlot == \A c \in Conns : pc[c] = "build" => slot[c] \in Slots

(* The steps of a connection's thread.                                       *)
LEMMA ThreadTypes ==
    ASSUME TypeOK, HasSlot, NEW c \in Conns,
           \/ Accept(c) \/ Handshake(c) \/ OnMessage(c)
           \/ NoData(c) \/ Going(c) \/ PeerGone(c)
    PROVE  TypeOK'
<1> USE DEF TypeOK, table, local, timer, world, Goto, Forget, Places
<1>f. \A f : Find(f) \in Slots \cup {NoSlot}
  BY FindFinds
<1>1. CASE Accept(c)
  <2>1. (CHOOSE f \in FreeFds : \A g \in FreeFds : f <= g) \in Fds
    BY <1>1, AcceptTakesFree DEF Accept, FreeFds
  <2>2. fd' \in [Conns -> Fds \cup {NoFd}]
    BY <1>1, <2>1 DEF Accept
  <2> QED
    BY <1>1, <2>2 DEF Accept
<1>2. CASE Handshake(c)
  <2>1. CASE insert_socket(c)
    BY <1>2, <2>1, InsertTypes DEF Handshake
  <2>2. CASE UNCHANGED table
    BY <1>2, <2>2 DEF Handshake
  <2> QED
    BY <1>2, <2>1, <2>2 DEF Handshake
<1>3. CASE OnMessage(c)
  BY <1>3, <1>f DEF OnMessage
<1>5. CASE NoData(c)
  BY <1>5 DEF NoData
<1>6. CASE Renew(c)
  BY <1>6, WsAssumption DEF Renew
<1>7. CASE Work(c)
  BY <1>7, <1>f DEF Work
<1>8. CASE Build(c)
  <2>1. /\ msg[slot[c]] \in [id : Nat, len : {"short", "long"}]
        /\ slot' \in [Conns -> Slots \cup {NoSlot}]
    BY <1>8 DEF Build, HasSlot
  <2>2. \E n \in {msg[slot[c]].id, 0}, p \in {"send", "read"} :
            txdata' = [txdata EXCEPT ![c] = n] /\ pc' = [pc EXCEPT ![c] = p]
    BY <1>8 DEF Build
  <2>3. {msg[slot[c]].id, 0} \subseteq Nat
    BY <2>1
  <2>4. txdata' \in [Conns -> Nat] /\ pc' \in [Conns -> Places]
    BY <2>2, <2>3
  <2> QED
    BY <1>8, <2>1, <2>4 DEF Build
<1>9. CASE SendFrame(c)
  <2>1. tried' \in [Conns -> Seq(Nat)]
    BY <1>9 DEF SendFrame
  <2> QED
    BY <1>9, <2>1 DEF SendFrame
<1>10. CASE Sent(c)
  BY <1>10 DEF Sent
<1>11. CASE OnClose(c)
  BY <1>11, RemoveTypes DEF OnClose
<1>12. CASE CloseFd(c) \/ Quit(c)
  BY <1>12 DEF CloseFd, Quit
<1>13. CASE PeerGone(c)
  BY <1>13 DEF PeerGone
<1> QED
  BY <1>1, <1>2, <1>3, <1>5, <1>6, <1>7, <1>8, <1>9, <1>10, <1>11, <1>12,
     <1>13 DEF Going

LEMMA HasSlotKept == TypeOK /\ HasSlot /\ [Next]_vars => HasSlot'
<1> SUFFICES ASSUME TypeOK, HasSlot, [Next]_vars, NEW d \in Conns, pc'[d] = "build"
             PROVE  slot'[d] \in Slots
  BY DEF HasSlot
<1> USE DEF TypeOK, Goto, Forget, local
<1>0. pc[d] = "build" => slot[d] \in Slots
  BY DEF HasSlot
<1>1. ASSUME NEW c \in Conns, Accept(c) \/ Handshake(c) \/ PeerGone(c)
      PROVE  slot'[d] \in Slots
  BY <1>0, <1>1 DEF Accept, Handshake, PeerGone
<1>2. ASSUME NEW c \in Conns, OnMessage(c) \/ NoData(c)
      PROVE  slot'[d] \in Slots
  BY <1>0, <1>2 DEF OnMessage, NoData
<1>3. ASSUME NEW c \in Conns, Work(c)
      PROVE  slot'[d] \in Slots
  <2>1. Find(fd[c]) = NoSlot \/ Find(fd[c]) \in Slots
    BY FindFinds
  <2> QED
    BY <1>0, <1>3, <2>1 DEF Work
<1>4. ASSUME NEW c \in Conns, Renew(c) \/ Build(c) \/ Sent(c)
      PROVE  slot'[d] \in Slots
  BY <1>0, <1>4 DEF Renew, Build, Sent
<1>5. ASSUME NEW c \in Conns, SendFrame(c) \/ OnClose(c) \/ CloseFd(c) \/ Quit(c)
      PROVE  slot'[d] \in Slots
  BY <1>0, <1>5 DEF SendFrame, OnClose, CloseFd, Quit
<1>6. ASSUME \/ \E len \in Lengths : ws_send(len)
             \/ ws_alive \/ Stop \/ UNCHANGED vars
      PROVE  slot'[d] \in Slots
  BY <1>0, <1>6 DEF ws_send, ws_alive, Tick, Look, CountDown, Who, Remove, Stop, vars
<1> QED
  BY <1>1, <1>2, <1>3, <1>4, <1>5, <1>6 DEF Next, Going

LEMMA NextTypes == TypeOK /\ HasSlot /\ [Next]_vars => TypeOK'
<1> SUFFICES ASSUME TypeOK, HasSlot, [Next]_vars PROVE TypeOK'
  OBVIOUS
<1>1. ASSUME NEW c \in Conns,
             \/ Accept(c) \/ Handshake(c) \/ OnMessage(c)
             \/ NoData(c) \/ Going(c) \/ PeerGone(c)
      PROVE  TypeOK'
  BY <1>1, ThreadTypes
<1>2. ASSUME NEW len \in Lengths, ws_send(len) PROVE TypeOK'
  <2> USE DEF TypeOK
  <2>1. len \in {"short", "long"}
    BY <1>2, WsAssumption
  <2>2. send' \in [Slots -> {0, 1}] /\ sends' \in Nat
    BY <1>2 DEF ws_send
  <2>3. Message(sends + 1, len) \in [id : Nat, len : {"short", "long"}]
    BY <2>1 DEF Message
  <2>4. msg' \in [Slots -> [id : Nat, len : {"short", "long"}]]
    BY <1>2, <2>3 DEF ws_send
  <2> QED
    BY <1>2, <2>2, <2>4 DEF ws_send, local, timer
<1>3. CASE ws_alive
  BY <1>3, TimerTypes
<1>4. CASE Stop
  BY <1>4 DEF TypeOK, Stop, table, local, timer
<1>5. CASE UNCHANGED vars
  BY <1>5 DEF TypeOK, vars
<1> QED
  BY <1>1, <1>2, <1>3, <1>4, <1>5 DEF Next

(* In every reachable state the table, the threads and the timer have their  *)
(* types, and no thread builds a frame of a slot outside the table.          *)
THEOREM TypeCorrect == Spec => [](TypeOK /\ HasSlot)
<1>1. Init => TypeOK /\ HasSlot
  BY InitTypes DEF Init, HasSlot
<1>2. TypeOK /\ HasSlot /\ [Next]_vars => (TypeOK /\ HasSlot)'
  BY NextTypes, HasSlotKept
<1> QED
  BY <1>1, <1>2, PTL DEF Spec

-----------------------------------------------------------------------------
(* Who has an entry                                                          *)

(* A connection has a descriptor from accept() to close().                   *)
Opened == \A c \in Conns : fd[c] = NoFd <=> pc[c] \in {"none", "done"}

(* No descriptor is given out twice.                                         *)
Apart == \A c, d \in Conns : (c # d /\ fd[c] # NoFd) => fd[c] # fd[d]

(* An active entry belongs to a connection after its handshake and before    *)
(* its onclose, and has the descriptor of it.                                *)
Held(i) ==
    /\ owner[i] \in Conns
    /\ fd[owner[i]] = socket[i]
    /\ handshaked[owner[i]]
    /\ pc[owner[i]] # "closefd"

Holding == keeprunning => \A i \in Slots : socket[i] # NoFd => Held(i)

(* No connection inserts two entries.                                        *)
Single == keeprunning =>
    \A i, j \in Slots : (i # j /\ socket[i] # NoFd /\ socket[j] # NoFd)
                          => owner[i] # owner[j]

OwnInv == Opened /\ Apart /\ Holding /\ Single

LEMMA InitOwned == Init => OwnInv
  BY DEF Init, OwnInv, Opened, Apart, Holding, Single

(* Most steps change neither the table's descriptors nor a connection's.     *)
LEMMA Harmless ==
    ASSUME OwnInv, UNCHANGED <<socket, owner, fd, handshaked, keeprunning>>,
           \A c \in Conns :
               \/ pc'[c] = pc[c]
               \/ /\ pc[c] \notin {"none", "done"}
                  /\ pc'[c] \notin {"none", "done", "closefd"}
    PROVE  OwnInv'
<1>1. Opened' /\ Apart'
  BY DEF OwnInv, Opened, Apart
<1>2. Holding'
  <2> SUFFICES ASSUME keeprunning', NEW i \in Slots, socket'[i] # NoFd PROVE Held(i)'
    BY DEF Holding
  <2>1. Held(i)
    BY DEF OwnInv, Holding
  <2> QED
    BY <2>1 DEF Held
<1>3. Single'
  BY DEF OwnInv, Single
<1> QED
  BY <1>1, <1>2, <1>3 DEF OwnInv

LEMMA HarmlessSteps ==
    ASSUME TypeOK, OwnInv, NEW c \in Conns,
           \/ OnMessage(c) \/ NoData(c) \/ PeerGone(c)
           \/ Renew(c) \/ Work(c) \/ Build(c) \/ SendFrame(c) \/ Sent(c)
    PROVE  OwnInv'
<1> USE DEF TypeOK, Goto, Reading, table, local, world
<1>1. CASE OnMessage(c) \/ NoData(c) \/ PeerGone(c)
  BY <1>1, Harmless DEF OnMessage, NoData, PeerGone
<1>2. CASE Renew(c) \/ Work(c) \/ Build(c)
  BY <1>2, Harmless DEF Renew, Work, Build, Forget
<1>3. CASE SendFrame(c) \/ Sent(c)
  BY <1>3, Harmless DEF SendFrame, Sent, Forget
<1> QED
  BY <1>1, <1>2, <1>3

(* accept() hands out a descriptor that no other connection has.             *)
LEMMA AcceptOwned ==
    ASSUME TypeOK, OwnInv, NEW c \in Conns, Accept(c)
    PROVE  OwnInv'
<1> USE DEF TypeOK, Goto, table, local, world
<1>1. PICK f \in FreeFds : fd' = [fd EXCEPT ![c] = f]
  BY AcceptTakesFree DEF Accept
<1>2. f # NoFd /\ \A d \in Conns : fd[d] # f
  BY NotASlot DEF FreeFds
<1>3. /\ fd[c] = NoFd /\ pc[c] = "none" /\ pc' = [pc EXCEPT ![c] = "read"]
      /\ UNCHANGED <<socket, owner, handshaked, keeprunning>>
  BY DEF Accept, OwnInv, Opened
<1>4. Opened'
  BY <1>1, <1>2, <1>3 DEF OwnInv, Opened
<1>5. Apart'
  BY <1>1, <1>2, <1>3 DEF OwnInv, Apart
<1>6. Holding'
  <2> SUFFICES ASSUME keeprunning', NEW i \in Slots, socket'[i] # NoFd PROVE Held(i)'
    BY DEF Holding
  <2>1. Held(i) /\ socket[i] # NoFd
    BY <1>3 DEF OwnInv, Holding
  <2>2. owner[i] # c
    BY <1>3, <2>1 DEF Held
  <2> QED
    BY <1>1, <1>3, <2>1, <2>2 DEF Held
<1>7. Single'
  BY <1>3 DEF OwnInv, Single
<1> QED
  BY <1>4, <1>5, <1>6, <1>7 DEF OwnInv

(* onopen runs once for a connection, so it inserts one entry.               *)
LEMMA HandshakeOwned ==
    ASSUME TypeOK, OwnInv, NEW c \in Conns, Handshake(c)
    PROVE  OwnInv'
<1> USE DEF TypeOK, world
<1>1. /\ ~handshaked[c] /\ handshaked' = [handshaked EXCEPT ![c] = TRUE]
      /\ pc[c] = "read" /\ keeprunning /\ UNCHANGED <<pc, fd, keeprunning>>
  BY DEF Handshake, Reading
<1>2. Opened' /\ Apart'
  BY <1>1 DEF OwnInv, Opened, Apart
<1>3. fd[c] # NoFd
  BY <1>1 DEF OwnInv, Opened
<1>4. \A i \in Slots : socket[i] # NoFd => Held(i) /\ owner[i] # c
  BY <1>1 DEF OwnInv, Holding, Held
<1>5. CASE UNCHANGED table
  <2>1. Holding'
    BY <1>1, <1>4, <1>5 DEF Holding, Held, table
  <2>2. Single'
    BY <1>1, <1>5 DEF OwnInv, Single, table
  <2> QED
    BY <1>2, <2>1, <2>2 DEF OwnInv
<1>6. CASE Find(NoFd) \in Slots /\ insert_socket(c)
  <2> DEFINE i == Find(NoFd)
  <2>1. /\ i \in Slots /\ socket' = [socket EXCEPT ![i] = fd[c]]
        /\ owner' = [owner EXCEPT ![i] = c]
    BY <1>6, NotASlot DEF insert_socket
  <2> HIDE DEF i
  <2>2. Holding'
    BY <1>1, <1>4, <2>1 DEF Holding, Held
  <2>3. Single'
    BY <1>1, <1>4, <2>1 DEF OwnInv, Single
  <2> QED
    BY <1>2, <2>2, <2>3 DEF OwnInv
<1> QED
  BY <1>5, <1>6, FindFinds DEF Handshake, insert_socket

(* Taking a descriptor out of the table does no harm to the other entries.   *)
LEMMA RemoveOwned ==
    ASSUME TypeOK, OwnInv, NEW f, remove_socket(f),
           UNCHANGED <<pc, fd, handshaked, keeprunning>>
    PROVE  OwnInv'
<1> USE DEF TypeOK
<1>1. /\ UNCHANGED owner
      /\ \A i \in Slots : socket'[i] # NoFd => socket'[i] = socket[i] /\ socket[i] # f
  BY DEF remove_socket
<1>2. Opened' /\ Apart'
  BY DEF OwnInv, Opened, Apart
<1>3. Holding' /\ Single'
  BY <1>1 DEF OwnInv, Holding, Single, Held
<1> QED
  BY <1>2, <1>3 DEF OwnInv

(* onclose takes the connection's entry out before close().                  *)
LEMMA OnCloseOwned ==
    ASSUME TypeOK, OwnInv, NEW c \in Conns, OnClose(c)
    PROVE  OwnInv'
<1> USE DEF TypeOK, Goto, local, world
<1>1. /\ pc[c] = "close" /\ pc' = [pc EXCEPT ![c] = "closefd"]
      /\ UNCHANGED <<fd, owner, handshaked, keeprunning>>
      /\ \A i \in Slots : socket'[i] # NoFd => socket'[i] = socket[i] /\ socket[i] # fd[c]
  BY DEF OnClose, remove_socket
<1>2. Opened' /\ Apart'
  BY <1>1 DEF OwnInv, Opened, Apart
<1>3. Holding'
  <2> SUFFICES ASSUME keeprunning', NEW i \in Slots, socket'[i] # NoFd PROVE Held(i)'
    BY DEF Holding
  <2>1. Held(i) /\ owner[i] # c
    BY <1>1 DEF OwnInv, Holding, Held
  <2> QED
    BY <1>1, <2>1 DEF Held
<1>4. Single'
  BY <1>1 DEF OwnInv, Single
<1> QED
  BY <1>2, <1>3, <1>4 DEF OwnInv

(* close() of a connection without an entry, or when the program stops.      *)
LEMMA CloseOwned ==
    ASSUME TypeOK, OwnInv, NEW c \in Conns, CloseFd(c) \/ Quit(c)
    PROVE  OwnInv'
<1> USE DEF TypeOK, Goto, table, local, world
<1>1. /\ pc[c] \in {"closefd", "read"} /\ pc' = [pc EXCEPT ![c] = "done"]
      /\ fd' = [fd EXCEPT ![c] = NoFd]
      /\ pc[c] = "closefd" \/ ~keeprunning
      /\ UNCHANGED <<socket, owner, handshaked, keeprunning>>
  BY DEF CloseFd, Quit
<1>2. Opened'
  BY <1>1 DEF OwnInv, Opened
<1>3. Apart'
  BY <1>1 DEF OwnInv, Apart
<1>4. Holding'
  <2> SUFFICES ASSUME keeprunning', NEW i \in Slots, socket'[i] # NoFd PROVE Held(i)'
    BY DEF Holding
  <2>1. Held(i) /\ owner[i] # c
    BY <1>1 DEF OwnInv, Holding, Held
  <2> QED
    BY <1>1, <2>1 DEF Held
<1>5. Single'
  BY <1>1 DEF OwnInv, Single
<1> QED
  BY <1>2, <1>3, <1>4, <1>5 DEF OwnInv

LEMMA NextOwned == TypeOK /\ OwnInv /\ [Next]_vars => OwnInv'
<1> SUFFICES ASSUME TypeOK, OwnInv, [Next]_vars PROVE OwnInv'
  OBVIOUS
<1>1. ASSUME NEW c \in Conns,
             \/ Accept(c) \/ Handshake(c) \/ OnMessage(c)
             \/ NoData(c) \/ Going(c) \/ PeerGone(c)
      PROVE  OwnInv'
  BY <1>1, HarmlessSteps, AcceptOwned, HandshakeOwned, OnCloseOwned, CloseOwned DEF Going
<1>2. ASSUME NEW len \in Lengths, ws_send(len) PROVE OwnInv'
  BY <1>2, Harmless DEF ws_send, local
<1>3. CASE Tick \/ Look \/ CountDown \/ Who
  BY <1>3, Harmless DEF Tick, Look, CountDown, Who, table, local, world
<1>4. CASE Remove
  BY <1>4, RemoveOwned DEF Remove, local, world
<1>5. CASE Stop
  BY <1>5 DEF Stop, table, local, OwnInv, Opened, Apart, Holding, Single
<1>6. CASE UNCHANGED vars
  BY <1>6, Harmless DEF vars
<1> QED
  BY <1>1, <1>2, <1>3, <1>4, <1>5, <1>6 DEF Next, ws_alive

(* While the server runs, every active entry of the table is the one its     *)
(* connection inserted, and has a descriptor that is still open: neither the *)
(* timer nor a close lets a closed descriptor, or one the kernel has given   *)
(* to the next browser, stay behind in the table.                            *)
THEOREM TableCorrect == Spec => []TableOwned
<1>1. Init => OwnInv
  BY InitOwned
<1>2. TypeOK /\ OwnInv /\ [Next]_vars => OwnInv'
  BY NextOwned
<1>3. OwnInv => TableOwned
  <2> SUFFICES ASSUME OwnInv, keeprunning, NEW i \in Slots, socket[i] # NoFd
               PROVE  /\ owner[i] \in Conns
                      /\ fd[owner[i]] = socket[i]
                      /\ pc[owner[i]] \notin {"closefd", "done"}
                      /\ \A j \in Slots : (j # i /\ socket[j] # NoFd) => owner[j] # owner[i]
    BY DEF TableOwned
  <2>1. Held(i)
    BY DEF OwnInv, Holding
  <2>2. pc[owner[i]] # "done"
    BY <2>1 DEF OwnInv, Opened, Held
  <2>3. \A j \in Slots : (j # i /\ socket[j] # NoFd) => owner[j] # owner[i]
    BY DEF OwnInv, Single
  <2> QED
    BY <2>1, <2>2, <2>3 DEF Held
<1> QED
  BY <1>1, <1>2, <1>3, TypeCorrect, PTL DEF Spec

-----------------------------------------------------------------------------
(* The order of messages                                                     *)

(* No message that c has handed to the kernel is as late as this one.        *)
Fresh(c, id) == \A m \in DOMAIN tried[c] : tried[c][m] < id

(* Nothing comes from the future.                                            *)
Past ==
    /\ \A i \in Slots : msg[i].id <= sends
    /\ \A c \in Conns : \A m \in DOMAIN tried[c] : tried[c][m] <= sends
    /\ \A c \in Conns : pc[c] = "send" => txdata[c] <= sends

(* No two entries have the same descriptor.                                  *)
Distinct == \A i, j \in Slots : (i # j /\ socket[i] # NoFd) => socket[i] # socket[j]

(* A connection that looks for a message finds none it has had.  One that    *)
(* has found its slot has no other entry, and what is in the slot, whoever   *)
(* has it by now, is either new or about to be cleared.                      *)
Sending(c) ==
    /\ pc[c] \in {"read", "renew", "work"} =>
          \A i \in Slots : socket[i] = fd[c] /\ send[i] = 1 => Fresh(c, msg[i].id)
    /\ pc[c] \in {"build", "send", "sent", "failed"} =>
          /\ slot[c] \in Slots
          /\ \A i \in Slots : socket[i] = fd[c] => i = slot[c]
    /\ pc[c] = "build" /\ send[slot[c]] = 1 => Fresh(c, msg[slot[c]].id)
    /\ pc[c] = "send" => Fresh(c, txdata[c])
    /\ pc[c] = "none" => tried[c] = << >>

OrderInv == Past /\ Distinct /\ (\A c \in Conns : Sending(c)) /\ InOrder

LEMMA InitOrder == TypeOK /\ Init => OrderInv
<1> SUFFICES ASSUME TypeOK, Init PROVE OrderInv
  OBVIOUS
<1> USE DEF Init
<1>1. Past
  BY DEF Past, Message
<1>2. Distinct
  BY DEF Distinct
<1>3. \A c \in Conns : Sending(c)
  BY DEF Sending
<1>4. InOrder
  BY DEF InOrder
<1> QED
  BY <1>1, <1>2, <1>3, <1>4 DEF OrderInv

(* A connection is as it was if its own state is, if entries only leave the  *)
(* table, and if what is in a slot is gone or as it was or new.              *)
LEMMA SendingKept ==
    ASSUME TypeOK, TypeOK', OwnInv, Past, NEW c \in Conns, Sending(c),
           pc'[c] = pc[c], fd'[c] = fd[c], slot'[c] = slot[c], txdata'[c] = txdata[c],
           tried'[c] = tried[c],
           \A i \in Slots : socket'[i] = fd[c] /\ fd[c] # NoFd => socket[i] = fd[c],
           \A i \in Slots : send'[i] = 1 => \/ send[i] = 1 /\ msg'[i] = msg[i]
                                            \/ msg'[i].id > sends
    PROVE  Sending(c)'
<1>1. pc[c] \notin {"none", "done"} => fd[c] # NoFd
  BY DEF OwnInv, Opened
<1>2. \A i \in Slots : msg'[i].id > sends => Fresh(c, msg'[i].id)
  <2> SUFFICES ASSUME NEW i \in Slots, msg'[i].id > sends, NEW m \in DOMAIN tried[c]
               PROVE  tried[c][m] < msg'[i].id
    BY DEF Fresh
  <2>1. tried[c][m] <= sends /\ sends \in Nat
    BY DEF Past, TypeOK
  <2>2. tried[c][m] \in Nat
    <3>1. tried[c] \in Seq(Nat)
      BY DEF TypeOK
    <3> QED
      BY <3>1
  <2>3. msg'[i].id \in Nat
    BY DEF TypeOK
  <2> QED
    BY <2>1, <2>2, <2>3
<1>3. \A n : Fresh(c, n) => Fresh(c, n)'
  BY DEF Fresh
<1>4. ASSUME pc[c] \in {"read", "renew", "work"}, NEW i \in Slots,
             socket'[i] = fd[c], send'[i] = 1
      PROVE  \A m \in DOMAIN tried'[c] : tried'[c][m] < msg'[i].id
  <2>1. fd[c] # NoFd /\ socket[i] = fd[c]
    BY <1>1, <1>4
  <2>2. CASE send[i] = 1 /\ msg'[i] = msg[i]
    BY <1>4, <2>1, <2>2 DEF Sending, Fresh
  <2>3. CASE msg'[i].id > sends
    BY <1>2, <2>3 DEF Fresh
  <2> QED
    BY <1>4, <2>2, <2>3
<1>5. ASSUME pc[c] \in {"build", "send", "sent", "failed"}
      PROVE  slot'[c] \in Slots /\ \A i \in Slots : socket'[i] = fd'[c] => i = slot'[c]
  BY <1>1, <1>5 DEF Sending
<1>6. ASSUME pc[c] = "build", send'[slot[c]] = 1
      PROVE  \A m \in DOMAIN tried'[c] : tried'[c][m] < msg'[slot[c]].id
  <2>1. slot[c] \in Slots
    BY <1>6 DEF Sending
  <2>2. CASE send[slot[c]] = 1 /\ msg'[slot[c]] = msg[slot[c]]
    BY <1>6, <2>2 DEF Sending, Fresh
  <2>3. CASE msg'[slot[c]].id > sends
    BY <1>2, <2>1, <2>3 DEF Fresh
  <2> QED
    BY <1>6, <2>1, <2>2, <2>3
<1>7. /\ pc[c] = "send" => \A m \in DOMAIN tried'[c] : tried'[c][m] < txdata'[c]
      /\ pc[c] = "none" => tried'[c] = << >>
  BY DEF Sending, Fresh
<1> QED
  BY <1>4, <1>5, <1>6, <1>7 DEF Sending, Fresh

(* What the timer, the application and the browsers do.                      *)
LEMMA WorldOrder ==
    ASSUME TypeOK, TypeOK', OwnInv, OrderInv,
           \/ ws_alive \/ Stop \/ UNCHANGED vars
           \/ \E c \in Conns : PeerGone(c)
    PROVE  OrderInv'
<1> USE DEF table, local, world
<1>1. /\ UNCHANGED <<pc, fd, slot, txdata, tried, send, msg, sends>>
      /\ \A i \in Slots : socket'[i] # NoFd => socket'[i] = socket[i]
  BY DEF ws_alive, Tick, Look, CountDown, Who, Remove, remove_socket, Stop, vars, PeerGone, TypeOK
<1>2. Past'
  BY <1>1 DEF OrderInv, Past
<1>3. Distinct'
  BY <1>1 DEF OrderInv, Distinct
<1>4. ASSUME NEW c \in Conns PROVE Sending(c)'
  <2>1. Sending(c) /\ Past
    BY DEF OrderInv
  <2> QED
    BY <1>1, <2>1, SendingKept
<1>5. InOrder'
  BY <1>1 DEF OrderInv, InOrder
<1> QED
  BY <1>2, <1>3, <1>4, <1>5 DEF OrderInv

LEMMA SendOrder ==
    ASSUME TypeOK, TypeOK', OwnInv, OrderInv, NEW len \in Lengths, ws_send(len)
    PROVE  OrderInv'
<1> USE DEF local
<1>0. sends \in Nat /\ sends' = sends + 1
  BY DEF ws_send, TypeOK
<1>1. /\ UNCHANGED <<socket, pc, fd, slot, txdata, tried>>
      /\ \A i \in Slots : \/ msg'[i] = msg[i] /\ send'[i] = send[i]
                          \/ msg'[i].id = sends + 1
  BY DEF ws_send, Message
<1>2. Past'
  <2>1. \A i \in Slots : msg'[i].id <= sends'
    <3> TAKE i \in Slots
    <3>1. msg[i].id <= sends /\ msg[i].id \in Nat
      BY DEF OrderInv, Past, TypeOK
    <3> QED
      BY <1>0, <1>1, <3>1
  <2>2. \A c \in Conns : \A m \in DOMAIN tried'[c] : tried'[c][m] <= sends'
    <3> TAKE c \in Conns
    <3> TAKE m \in DOMAIN tried'[c]
    <3>1. tried[c][m] <= sends /\ tried[c][m] \in Nat
      BY <1>1 DEF OrderInv, Past, TypeOK
    <3> QED
      BY <1>0, <1>1, <3>1
  <2>3. \A c \in Conns : pc'[c] = "send" => txdata'[c] <= sends'
    <3> SUFFICES ASSUME NEW c \in Conns, pc'[c] = "send" PROVE txdata'[c] <= sends'
      OBVIOUS
    <3>1. txdata[c] <= sends /\ txdata[c] \in Nat
      BY <1>1 DEF OrderInv, Past, TypeOK
    <3> QED
      BY <1>0, <1>1, <3>1
  <2> QED
    BY <2>1, <2>2, <2>3 DEF Past
<1>3. Distinct'
  BY <1>1 DEF OrderInv, Distinct
<1>4. ASSUME NEW c \in Conns PROVE Sending(c)'
  <2>1. Sending(c) /\ Past
    BY DEF OrderInv
  <2>2. \A i \in Slots : send'[i] = 1 => \/ send[i] = 1 /\ msg'[i] = msg[i]
                                         \/ msg'[i].id > sends
    BY <1>0, <1>1
  <2> QED
    BY <1>1, <2>1, <2>2, SendingKept
<1>5. InOrder'
  BY <1>1 DEF OrderInv, InOrder
<1> QED
  BY <1>2, <1>3, <1>4, <1>5 DEF OrderInv

(* The steps of a connection that neither send nor touch a flag.             *)
LEMMA QuietOrder ==
    ASSUME TypeOK, TypeOK', OwnInv, OrderInv, NEW c \in Conns,
           \/ Accept(c) \/ OnMessage(c) \/ NoData(c) \/ Renew(c) \/ Work(c)
           \/ OnClose(c) \/ CloseFd(c) \/ Quit(c)
    PROVE  OrderInv'
<1> USE DEF table, local, world, timer
<1>1. /\ UNCHANGED <<send, msg, tried, sends>>
      /\ \A i \in Slots : socket'[i] # NoFd => socket'[i] = socket[i]
      /\ pc[c] # "build" /\ pc[c] # "send" /\ pc[c] # "sent" /\ pc[c] # "failed"
      /\ pc'[c] # "send" /\ pc'[c] # "sent" /\ pc'[c] # "failed" /\ pc'[c] # "none"
      /\ \A d \in Conns : d # c => /\ pc'[d] = pc[d] /\ fd'[d] = fd[d]
                                   /\ slot'[d] = slot[d] /\ txdata'[d] = txdata[d]
  <2> USE DEF Goto, TypeOK
  <2>1. CASE Accept(c)
    BY <2>1 DEF Accept
  <2>2. CASE OnMessage(c)
    BY <2>2 DEF OnMessage, Reading
  <2>3. CASE NoData(c)
    BY <2>3 DEF NoData, Reading
  <2>4. CASE Renew(c)
    BY <2>4 DEF Renew, Forget
  <2>5. CASE Work(c)
    BY <2>5 DEF Work
  <2>6. CASE OnClose(c)
    BY <2>6 DEF OnClose, remove_socket
  <2>7. CASE CloseFd(c) \/ Quit(c)
    BY <2>7 DEF CloseFd, Quit
  <2> QED
    BY <2>1, <2>2, <2>3, <2>4, <2>5, <2>6, <2>7
<1>2. Past'
  BY <1>1 DEF OrderInv, Past
<1>3. Distinct'
  BY <1>1 DEF OrderInv, Distinct
<1>4. ASSUME NEW d \in Conns, d # c PROVE Sending(d)'
  <2>1. Sending(d) /\ Past /\ tried'[d] = tried[d]
    BY <1>1 DEF OrderInv
  <2> QED
    BY <1>1, <1>4, <2>1, SendingKept
<1>5. Sending(c)'
  <2>0. Sending(c)
    BY DEF OrderInv
  <2>1. CASE Accept(c)
    <3>1. tried'[c] = << >> /\ pc'[c] = "read"
      BY <1>1, <2>0, <2>1 DEF Accept, Goto, Sending, TypeOK
    <3> QED
      BY <3>1 DEF Sending, Fresh
  <2>2. CASE OnMessage(c) \/ Renew(c)
    <3>1. /\ pc[c] \in {"read", "renew"} /\ pc'[c] \in {"read", "renew"}
          /\ UNCHANGED <<fd, socket>>
      BY <2>2 DEF OnMessage, Renew, Reading, Goto, TypeOK
    <3> QED
      BY <1>1, <2>0, <3>1 DEF Sending, Fresh
  <2>3. CASE NoData(c)
    <3>1. /\ pc[c] = "read" /\ pc'[c] \in {"work", "close"}
          /\ UNCHANGED <<fd, socket>>
      BY <2>3 DEF NoData, Reading, Goto, TypeOK
    <3> QED
      BY <1>1, <2>0, <3>1 DEF Sending, Fresh
  <2>4. CASE Work(c)
    <3>1. /\ pc[c] = "work" /\ UNCHANGED <<fd, socket>> /\ slot'[c] = Find(fd[c])
          /\ pc'[c] = IF Find(fd[c]) = NoSlot THEN "read" ELSE "build"
      BY <2>4 DEF Work, Goto, TypeOK
    <3>2. fd[c] # NoFd
      BY <3>1 DEF OwnInv, Opened
    <3>3. CASE Find(fd[c]) = NoSlot
      BY <1>1, <2>0, <3>1, <3>3 DEF Sending, Fresh
    <3>4. CASE Find(fd[c]) # NoSlot
      <4>1. Find(fd[c]) \in Slots /\ socket[Find(fd[c])] = fd[c]
        BY <3>4, FindFinds
      <4>2. \A i \in Slots : socket[i] = fd[c] => i = Find(fd[c])
        BY <3>2, <4>1 DEF OrderInv, Distinct
      <4> QED
        BY <1>1, <2>0, <3>1, <3>4, <4>1, <4>2 DEF Sending, Fresh
    <3> QED
      BY <3>3, <3>4
  <2>5. CASE OnClose(c) \/ CloseFd(c) \/ Quit(c)
    <3>1. pc'[c] \in {"closefd", "done"}
      BY <2>5 DEF OnClose, CloseFd, Quit, Goto, TypeOK
    <3> QED
      BY <3>1 DEF Sending
  <2> QED
    BY <2>1, <2>2, <2>3, <2>4, <2>5
<1>6. InOrder'
  BY <1>1 DEF OrderInv, InOrder
<1> QED
  BY <1>2, <1>3, <1>4, <1>5, <1>6 DEF OrderInv

(* A new entry has nothing to send, and no other has its descriptor.         *)
LEMMA HandshakeOrder ==
    ASSUME TypeOK, TypeOK', OwnInv, OrderInv, NEW c \in Conns, Handshake(c)
    PROVE  OrderInv'
<1> USE DEF world, timer
<1>1. /\ ~handshaked[c] /\ pc[c] = "read" /\ keeprunning
      /\ UNCHANGED <<pc, fd, slot, txdata, tried, sends>>
  BY DEF Handshake, Reading
<1>2. fd[c] # NoFd /\ \A d \in Conns : d # c => fd[d] # fd[c]
  BY <1>1 DEF OwnInv, Opened, Apart
<1>3. \A i \in Slots : socket[i] # fd[c]
  <2> SUFFICES ASSUME NEW i \in Slots, socket[i] = fd[c] PROVE FALSE
    OBVIOUS
  <2>1. Held(i)
    BY <1>1, <1>2 DEF OwnInv, Holding
  <2> QED
    BY <1>1, <1>2, <2>1 DEF Held
<1>4. /\ msg' = msg
      /\ \A i \in Slots : send'[i] = 1 => send[i] = 1
      /\ \/ socket' = socket
         \/ \E i \in Slots : socket' = [socket EXCEPT ![i] = fd[c]] /\ send'[i] = 0
  BY FindFinds DEF Handshake, insert_socket, table, TypeOK
<1>5. Past'
  BY <1>1, <1>4 DEF OrderInv, Past
<1>6. Distinct'
  <2>1. CASE socket' = socket
    BY <2>1 DEF OrderInv, Distinct
  <2>2. ASSUME NEW k \in Slots, socket' = [socket EXCEPT ![k] = fd[c]] PROVE Distinct'
    BY <1>3, <2>2 DEF OrderInv, Distinct, TypeOK
  <2> QED
    BY <1>4, <2>1, <2>2
<1>7. ASSUME NEW d \in Conns, d # c PROVE Sending(d)'
  <2>1. Sending(d) /\ Past
    BY DEF OrderInv
  <2>2. \A i \in Slots : socket'[i] = fd[d] => socket[i] = fd[d]
    BY <1>2, <1>4, <1>7 DEF TypeOK
  <2> QED
    BY <1>1, <1>4, <2>1, <2>2, SendingKept
<1>8. Sending(c)'
  <2>1. \A i \in Slots : socket'[i] = fd[c] => send'[i] = 0 \/ socket[i] = fd[c]
    BY <1>4 DEF TypeOK
  <2>2. \A i \in Slots : ~(socket'[i] = fd'[c] /\ send'[i] = 1)
    BY <1>1, <1>3, <2>1
  <2> QED
    BY <1>1, <2>2 DEF Sending
<1>9. InOrder'
  BY <1>1 DEF OrderInv, InOrder
<1> QED
  BY <1>5, <1>6, <1>7, <1>8, <1>9 DEF OrderInv

(* What a thread takes from a slot is newer than what it has sent.           *)
LEMMA BuildOrder ==
    ASSUME TypeOK, TypeOK', OwnInv, OrderInv, NEW c \in Conns, Build(c)
    PROVE  OrderInv'
<1> USE DEF table, local, world, timer
<1> DEFINE i == slot[c]
<1>1. /\ UNCHANGED <<socket, send, msg, fd, tried, sends>> /\ pc[c] = "build"
      /\ \A d \in Conns : d # c => /\ pc'[d] = pc[d]
                                   /\ slot'[d] = slot[d] /\ txdata'[d] = txdata[d]
  BY DEF Build, Forget, Goto, TypeOK
<1>2. /\ i \in Slots /\ \A k \in Slots : socket[k] = fd[c] => k = i
      /\ send[i] = 1 => Fresh(c, msg[i].id)
  BY <1>1 DEF OrderInv, Sending
<1>3. \/ send[i] = 1 /\ txdata'[c] = msg[i].id /\ pc'[c] = "send" /\ slot'[c] = i
      \/ pc'[c] = "read"
  BY DEF Build, Goto, TypeOK
<1>4. Past'
  <2>1. \A d \in Conns : pc'[d] = "send" => txdata'[d] <= sends
    BY <1>1, <1>2, <1>3 DEF OrderInv, Past
  <2> QED
    BY <1>1, <2>1 DEF OrderInv, Past
<1>5. Distinct'
  BY <1>1 DEF OrderInv, Distinct
<1>6. ASSUME NEW d \in Conns, d # c PROVE Sending(d)'
  <2>1. Sending(d) /\ Past
    BY DEF OrderInv
  <2> QED
    BY <1>1, <1>6, <2>1, SendingKept
<1>7. Sending(c)'
  <2>1. CASE send[i] = 1 /\ txdata'[c] = msg[i].id /\ pc'[c] = "send" /\ slot'[c] = i
    BY <1>1, <1>2, <2>1 DEF Sending, Fresh
  <2>2. CASE pc'[c] = "read"
    BY <1>1, <1>2, <2>2 DEF Sending, Fresh
  <2> QED
    BY <1>3, <2>1, <2>2
<1>8. InOrder'
  BY <1>1 DEF OrderInv, InOrder
<1> QED
  BY <1>4, <1>5, <1>6, <1>7, <1>8 DEF OrderInv

LEMMA FrameOrder ==
    ASSUME TypeOK, TypeOK', OwnInv, OrderInv, NEW c \in Conns, SendFrame(c)
    PROVE  OrderInv'
<1> USE DEF table, local, world, timer
<1>1. /\ UNCHANGED <<socket, send, msg, fd, sends, slot, txdata>>
      /\ pc[c] = "send" /\ pc'[c] \in {"sent", "failed"}
      /\ tried' = [tried EXCEPT ![c] = Append(@, txdata[c])]
      /\ \A d \in Conns : d # c => pc'[d] = pc[d] /\ tried'[d] = tried[d]
  BY DEF SendFrame, Goto, TypeOK
<1>2. /\ Fresh(c, txdata[c]) /\ txdata[c] <= sends
      /\ slot[c] \in Slots /\ \A k \in Slots : socket[k] = fd[c] => k = slot[c]
  BY <1>1 DEF OrderInv, Sending, Past
<1>3. /\ tried[c] \in Seq(Nat) /\ txdata[c] \in Nat
      /\ tried'[c] = Append(tried[c], txdata[c])
  BY <1>1 DEF TypeOK
<1>4. /\ DOMAIN tried'[c] = DOMAIN tried[c] \cup {Len(tried[c]) + 1}
      /\ \A m \in DOMAIN tried[c] : /\ tried'[c][m] = tried[c][m]
                                    /\ m \in Nat /\ m < Len(tried[c]) + 1
      /\ tried'[c][Len(tried[c]) + 1] = txdata[c]
  BY <1>3
<1>5. Past'
  <2>1. \A d \in Conns : \A m \in DOMAIN tried'[d] : tried'[d][m] <= sends
    BY <1>1, <1>2, <1>4 DEF OrderInv, Past
  <2>2. \A d \in Conns : pc'[d] = "send" => txdata[d] <= sends
    BY <1>1 DEF OrderInv, Past
  <2> QED
    BY <1>1, <2>1, <2>2 DEF OrderInv, Past
<1>6. Distinct'
  BY <1>1 DEF OrderInv, Distinct
<1>7. ASSUME NEW d \in Conns, d # c PROVE Sending(d)'
  <2>1. Sending(d) /\ Past
    BY DEF OrderInv
  <2> QED
    BY <1>1, <1>7, <2>1, SendingKept
<1>8. Sending(c)'
  BY <1>1, <1>2 DEF Sending
<1>9. InOrder'
  <2> SUFFICES ASSUME NEW d \in Conns, NEW m \in DOMAIN tried'[d], NEW n \in DOMAIN tried'[d],
                      m < n
               PROVE  tried'[d][m] < tried'[d][n]
    BY DEF InOrder
  <2>1. CASE d # c
    BY <1>1, <2>1 DEF OrderInv, InOrder
  <2>2. CASE d = c /\ n \in DOMAIN tried[c]
    <3>1. m \in DOMAIN tried[c]
      BY <1>3, <1>4, <2>2
    <3> QED
      BY <1>4, <2>2, <3>1 DEF OrderInv, InOrder
  <2>3. CASE d = c /\ n = Len(tried[c]) + 1
    <3>1. m \in DOMAIN tried[c]
      BY <1>3, <1>4, <2>3
    <3> QED
      BY <1>2, <1>4, <2>3, <3>1 DEF Fresh
  <2> QED
    BY <1>4, <2>1, <2>2, <2>3
<1> QED
  BY <1>5, <1>6, <1>7, <1>8, <1>9 DEF OrderInv

LEMMA SentOrder ==
    ASSUME TypeOK, TypeOK', OwnInv, OrderInv, NEW c \in Conns, Sent(c)
    PROVE  OrderInv'
<1> USE DEF table, local, world, timer
<1>1. /\ UNCHANGED <<socket, msg, fd, tried, sends>>
      /\ pc[c] \in {"sent", "failed"} /\ pc'[c] \in {"read", "close"}
      /\ send' = [send EXCEPT ![slot[c]] = 0]
      /\ \A d \in Conns : d # c => /\ pc'[d] = pc[d]
                                   /\ slot'[d] = slot[d] /\ txdata'[d] = txdata[d]
  BY DEF Sent, Forget, Goto, TypeOK
<1>2. slot[c] \in Slots /\ \A k \in Slots : socket[k] = fd[c] => k = slot[c]
  BY <1>1 DEF OrderInv, Sending
<1>3. send'[slot[c]] = 0 /\ \A k \in Slots : send'[k] = 1 => send[k] = 1
  BY <1>1, <1>2 DEF TypeOK
<1>4. Past'
  BY <1>1 DEF OrderInv, Past
<1>5. Distinct'
  BY <1>1 DEF OrderInv, Distinct
<1>6. ASSUME NEW d \in Conns, d # c PROVE Sending(d)'
  <2>1. Sending(d) /\ Past
    BY DEF OrderInv
  <2> QED
    BY <1>1, <1>3, <1>6, <2>1, SendingKept
<1>7. Sending(c)'
  <2>1. \A k \in Slots : ~(socket'[k] = fd'[c] /\ send'[k] = 1)
    BY <1>1, <1>2, <1>3
  <2> QED
    BY <1>1, <2>1 DEF Sending
<1>8. InOrder'
  BY <1>1 DEF OrderInv, InOrder
<1> QED
  BY <1>4, <1>5, <1>6, <1>7, <1>8 DEF OrderInv

LEMMA NextOrder == TypeOK /\ TypeOK' /\ OwnInv /\ OrderInv /\ [Next]_vars => OrderInv'
<1> SUFFICES ASSUME TypeOK, TypeOK', OwnInv, OrderInv, [Next]_vars PROVE OrderInv'
  OBVIOUS
<1>1. ASSUME NEW c \in Conns,
             \/ Accept(c) \/ Handshake(c) \/ OnMessage(c)
             \/ NoData(c) \/ Going(c)
      PROVE  OrderInv'
  BY <1>1, QuietOrder, HandshakeOrder, BuildOrder, FrameOrder, SentOrder DEF Going
<1>2. ASSUME NEW len \in Lengths, ws_send(len) PROVE OrderInv'
  BY <1>2, SendOrder
<1>3. ASSUME \/ ws_alive \/ Stop \/ UNCHANGED vars
             \/ \E c \in Conns : PeerGone(c)
      PROVE  OrderInv'
  BY <1>3, WorldOrder
<1> QED
  BY <1>1, <1>2, <1>3 DEF Next

(* Every browser gets its messages in the order of the calls of ws_send and  *)
(* none twice, for any number of browsers, slots, descriptors and calls, and *)
(* although flags are cleared and slots given away while a message is sent.  *)
THEOREM OrderCorrect == Spec => []InOrder
<1>1. Init => OwnInv /\ OrderInv
  BY InitTypes, InitOwned, InitOrder
<1>2. TypeOK /\ TypeOK' /\ OwnInv /\ OrderInv /\ [Next]_vars => (OwnInv /\ OrderInv)'
  BY NextOwned, NextOrder
<1>3. OrderInv => InOrder
  BY DEF OrderInv
<1> QED
  BY <1>1, <1>2, <1>3, TypeCorrect, PTL DEF Spec

-----------------------------------------------------------------------------
(* Induction, and parts of sequences                                         *)

(* Induction, for a set of numbers.                                          *)
LEMMA Upwards ==
    ASSUME NEW N \in Nat, NEW T, 0 \in T, \A n \in 1 .. N : n - 1 \in T => n \in T
    PROVE  \A n \in 0 .. N : n \in T
<1> DEFINE U == {n \in 0 .. N : n \notin T}
<1>1. SUFFICES ASSUME U # {} PROVE FALSE
  OBVIOUS
<1>2. U \subseteq Nat
  OBVIOUS
<1>3. PICK n \in U : \A m \in U : n <= m
  <2> HIDE DEF U
  <2> QED
    BY <1>1, <1>2, Least
<1>4. n \in 1 .. N
  BY <1>3
<1>5. n - 1 \in 0 .. N /\ ~(n <= n - 1)
  BY <1>4
<1>6. n - 1 \in T
  BY <1>3, <1>5
<1> QED
  BY <1>3, <1>4, <1>6

(* A function that is defined step by step.                                  *)
Steps(g, N, a, F) == g[0] = a /\ \A n \in 1 .. N : g[n] = F[<<n, g[n - 1]>>]

LEMMA Longer ==
    ASSUME NEW S, NEW a \in S, NEW m \in Nat \ {0}, NEW F \in [(1 .. m) \X S -> S],
           NEW g \in [0 .. m - 1 -> S], Steps(g, m - 1, a, F)
    PROVE  \E h \in [0 .. m -> S] : Steps(h, m, a, F)
<1> DEFINE last == F[<<m, g[m - 1]>>]
           h == [i \in 0 .. m |-> IF i = m THEN last ELSE g[i]]
<1>1. g[m - 1] \in S
  OBVIOUS
<1>2. last \in S
  <2>1. <<m, g[m - 1]>> \in (1 .. m) \X S
    BY <1>1
  <2> QED
    BY <2>1
<1> HIDE DEF last
<1>3. h \in [0 .. m -> S]
  <2>1. \A i \in 0 .. m : i # m => i \in 0 .. m - 1
    OBVIOUS
  <2>2. \A i \in 0 .. m : (IF i = m THEN last ELSE g[i]) \in S
    BY <1>2, <2>1
  <2> QED
    BY <2>2
<1>4. h[m] = last /\ \A i \in 0 .. m - 1 : h[i] = g[i]
  OBVIOUS
<1> HIDE DEF h
<1>5. h[0] = a
  BY <1>4 DEF Steps
<1>6. ASSUME NEW n \in 1 .. m PROVE h[n] = F[<<n, h[n - 1]>>]
  <2>1. n - 1 \in 0 .. m - 1
    OBVIOUS
  <2>2. h[n - 1] = g[n - 1]
    BY <1>4, <2>1
  <2>3. CASE n = m
    BY <1>4, <2>2, <2>3 DEF last
  <2>4. CASE n # m
    <3>1. n \in 1 .. m - 1 /\ n \in 0 .. m - 1
      BY <2>4
    <3>2. g[n] = F[<<n, g[n - 1]>>]
      BY <3>1 DEF Steps
    <3> QED
      BY <1>4, <2>2, <3>1, <3>2
  <2> QED
    BY <2>3, <2>4
<1>7. Steps(h, m, a, F)
  BY <1>5, <1>6 DEF Steps
<1> QED
  BY <1>3, <1>7

LEMMA Recursion ==
    ASSUME NEW N \in Nat, NEW S, NEW a \in S, NEW F \in [(1 .. N) \X S -> S]
    PROVE  \E g \in [0 .. N -> S] : Steps(g, N, a, F)
<1> DEFINE T == {m \in 0 .. N : \E g \in [0 .. m -> S] : Steps(g, m, a, F)}
<1>1. 0 \in T
  <2> DEFINE g == [i \in 0 .. 0 |-> a]
  <2>1. g \in [0 .. 0 -> S]
    OBVIOUS
  <2>2. g[0] = a /\ 1 .. 0 = {}
    OBVIOUS
  <2> HIDE DEF g
  <2>3. Steps(g, 0, a, F)
    BY <2>2 DEF Steps
  <2> QED BY <2>1, <2>3
<1>2. ASSUME NEW m \in 1 .. N, m - 1 \in T PROVE m \in T
  <2>0. PICK g \in [0 .. m - 1 -> S] : Steps(g, m - 1, a, F)
    BY <1>2
  <2> DEFINE G == [x \in (1 .. m) \X S |-> F[x]]
  <2>1. \A i \in 1 .. m, y \in S : <<i, y>> \in (1 .. N) \X S /\ <<i, y>> \in (1 .. m) \X S
    OBVIOUS
  <2>2. G \in [(1 .. m) \X S -> S]
    <3>1. (1 .. m) \X S \subseteq (1 .. N) \X S
      OBVIOUS
    <3> QED
      BY <3>1
  <2>3. \A i \in 1 .. m, y \in S : G[<<i, y>>] = F[<<i, y>>]
    BY <2>1
  <2> HIDE DEF G
  <2>4. Steps(g, m - 1, a, G)
    <3>1. \A i \in 1 .. m - 1 : g[i] = F[<<i, g[i - 1]>>] /\ i \in 1 .. m /\ g[i - 1] \in S
      BY <2>0 DEF Steps
    <3>2. \A i \in 1 .. m - 1 : g[i] = G[<<i, g[i - 1]>>]
      BY <2>3, <3>1
    <3> QED
      BY <2>0, <3>2 DEF Steps
  <2>5. m \in Nat \ {0}
    OBVIOUS
  <2>6. PICK h \in [0 .. m -> S] : Steps(h, m, a, G)
    BY <2>0, <2>2, <2>4, <2>5, Longer
  <2>7. Steps(h, m, a, F)
    <3>1. \A i \in 1 .. m : h[i] = G[<<i, h[i - 1]>>] /\ h[i - 1] \in S
      BY <2>6 DEF Steps
    <3>2. \A i \in 1 .. m : h[i] = F[<<i, h[i - 1]>>]
      BY <2>3, <3>1
    <3> QED
      BY <2>6, <3>2 DEF Steps
  <2>8. m \in 0 .. N
    OBVIOUS
  <2> QED
    BY <2>6, <2>7, <2>8
<1>3. N \in T
  <2> HIDE DEF T
  <2>1. \A m \in 0 .. N : m \in T
    BY <1>1, <1>2, Upwards
  <2> QED
    BY <2>1
<1> QED
  BY <1>3

(* The elements of one sequence behind another.                              *)
Join(S, u, s, m, t, n) ==
    /\ u \in Seq(S) /\ Len(u) = m + n
    /\ \A i \in 1 .. m : u[i] = s[i]
    /\ \A j \in 1 .. n : u[m + j] = t[j]

LEMMA Joined ==
    ASSUME NEW S, NEW s \in Seq(S), NEW t \in Seq(S), NEW m \in Nat, m = Len(s),
           NEW n \in Nat, n = Len(t), NEW u, u = s \o t
    PROVE  Join(S, u, s, m, t, n)
<1>1. /\ u \in Seq(S) /\ Len(u) = m + n
      /\ \A i \in 1 .. m + n : u[i] = IF i <= m THEN s[i] ELSE t[i - m]
  BY ConcatProperties
<1>2. \A i \in 1 .. m : i \in 1 .. m + n /\ i <= m
  OBVIOUS
<1>3. \A j \in 1 .. n : m + j \in 1 .. m + n /\ ~(m + j <= m) /\ m + j - m = j
  OBVIOUS
<1>4. \A i \in 1 .. m : u[i] = s[i]
  BY <1>1, <1>2, Zenon
<1>5. ASSUME NEW j \in 1 .. n PROVE u[m + j] = t[j]
  <2> DEFINE i == m + j
  <2>1. i \in 1 .. m + n /\ ~(i <= m) /\ i - m = j
    BY <1>3
  <2> HIDE DEF i
  <2>2. u[i] = t[i - m]
    BY <1>1, <2>1
  <2> QED
    BY <2>1, <2>2 DEF i
<1> QED
  BY <1>1, <1>4, <1>5 DEF Join

(* Part of a sequence.                                                       *)
Slice(S, b, s, m, n) ==
    /\ b \in Seq(S) /\ Len(b) = n - m + 1
    /\ \A i \in 1 .. n - m + 1 : b[i] = s[m + i - 1]

LEMMA SliceOf ==
    ASSUME NEW S, NEW s, NEW m \in Nat, NEW n \in Nat, m <= n, \A i \in m .. n : s[i] \in S
    PROVE  Slice(S, SubSeq(s, m, n), s, m, n)
<1>1. m \in Int /\ n \in Int
  OBVIOUS
<1>2. /\ SubSeq(s, m, n) \in Seq(S)
      /\ Len(SubSeq(s, m, n)) = (IF m <= n THEN n - m + 1 ELSE 0)
      /\ \A i \in 1 .. n - m + 1 : SubSeq(s, m, n)[i] = s[m + i - 1]
  BY <1>1, SubSeqProperties
<1>3. Len(SubSeq(s, m, n)) = n - m + 1
  BY <1>2
<1> QED
  BY <1>2, <1>3, Zenon DEF Slice

-----------------------------------------------------------------------------
(* Frames                                                                    *)

(* The bits of a byte.                                                       *)
IsBits(n, n0, n1, n2, n3, n4, n5, n6, n7) ==
    /\ n0 \in 0 .. 1 /\ n1 \in 0 .. 1 /\ n2 \in 0 .. 1 /\ n3 \in 0 .. 1
    /\ n4 \in 0 .. 1 /\ n5 \in 0 .. 1 /\ n6 \in 0 .. 1 /\ n7 \in 0 .. 1
    /\ n = n0 + 2 * n1 + 4 * n2 + 8 * n3 + 16 * n4 + 32 * n5 + 64 * n6 + 128 * n7

LEMMA BitsOf ==
    ASSUME NEW n \in Octet
    PROVE  \E n0, n1, n2, n3, n4, n5, n6, n7 \in Int : IsBits(n, n0, n1, n2, n3, n4, n5, n6, n7)
<1>1. IsBits(n, n % 2, (n \div 2) % 2, (n \div 4) % 2, (n \div 8) % 2, (n \div 16) % 2,
             (n \div 32) % 2, (n \div 64) % 2, (n \div 128) % 2)
  BY SMT DEF IsBits, Octet
<1>2. /\ n % 2 \in Int /\ (n \div 2) % 2 \in Int /\ (n \div 4) % 2 \in Int /\ (n \div 8) % 2 \in Int
      /\ (n \div 16) % 2 \in Int /\ (n \div 32) % 2 \in Int /\ (n \div 64) % 2 \in Int
      /\ (n \div 128) % 2 \in Int
  BY SMT DEF Octet
<1> QED
  BY <1>1, <1>2, Zenon

LEMMA BitsOdd ==
    ASSUME NEW n, NEW n0, NEW n1, NEW n2, NEW n3, NEW n4, NEW n5, NEW n6, NEW n7,
           IsBits(n, n0, n1, n2, n3, n4, n5, n6, n7)
    PROVE  /\ n \div 1 = n0 + 2 * (n1 + 2 * n2 + 4 * n3 + 8 * n4 + 16 * n5 + 32 * n6 + 64 * n7)
           /\ n \div 2 = n1 + 2 * (n2 + 2 * n3 + 4 * n4 + 8 * n5 + 16 * n6 + 32 * n7)
           /\ n \div 4 = n2 + 2 * (n3 + 2 * n4 + 4 * n5 + 8 * n6 + 16 * n7)
           /\ n \div 8 = n3 + 2 * (n4 + 2 * n5 + 4 * n6 + 8 * n7)
           /\ n \div 16 = n4 + 2 * (n5 + 2 * n6 + 4 * n7)
           /\ n \div 32 = n5 + 2 * (n6 + 2 * n7)
           /\ n \div 64 = n6 + 2 * n7
           /\ n \div 128 = n7
BY SMT DEF IsBits

(* Exclusive or adds bits modulo 2.                                          *)
LEMMA XorBits ==
    ASSUME NEW a, NEW a0, NEW a1, NEW a2, NEW a3, NEW a4, NEW a5, NEW a6, NEW a7,
           NEW b, NEW b0, NEW b1, NEW b2, NEW b3, NEW b4, NEW b5, NEW b6, NEW b7,
           IsBits(a, a0, a1, a2, a3, a4, a5, a6, a7), IsBits(b, b0, b1, b2, b3, b4, b5, b6, b7)
    PROVE  IsBits(Frames!Xor(a, b), (a0 + b0) % 2, (a1 + b1) % 2, (a2 + b2) % 2, (a3 + b3) % 2,
                  (a4 + b4) % 2, (a5 + b5) % 2, (a6 + b6) % 2, (a7 + b7) % 2)
<1>a. /\ a0 \in 0 .. 1 /\ a1 \in 0 .. 1 /\ a2 \in 0 .. 1 /\ a3 \in 0 .. 1
      /\ a4 \in 0 .. 1 /\ a5 \in 0 .. 1 /\ a6 \in 0 .. 1 /\ a7 \in 0 .. 1
  BY DEF IsBits
<1>b. /\ b0 \in 0 .. 1 /\ b1 \in 0 .. 1 /\ b2 \in 0 .. 1 /\ b3 \in 0 .. 1
      /\ b4 \in 0 .. 1 /\ b5 \in 0 .. 1 /\ b6 \in 0 .. 1 /\ b7 \in 0 .. 1
  BY DEF IsBits
<1>c. ASSUME NEW x \in 0 .. 1, NEW y \in 0 .. 1, NEW p \in Int, NEW q \in Int
      PROVE  (x + 2 * p + (y + 2 * q)) % 2 = (x + y) % 2
  BY SMT
<1>0. (a \div 1 + b \div 1) % 2 = (a0 + b0) % 2
  <2> DEFINE p == a1 + 2 * a2 + 4 * a3 + 8 * a4 + 16 * a5 + 32 * a6 + 64 * a7
             q == b1 + 2 * b2 + 4 * b3 + 8 * b4 + 16 * b5 + 32 * b6 + 64 * b7
  <2>1. a \div 1 = a0 + 2 * p /\ b \div 1 = b0 + 2 * q
    BY BitsOdd, SMT
  <2>2. p \in Int /\ q \in Int
    BY <1>a, <1>b
  <2> HIDE DEF p, q
  <2>3. (a0 + 2 * p + (b0 + 2 * q)) % 2 = (a0 + b0) % 2
    BY <1>a, <1>b, <2>2, SMT
  <2> QED
    BY <2>1, <2>3, Zenon
<1>1. (a \div 2 + b \div 2) % 2 = (a1 + b1) % 2
  BY BitsOdd, <1>a, <1>b, <1>c, SMT
<1>2. (a \div 4 + b \div 4) % 2 = (a2 + b2) % 2
  BY BitsOdd, <1>a, <1>b, <1>c, SMT
<1>3. (a \div 8 + b \div 8) % 2 = (a3 + b3) % 2
  BY BitsOdd, <1>a, <1>b, <1>c, SMT
<1>4. (a \div 16 + b \div 16) % 2 = (a4 + b4) % 2
  BY BitsOdd, <1>a, <1>b, <1>c, SMT
<1>5. (a \div 32 + b \div 32) % 2 = (a5 + b5) % 2
  BY BitsOdd, <1>a, <1>b, <1>c, SMT
<1>6. (a \div 64 + b \div 64) % 2 = (a6 + b6) % 2
  BY BitsOdd, <1>a, <1>b, <1>c, SMT
<1>7. (a \div 128 + b \div 128) % 2 = (a7 + b7) % 2
  <2>1. a \div 128 = a7 /\ b \div 128 = b7
    BY BitsOdd, SMT
  <2> QED
    BY <2>1, Zenon
<1>8. ASSUME NEW x \in 0 .. 1, NEW y \in 0 .. 1 PROVE (x + y) % 2 \in 0 .. 1
  BY SMT
<1>9. /\ (a0 + b0) % 2 \in 0 .. 1 /\ (a1 + b1) % 2 \in 0 .. 1 /\ (a2 + b2) % 2 \in 0 .. 1
      /\ (a3 + b3) % 2 \in 0 .. 1 /\ (a4 + b4) % 2 \in 0 .. 1 /\ (a5 + b5) % 2 \in 0 .. 1
      /\ (a6 + b6) % 2 \in 0 .. 1 /\ (a7 + b7) % 2 \in 0 .. 1
  BY <1>a, <1>b, <1>8, Zenon
<1>10. Frames!Xor(a, b) = 1 * ((a0 + b0) % 2) + 2 * ((a1 + b1) % 2) + 4 * ((a2 + b2) % 2)
           + 8 * ((a3 + b3) % 2) + 16 * ((a4 + b4) % 2) + 32 * ((a5 + b5) % 2)
           + 64 * ((a6 + b6) % 2) + 128 * ((a7 + b7) % 2)
  BY <1>0, <1>1, <1>2, <1>3, <1>4, <1>5, <1>6, <1>7 DEF Frames!Xor
<1> QED
  BY <1>9, <1>10, SMT DEF IsBits

(* A mask that is applied twice is gone.                                     *)
LEMMA XorTwice ==
    ASSUME NEW a \in Octet, NEW b \in Octet
    PROVE  Frames!Xor(Frames!Xor(a, b), b) = a
<1>1. PICK a0, a1, a2, a3, a4, a5, a6, a7 \in Int : IsBits(a, a0, a1, a2, a3, a4, a5, a6, a7)
  BY BitsOf
<1>2. PICK b0, b1, b2, b3, b4, b5, b6, b7 \in Int : IsBits(b, b0, b1, b2, b3, b4, b5, b6, b7)
  BY BitsOf
<1>3. IsBits(Frames!Xor(a, b), (a0 + b0) % 2, (a1 + b1) % 2, (a2 + b2) % 2, (a3 + b3) % 2,
             (a4 + b4) % 2, (a5 + b5) % 2, (a6 + b6) % 2, (a7 + b7) % 2)
  BY <1>1, <1>2, XorBits
<1>4. ASSUME NEW x \in 0 .. 1, NEW y \in 0 .. 1 PROVE (((x + y) % 2) + y) % 2 = x
  BY SMT
<1>5. IsBits(Frames!Xor(Frames!Xor(a, b), b),
             (((a0 + b0) % 2) + b0) % 2, (((a1 + b1) % 2) + b1) % 2, (((a2 + b2) % 2) + b2) % 2,
             (((a3 + b3) % 2) + b3) % 2, (((a4 + b4) % 2) + b4) % 2, (((a5 + b5) % 2) + b5) % 2,
             (((a6 + b6) % 2) + b6) % 2, (((a7 + b7) % 2) + b7) % 2)
  BY <1>2, <1>3, XorBits
<1>6. IsBits(Frames!Xor(Frames!Xor(a, b), b), a0, a1, a2, a3, a4, a5, a6, a7)
  <2>1. /\ a0 \in 0 .. 1 /\ a1 \in 0 .. 1 /\ a2 \in 0 .. 1 /\ a3 \in 0 .. 1
        /\ a4 \in 0 .. 1 /\ a5 \in 0 .. 1 /\ a6 \in 0 .. 1 /\ a7 \in 0 .. 1
    BY <1>1 DEF IsBits
  <2>2. /\ b0 \in 0 .. 1 /\ b1 \in 0 .. 1 /\ b2 \in 0 .. 1 /\ b3 \in 0 .. 1
        /\ b4 \in 0 .. 1 /\ b5 \in 0 .. 1 /\ b6 \in 0 .. 1 /\ b7 \in 0 .. 1
    BY <1>2 DEF IsBits
  <2>3. /\ (((a0 + b0) % 2) + b0) % 2 = a0 /\ (((a1 + b1) % 2) + b1) % 2 = a1
        /\ (((a2 + b2) % 2) + b2) % 2 = a2 /\ (((a3 + b3) % 2) + b3) % 2 = a3
        /\ (((a4 + b4) % 2) + b4) % 2 = a4 /\ (((a5 + b5) % 2) + b5) % 2 = a5
        /\ (((a6 + b6) % 2) + b6) % 2 = a6 /\ (((a7 + b7) % 2) + b7) % 2 = a7
    BY <1>4, <2>1, <2>2, Zenon
  <2> QED
    BY <1>5, <2>3, Zenon
<1> QED
  BY <1>1, <1>6, Zenon DEF IsBits

LEMMA XorOctet ==
    ASSUME NEW a \in Octet, NEW b \in Octet
    PROVE  Frames!Xor(a, b) \in Octet
<1>1. PICK a0, a1, a2, a3, a4, a5, a6, a7 \in Int : IsBits(a, a0, a1, a2, a3, a4, a5, a6, a7)
  BY BitsOf
<1>2. PICK b0, b1, b2, b3, b4, b5, b6, b7 \in Int : IsBits(b, b0, b1, b2, b3, b4, b5, b6, b7)
  BY BitsOf
<1>3. IsBits(Frames!Xor(a, b), (a0 + b0) % 2, (a1 + b1) % 2, (a2 + b2) % 2, (a3 + b3) % 2,
             (a4 + b4) % 2, (a5 + b5) % 2, (a6 + b6) % 2, (a7 + b7) % 2)
  BY <1>1, <1>2, XorBits
<1> QED
  BY <1>3, SMT DEF IsBits, Octet

LEMMA ByteOctet ==
    ASSUME NEW n \in Nat, NEW k \in 0 .. 7
    PROVE  Frames!Byte(n, k) \in Octet
<1>1. CASE k > 3
  BY <1>1 DEF Frames!Byte, Octet
<1>2. CASE k = 0
  BY <1>2, SMT DEF Frames!Byte, Octet
<1>3. CASE k = 1
  BY <1>3, SMT DEF Frames!Byte, Octet
<1>4. CASE k = 2
  BY <1>4, SMT DEF Frames!Byte, Octet
<1>5. CASE k = 3
  BY <1>5, SMT DEF Frames!Byte, Octet
<1> QED
  BY <1>1, <1>2, <1>3, <1>4, <1>5

OneMore(l, s, f) ==
    /\ l \in Seq(Octet) /\ Len(l) = Len(s) + Len(f)
    /\ Len(s) = 1 => l[1] = s[1] /\ \A i \in 1 .. Len(f) : l[1 + i] = f[i]

LEMMA LongField ==
    ASSUME NEW f, NEW s, NEW l, l = s \o f, f \in Seq(Octet), s \in Seq(Octet)
    PROVE  OneMore(l, s, f)
<1> DEFINE m == Len(s)
           k == Len(f)
<1>1. m \in Nat /\ k \in Nat /\ m = Len(s) /\ k = Len(f)
  OBVIOUS
<1> HIDE DEF m, k
<1>2. Join(Octet, l, s, m, f, k)
  BY <1>1, Joined, Zenon
<1>3. l \in Seq(Octet) /\ Len(l) = m + k
  BY <1>2, Zenon DEF Join
<1>4. /\ \A i \in 1 .. m : l[i] = s[i]
      /\ \A i \in 1 .. k : l[m + i] = f[i]
  BY <1>2, Zenon DEF Join
<1>5. ASSUME m = 1 PROVE l[1] = s[1] /\ \A i \in 1 .. k : l[1 + i] = f[i]
  <2>1. m \in Nat /\ 1 \in 1 .. m
    BY <1>1, <1>5
  <2>2. l[1] = s[1]
    BY <1>4, <2>1, Zenon
  <2>3. \A i \in 1 .. k : l[1 + i] = f[i]
    BY <1>4, <1>5, Zenon
  <2> QED
    BY <2>2, <2>3
<1> QED
  BY <1>3, <1>5 DEF m, k, OneMore

(* The eight bytes of a long length.                                         *)
LongForm(l, n) ==
    /\ l \in Seq(Octet) /\ Len(l) = 9 /\ l[1] = 127
    /\ \A i \in 1 .. 8 : l[1 + i] = Frames!Byte(n, 8 - i)

LEMMA LongLength ==
    ASSUME NEW n \in Nat
    PROVE  LongForm(<<127>> \o [i \in 1 .. 8 |-> Frames!Byte(n, 8 - i)], n)
<1> DEFINE f == [i \in 1 .. 8 |-> Frames!Byte(n, 8 - i)]
           s == <<127>>
           l == s \o f
<1>1. l = s \o f
  OBVIOUS
<1>2. f \in Seq(Octet) /\ Len(f) = 8
  <2>1. \A i \in 1 .. 8 : 8 - i \in 0 .. 7
    OBVIOUS
  <2>2. \A i \in 1 .. 8 : Frames!Byte(n, 8 - i) \in Octet
    BY <2>1, ByteOctet
  <2> QED
    BY <2>2
<1>3. \A i \in 1 .. 8 : f[i] = Frames!Byte(n, 8 - i)
  OBVIOUS
<1>4. s \in Seq(Octet) /\ Len(s) = 1 /\ s[1] = 127
  BY DEF Octet
<1> HIDE DEF f, l, s
<1>5. /\ l \in Seq(Octet) /\ Len(l) = 9 /\ l[1] = 127
      /\ \A i \in 1 .. 8 : l[1 + i] = f[i]
  <2>1. f \in Seq(Octet) /\ s \in Seq(Octet)
    BY <1>2, <1>4
  <2>2. OneMore(l, s, f)
    BY <1>1, <2>1, LongField, Zenon
  <2> QED
    BY <1>2, <1>4, <2>2 DEF OneMore
<1>6. \A i \in 1 .. 8 : l[1 + i] = Frames!Byte(n, 8 - i)
  BY <1>3, <1>5
<1> QED
  BY <1>5, <1>6 DEF l, f, s, LongForm

(* The length field: its first byte says how long it is.                     *)
LengthField(l, n) ==
    /\ l \in Seq(Octet) /\ l[1] \in 0 .. 127
    /\ l[1] = (IF n <= 125 THEN n ELSE IF n <= 65535 THEN 126 ELSE 127)
    /\ Len(l) = 1 + Frames!Extra(l[1])

LEMMA LengthForm ==
    ASSUME NEW n \in Nat
    PROVE  LengthField(Frames!Length(n), n)
<1> DEFINE l == Frames!Length(n)
<1>1. CASE n <= 125
  <2>1. n % 128 = n /\ n \in Octet
    BY <1>1, SMT DEF Octet
  <2>2. l = <<n>>
    BY <1>1, <2>1 DEF Frames!Length
  <2> HIDE DEF l
  <2>3. l \in Seq(Octet) /\ l[1] = n /\ Len(l) = 1
    BY <2>1, <2>2
  <2>4. Frames!Extra(n) = 0 /\ n \in 0 .. 127
    BY <1>1 DEF Frames!Extra
  <2> QED
    BY <1>1, <2>3, <2>4 DEF l, LengthField
<1>2. CASE n > 125 /\ n <= 65535
  <2>1. l = <<126, Frames!Byte(n, 1), Frames!Byte(n, 0)>>
    BY <1>2 DEF Frames!Length
  <2>2. 126 \in Octet /\ Frames!Byte(n, 1) \in Octet /\ Frames!Byte(n, 0) \in Octet
    BY ByteOctet DEF Octet
  <2> HIDE DEF l
  <2>3. l \in Seq(Octet) /\ l[1] = 126 /\ Len(l) = 3
    BY <2>1, <2>2
  <2>4. Frames!Extra(126) = 2
    BY DEF Frames!Extra
  <2> QED
    BY <1>2, <2>3, <2>4 DEF l, LengthField
<1>3. CASE n > 65535
  <2>0. l = <<127>> \o [i \in 1 .. 8 |-> Frames!Byte(n, 8 - i)]
    BY <1>3 DEF Frames!Length
  <2>a. LongForm(l, n)
    BY <2>0, LongLength
  <2>1. l \in Seq(Octet) /\ l[1] = 127 /\ Len(l) = 9
    BY <2>a DEF LongForm
  <2>2. Frames!Extra(127) = 8
    BY DEF Frames!Extra
  <2> HIDE DEF l
  <2> QED
    BY <1>3, <2>1, <2>2 DEF l, LengthField
<1> QED
  BY <1>1, <1>2, <1>3

(* What a browser sends, taken apart: the header, the mask, the masked text. *)
Parts(frame, form, m, mask, masked, n) ==
    /\ frame \in Seq(Int) /\ Len(frame) = m + 4 + n
    /\ frame[1] = 129 /\ frame[2] = form + 128
    /\ \A i \in 1 .. 4 : frame[m + i] = mask[i]
    /\ \A j \in 1 .. n : frame[m + 4 + j] = masked[j]

LEMMA PartsOf ==
    ASSUME NEW form \in 0 .. 127, NEW h \in Seq(Int), NEW k \in Nat \ {0}, k = Len(h),
           h[1] = form + 128, NEW mask \in Seq(Int), Len(mask) = 4, NEW n \in Nat,
           NEW masked \in Seq(Int), Len(masked) = n
    PROVE  Parts(<<129>> \o h \o mask \o masked, form, k + 1, mask, masked, n)
<1> DEFINE s == <<129>>
           u == s \o h
           v == u \o mask
           f == v \o masked
           m == k + 1
<1>1. s \in Seq(Int) /\ Len(s) = 1 /\ s[1] = 129 /\ 1 \in Nat /\ 4 \in Nat
  OBVIOUS
<1>2. m \in Nat /\ m >= 2 /\ m = 1 + k /\ m + 4 \in Nat /\ k \in Nat
  OBVIOUS
<1> HIDE DEF m, s
<1>3. Join(Int, u, s, 1, h, k)
  <2>1. s \in Seq(Int) /\ h \in Seq(Int) /\ 1 \in Nat /\ k \in Nat /\ 1 = Len(s) /\ k = Len(h)
    BY <1>1
  <2>2. u = s \o h
    OBVIOUS
  <2> HIDE DEF u
  <2> QED
    BY <2>1, <2>2, Joined, Zenon
<1> HIDE DEF u
<1>4. u \in Seq(Int) /\ Len(u) = m /\ u[1] = 129 /\ u[2] = form + 128
  <2>1. 1 \in 1 .. 1 /\ 1 \in 1 .. k /\ 1 + 1 = 2
    OBVIOUS
  <2>2. u[1 + 1] = h[1] /\ u[1] = s[1] /\ u \in Seq(Int) /\ Len(u) = 1 + k
    BY <1>3, <2>1, Zenon DEF Join
  <2>3. u[2] = h[1]
    BY <2>2
  <2> QED
    BY <1>1, <1>2, <2>2, <2>3
<1>5. Join(Int, v, u, m, mask, 4)
  <2>1. m \in Nat /\ m = Len(u) /\ 4 \in Nat /\ 4 = Len(mask) /\ u \in Seq(Int)
    BY <1>1, <1>2, <1>4
  <2> QED
    BY <2>1, Joined
<1> HIDE DEF v
<1>a. v \in Seq(Int) /\ Len(v) = m + 4
  BY <1>5, Zenon DEF Join
<1>6. Join(Int, f, v, m + 4, masked, n)
  BY <1>2, <1>a, Joined, Zenon
<1> HIDE DEF f
<1>7. /\ 1 \in 1 .. m /\ 2 \in 1 .. m /\ 1 \in 1 .. m + 4 /\ 2 \in 1 .. m + 4
      /\ \A i \in 1 .. 4 : m + i \in 1 .. m + 4
  BY <1>2
<1>8. f[1] = 129 /\ f[2] = form + 128
  <2>1. f[1] = v[1] /\ f[2] = v[2]
    BY <1>6, <1>7, Zenon DEF Join
  <2>2. v[1] = u[1] /\ v[2] = u[2]
    BY <1>5, <1>7, Zenon DEF Join
  <2> QED
    BY <1>4, <2>1, <2>2
<1>9. \A i \in 1 .. 4 : f[m + i] = mask[i]
  <2>1. \A i \in 1 .. 4 : f[m + i] = v[m + i]
    BY <1>6, <1>7, Zenon DEF Join
  <2>2. \A i \in 1 .. 4 : v[m + i] = mask[i]
    BY <1>5, Zenon DEF Join
  <2> QED
    BY <2>1, <2>2
<1>b. /\ f \in Seq(Int) /\ Len(f) = m + 4 + n
      /\ \A j \in 1 .. n : f[m + 4 + j] = masked[j]
  BY <1>6, Zenon DEF Join
<1> QED
  BY <1>8, <1>9, <1>b DEF Parts, f, v, u, m, s

(* Where the data begin, and how they are masked.                            *)
Start(form) == IF form = 126 THEN 4 ELSE IF form = 127 THEN 10 ELSE 2

Under(text, mask, masked, n) ==
    \A j \in 1 .. n : masked[j] = Frames!Xor(text[j], mask[1 + ((j - 1) % 4)])

(* What was read in one piece is the text, to its last byte.                 *)
LEMMA PartsRead ==
    ASSUME NEW text \in Seq(Octet), NEW n \in Nat, n = Len(text), NEW mask \in [1 .. 4 -> Octet],
           NEW form \in 0 .. 127, NEW m \in Nat, m = Start(form),
           NEW masked, Under(text, mask, masked, n),
           NEW frame, Parts(frame, form, m, mask, masked, n)
    PROVE  Frames!ws_receiveframe(frame) = text
<1>1. frame[2] % 128 = form /\ frame[1] = 128 + 1
  <2>1. frame[2] = form + 128 /\ frame[1] = 129
    BY DEF Parts
  <2>2. (form + 128) % 128 = form
    BY SMT
  <2> QED
    BY <2>1, <2>2
<1>2. Len(frame) - (m + 4) = n
  <2>1. Len(frame) = m + 4 + n
    BY Zenon DEF Parts
  <2> QED
    BY <2>1
<1>3. Frames!ws_receiveframe(frame) =
          [j \in 1 .. n |-> Frames!Xor(frame[m + 4 + j], frame[m + 1 + ((j - 1) % 4)])]
  BY <1>1, <1>2, Zenon DEF Start, Frames!ws_receiveframe, Frames!WS_FIN, Frames!WS_FR_OP_TXT
<1>4. ASSUME NEW j \in 1 .. n
      PROVE  Frames!Xor(frame[m + 4 + j], frame[m + 1 + ((j - 1) % 4)]) = text[j]
  <2> DEFINE i == 1 + ((j - 1) % 4)
  <2>1. i \in 1 .. 4 /\ m + 1 + ((j - 1) % 4) = m + i
    BY SMT
  <2>2. masked[j] = Frames!Xor(text[j], mask[i])
    BY DEF Under
  <2> HIDE DEF i
  <2>3. frame[m + i] = mask[i] /\ frame[m + 4 + j] = masked[j]
    BY <2>1, Zenon DEF Parts
  <2>4. text[j] \in Octet /\ mask[i] \in Octet
    BY <2>1, ElementOfSeq
  <2>5. Frames!Xor(Frames!Xor(text[j], mask[i]), mask[i]) = text[j]
    BY <2>4, XorTwice
  <2> QED
    BY <2>1, <2>2, <2>3, <2>5, Zenon
<1>5. Frames!ws_receiveframe(frame) = [j \in 1 .. n |-> text[j]]
  BY <1>3, <1>4
<1>6. text = [j \in 1 .. n |-> text[j]]
  OBVIOUS
<1> QED
  BY <1>5, <1>6, Zenon

LEMMA TextUnmasked ==
    ASSUME NEW text \in Seq(Octet), NEW mask \in [1 .. 4 -> Octet]
    PROVE  Frames!Understood(text, mask)
<1> DEFINE n == Len(text)
           l == Frames!Length(n)
           h == [l EXCEPT ![1] = @ + 128]
           masked == [j \in 1 .. n |-> Frames!Xor(text[j], mask[1 + ((j - 1) % 4)])]
           frame == Frames!Masked(text, mask)
<1>1. n \in Nat
  OBVIOUS
<1>2. frame = <<129>> \o h \o mask \o masked
  <2>1. Frames!WS_FIN + Frames!WS_FR_OP_TXT = 129
    BY DEF Frames!WS_FIN, Frames!WS_FR_OP_TXT
  <2> QED
    BY <2>1, Zenon DEF Frames!Masked
<1>3. \A j \in 1 .. n : masked[j] = Frames!Xor(text[j], mask[1 + ((j - 1) % 4)])
  OBVIOUS
<1>4. masked \in Seq(Int) /\ Len(masked) = n
  <2>1. \A j \in 1 .. n : 1 + ((j - 1) % 4) \in 1 .. 4
    BY <1>1, SMT
  <2>2. \A j \in 1 .. n : text[j] \in Octet
    BY ElementOfSeq
  <2>3. \A i \in 1 .. 4 : mask[i] \in Octet
    OBVIOUS
  <2>4. \A a \in Octet : \A b \in Octet : Frames!Xor(a, b) \in Int
    <3>1. Octet \subseteq Int
      BY DEF Octet
    <3> QED
      BY <3>1, XorOctet, Zenon
  <2>5. \A j \in 1 .. n : Frames!Xor(text[j], mask[1 + ((j - 1) % 4)]) \in Int
    BY <2>1, <2>2, <2>3, <2>4, Zenon
  <2> HIDE DEF n
  <2> QED
    BY <1>1, <2>5
<1>5. l \in Seq(Octet) /\ l[1] \in 0 .. 127 /\ Len(l) = 1 + Frames!Extra(l[1])
  <2>1. LengthField(l, n)
    BY <1>1, LengthForm
  <2> QED
    BY <2>1 DEF LengthField
<1> HIDE DEF l, n
<1> DEFINE form == l[1]
           k == Len(l)
<1>6. /\ form \in 0 .. 127 /\ k \in Nat \ {0} /\ k + 1 \in Nat
      /\ k + 1 = (IF form = 126 THEN 4 ELSE IF form = 127 THEN 10 ELSE 2)
  <2>1. form \in 0 .. 127 /\ k = 1 + Frames!Extra(form)
    BY <1>5
  <2> HIDE DEF k, form
  <2> QED
    BY <2>1 DEF Frames!Extra
<1>7. h \in Seq(Int) /\ k = Len(h) /\ h[1] = form + 128
  <2>1. Octet \subseteq Int
    BY DEF Octet
  <2>2. l \in Seq(Int)
    BY <1>5, <2>1, SeqMonotonic, Zenon
  <2>3. 1 \in 1 .. Len(l)
    BY <1>6
  <2>4. l[1] + 128 \in Int
    <3>1. \A c \in 0 .. 127 : c + 128 \in Int
      OBVIOUS
    <3> QED
      BY <1>5, <3>1, Zenon
  <2> QED
    BY <2>2, <2>3, <2>4
<1>8. mask \in Seq(Int) /\ Len(mask) = 4
  <2>1. Octet \subseteq Int
    BY DEF Octet
  <2>2. mask = [i \in 1 .. 4 |-> mask[i]] /\ \A i \in 1 .. 4 : mask[i] \in Int
    BY <2>1
  <2> DEFINE c == [i \in 1 .. 4 |-> mask[i]]
  <2>3. c \in Seq(Int) /\ Len(c) = 4
    BY <2>2
  <2> HIDE DEF c
  <2>4. mask = c
    BY <2>2 DEF c
  <2> QED
    BY <2>3, <2>4
<1> HIDE DEF form, k, h, masked, frame
<1>9. Parts(frame, form, k + 1, mask, masked, n)
  BY <1>1, <1>2, <1>4, <1>6, <1>7, <1>8, PartsOf
<1>10. Frames!ws_receiveframe(frame) = text
  <2>1. n = Len(text) /\ text \in Seq(Octet)
    BY DEF n
  <2>2. Under(text, mask, masked, n)
    BY <1>3 DEF Under
  <2> DEFINE m == k + 1
  <2>3. m \in Nat /\ m = Start(form)
    BY <1>6 DEF Start
  <2>4. Parts(frame, form, m, mask, masked, n) /\ form \in 0 .. 127
    BY <1>6, <1>9
  <2> HIDE DEF m
  <2> QED
    BY <1>1, <2>1, <2>2, <2>3, <2>4, PartsRead
<1> QED
  BY <1>10 DEF Frames!Understood, frame

(* The number that bytes write, byte by byte.                                *)
NumberSteps(v, bytes, N) ==
    /\ v[0] = 0 /\ Frames!Number(bytes) = v[N]
    /\ \A i \in 1 .. N : v[i] = 256 * v[i - 1] + bytes[i]

IsNumber(f, bytes, N) ==
    f = [n \in 0 .. N |-> IF n = 0 THEN 0 ELSE 256 * f[n - 1] + bytes[n]]

LEMMA OctetIsNat == \A b \in Octet : b \in Nat
  BY DEF Octet

LEMMA NumberOf ==
    ASSUME NEW bytes \in Seq(Octet), NEW N \in Nat, N = Len(bytes)
    PROVE  \E v \in [0 .. N -> Nat] : NumberSteps(v, bytes, N)
<1> DEFINE F == [x \in (1 .. N) \X Nat |-> 256 * x[2] + bytes[x[1]]]
           value == CHOOSE f : IsNumber(f, bytes, N)
<1>1. \A i \in 1 .. N : bytes[i] \in Nat
  <2>1. \A i \in 1 .. N : bytes[i] \in Octet
    BY ElementOfSeq
  <2> QED
    BY <2>1, OctetIsNat
<1>2. \A i \in 1 .. N, y \in Nat : 256 * y + bytes[i] \in Nat
  BY <1>1
<1>3. F \in [(1 .. N) \X Nat -> Nat]
  BY <1>2
<1>4. \A i \in 1 .. N, y \in Nat : F[<<i, y>>] = 256 * y + bytes[i]
  OBVIOUS
<1> HIDE DEF F
<1>5. PICK g \in [0 .. N -> Nat] : Steps(g, N, 0, F)
  <2>1. 0 \in Nat
    OBVIOUS
  <2> QED
    BY <1>3, <2>1, Recursion
<1>6. IsNumber(g, bytes, N)
  <2>1. g[0] = 0
    BY <1>5 DEF Steps
  <2>2. ASSUME NEW i \in 1 .. N PROVE g[i] = 256 * g[i - 1] + bytes[i]
    <3>1. g[i] = F[<<i, g[i - 1]>>]
      BY <1>5 DEF Steps
    <3>2. i - 1 \in 0 .. N /\ g[i - 1] \in Nat
      OBVIOUS
    <3> QED
      BY <1>4, <3>1, <3>2
  <2>3. g = [i \in 0 .. N |-> g[i]]
    OBVIOUS
  <2>4. \A i \in 0 .. N : g[i] = IF i = 0 THEN 0 ELSE 256 * g[i - 1] + bytes[i]
    <3>1. \A i \in 0 .. N : i # 0 => i \in 1 .. N
      OBVIOUS
    <3> QED
      BY <2>1, <2>2, <3>1
  <2> QED
    BY <2>3, <2>4 DEF IsNumber
<1>7. IsNumber(value, bytes, N)
  BY <1>6, Zenon
<1>8. Frames!Number(bytes) = value[N]
  BY DEF Frames!Number, IsNumber
<1> HIDE DEF value
<1>9. \A i \in 0 .. N : value[i] = IF i = 0 THEN 0 ELSE 256 * value[i - 1] + bytes[i]
  BY <1>7 DEF IsNumber
<1>10. value[0] = 0
  BY <1>9
<1>11. \A i \in 1 .. N : value[i] = 256 * value[i - 1] + bytes[i]
  <2>1. \A i \in 1 .. N : i \in 0 .. N /\ i # 0
    OBVIOUS
  <2> QED
    BY <1>9, <2>1
<1>12. \A i \in 0 .. N : value[i] \in Nat
  <2> DEFINE T == {i \in 0 .. N : value[i] \in Nat}
  <2>1. 0 \in T
    BY <1>10
  <2>2. ASSUME NEW i \in 1 .. N, i - 1 \in T PROVE i \in T
    <3>1. value[i - 1] \in Nat /\ i \in 0 .. N
      BY <2>2
    <3> QED
      BY <1>1, <1>11, <3>1
  <2> HIDE DEF T
  <2>3. \A i \in 0 .. N : i \in T
    BY <2>1, <2>2, Upwards
  <2> QED
    BY <2>3 DEF T
<1>13. value \in [0 .. N -> Nat]
  BY <1>7, <1>12 DEF IsNumber
<1>14. NumberSteps(value, bytes, N)
  BY <1>8, <1>10, <1>11, Zenon DEF NumberSteps
<1> QED
  BY <1>13, <1>14

LEMMA NumberOfTwo ==
    ASSUME NEW bytes \in Seq(Octet), Len(bytes) = 2
    PROVE  Frames!Number(bytes) = 256 * bytes[1] + bytes[2]
<1>1. PICK v \in [0 .. 2 -> Nat] : NumberSteps(v, bytes, 2)
  <2>1. 2 \in Nat /\ 2 = Len(bytes)
    OBVIOUS
  <2> QED
    BY <2>1, NumberOf
<1>2. v[0] = 0 /\ v[1] = 256 * v[0] + bytes[1] /\ v[2] = 256 * v[1] + bytes[2]
  BY <1>1 DEF NumberSteps
<1>3. bytes[1] \in Nat /\ bytes[2] \in Nat
  <2>1. \A i \in 1 .. 2 : bytes[i] \in Octet
    BY ElementOfSeq
  <2> QED
    BY <2>1, OctetIsNat
<1>4. Frames!Number(bytes) = v[2]
  BY <1>1 DEF NumberSteps
<1> QED
  BY <1>2, <1>3, <1>4

LEMMA FourBytes ==
    ASSUME NEW a, NEW b, NEW c, NEW d, NEW x, NEW y, NEW z,
           a \in Nat /\ b \in Nat /\ c \in Nat /\ d \in Nat,
           x = 256 * a + b, y = 256 * x + c, z = 256 * y + d
    PROVE  z = 16777216 * a + 65536 * b + 256 * c + d
  OBVIOUS

(* Eight bytes of which the first four are 0.                                *)
LEMMA NumberOfEight ==
    ASSUME NEW bytes \in Seq(Octet), Len(bytes) = 8,
           bytes[1] = 0, bytes[2] = 0, bytes[3] = 0, bytes[4] = 0
    PROVE  Frames!Number(bytes) =
               16777216 * bytes[5] + 65536 * bytes[6] + 256 * bytes[7] + bytes[8]
<1>1. PICK v \in [0 .. 8 -> Nat] : NumberSteps(v, bytes, 8)
  <2>1. 8 \in Nat /\ 8 = Len(bytes)
    OBVIOUS
  <2> QED
    BY <2>1, NumberOf
<1>2. /\ v[0] = 0 /\ v[1] = 256 * v[0] + bytes[1] /\ v[2] = 256 * v[1] + bytes[2]
      /\ v[3] = 256 * v[2] + bytes[3] /\ v[4] = 256 * v[3] + bytes[4]
  BY <1>1 DEF NumberSteps
<1>3. /\ v[5] = 256 * v[4] + bytes[5] /\ v[6] = 256 * v[5] + bytes[6]
      /\ v[7] = 256 * v[6] + bytes[7] /\ v[8] = 256 * v[7] + bytes[8]
  BY <1>1 DEF NumberSteps
<1>4. bytes[5] \in Nat /\ bytes[6] \in Nat /\ bytes[7] \in Nat /\ bytes[8] \in Nat
  <2>1. \A i \in 1 .. 8 : bytes[i] \in Octet
    BY ElementOfSeq
  <2> QED
    BY <2>1, OctetIsNat
<1>5. Frames!Number(bytes) = v[8]
  BY <1>1 DEF NumberSteps
<1>6. v[4] = 0
  BY <1>2
<1>7. v[5] = bytes[5]
  BY <1>3, <1>4, <1>6
<1>8. v[6] \in Nat /\ v[7] \in Nat /\ v[8] \in Nat
  OBVIOUS
<1>9. v[6] = 256 * bytes[5] + bytes[6]
  BY <1>3, <1>7
<1> QED
  BY <1>3, <1>4, <1>5, <1>8, <1>9, FourBytes

(* The length in front of a frame says how long the message is.              *)
Outer(outer, l) ==
    /\ outer \in Seq(Octet) /\ Len(outer) = 1 + Len(l)
    /\ \A j \in 1 .. Len(l) : outer[1 + j] = l[j]

LEMMA OuterOf ==
    ASSUME NEW n \in Nat
    PROVE  Outer(Frames!ws_sendframe_binary(n), Frames!Length(n))
<1> DEFINE s == <<130>>
           l == Frames!Length(n)
           o == s \o l
<1>1. Frames!ws_sendframe_binary(n) = o
  BY DEF Frames!ws_sendframe_binary, Frames!WS_FIN, Frames!WS_FR_OP_BINARY
<1>2. s \in Seq(Octet) /\ Len(s) = 1
  BY DEF Octet
<1>3. l \in Seq(Octet)
  <2>1. LengthField(l, n)
    BY LengthForm
  <2> QED
    BY <2>1 DEF LengthField
<1>4. o = s \o l
  OBVIOUS
<1> HIDE DEF s, l, o
<1>5. OneMore(o, s, l)
  BY <1>2, <1>3, <1>4, LongField, Zenon
<1>6. Outer(o, l)
  BY <1>2, <1>5 DEF OneMore, Outer
<1> QED
  BY <1>1, <1>6 DEF l

(* A length that four bytes write.                                           *)
Word == {n \in Nat : n \div 16777216 < 256}

LEMMA WordBytes ==
    ASSUME NEW n \in Word
    PROVE  16777216 * Frames!Byte(n, 3) + 65536 * Frames!Byte(n, 2) + 256 * Frames!Byte(n, 1)
               + Frames!Byte(n, 0) = n
<1>1. /\ Frames!Byte(n, 3) = (n \div 16777216) % 256 /\ Frames!Byte(n, 2) = (n \div 65536) % 256
      /\ Frames!Byte(n, 1) = (n \div 256) % 256 /\ Frames!Byte(n, 0) = (n \div 1) % 256
  BY DEF Frames!Byte
<1>2. n \in Nat /\ n \div 16777216 < 256
  BY SMT DEF Word
<1>3. 16777216 * ((n \div 16777216) % 256) + 65536 * ((n \div 65536) % 256)
          + 256 * ((n \div 256) % 256) + ((n \div 1) % 256) = n
  BY <1>2, SMT
<1> QED
  BY <1>1, <1>3, SMT

LEMMA PairBytes ==
    ASSUME NEW n \in Nat
    PROVE  256 * Frames!Byte(n, 1) + Frames!Byte(n, 0) = n % 65536
<1>1. Frames!Byte(n, 1) = (n \div 256) % 256 /\ Frames!Byte(n, 0) = (n \div 1) % 256
  BY DEF Frames!Byte
<1> DEFINE p == (n \div 256) % 256
           q == (n \div 1) % 256
<1>2. 256 * p + q = n % 65536
  BY SMT
<1>3. Frames!Byte(n, 1) = p /\ Frames!Byte(n, 0) = q
  BY <1>1, Zenon
<1> HIDE DEF p, q
<1> QED
  BY <1>2, <1>3, SMT

LEMMA InnerRead ==
    ASSUME NEW n \in Nat, Frames!ws_build_txframe(n) # Frames!NoFrame
    PROVE  Frames!Number(Tail(Frames!ws_build_txframe(n))) = n % 65536
<1> DEFINE b == <<Frames!Byte(n, 1), Frames!Byte(n, 0)>>
<1>1. Frames!ws_build_txframe(n) = <<0, Frames!Byte(n, 1), Frames!Byte(n, 0)>>
  BY DEF Frames!ws_build_txframe, Frames!NoFrame
<1>2. Tail(<<0, Frames!Byte(n, 1), Frames!Byte(n, 0)>>) = b
  OBVIOUS
<1>3. b \in Seq(Octet) /\ Len(b) = 2 /\ b[1] = Frames!Byte(n, 1) /\ b[2] = Frames!Byte(n, 0)
  <2>1. Frames!Byte(n, 1) \in Octet /\ Frames!Byte(n, 0) \in Octet
    BY ByteOctet
  <2> QED
    BY <2>1
<1> HIDE DEF b
<1>4. Frames!Number(b) = 256 * b[1] + b[2]
  BY <1>3, NumberOfTwo
<1> DEFINE r == n % 65536
<1>5. Frames!Number(b) = r
  BY <1>3, <1>4, PairBytes
<1> HIDE DEF r
<1>6. Frames!Number(Tail(Frames!ws_build_txframe(n))) = r
  BY <1>1, <1>2, <1>5, Zenon
<1> QED
  BY <1>6 DEF r

(* The three forms of the length field.                                      *)
LEMMA FieldOf ==
    ASSUME NEW n \in Nat
    PROVE  /\ n <= 125 => Frames!Length(n) = <<n>>
           /\ n > 125 /\ n <= 65535 =>
                  Frames!Length(n) = <<126, Frames!Byte(n, 1), Frames!Byte(n, 0)>>
           /\ n > 65535 => LongForm(Frames!Length(n), n)
<1>1. ASSUME n <= 125 PROVE Frames!Length(n) = <<n>>
  <2>1. n % 128 = n
    BY <1>1, SMT
  <2> QED
    BY <1>1, <2>1 DEF Frames!Length
<1>2. ASSUME n > 125, n <= 65535
      PROVE  Frames!Length(n) = <<126, Frames!Byte(n, 1), Frames!Byte(n, 0)>>
  BY <1>2 DEF Frames!Length
<1>3. ASSUME n > 65535 PROVE LongForm(Frames!Length(n), n)
  <2>1. Frames!Length(n) = <<127>> \o [i \in 1 .. 8 |-> Frames!Byte(n, 8 - i)]
    BY <1>3 DEF Frames!Length
  <2> QED
    BY <2>1, LongLength
<1> QED
  BY <1>1, <1>2, <1>3

(* What a browser makes of the header.                                       *)
Told(outer, n, form) ==
    /\ outer[2] = form /\ Len(outer) = 2 + Frames!Extra(form) /\ Frames!Payload(outer) = n

LEMMA ToldShort ==
    ASSUME NEW n \in 0 .. 125, NEW outer, Outer(outer, <<n>>)
    PROVE  Told(outer, n, n)
<1>1. Len(<<n>>) = 1 /\ <<n>>[1] = n
  OBVIOUS
<1>2. Len(outer) = 2 /\ outer[2] = n
  BY <1>1 DEF Outer
<1>3. Frames!Extra(n) = 0
  BY DEF Frames!Extra
<1>4. Frames!Payload(outer) = n
  BY <1>2 DEF Frames!Payload
<1> QED
  BY <1>2, <1>3, <1>4 DEF Told

LEMMA ToldTwo ==
    ASSUME NEW n \in Nat, NEW outer, Outer(outer, <<126, Frames!Byte(n, 1), Frames!Byte(n, 0)>>)
    PROVE  Told(outer, n % 65536, 126)
<1> DEFINE l == <<126, Frames!Byte(n, 1), Frames!Byte(n, 0)>>
           b == SubSeq(outer, 3, 4)
<1>1. Len(l) = 3 /\ l[1] = 126 /\ l[2] = Frames!Byte(n, 1) /\ l[3] = Frames!Byte(n, 0)
  OBVIOUS
<1>2. Outer(outer, l)
  OBVIOUS
<1> HIDE DEF l
<1>3. Len(outer) = 4 /\ \A j \in 1 .. 3 : outer[1 + j] = l[j]
  BY <1>1, <1>2 DEF Outer
<1>4. outer[2] = 126 /\ outer[3] = Frames!Byte(n, 1) /\ outer[4] = Frames!Byte(n, 0)
  <2>1. outer[1 + 1] = l[1] /\ outer[1 + 2] = l[2] /\ outer[1 + 3] = l[3]
    BY <1>3
  <2> QED
    BY <1>1, <2>1
<1>5. b \in Seq(Octet) /\ Len(b) = 2 /\ b[1] = Frames!Byte(n, 1) /\ b[2] = Frames!Byte(n, 0)
  <2>1. \A i \in 3 .. 4 : outer[i] \in Octet
    BY <1>4, ByteOctet
  <2>2. 3 \in Nat /\ 4 \in Nat /\ 3 <= 4
    OBVIOUS
  <2>a. Slice(Octet, b, outer, 3, 4)
    BY <2>1, <2>2, SliceOf
  <2> HIDE DEF b
  <2>3. b \in Seq(Octet) /\ Len(b) = 2 /\ \A i \in 1 .. 2 : b[i] = outer[3 + i - 1]
    BY <2>a DEF Slice
  <2>4. b[1] = outer[3] /\ b[2] = outer[4]
    BY <2>3
  <2> QED
    BY <1>4, <2>3, <2>4
<1>6. Frames!Extra(126) = 2
  BY DEF Frames!Extra
<1>7. Frames!Payload(outer) = Frames!Number(b)
  BY <1>4, <1>6 DEF Frames!Payload
<1> HIDE DEF b
<1>8. Frames!Number(b) = 256 * b[1] + b[2]
  BY <1>5, NumberOfTwo
<1>9. Frames!Payload(outer) = n % 65536
  BY <1>5, <1>7, <1>8, PairBytes
<1> QED
  BY <1>3, <1>4, <1>6, <1>9 DEF Told

LEMMA ToldEight ==
    ASSUME NEW n \in Word, NEW l, LongForm(l, n), NEW outer, Outer(outer, l)
    PROVE  Told(outer, n, 127)
<1> DEFINE b == SubSeq(outer, 3, 10)
<1>0. n \in Nat
  BY SMT DEF Word
<1>1. /\ Len(l) = 9 /\ l[1] = 127 /\ \A i \in 1 .. 8 : l[1 + i] = Frames!Byte(n, 8 - i)
  BY DEF LongForm
<1>3. Len(outer) = 10 /\ \A j \in 1 .. 9 : outer[1 + j] = l[j]
  BY <1>1 DEF Outer
<1>4. outer[2] = 127 /\ \A i \in 1 .. 8 : outer[2 + i] = Frames!Byte(n, 8 - i)
  <2>1. outer[1 + 1] = l[1]
    BY <1>3
  <2>2. ASSUME NEW i \in 1 .. 8 PROVE outer[2 + i] = Frames!Byte(n, 8 - i)
    <3> DEFINE j == 1 + i
    <3>1. j \in 1 .. 9 /\ 2 + i = 1 + j
      OBVIOUS
    <3>2. l[j] = Frames!Byte(n, 8 - i)
      BY <1>1
    <3> HIDE DEF j
    <3> QED
      BY <1>3, <3>1, <3>2
  <2> QED
    BY <1>1, <2>1, <2>2
<1>5. /\ b \in Seq(Octet) /\ Len(b) = 8
      /\ \A i \in 1 .. 8 : b[i] = Frames!Byte(n, 8 - i)
  <2>1. \A i \in 3 .. 10 : outer[i] \in Octet
    <3>1. ASSUME NEW i \in 3 .. 10 PROVE outer[i] \in Octet
      <4>1. i - 2 \in 1 .. 8 /\ 2 + (i - 2) = i /\ 8 - (i - 2) \in 0 .. 7
        OBVIOUS
      <4>2. outer[2 + (i - 2)] = Frames!Byte(n, 8 - (i - 2))
        BY <1>4, <4>1
      <4>3. Frames!Byte(n, 8 - (i - 2)) \in Octet
        BY <1>0, <4>1, ByteOctet
      <4> QED
        BY <4>1, <4>2, <4>3
    <3> QED
      BY <3>1
  <2>2. 3 \in Nat /\ 10 \in Nat /\ 3 <= 10
    OBVIOUS
  <2>a. Slice(Octet, b, outer, 3, 10)
    BY <2>1, <2>2, SliceOf
  <2> HIDE DEF b
  <2>3. b \in Seq(Octet) /\ Len(b) = 8 /\ \A i \in 1 .. 8 : b[i] = outer[3 + i - 1]
    BY <2>a DEF Slice
  <2>4. ASSUME NEW i \in 1 .. 8 PROVE b[i] = Frames!Byte(n, 8 - i)
    <3>1. 3 + i - 1 = 2 + i
      OBVIOUS
    <3>2. b[i] = outer[2 + i]
      BY <2>3, <3>1
    <3> QED
      BY <1>4, <3>2
  <2> QED
    BY <2>3, <2>4
<1>6. Frames!Extra(127) = 8
  BY DEF Frames!Extra
<1>7. Frames!Payload(outer) = Frames!Number(b)
  BY <1>4, <1>6 DEF Frames!Payload
<1> HIDE DEF b
<1>8. /\ b[1] = Frames!Byte(n, 7) /\ b[2] = Frames!Byte(n, 6) /\ b[3] = Frames!Byte(n, 5)
      /\ b[4] = Frames!Byte(n, 4) /\ b[5] = Frames!Byte(n, 3) /\ b[6] = Frames!Byte(n, 2)
      /\ b[7] = Frames!Byte(n, 1) /\ b[8] = Frames!Byte(n, 0)
  BY <1>5
<1>9. b[1] = 0 /\ b[2] = 0 /\ b[3] = 0 /\ b[4] = 0
  BY <1>8 DEF Frames!Byte
<1>10. Frames!Number(b) = 16777216 * b[5] + 65536 * b[6] + 256 * b[7] + b[8]
  BY <1>5, <1>9, NumberOfEight
<1>11. Frames!Payload(outer) = n
  BY <1>7, <1>8, <1>10, WordBytes
<1> QED
  BY <1>3, <1>4, <1>6, <1>11 DEF Told

(* A message arrives with its length, in the shortest form.                  *)
LEMMA MessageRead ==
    ASSUME NEW msglen \in Nat, msglen + 3 \in Word
    PROVE  Frames!Readable(msglen)
<1> DEFINE n == msglen + 3
           outer == Frames!ws_sendframe_binary(n)
<1>1. n \in Word /\ n \in Nat
  OBVIOUS
<1>2. Outer(outer, Frames!Length(n))
  BY <1>1, OuterOf
<1> HIDE DEF n
<1>3. \E form \in 0 .. 127 : /\ Told(outer, n, form)
                             /\ form = 126 => n > 125
                             /\ form = 127 => n > 65535
  <2>1. CASE n <= 125
    <3>1. Outer(outer, <<n>>) /\ n \in 0 .. 125
      BY <1>1, <1>2, <2>1, FieldOf
    <3> HIDE DEF outer
    <3>2. Told(outer, n, n)
      BY <3>1, ToldShort
    <3> QED
      BY <2>1, <3>1, <3>2
  <2>2. CASE n > 125 /\ n <= 65535
    <3>1. Outer(outer, <<126, Frames!Byte(n, 1), Frames!Byte(n, 0)>>)
      BY <1>1, <1>2, <2>2, FieldOf
    <3>2. n % 65536 = n
      BY <1>1, <2>2, SMT
    <3> HIDE DEF outer
    <3>3. Told(outer, n % 65536, 126)
      BY <1>1, <3>1, ToldTwo
    <3> QED
      BY <2>2, <3>2, <3>3
  <2>3. CASE n > 65535
    <3>1. LongForm(Frames!Length(n), n)
      BY <1>1, <2>3, FieldOf
    <3>2. Told(outer, n, 127)
      BY <1>1, <1>2, <3>1, ToldEight
    <3> HIDE DEF outer
    <3> QED
      BY <2>3, <3>2
  <2> QED
    BY <1>1, <2>1, <2>2, <2>3
<1> HIDE DEF outer
<1>4. /\ Frames!Payload(outer) = n /\ Len(outer) = 2 + Frames!Extra(outer[2])
      /\ outer[2] = 126 => n > 125
      /\ outer[2] = 127 => n > 65535
  BY <1>3 DEF Told
<1>5. Frames!ws_build_txframe(msglen) # Frames!NoFrame =>
          Frames!Number(Tail(Frames!ws_build_txframe(msglen))) = msglen % 65536
  BY InnerRead
<1> QED
  BY <1>4, <1>5 DEF n, outer, Frames!Readable

LEMMA FramesKnown ==
    ASSUME InputKnown
    PROVE  FramesUnderstood
<1>1. ASSUME input.codec = "message" PROVE Frames!Readable(input.length)
  <2>1. input \in MessageInputs
    BY <1>1, SocketInputs, GpsInputs, BoardInputs, FigureInputs, OtherInputs DEF InputKnown, Nothing
  <2>2. input.length \in 0 .. MaxLength
    BY <2>1, SocketInputs
  <2>3. MaxLength \in Nat /\ (MaxLength + 3) \div 16777216 < 256
    BY SMT DEF MaxLength
  <2>4. \A n \in 0 .. MaxLength : n \in Nat /\ n + 3 \in Word
    BY <2>3, SMT DEF Word
  <2>5. input.length \in Nat /\ input.length + 3 \in Word
    BY <2>2, <2>4, Zenon
  <2> QED
    BY <2>5, MessageRead
<1>2. ASSUME input.codec = "text" PROVE Frames!Understood(input.text, input.mask)
  <2>1. input \in TextInputs
    BY <1>2, SocketInputs, GpsInputs, BoardInputs, FigureInputs, OtherInputs DEF InputKnown, Nothing
  <2>2. input.text \in Seq(Octet) /\ input.mask \in [1 .. 4 -> Octet]
    BY <2>1, SocketInputs
  <2> QED
    BY <2>2, TextUnmasked
<1> QED
  BY <1>1, <1>2 DEF FramesUnderstood

-----------------------------------------------------------------------------
(* Base64                                                                    *)

Char == 0 .. 65

LEMMA BlockOf ==
    ASSUME NEW b, NEW c, b[1] = c[1], b[2] = c[2], b[3] = c[3]
    PROVE  Text64!Block(b) = Text64!Block(c)
BY DEF Text64!Block

(* Three bytes are four characters of the table, and these the bytes again:  *)
(* no bit is lost where a byte is cut in two (base64.cpp).  Where bytes are  *)
(* missing at the end, the codes that a pad replaces are the 0 it is read as.*)
THEOREM BlockUndone ==
    ASSUME NEW b1 \in Octet, NEW b2 \in Octet, NEW b3 \in Octet
    PROVE  LET c == Text64!Block(<<b1, b2, b3>>)
           IN  /\ \A i \in 1 .. 4 : c[i] \in Text64!Codes
               /\ Text64!Unblock(c) = <<b1, b2, b3>>
               /\ b3 = 0 => c[4] = 0
               /\ b2 = 0 /\ b3 = 0 => c[3] = 0
<1> DEFINE c == Text64!Block(<<b1, b2, b3>>)
           h1 == b1 \div 4
           l1 == b1 % 4
           h2 == b2 \div 16
           l2 == b2 % 16
           h3 == b3 \div 64
           l3 == b3 % 64
<1>1. h1 \in 0 .. 63 /\ l1 \in 0 .. 3 /\ b1 = 4 * h1 + l1
  BY SMT DEF Octet
<1>2. h2 \in 0 .. 15 /\ l2 \in 0 .. 15 /\ b2 = 16 * h2 + l2
  BY SMT DEF Octet
<1>3. h3 \in 0 .. 3 /\ l3 \in 0 .. 63 /\ b3 = 64 * h3 + l3
  BY SMT DEF Octet
<1>4. c = <<h1, l1 * 16 + h2, l2 * 4 + h3, l3>>
  BY SMT DEF Text64!Block
<1> HIDE DEF c, h1, l1, h2, l2, h3, l3
<1>5. c[1] = h1 /\ c[2] = l1 * 16 + h2 /\ c[3] = l2 * 4 + h3 /\ c[4] = l3
  BY <1>4, SMT
<1>6. \A i \in 1 .. 4 : c[i] \in Text64!Codes
  BY <1>1, <1>2, <1>3, <1>5, SMT DEF Text64!Codes
<1>7. c[1] * 4 + (c[2] \div 16) = b1
  BY <1>1, <1>2, <1>5, SMT
<1>8. ((c[2] * 16) % 256) + (c[3] \div 4) = b2
  <2>1. (l1 * 16 + h2) * 16 = 256 * l1 + 16 * h2
    BY <1>1, <1>2, SMT
  <2>2. (c[2] * 16) % 256 = 16 * h2
    BY <1>1, <1>2, <1>5, <2>1, SMT
  <2>3. c[3] \div 4 = l2
    BY <1>2, <1>3, <1>5, SMT
  <2> QED
    BY <1>2, <2>2, <2>3, SMT
<1>9. ((c[3] * 64) % 256) + c[4] = b3
  <2>1. (l2 * 4 + h3) * 64 = 256 * l2 + 64 * h3
    BY <1>2, <1>3, SMT
  <2>2. (c[3] * 64) % 256 = 64 * h3
    BY <1>2, <1>3, <1>5, <2>1, SMT
  <2> QED
    BY <1>3, <1>5, <2>2, SMT
<1>10. (b3 = 0 => c[4] = 0) /\ (b2 = 0 /\ b3 = 0 => c[3] = 0)
  BY <1>2, <1>3, <1>5, SMT
<1> QED
  BY <1>6, <1>7, <1>8, <1>9, <1>10 DEF Text64!Unblock, c

(* A byte of what is encoded, 0 beyond its end; and its characters in blocks *)
(* of four.                                                                  *)
Source(src, i) == IF i <= Len(src) THEN src[i] ELSE 0

Three(src, m) == <<Source(src, 3 * m + 1), Source(src, 3 * m + 2), Source(src, 3 * m + 3)>>

Code(src, k) ==
    LET m == (k - 1) \div 4
        j == (k - 1) % 4
    IN  IF 3 * m + j > Len(src) THEN Text64!Pad ELSE Text64!Block(Three(src, m))[j + 1]

LEMMA ThreeOctets ==
    ASSUME NEW src \in Seq(Octet), NEW m \in Nat
    PROVE  /\ Source(src, 3 * m + 1) \in Octet /\ Source(src, 3 * m + 2) \in Octet
           /\ Source(src, 3 * m + 3) \in Octet
           /\ Three(src, m) \in Seq(Octet) /\ Len(Three(src, m)) = 3
<1>1. ASSUME NEW i \in Nat \ {0} PROVE Source(src, i) \in Octet
  <2>1. CASE i <= Len(src)
    <3>1. i \in 1 .. Len(src)
      BY <2>1
    <3> QED
      BY <3>1 DEF Source
  <2>2. CASE ~(i <= Len(src))
    BY <2>2 DEF Source, Octet
  <2> QED
    BY <2>1, <2>2
<1>2. 3 * m + 1 \in Nat \ {0} /\ 3 * m + 2 \in Nat \ {0} /\ 3 * m + 3 \in Nat \ {0}
  OBVIOUS
<1> QED
  BY <1>1, <1>2 DEF Three

LEMMA FourOf ==
    ASSUME NEW S, NEW a \in S, NEW b \in S, NEW c \in S, NEW d \in S
    PROVE  <<a, b, c, d>> \in Seq(S) /\ Len(<<a, b, c, d>>) = 4
OBVIOUS

LEMMA BlockCodes ==
    ASSUME NEW src \in Seq(Octet), NEW m \in Nat
    PROVE  /\ Text64!Block(Three(src, m)) \in Seq(Text64!Codes)
           /\ Len(Text64!Block(Three(src, m))) = 4
<1>1. \A i \in 1 .. 4 : Text64!Block(Three(src, m))[i] \in Text64!Codes
  BY ThreeOctets, BlockUndone DEF Three
<1>2. Text64!Block(Three(src, m)) = <<Text64!Block(Three(src, m))[1], Text64!Block(Three(src, m))[2],
                                      Text64!Block(Three(src, m))[3], Text64!Block(Three(src, m))[4]>>
  BY DEF Text64!Block
<1> DEFINE b == Text64!Block(Three(src, m))
<1> HIDE DEF b
<1>3. b = <<b[1], b[2], b[3], b[4]>> /\ \A i \in 1 .. 4 : b[i] \in Text64!Codes
  BY <1>1, <1>2 DEF b
<1>4. b \in Seq(Text64!Codes) /\ Len(b) = 4
  <2>1. b[1] \in Text64!Codes /\ b[2] \in Text64!Codes /\ b[3] \in Text64!Codes
        /\ b[4] \in Text64!Codes
    BY <1>3
  <2>2. /\ <<b[1], b[2], b[3], b[4]>> \in Seq(Text64!Codes)
        /\ Len(<<b[1], b[2], b[3], b[4]>>) = 4
    BY <2>1, FourOf
  <2> QED
    BY <1>3, <2>2, Zenon
<1> QED
  BY <1>4 DEF b

(* What Lines steps through.                                                 *)
LEMMA LinesSteps ==
    ASSUME NEW src \in Seq(Octet), NEW N \in Nat, N = Len(src) \div 3
    PROVE  /\ Text64!Lines(src) \in [0 .. N -> Seq(Char)]
           /\ Text64!Lines(src)[0] = << >>
           /\ \A n \in 1 .. N :
                 Text64!Lines(src)[n]
                     = Text64!Lines(src)[n - 1] \o Text64!Block(Three(src, n - 1))
                       \o (IF n % 18 = 0 THEN <<Text64!Newline>> ELSE << >>)
<1> DEFINE B(n) == Text64!Block(SubSeq(src, 3 * n - 2, 3 * n))
           E(n) == IF n % 18 = 0 THEN <<Text64!Newline>> ELSE << >>
           S == Seq(Char)
           F == [x \in (1 .. N) \X S |-> x[2] \o B(x[1]) \o E(x[1])]
           Is(f) == f = [n \in 0 .. N |-> IF n = 0 THEN << >> ELSE f[n - 1] \o B(n) \o E(n)]
           value == CHOOSE f : Is(f)
<1>1. ASSUME NEW n \in 1 .. N
      PROVE  B(n) \in S /\ E(n) \in S /\ B(n) = Text64!Block(Three(src, n - 1))
  <2>1. n - 1 \in Nat /\ 3 * n <= Len(src) /\ 3 * n \in Nat
    BY SMT
  <2>2. /\ SubSeq(src, 3 * n - 2, 3 * n) \in Seq(Octet) /\ Len(SubSeq(src, 3 * n - 2, 3 * n)) = 3
        /\ \A i \in 1 .. 3 : SubSeq(src, 3 * n - 2, 3 * n)[i] = src[3 * n - 3 + i]
    <3>1. 3 * n - 2 \in 1 .. Len(src) + 1 /\ 3 * n \in 3 * n - 3 .. Len(src)
      BY <2>1
    <3> QED
      BY <2>1, <3>1, SMT
  <2>3. \A i \in 1 .. 3 : Three(src, n - 1)[i] = src[3 * n - 3 + i]
    <3>1. \A i \in 1 .. 3 : Source(src, 3 * (n - 1) + i) = src[3 * n - 3 + i]
      BY <2>1, SMT DEF Source
    <3> QED
      BY <3>1 DEF Three
  <2>4. B(n) = Text64!Block(Three(src, n - 1))
    <3> DEFINE s == SubSeq(src, 3 * n - 2, 3 * n)
    <3>2. s[1] = Three(src, n - 1)[1] /\ s[2] = Three(src, n - 1)[2] /\ s[3] = Three(src, n - 1)[3]
      BY <2>2, <2>3
    <3> HIDE DEF s
    <3>3. Text64!Block(s) = Text64!Block(Three(src, n - 1))
      BY <3>2, BlockOf
    <3> QED
      BY <3>3 DEF s
  <2>5. Text64!Block(Three(src, n - 1)) \in S
    <3>1. Text64!Codes \subseteq Char
      BY DEF Text64!Codes, Char
    <3> QED
      BY <2>1, <3>1, BlockCodes, SeqMonotonic
  <2>6. E(n) \in S
    <3>1. 65 \in Char
      BY DEF Char
    <3>2. <<65>> \in Seq(Char) /\ << >> \in Seq(Char)
      BY <3>1
    <3> QED
      BY <3>2 DEF Text64!Newline
  <2> QED
    BY <2>4, <2>5, <2>6
<1>2. << >> \in S
  OBVIOUS
<1> HIDE DEF B, E, S
<1>3. F \in [(1 .. N) \X S -> S]
  BY <1>1 DEF S
<1>4. \A n \in 1 .. N, y \in S : F[<<n, y>>] = y \o B(n) \o E(n)
  OBVIOUS
<1> HIDE DEF F
<1>5. PICK g \in [0 .. N -> S] : Steps(g, N, << >>, F)
  BY <1>2, <1>3, Recursion
<1>6. Is(g)
  <2>1. \A n \in 1 .. N : n - 1 \in 0 .. N /\ g[n - 1] \in S
    OBVIOUS
  <2>2. \A n \in 0 .. N : g[n] = IF n = 0 THEN << >> ELSE g[n - 1] \o B(n) \o E(n)
    <3>1. g[0] = << >>
      BY <1>5 DEF Steps
    <3>2. ASSUME NEW n \in 1 .. N PROVE g[n] = g[n - 1] \o B(n) \o E(n)
      <4>1. g[n] = F[<<n, g[n - 1]>>]
        BY <1>5 DEF Steps
      <4> QED
        BY <1>4, <2>1, <4>1
    <3> QED
      BY <3>1, <3>2
  <2>3. g = [n \in 0 .. N |-> g[n]]
    OBVIOUS
  <2> QED
    BY <2>2, <2>3
<1>7. Is(value)
  BY <1>6
<1>8. Text64!Lines(src) = value
  BY DEF Text64!Lines, B, E
<1> HIDE DEF value
<1>9. \A n \in 0 .. N : value[n] = IF n = 0 THEN << >> ELSE value[n - 1] \o B(n) \o E(n)
  BY <1>7
<1>10. \A n \in 0 .. N : value[n] \in S
  <2> DEFINE T == {n \in 0 .. N : value[n] \in S}
  <2>1. 0 \in T
    BY <1>2, <1>9
  <2>2. ASSUME NEW n \in 1 .. N, n - 1 \in T PROVE n \in T
    <3>1. value[n] = value[n - 1] \o B(n) \o E(n)
      <4>1. n \in 0 .. N /\ n # 0
        OBVIOUS
      <4> QED
        BY <1>9, <4>1, Zenon
    <3>2. value[n - 1] \in S
      BY <2>2
    <3>3. value[n - 1] \o B(n) \o E(n) \in S
      BY <1>1, <3>2, ConcatProperties DEF S
    <3>4. n \in 0 .. N /\ value[n] \in S
      BY <3>1, <3>3
    <3> QED
      BY <3>4
  <2> HIDE DEF T
  <2>3. \A n \in 0 .. N : n \in T
    BY <2>1, <2>2, Upwards
  <2> QED
    BY <2>3 DEF T
<1>11. value \in [0 .. N -> S]
  BY <1>7, <1>10
<1>12. value[0] = << >>
  BY <1>9
<1>13. ASSUME NEW n \in 1 .. N
       PROVE  value[n] = value[n - 1] \o Text64!Block(Three(src, n - 1))
                         \o (IF n % 18 = 0 THEN <<Text64!Newline>> ELSE << >>)
  <2>1. n \in 0 .. N /\ n # 0
    OBVIOUS
  <2>2. value[n] = value[n - 1] \o B(n) \o E(n)
    BY <1>9, <2>1, Zenon
  <2> QED
    BY <1>1, <2>2 DEF E
<1> QED
  BY <1>8, <1>11, <1>12, <1>13 DEF S

(* A character of the text: after each 72 a newline.                         *)
Placed(t, src, i) ==
    t[i] = IF i % 73 = 0 THEN Text64!Newline ELSE Code(src, i - i \div 73)

LEMMA SamePlace ==
    ASSUME NEW t, NEW u, NEW src, NEW i, Placed(t, src, i), u[i] = t[i]
    PROVE  Placed(u, src, i)
BY DEF Placed

LEMMA CodeAt ==
    ASSUME NEW src, NEW n \in Nat, NEW j \in 1 .. 4
    PROVE  Code(src, 4 * n + j)
               = IF 3 * n + (j - 1) > Len(src) THEN Text64!Pad
                                               ELSE Text64!Block(Three(src, n))[j]
<1>1. (4 * n + j - 1) \div 4 = n /\ (4 * n + j - 1) % 4 = j - 1 /\ (j - 1) + 1 = j
  BY SMT
<1> QED
  BY <1>1 DEF Code

LEMMA CodeChar ==
    ASSUME NEW src \in Seq(Octet), NEW k \in Nat \ {0}
    PROVE  Code(src, k) \in 0 .. 64
<1> DEFINE n == (k - 1) \div 4
           j == (k - 1) % 4
<1>1. n \in Nat /\ j \in 0 .. 3 /\ j + 1 \in 1 .. 4
  BY SMT
<1> HIDE DEF n, j
<1> DEFINE b == Text64!Block(Three(src, n))
<1>2. b \in Seq(Text64!Codes) /\ Len(b) = 4
  BY <1>1, BlockCodes
<1> HIDE DEF b
<1>3. b[j + 1] \in Text64!Codes
  <2>1. j + 1 \in 1 .. Len(b)
    BY <1>1, <1>2
  <2> QED
    BY <1>2, <2>1, ElementOfSeq
<1>4. b[j + 1] \in 0 .. 64 /\ Text64!Pad \in 0 .. 64
  BY <1>3 DEF Text64!Codes, Text64!Pad
<1> QED
  BY <1>4 DEF Code, n, j, b

LEMMA PlaceOf ==
    ASSUME NEW n \in Nat, NEW j \in 1 .. 4, NEW i, i = 4 * n + n \div 18 + j
    PROVE  i \in Nat /\ i % 73 # 0 /\ i - i \div 73 = 4 * n + j
<1> DEFINE q == n \div 18
           r == n % 18
<1>1. q \in Nat /\ r \in 0 .. 17 /\ n = 18 * q + r
  BY SMT
<1> HIDE DEF r
<1>2. i = 4 * n + q + j
  OBVIOUS
<1> HIDE DEF q
<1>3. i = 73 * q + (4 * r + j) /\ 4 * r + j \in 1 .. 72
  BY <1>1, <1>2
<1>4. i \div 73 = q /\ i % 73 # 0 /\ i \in Nat
  BY <1>1, <1>3, SMT
<1> QED
  BY <1>1, <1>3, <1>4

LEMMA PlaceNewline ==
    ASSUME NEW n \in Nat, NEW i, i = 4 * (n + 1) + n \div 18 + 1, (n + 1) % 18 = 0
    PROVE  i \in Nat /\ i % 73 = 0 /\ (n + 1) \div 18 = n \div 18 + 1
<1> DEFINE q == n \div 18
<1>1. q \in Nat /\ n = 18 * q + 17 /\ (n + 1) \div 18 = q + 1
  BY SMT
<1>2. i = 4 * (n + 1) + q + 1
  OBVIOUS
<1> HIDE DEF q
<1>3. i = 73 * (q + 1)
  BY <1>1, <1>2
<1>4. i \in Nat /\ i % 73 = 0
  BY <1>1, <1>3, SMT
<1> QED
  BY <1>1, <1>4 DEF q

(* One more block.                                                           *)
LEMMA BlockAdded ==
    ASSUME NEW src \in Seq(Octet), NEW n \in Nat,
           NEW t \in Seq(Char), Len(t) = 4 * n + n \div 18,
           \A i \in 1 .. Len(t) : Placed(t, src, i),
           NEW b \in Seq(Char), Len(b) = 4, \A j \in 1 .. 4 : b[j] = Code(src, 4 * n + j)
    PROVE  /\ t \o b \in Seq(Char) /\ Len(t \o b) = 4 * (n + 1) + n \div 18
           /\ \A i \in 1 .. Len(t \o b) : Placed(t \o b, src, i)
<1>0. n \div 18 \in Nat
  BY SMT
<1>1. t \o b \in Seq(Char) /\ Len(t \o b) = 4 * (n + 1) + n \div 18
  <2>1. t \o b \in Seq(Char) /\ Len(t \o b) = Len(t) + Len(b)
    BY ConcatProperties
  <2> QED
    BY <1>0, <2>1
<1>2. ASSUME NEW i \in 1 .. Len(t \o b) PROVE Placed(t \o b, src, i)
  <2>1. CASE i \in 1 .. Len(t)
    <3>1. (t \o b)[i] = t[i]
      BY <2>1
    <3> QED
      BY <2>1, <3>1 DEF Placed
  <2>2. CASE ~(i \in 1 .. Len(t))
    <3>1. PICK j \in 1 .. 4 : i = Len(t) + j
      <4>1. i - Len(t) \in 1 .. 4 /\ i = Len(t) + (i - Len(t))
        BY <1>0, <1>1, <2>2
      <4> QED
        BY <4>1
    <3>2. (t \o b)[i] = b[j]
      BY <3>1
    <3>3. i % 73 # 0 /\ i - i \div 73 = 4 * n + j
      <4>1. i = 4 * n + n \div 18 + j
        BY <3>1
      <4> QED
        BY <3>1, <4>1, PlaceOf, Zenon
    <3>4. (t \o b)[i] = Code(src, 4 * n + j)
      BY <3>2
    <3> QED
      BY <3>3, <3>4 DEF Placed
  <2> QED
    BY <2>1, <2>2
<1> QED
  BY <1>1, <1>2

(* The whole blocks.                                                         *)
LEMMA LinesPlaced ==
    ASSUME NEW src \in Seq(Octet)
    PROVE  \A n \in 0 .. Len(src) \div 3 :
               /\ Text64!Lines(src)[n] \in Seq(Char)
               /\ Len(Text64!Lines(src)[n]) = 4 * n + n \div 18
               /\ \A i \in 1 .. Len(Text64!Lines(src)[n]) : Placed(Text64!Lines(src)[n], src, i)
<1> DEFINE N == Len(src) \div 3
           v == Text64!Lines(src)
           Good(n) == /\ v[n] \in Seq(Char) /\ Len(v[n]) = 4 * n + n \div 18
                      /\ \A i \in 1 .. Len(v[n]) : Placed(v[n], src, i)
           T == {n \in 0 .. N : Good(n)}
<1>0. N \in Nat /\ 3 * N <= Len(src)
  BY SMT
<1>s. /\ v \in [0 .. N -> Seq(Char)] /\ v[0] = << >>
      /\ \A n \in 1 .. N : v[n] = v[n - 1] \o Text64!Block(Three(src, n - 1))
                                  \o (IF n % 18 = 0 THEN <<Text64!Newline>> ELSE << >>)
  BY <1>0, LinesSteps
<1> HIDE DEF N, v
<1>1. 0 \in T
  <2>1. 0 \div 18 = 0 /\ Len(v[0]) = 0 /\ 1 .. 0 = {} /\ v[0] \in Seq(Char)
    BY <1>s, SMT
  <2> QED
    BY <1>0, <2>1
<1>2. ASSUME NEW n \in 1 .. N, n - 1 \in T PROVE n \in T
  <2> DEFINE m == n - 1
             b == Text64!Block(Three(src, m))
             t == v[m]
             e == IF n % 18 = 0 THEN <<Text64!Newline>> ELSE << >>
  <2>0. m \in Nat /\ n = m + 1 /\ n \in Nat /\ 3 * m + 3 <= Len(src)
    BY <1>0
  <2>1. t \in Seq(Char) /\ Len(t) = 4 * m + m \div 18 /\ \A i \in 1 .. Len(t) : Placed(t, src, i)
    BY <1>2
  <2>2. v[n] = (t \o b) \o e
    BY <1>s
  <2> HIDE DEF m, t
  <2>3. b \in Seq(Char) /\ Len(b) = 4
    <3>1. b \in Seq(Text64!Codes) /\ Len(b) = 4
      BY <2>0, BlockCodes
    <3>2. Text64!Codes \subseteq Char
      BY DEF Text64!Codes, Char
    <3> QED
      BY <3>1, <3>2, SeqMonotonic
  <2>4. \A j \in 1 .. 4 : b[j] = Code(src, 4 * m + j)
    <3>1. ASSUME NEW j \in 1 .. 4 PROVE b[j] = Code(src, 4 * m + j)
      <4>1. ~(3 * m + (j - 1) > Len(src))
        BY <2>0
      <4> QED
        BY <2>0, <4>1, CodeAt
    <3> QED
      BY <3>1
  <2> HIDE DEF b
  <2>5. /\ t \o b \in Seq(Char) /\ Len(t \o b) = 4 * n + m \div 18
        /\ \A i \in 1 .. Len(t \o b) : Placed(t \o b, src, i)
    BY <2>0, <2>1, <2>3, <2>4, BlockAdded
  <2> DEFINE tb == t \o b
  <2> HIDE DEF tb
  <2>6. tb \in Seq(Char) /\ Len(tb) = 4 * n + m \div 18 /\ \A i \in 1 .. Len(tb) : Placed(tb, src, i)
    BY <2>5 DEF tb
  <2>7. v[n] = tb \o e
    BY <2>2 DEF tb
  <2>8. CASE n % 18 = 0
    <3>1. e = <<Text64!Newline>> /\ Text64!Newline \in Char
      BY <2>8 DEF Char, Text64!Newline
    <3> HIDE DEF e
    <3>2. v[n] = Append(tb, Text64!Newline)
      BY <2>6, <2>7, <3>1, AppendIsConcat
    <3>3. /\ v[n] \in Seq(Char) /\ Len(v[n]) = Len(tb) + 1 /\ v[n][Len(tb) + 1] = Text64!Newline
          /\ \A i \in 1 .. Len(tb) : v[n][i] = tb[i]
      BY <2>6, <3>1, <3>2, AppendProperties
    <3>4. /\ (Len(tb) + 1) % 73 = 0 /\ n \div 18 = m \div 18 + 1
      BY <2>0, <2>6, <2>8, PlaceNewline
    <3>5. m \div 18 \in Nat
      BY <2>0, SMT
    <3>6. Len(v[n]) = 4 * n + n \div 18
      BY <2>0, <2>6, <3>3, <3>4, <3>5
    <3>7. ASSUME NEW i \in 1 .. Len(v[n]) PROVE Placed(v[n], src, i)
      <4>1. CASE i = Len(tb) + 1
        BY <3>3, <3>4, <4>1 DEF Placed
      <4>2. CASE i # Len(tb) + 1
        <5>1. i \in 1 .. Len(tb)
          BY <2>6, <3>3, <4>2
        <5> QED
          BY <2>6, <3>3, <5>1, SamePlace
      <4> QED
        BY <4>1, <4>2
    <3> QED
      BY <3>3, <3>6, <3>7
  <2>9. CASE n % 18 # 0
    <3>1. v[n] = tb
      BY <2>6, <2>7, <2>9
    <3>2. n \div 18 = m \div 18
      BY <2>0, <2>9, SMT
    <3>3. Good(n)
      BY <2>6, <3>1, <3>2
    <3> QED
      BY <3>3
  <2> QED
    BY <2>8, <2>9
<1>3. \A n \in 0 .. N : n \in T
  <2> HIDE DEF T
  <2> QED
    BY <1>0, <1>1, <1>2, Upwards
<1> QED
  BY <1>3 DEF N, v

(* The one or two bytes that are left over.                                  *)
LEMMA LastPlaced ==
    ASSUME NEW src \in Seq(Octet), NEW n \in Nat, NEW m \in {1, 2}, Len(src) = 3 * n + m,
           NEW rest, rest = SubSeq(src, 3 * n + 1, Len(src))
    PROVE  /\ Text64!Last(rest) \in Seq(Char) /\ Len(Text64!Last(rest)) = 4
           /\ \A j \in 1 .. 4 : Text64!Last(rest)[j] = Code(src, 4 * n + j)
<1>1. /\ rest \in Seq(Octet) /\ Len(rest) = m /\ rest[1] = src[3 * n + 1]
      /\ m = 2 => rest[2] = src[3 * n + 2]
  BY SubSeqProperties
<1> DEFINE padded == rest \o <<0, 0>>
           b == Text64!Block(Three(src, n))
<1>2. padded[1] = Source(src, 3 * n + 1)
  BY <1>1 DEF Source
<1>3. padded[2] = Source(src, 3 * n + 2) /\ padded[3] = Source(src, 3 * n + 3)
  <2>1. CASE m = 1
    BY <1>1, <2>1 DEF Source
  <2>2. CASE m = 2
    BY <1>1, <2>2 DEF Source
  <2> QED
    BY <2>1, <2>2
<1>4. Text64!Block(padded) = b
  <2> HIDE DEF padded
  <2>1. /\ padded[1] = Three(src, n)[1] /\ padded[2] = Three(src, n)[2]
        /\ padded[3] = Three(src, n)[3]
    BY <1>2, <1>3 DEF Three
  <2> QED
    BY <2>1, BlockOf
<1>5. b \in Seq(Char) /\ Len(b) = 4
  <2>1. b \in Seq(Text64!Codes) /\ Len(b) = 4
    BY BlockCodes
  <2>2. Text64!Codes \subseteq Char
    BY DEF Text64!Codes, Char
  <2> QED
    BY <2>1, <2>2, SeqMonotonic
<1> HIDE DEF padded, b
<1> DEFINE codes == SubSeq(b, 1, m + 1)
           pads == [i \in 1 .. 3 - m |-> Text64!Pad]
<1>6. codes \in Seq(Char) /\ Len(codes) = m + 1 /\ \A j \in 1 .. m + 1 : codes[j] = b[j]
  <2> DEFINE k == m + 1
  <2>1. 1 \in Nat /\ k \in Nat /\ 1 <= k /\ 1 .. k \subseteq 1 .. 4
    OBVIOUS
  <2>2. \A j \in 1 .. 4 : b[j] \in Char
    BY <1>5, ElementOfSeq
  <2> HIDE DEF k
  <2>3. \A j \in 1 .. k : b[j] \in Char
    BY <2>1, <2>2, Zenon
  <2>4. Slice(Char, SubSeq(b, 1, k), b, 1, k)
    BY <2>1, <2>3, SliceOf, Zenon
  <2> DEFINE c == SubSeq(b, 1, k)
  <2>5. c \in Seq(Char) /\ Len(c) = k - 1 + 1 /\ \A j \in 1 .. k - 1 + 1 : c[j] = b[1 + j - 1]
    BY <2>4, Zenon DEF Slice
  <2> HIDE DEF c
  <2>6. c \in Seq(Char) /\ Len(c) = k /\ \A j \in 1 .. k : c[j] = b[j]
    BY <2>1, <2>5
  <2> QED
    BY <2>6 DEF k, c
<1>7. pads \in Seq(Char) /\ Len(pads) = 3 - m /\ \A j \in 1 .. 3 - m : pads[j] = Text64!Pad
  <2>1. Text64!Pad \in Char
    BY DEF Text64!Pad, Char
  <2>2. 3 - m \in Nat
    OBVIOUS
  <2> QED
    BY <2>1, <2>2
<1>8. Text64!Last(rest) = codes \o pads
  BY <1>1, <1>4 DEF Text64!Last, padded
<1> HIDE DEF codes, pads
<1>9. /\ codes \o pads \in Seq(Char) /\ Len(codes \o pads) = 4
      /\ \A j \in 1 .. 4 : (codes \o pads)[j] = IF j <= m + 1 THEN b[j] ELSE Text64!Pad
  <2> DEFINE k == m + 1
             l == 3 - m
             u == codes \o pads
  <2>1. /\ codes \in Seq(Char) /\ pads \in Seq(Char) /\ k \in Nat /\ l \in Nat
        /\ k = Len(codes) /\ l = Len(pads) /\ k + l = 4
    BY <1>6, <1>7
  <2>2. u = codes \o pads
    OBVIOUS
  <2>3. (\A j \in 1 .. k : codes[j] = b[j]) /\ (\A j \in 1 .. l : pads[j] = Text64!Pad)
    BY <1>6, <1>7
  <2> HIDE DEF k, l, u
  <2>4. Join(Char, u, codes, k, pads, l)
    BY <2>1, <2>2, Joined, Zenon
  <2>5. u \in Seq(Char) /\ Len(u) = 4
    BY <2>1, <2>4 DEF Join
  <2>6. ASSUME NEW j \in 1 .. 4 PROVE u[j] = IF j <= k THEN b[j] ELSE Text64!Pad
    <3>1. CASE j <= k
      <4>1. j \in 1 .. k
        BY <2>1, <3>1
      <4>2. u[j] = codes[j] /\ codes[j] = b[j]
        BY <2>3, <2>4, <4>1, Zenon DEF Join
      <4> QED
        BY <3>1, <4>2
    <3>2. CASE ~(j <= k)
      <4> DEFINE i == j - k
      <4>1. i \in 1 .. l /\ k + i = j
        BY <2>1, <3>2
      <4> HIDE DEF i
      <4>2. u[k + i] = pads[i] /\ pads[i] = Text64!Pad
        BY <2>3, <2>4, <4>1, Zenon DEF Join
      <4> QED
        BY <3>2, <4>1, <4>2
    <3> QED
      BY <3>1, <3>2
  <2> QED
    BY <2>5, <2>6 DEF k, u
<1>10. ASSUME NEW j \in 1 .. 4 PROVE Text64!Last(rest)[j] = Code(src, 4 * n + j)
  <2>1. Code(src, 4 * n + j) = IF 3 * n + (j - 1) > Len(src) THEN Text64!Pad ELSE b[j]
    BY CodeAt DEF b
  <2>2. 3 * n + (j - 1) > Len(src) <=> ~(j <= m + 1)
    OBVIOUS
  <2> QED
    BY <1>8, <1>9, <2>1, <2>2
<1> QED
  BY <1>8, <1>9, <1>10

(* The text of so many blocks, the last one padded.                          *)
Encoded(text, src, blocks) ==
    /\ text \in Seq(Char) /\ Len(text) = 4 * blocks + (blocks + 17) \div 18
    /\ \A i \in 1 .. Len(text) :
          text[i] = IF i % 73 = 0 \/ i = Len(text) THEN Text64!Newline
                    ELSE Code(src, i - i \div 73)

LEMMA LineEnded ==
    ASSUME NEW src, NEW blocks \in Nat, NEW t \in Seq(Char),
           Len(t) = 4 * blocks + (blocks + 17) \div 18 - 1,
           \A i \in 1 .. Len(t) : Placed(t, src, i)
    PROVE  Encoded(t \o <<Text64!Newline>>, src, blocks)
<1> DEFINE u == t \o <<Text64!Newline>>
<1>1. Text64!Newline \in Char
  BY DEF Char, Text64!Newline
<1>2. u = Append(t, Text64!Newline)
  BY <1>1, AppendIsConcat
<1>3. /\ u \in Seq(Char) /\ Len(u) = Len(t) + 1 /\ u[Len(t) + 1] = Text64!Newline
      /\ \A i \in 1 .. Len(t) : u[i] = t[i]
  BY <1>1, <1>2, AppendProperties
<1> HIDE DEF u
<1>4. Len(u) = 4 * blocks + (blocks + 17) \div 18
  <2>1. (blocks + 17) \div 18 \in Nat
    BY SMT
  <2> QED
    BY <1>3, <2>1
<1>5. ASSUME NEW i \in 1 .. Len(u)
      PROVE  u[i] = IF i % 73 = 0 \/ i = Len(u) THEN Text64!Newline
                    ELSE Code(src, i - i \div 73)
  <2>1. CASE i = Len(u)
    BY <1>3, <2>1
  <2>2. CASE i # Len(u)
    <3>1. i \in 1 .. Len(t)
      BY <1>3, <2>2
    <3> QED
      BY <1>3, <2>2, <3>1 DEF Placed
  <2> QED
    BY <2>1, <2>2
<1>6. Encoded(u, src, blocks)
  BY <1>3, <1>4, <1>5 DEF Encoded
<1> QED
  BY <1>6 DEF u

LEMMA EncodedText ==
    ASSUME NEW src \in Seq(Octet)
    PROVE  Encoded(Text64!base64_encode(src), src, (Len(src) + 2) \div 3)
<1> DEFINE N == Len(src) \div 3
           m == Len(src) % 3
           rest == SubSeq(src, 3 * N + 1, Len(src))
           u == Text64!Lines(src)[N]
           text == Text64!base64_encode(src)
           q == N \div 18
<1>1. N \in Nat /\ N \in 0 .. N /\ m \in 0 .. 2 /\ Len(src) = 3 * N + m
  BY SMT
<1>2. u \in Seq(Char) /\ Len(u) = 4 * N + N \div 18 /\ \A i \in 1 .. Len(u) : Placed(u, src, i)
  BY <1>1, LinesPlaced
<1>3. text = IF rest # << >> THEN u \o Text64!Last(rest) \o <<Text64!Newline>>
             ELSE u \o (IF N % 18 = 0 THEN << >> ELSE <<Text64!Newline>>)
  BY DEF Text64!base64_encode
<1>4. q \in Nat
  BY <1>1, SMT
<1> HIDE DEF N, m, u, text
<1>5. CASE m = 0
  <2>1. rest = << >> /\ (Len(src) + 2) \div 3 = N
    BY <1>1, <1>5, SMT
  <2>2. CASE N % 18 = 0
    <3>1. text = u
      BY <1>2, <1>3, <2>1, <2>2
    <3>2. (N + 17) \div 18 = q /\ Len(u) = 73 * q
      BY <1>1, <1>2, <2>2, SMT
    <3>3. Len(u) % 73 = 0
      BY <1>4, <3>2, SMT
    <3>4. \A i \in 1 .. Len(u) :
              u[i] = IF i % 73 = 0 \/ i = Len(u) THEN Text64!Newline ELSE Code(src, i - i \div 73)
      BY <1>2, <3>3 DEF Placed
    <3> QED
      BY <1>2, <2>1, <3>1, <3>2, <3>4 DEF Encoded, text
  <2>3. CASE N % 18 # 0
    <3>1. text = u \o <<Text64!Newline>>
      BY <1>3, <2>1, <2>3
    <3>2. (N + 17) \div 18 = q + 1
      BY <1>1, <2>3, SMT
    <3>3. Len(u) = 4 * N + (N + 17) \div 18 - 1
      BY <1>1, <1>2, <1>4, <3>2
    <3>4. Encoded(text, src, N)
      BY <1>1, <1>2, <3>1, <3>3, LineEnded
    <3> QED
      BY <2>1, <3>4 DEF text
  <2> QED
    BY <2>2, <2>3
<1>6. CASE m # 0
  <2> DEFINE t == u \o Text64!Last(rest)
  <2>0. m \in {1, 2} /\ N + 1 \in Nat
    BY <1>1, <1>6
  <2>1. (Len(src) + 2) \div 3 = N + 1 /\ rest # << >>
    <3>1. (Len(src) + 2) \div 3 = N + 1
      BY <1>1, <1>6, SMT
    <3>2. Len(rest) = m
      BY <1>1, <2>0, SubSeqProperties
    <3> HIDE DEF rest
    <3>3. rest # << >>
      BY <2>0, <3>2
    <3> QED
      BY <3>1, <3>3
  <2>2. /\ Text64!Last(rest) \in Seq(Char) /\ Len(Text64!Last(rest)) = 4
        /\ \A j \in 1 .. 4 : Text64!Last(rest)[j] = Code(src, 4 * N + j)
    BY <1>1, <2>0, LastPlaced
  <2>3. text = t \o <<Text64!Newline>>
    BY <1>3, <2>1
  <2> HIDE DEF rest
  <2>4. /\ t \in Seq(Char) /\ Len(t) = 4 * (N + 1) + N \div 18
        /\ \A i \in 1 .. Len(t) : Placed(t, src, i)
    BY <1>1, <1>2, <2>2, BlockAdded
  <2> HIDE DEF t
  <2>5. (N + 1 + 17) \div 18 = q + 1
    BY <1>1, SMT
  <2>6. Len(t) = 4 * (N + 1) + (N + 1 + 17) \div 18 - 1
    BY <1>1, <1>4, <2>4, <2>5
  <2>7. Encoded(text, src, N + 1)
    BY <2>0, <2>3, <2>4, <2>6, LineEnded
  <2> QED
    BY <2>1, <2>7 DEF text
<1> QED
  BY <1>5, <1>6

(* What Known steps through.                                                 *)
LEMMA KnownSteps ==
    ASSUME NEW text \in Seq(Char), NEW L \in Nat, L = Len(text)
    PROVE  \E k \in [0 .. L -> Seq(Char)] :
               /\ k[0] = << >> /\ Text64!Known(text) = k[L]
               /\ \A i \in 1 .. L : k[i] = IF text[i] = Text64!Newline THEN k[i - 1]
                                           ELSE Append(k[i - 1], text[i])
<1> DEFINE S == Seq(Char)
           F == [x \in (1 .. L) \X S |-> IF text[x[1]] = Text64!Newline THEN x[2]
                                         ELSE Append(x[2], text[x[1]])]
           Is(f) == f = [i \in 0 .. L |->
                            IF i = 0 THEN << >>
                            ELSE IF text[i] = Text64!Newline THEN f[i - 1]
                                 ELSE Append(f[i - 1], text[i])]
           value == CHOOSE f : Is(f)
<1>1. \A i \in 1 .. L : text[i] \in Char
  BY ElementOfSeq
<1>2. << >> \in S
  OBVIOUS
<1>3. \A i \in 1 .. L, y \in S :
          (IF text[i] = Text64!Newline THEN y ELSE Append(y, text[i])) \in S
  BY <1>1, AppendProperties
<1>4. F \in [(1 .. L) \X S -> S]
  <2> HIDE DEF S
  <2> QED
    BY <1>3
<1>5. \A i \in 1 .. L, y \in S :
          F[<<i, y>>] = IF text[i] = Text64!Newline THEN y ELSE Append(y, text[i])
  <2> HIDE DEF S
  <2> QED
    OBVIOUS
<1> HIDE DEF F, S
<1>6. PICK g \in [0 .. L -> S] : Steps(g, L, << >>, F)
  BY <1>2, <1>4, Recursion
<1>7. Is(g)
  <2>1. g[0] = << >>
    BY <1>6 DEF Steps
  <2>2. ASSUME NEW i \in 1 .. L
        PROVE  g[i] = IF text[i] = Text64!Newline THEN g[i - 1] ELSE Append(g[i - 1], text[i])
    <3>1. g[i] = F[<<i, g[i - 1]>>]
      BY <1>6 DEF Steps
    <3>2. i - 1 \in 0 .. L /\ g[i - 1] \in S
      OBVIOUS
    <3> QED
      BY <1>5, <3>1, <3>2
  <2>3. g = [i \in 0 .. L |-> g[i]]
    OBVIOUS
  <2>4. \A i \in 0 .. L : g[i] = IF i = 0 THEN << >>
                                 ELSE IF text[i] = Text64!Newline THEN g[i - 1]
                                      ELSE Append(g[i - 1], text[i])
    <3>1. \A i \in 0 .. L : i # 0 => i \in 1 .. L
      OBVIOUS
    <3> QED
      BY <2>1, <2>2, <3>1, Zenon
  <2> QED
    BY <2>3, <2>4
<1>8. Is(value)
  BY <1>7
<1>9. Text64!Known(text) = value[L]
  BY DEF Text64!Known
<1> HIDE DEF value
<1>10. \A i \in 0 .. L : value[i] = IF i = 0 THEN << >>
                                    ELSE IF text[i] = Text64!Newline THEN value[i - 1]
                                         ELSE Append(value[i - 1], text[i])
  BY <1>8
<1>11. value[0] = << >>
  BY <1>10
<1>12. \A i \in 1 .. L : value[i] = IF text[i] = Text64!Newline THEN value[i - 1]
                                    ELSE Append(value[i - 1], text[i])
  <2>1. \A i \in 1 .. L : i \in 0 .. L /\ i # 0
    OBVIOUS
  <2> QED
    BY <1>10, <2>1, Zenon
<1>13. \A i \in 0 .. L : value[i] \in S
  <2> DEFINE T == {i \in 0 .. L : value[i] \in S}
  <2>1. 0 \in T
    BY <1>2, <1>11
  <2>2. ASSUME NEW i \in 1 .. L, i - 1 \in T PROVE i \in T
    <3>1. value[i - 1] \in S /\ i \in 0 .. L
      BY <2>2
    <3>2. (IF text[i] = Text64!Newline THEN value[i - 1] ELSE Append(value[i - 1], text[i])) \in S
      BY <1>3, <3>1
    <3>3. value[i] \in S
      BY <1>12, <3>2
    <3> QED
      BY <3>1, <3>3
  <2> HIDE DEF T
  <2>3. \A i \in 0 .. L : i \in T
    BY <2>1, <2>2, Upwards
  <2> QED
    BY <2>3 DEF T
<1>14. value \in [0 .. L -> S]
  <2>1. value = [i \in 0 .. L |-> value[i]]
    BY <1>8
  <2> QED
    BY <1>13, <2>1
<1> QED
  BY <1>9, <1>11, <1>12, <1>14 DEF S

(* The k-th character that is no newline.                                    *)
LEMMA PlaceOfKnown ==
    ASSUME NEW i \in Nat \ {0}, i % 73 # 0
    PROVE  /\ i - i \div 73 \in Nat \ {0} /\ i - i \div 73 = (i - 1) - (i - 1) \div 73 + 1
           /\ (i - i \div 73) + (i - i \div 73 - 1) \div 72 = i
<1> DEFINE q == i \div 73
           r == i % 73
<1>1. q \in Nat /\ r \in 1 .. 72 /\ i = 73 * q + r
  BY SMT
<1>2. (i - 1) \div 73 = q
  BY <1>1, SMT
<1> HIDE DEF q, r
<1>3. i - q = 72 * q + r
  BY <1>1
<1>4. (i - q - 1) \div 72 = q
  BY <1>1, <1>3, SMT
<1>5. /\ i - q \in Nat \ {0} /\ i - q = (i - 1) - (i - 1) \div 73 + 1
      /\ (i - q) + (i - q - 1) \div 72 = i
  BY <1>1, <1>2, <1>3, <1>4
<1> QED
  BY <1>5 DEF q

(* Of a text with a newline after each 72 and at its end all others remain.  *)
LEMMA KnownPlaced ==
    ASSUME NEW text \in Seq(Char), NEW L \in Nat \ {0}, L = Len(text),
           \A i \in 1 .. L : text[i] = Text64!Newline <=> i % 73 = 0 \/ i = L
    PROVE  /\ Text64!Known(text) \in Seq(Char)
           /\ Len(Text64!Known(text)) = L - 1 - (L - 1) \div 73
           /\ \A j \in 1 .. L - 1 - (L - 1) \div 73 :
                 Text64!Known(text)[j] = text[j + (j - 1) \div 72]
<1>1. PICK k \in [0 .. L -> Seq(Char)] :
          /\ k[0] = << >> /\ Text64!Known(text) = k[L]
          /\ \A i \in 1 .. L : k[i] = IF text[i] = Text64!Newline THEN k[i - 1]
                                      ELSE Append(k[i - 1], text[i])
  BY KnownSteps
<1> DEFINE Size(i) == i - i \div 73
           Good(i) == /\ Len(k[i]) = Size(i)
                      /\ \A j \in 1 .. Size(i) : k[i][j] = text[j + (j - 1) \div 72]
           T == {i \in 0 .. L - 1 : Good(i)}
<1>0. \A i \in T : Good(i)
  <2> HIDE DEF Good
  <2> QED
    OBVIOUS
<1>2. 0 \in T
  <2>1. 0 \div 73 = 0 /\ Len(k[0]) = 0
    BY <1>1, SMT
  <2> QED
    BY <2>1
<1>3. ASSUME NEW i \in 1 .. L - 1, i - 1 \in T PROVE i \in T
  <2>0. Good(i - 1) /\ i \in 1 .. L /\ i # L /\ i \in 0 .. L - 1 /\ i - 1 \in 0 .. L
    <3>1. i \in 1 .. L /\ i # L /\ i \in 0 .. L - 1 /\ i - 1 \in 0 .. L
      OBVIOUS
    <3> HIDE DEF T, Good
    <3>2. Good(i - 1)
      BY <1>0, <1>3
    <3> QED
      BY <3>1, <3>2
  <2>1. CASE i % 73 = 0
    <3>1. k[i] = k[i - 1]
      BY <1>1, <2>0, <2>1
    <3>2. Size(i) = Size(i - 1)
      BY <2>1, SMT
    <3> HIDE DEF Size
    <3> QED
      BY <2>0, <3>1, <3>2
  <2>2. CASE i % 73 # 0
    <3>1. k[i] = Append(k[i - 1], text[i])
      BY <1>1, <2>0, <2>2
    <3>2. Size(i) \in Nat \ {0} /\ Size(i) = Size(i - 1) + 1 /\ Size(i) + (Size(i) - 1) \div 72 = i
      BY <2>2, PlaceOfKnown
    <3> HIDE DEF Size
    <3>3. k[i - 1] \in Seq(Char) /\ text[i] \in Char /\ Len(k[i - 1]) = Size(i - 1)
      BY <1>1, <2>0, ElementOfSeq
    <3>4. Size(i - 1) \in Nat
      BY <3>3
    <3>5. /\ Len(k[i]) = Size(i) /\ k[i][Size(i)] = text[i]
          /\ \A j \in 1 .. Size(i - 1) : k[i][j] = k[i - 1][j]
      <4> DEFINE s == k[i - 1]
                 c == text[i]
      <4>1. s \in Seq(Char) /\ c \in Char /\ Len(s) = Size(i - 1) /\ k[i] = Append(s, c)
        BY <3>1, <3>3
      <4> HIDE DEF s, c
      <4>2. /\ Len(Append(s, c)) = Len(s) + 1 /\ Append(s, c)[Len(s) + 1] = c
            /\ \A j \in 1 .. Len(s) : Append(s, c)[j] = s[j]
        BY <4>1, AppendProperties
      <4>3. /\ Len(k[i]) = Size(i) /\ k[i][Size(i)] = c
            /\ \A j \in 1 .. Size(i - 1) : k[i][j] = s[j]
        BY <3>2, <4>1, <4>2
      <4> QED
        BY <4>3 DEF s, c
    <3>6. ASSUME NEW j \in 1 .. Size(i) PROVE k[i][j] = text[j + (j - 1) \div 72]
      <4>1. CASE j = Size(i)
        BY <3>2, <3>5, <4>1
      <4>2. CASE j # Size(i)
        <5>1. j \in 1 .. Size(i - 1)
          BY <3>2, <3>4, <4>2
        <5> QED
          BY <2>0, <3>5, <5>1
      <4> QED
        BY <4>1, <4>2
    <3> QED
      BY <2>0, <3>5, <3>6
  <2> QED
    BY <2>1, <2>2
<1>4. Good(L - 1)
  <2>1. L - 1 \in Nat /\ L - 1 \in 0 .. L - 1
    OBVIOUS
  <2> HIDE DEF T
  <2>2. \A i \in 0 .. L - 1 : i \in T
    BY <1>2, <1>3, <2>1, Upwards
  <2>3. L - 1 \in T
    BY <2>1, <2>2
  <2> QED
    BY <2>3 DEF T
<1>5. k[L] = k[L - 1] /\ k[L - 1] \in Seq(Char)
  <2>1. L \in 1 .. L /\ L - 1 \in 0 .. L
    OBVIOUS
  <2> QED
    BY <1>1, <2>1
<1>6. Text64!Known(text) = k[L - 1]
  BY <1>1, <1>5
<1> QED
  BY <1>4, <1>5, <1>6

(* The newlines of an encoded text go, its codes stay.                       *)
LEMMA KnownEncoded ==
    ASSUME NEW src \in Seq(Octet), NEW blocks \in Nat \ {0}, NEW text, Encoded(text, src, blocks)
    PROVE  /\ Text64!Known(text) \in Seq(Char) /\ Len(Text64!Known(text)) = 4 * blocks
           /\ \A j \in 1 .. 4 * blocks : Text64!Known(text)[j] = Code(src, j)
<1> DEFINE L == Len(text)
           q == (blocks - 1) \div 18
           r == (blocks - 1) % 18
<1>1. q \in Nat /\ r \in 0 .. 17 /\ blocks = 18 * q + r + 1 /\ (blocks + 17) \div 18 = q + 1
  BY SMT
<1>2. text \in Seq(Char) /\ L = 4 * blocks + q + 1
  BY <1>1 DEF Encoded
<1>3. \A i \in 1 .. L : text[i] = IF i % 73 = 0 \/ i = L THEN Text64!Newline
                                  ELSE Code(src, i - i \div 73)
  BY DEF Encoded
<1> HIDE DEF L, q, r
<1>4. L \in Nat \ {0} /\ L - 1 = 73 * q + (4 * r + 4)
  BY <1>1, <1>2
<1>5. (L - 1) \div 73 = q
  BY <1>1, <1>4, SMT
<1>6. L - 1 - (L - 1) \div 73 = 4 * blocks
  BY <1>1, <1>4, <1>5
<1>7. ASSUME NEW i \in 1 .. L PROVE text[i] = Text64!Newline <=> i % 73 = 0 \/ i = L
  <2>1. CASE i % 73 = 0 \/ i = L
    BY <1>3, <2>1
  <2>2. CASE ~(i % 73 = 0 \/ i = L)
    <3>1. i - i \div 73 \in Nat \ {0}
      BY <2>2, PlaceOfKnown
    <3>2. Code(src, i - i \div 73) \in 0 .. 64
      BY <3>1, CodeChar
    <3>3. text[i] = Code(src, i - i \div 73)
      BY <1>3, <2>2
    <3>4. text[i] # Text64!Newline
      <4>1. \A c \in 0 .. 64 : c # Text64!Newline
        BY DEF Text64!Newline
      <4> QED
        BY <3>2, <3>3, <4>1, Zenon
    <3> QED
      BY <2>2, <3>4
  <2> QED
    BY <2>1, <2>2
<1>8. /\ Text64!Known(text) \in Seq(Char) /\ Len(Text64!Known(text)) = 4 * blocks
      /\ \A j \in 1 .. 4 * blocks : Text64!Known(text)[j] = text[j + (j - 1) \div 72]
  <2>1. L = Len(text)
    BY DEF L
  <2>2. \A i \in 1 .. L : text[i] = Text64!Newline <=> i % 73 = 0 \/ i = L
    BY <1>7
  <2>3. /\ Text64!Known(text) \in Seq(Char)
        /\ Len(Text64!Known(text)) = L - 1 - (L - 1) \div 73
        /\ \A j \in 1 .. L - 1 - (L - 1) \div 73 :
              Text64!Known(text)[j] = text[j + (j - 1) \div 72]
    BY <1>2, <1>4, <2>1, <2>2, KnownPlaced, Zenon
  <2> QED
    BY <1>6, <2>3, Zenon
<1>9. ASSUME NEW j \in 1 .. 4 * blocks PROVE text[j + (j - 1) \div 72] = Code(src, j)
  <2> DEFINE p == (j - 1) \div 72
             o == (j - 1) % 72
             i == j + p
  <2>1. p \in Nat /\ o \in 0 .. 71 /\ j = 72 * p + o + 1
    BY SMT
  <2>2. p <= q
    BY <1>1, SMT
  <2> HIDE DEF p, o
  <2>3. i = 73 * p + (o + 1)
    BY <2>1
  <2>4. i \in 1 .. L /\ i # L
    BY <1>1, <1>2, <2>1, <2>2
  <2> HIDE DEF i
  <2>5. i % 73 # 0 /\ i \div 73 = p
    BY <2>1, <2>3, SMT
  <2>6. text[i] = Code(src, i - p)
    BY <1>3, <2>4, <2>5
  <2>7. i - p = j
    BY <2>1 DEF i
  <2> QED
    BY <2>6, <2>7 DEF i, p
<1> QED
  BY <1>8, <1>9

(* A character is a pad where the bytes it would need are missing.           *)
LEMMA CodeIsPad ==
    ASSUME NEW src \in Seq(Octet), NEW n \in Nat, NEW j \in 1 .. 4
    PROVE  Code(src, 4 * n + j) = Text64!Pad <=> 3 * n + (j - 1) > Len(src)
<1> DEFINE b == Text64!Block(Three(src, n))
<1>1. b \in Seq(Text64!Codes) /\ Len(b) = 4
  BY BlockCodes
<1>2. Code(src, 4 * n + j) = IF 3 * n + (j - 1) > Len(src) THEN Text64!Pad ELSE b[j]
  BY CodeAt
<1> HIDE DEF b
<1>3. b[j] \in Text64!Codes
  <2>1. j \in 1 .. Len(b)
    BY <1>1
  <2> QED
    BY <1>1, <2>1, ElementOfSeq
<1>4. b[j] # Text64!Pad
  <2>1. \A c \in Text64!Codes : c # Text64!Pad
    BY DEF Text64!Codes, Text64!Pad
  <2> QED
    BY <1>3, <2>1, Zenon
<1> QED
  BY <1>2, <1>4

(* The bytes of four codes, where a pad is read as 0.                        *)
LEMMA UnblockOf ==
    ASSUME NEW b, NEW c, b[1] = c[1], b[2] = c[2], b[3] = c[3], b[4] = c[4]
    PROVE  Text64!Unblock(b) = Text64!Unblock(c)
BY DEF Text64!Unblock

LEMMA ThreeBack ==
    ASSUME NEW src \in Seq(Octet), NEW n \in Nat, 3 * n + 1 <= Len(src), NEW c,
           \A j \in 1 .. 4 : c[j] = IF Code(src, 4 * n + j) = Text64!Pad THEN 0
                                    ELSE Code(src, 4 * n + j)
    PROVE  Text64!Unblock(c) = Three(src, n)
<1> DEFINE b1 == Source(src, 3 * n + 1)
           b2 == Source(src, 3 * n + 2)
           b3 == Source(src, 3 * n + 3)
           b == Text64!Block(<<b1, b2, b3>>)
<1>1. b1 \in Octet /\ b2 \in Octet /\ b3 \in Octet
  BY ThreeOctets
<1>2. /\ 3 * n + 3 > Len(src) => b3 = 0
      /\ 3 * n + 2 > Len(src) => b2 = 0 /\ b3 = 0
  BY DEF Source
<1>3. Three(src, n) = <<b1, b2, b3>>
  BY DEF Three
<1> HIDE DEF b1, b2, b3
<1>4. /\ Text64!Unblock(b) = <<b1, b2, b3>>
      /\ b3 = 0 => b[4] = 0
      /\ b2 = 0 /\ b3 = 0 => b[3] = 0
  BY <1>1, BlockUndone
<1> HIDE DEF b
<1>5. ASSUME NEW j \in 1 .. 4
      PROVE  c[j] = IF 3 * n + (j - 1) > Len(src) THEN 0 ELSE b[j]
  <2>1. Code(src, 4 * n + j) = IF 3 * n + (j - 1) > Len(src) THEN Text64!Pad ELSE b[j]
    BY <1>3, CodeAt DEF b
  <2>2. Code(src, 4 * n + j) = Text64!Pad <=> 3 * n + (j - 1) > Len(src)
    BY CodeIsPad
  <2> QED
    BY <2>1, <2>2
<1>6. c[1] = b[1] /\ c[2] = b[2]
  <2>1. ~(3 * n + (1 - 1) > Len(src)) /\ ~(3 * n + (2 - 1) > Len(src))
    OBVIOUS
  <2> QED
    BY <1>5, <2>1
<1>7. c[3] = b[3]
  <2>1. 3 * n + (3 - 1) = 3 * n + 2 /\ c[3] = IF 3 * n + (3 - 1) > Len(src) THEN 0 ELSE b[3]
    BY <1>5
  <2> QED
    BY <1>2, <1>4, <2>1
<1>8. c[4] = b[4]
  <2>1. 3 * n + (4 - 1) = 3 * n + 3 /\ c[4] = IF 3 * n + (4 - 1) > Len(src) THEN 0 ELSE b[4]
    BY <1>5
  <2> QED
    BY <1>2, <1>4, <2>1
<1>9. Text64!Unblock(c) = Text64!Unblock(b)
  BY <1>6, <1>7, <1>8, UnblockOf
<1> QED
  BY <1>3, <1>4, <1>9

(* What Bytes steps through: three bytes for each block.                     *)
LEMMA BytesBack ==
    ASSUME NEW src \in Seq(Octet), NEW blocks \in Nat \ {0},
           3 * blocks - 2 <= Len(src), Len(src) <= 3 * blocks,
           NEW known, \A j \in 1 .. 4 * blocks : known[j] = Code(src, j)
    PROVE  /\ Text64!Bytes(known, blocks) \in Seq(Octet)
           /\ Len(Text64!Bytes(known, blocks)) = 3 * blocks
           /\ \A i \in 1 .. 3 * blocks : Text64!Bytes(known, blocks)[i] = Source(src, i)
<1> DEFINE S == Seq(Octet)
           U(n) == Text64!Unblock([i \in 1 .. 4 |-> IF known[4 * n - 4 + i] = Text64!Pad THEN 0
                                                    ELSE known[4 * n - 4 + i]])
           F == [x \in (1 .. blocks) \X S |-> x[2] \o U(x[1])]
           Is(f) == f = [n \in 0 .. blocks |-> IF n = 0 THEN << >> ELSE f[n - 1] \o U(n)]
           value == CHOOSE f : Is(f)
<1>1. ASSUME NEW n \in 1 .. blocks PROVE U(n) = Three(src, n - 1)
  <2> DEFINE m == n - 1
             c == [i \in 1 .. 4 |-> IF known[4 * n - 4 + i] = Text64!Pad THEN 0
                                    ELSE known[4 * n - 4 + i]]
  <2>1. m \in Nat /\ 3 * m + 1 <= Len(src) /\ 4 * n - 4 = 4 * m
    OBVIOUS
  <2>2. ASSUME NEW j \in 1 .. 4
        PROVE  c[j] = IF Code(src, 4 * m + j) = Text64!Pad THEN 0 ELSE Code(src, 4 * m + j)
    <3>1. 4 * m + j \in 1 .. 4 * blocks
      BY <2>1
    <3>2. known[4 * n - 4 + j] = Code(src, 4 * m + j)
      BY <2>1, <3>1
    <3> QED
      BY <3>2
  <2> HIDE DEF m, c
  <2>3. Text64!Unblock(c) = Three(src, m)
    BY <2>1, <2>2, ThreeBack
  <2> QED
    BY <2>3 DEF m, c
<1>2. << >> \in S
  OBVIOUS
<1> HIDE DEF U, S
<1>3. \A n \in 1 .. blocks : U(n) \in S /\ Len(U(n)) = 3
  <2>1. \A n \in 1 .. blocks : n - 1 \in Nat
    OBVIOUS
  <2> QED
    BY <1>1, <2>1, ThreeOctets DEF S
<1>4. F \in [(1 .. blocks) \X S -> S]
  BY <1>3, ConcatProperties DEF S
<1>5. \A n \in 1 .. blocks, y \in S : F[<<n, y>>] = y \o U(n)
  OBVIOUS
<1> HIDE DEF F
<1>6. PICK g \in [0 .. blocks -> S] : Steps(g, blocks, << >>, F)
  BY <1>2, <1>4, Recursion
<1>7. Is(g)
  <2>1. g[0] = << >>
    BY <1>6 DEF Steps
  <2>2. ASSUME NEW n \in 1 .. blocks PROVE g[n] = g[n - 1] \o U(n)
    <3>1. g[n] = F[<<n, g[n - 1]>>]
      BY <1>6 DEF Steps
    <3>2. n - 1 \in 0 .. blocks /\ g[n - 1] \in S
      OBVIOUS
    <3> QED
      BY <1>5, <3>1, <3>2
  <2>3. g = [n \in 0 .. blocks |-> g[n]]
    OBVIOUS
  <2>4. \A n \in 0 .. blocks : g[n] = IF n = 0 THEN << >> ELSE g[n - 1] \o U(n)
    <3>1. \A n \in 0 .. blocks : n # 0 => n \in 1 .. blocks
      OBVIOUS
    <3> QED
      BY <2>1, <2>2, <3>1, Zenon
  <2> QED
    BY <2>3, <2>4
<1>8. Is(value)
  BY <1>7
<1>9. Text64!Bytes(known, blocks) = value[blocks]
  BY DEF Text64!Bytes, U
<1> HIDE DEF value
<1>10. \A n \in 0 .. blocks : value[n] = IF n = 0 THEN << >> ELSE value[n - 1] \o U(n)
  BY <1>8
<1> DEFINE Good(n) == /\ value[n] \in Seq(Octet) /\ Len(value[n]) = 3 * n
                      /\ \A i \in 1 .. 3 * n : value[n][i] = Source(src, i)
           T == {n \in 0 .. blocks : Good(n)}
<1>11. Good(0)
  <2>1. value[0] = << >>
    BY <1>10
  <2> QED
    BY <2>1
<1>12. ASSUME NEW n \in 1 .. blocks, Good(n - 1) PROVE Good(n)
  <2> DEFINE t == value[n - 1]
             u == U(n)
             m == n - 1
  <2>0. m \in Nat /\ n = m + 1 /\ n \in 0 .. blocks /\ n # 0
    OBVIOUS
  <2>1. value[n] = t \o u
    BY <1>10, <2>0, Zenon
  <2>2. u = Three(src, m) /\ u \in Seq(Octet) /\ Len(u) = 3
    BY <1>1, <1>3 DEF S
  <2>3. t \in Seq(Octet) /\ Len(t) = 3 * m /\ \A i \in 1 .. 3 * m : t[i] = Source(src, i)
    BY <1>12
  <2> HIDE DEF t, u, m
  <2>4. /\ t \o u \in Seq(Octet) /\ Len(t \o u) = Len(t) + Len(u)
        /\ \A i \in 1 .. Len(t) : (t \o u)[i] = t[i]
        /\ (t \o u)[Len(t) + 1] = u[1] /\ (t \o u)[Len(t) + 2] = u[2] /\ (t \o u)[Len(t) + 3] = u[3]
    <3>1. /\ t \o u \in Seq(Octet) /\ Len(t \o u) = Len(t) + Len(u)
          /\ \A i \in 1 .. Len(t) + Len(u) :
                (t \o u)[i] = IF i <= Len(t) THEN t[i] ELSE u[i - Len(t)]
      BY <2>2, <2>3, ConcatProperties
    <3>2. /\ Len(t) \in Nat /\ Len(u) = 3
      BY <2>2, <2>3
    <3> DEFINE l == Len(t)
    <3>3. /\ l \in Nat
          /\ l + 1 \in 1 .. l + 3 /\ ~(l + 1 <= l) /\ l + 1 - l = 1
          /\ l + 2 \in 1 .. l + 3 /\ ~(l + 2 <= l) /\ l + 2 - l = 2
          /\ l + 3 \in 1 .. l + 3 /\ ~(l + 3 <= l) /\ l + 3 - l = 3
          /\ \A i \in 1 .. l : i \in 1 .. l + 3 /\ i <= l
      BY <3>2
    <3>4. \A i \in 1 .. l + 3 : (t \o u)[i] = IF i <= l THEN t[i] ELSE u[i - l]
      BY <3>1, <3>2
    <3> HIDE DEF l
    <3>5. /\ \A i \in 1 .. l : (t \o u)[i] = t[i]
          /\ (t \o u)[l + 1] = u[1] /\ (t \o u)[l + 2] = u[2] /\ (t \o u)[l + 3] = u[3]
      <4> DEFINE w == t \o u
      <4>1. \A i \in 1 .. l + 3 : w[i] = IF i <= l THEN t[i] ELSE u[i - l]
        BY <3>4
      <4> HIDE DEF w
      <4>2. \A i \in 1 .. l : w[i] = t[i]
        BY <3>3, <4>1, Zenon
      <4>3. w[l + 1] = u[1] /\ w[l + 2] = u[2] /\ w[l + 3] = u[3]
        BY <3>3, <4>1
      <4> QED
        BY <4>2, <4>3 DEF w
    <3> QED
      BY <3>1, <3>5 DEF l
  <2>5. u[1] = Source(src, 3 * m + 1) /\ u[2] = Source(src, 3 * m + 2) /\ u[3] = Source(src, 3 * m + 3)
    BY <2>2 DEF Three
  <2>6. Len(t \o u) = 3 * n /\ 3 * n = 3 * m + 3
    BY <2>0, <2>2, <2>3, <2>4
  <2>7. ASSUME NEW i \in 1 .. 3 * n PROVE (t \o u)[i] = Source(src, i)
    <3>1. CASE i \in 1 .. 3 * m
      BY <2>3, <2>4, <3>1
    <3>2. CASE ~(i \in 1 .. 3 * m)
      <4>1. i = 3 * m + 1 \/ i = 3 * m + 2 \/ i = 3 * m + 3
        BY <2>0, <2>6, <3>2
      <4> QED
        BY <2>3, <2>4, <2>5, <4>1
    <3> QED
      BY <3>1, <3>2
  <2> QED
    BY <2>1, <2>4, <2>6, <2>7
<1>13. Good(blocks)
  <2> HIDE DEF Good
  <2>1. 0 \in T
    BY <1>11
  <2>2. \A n \in 1 .. blocks : n - 1 \in T => n \in T
    BY <1>12
  <2>3. blocks \in Nat /\ blocks \in 0 .. blocks
    OBVIOUS
  <2>4. \A n \in 0 .. blocks : n \in T
    <3> HIDE DEF T
    <3> QED
      BY <2>1, <2>2, <2>3, Upwards
  <2>5. blocks \in T
    BY <2>3, <2>4
  <2> QED
    BY <2>5
<1> QED
  BY <1>9, <1>13

(* Pads stand for the bytes that are missing in the last block.              *)
LEMMA PadsOf ==
    ASSUME NEW src \in Seq(Octet), NEW blocks \in Nat \ {0},
           3 * blocks - 2 <= Len(src), Len(src) <= 3 * blocks,
           NEW known, \A j \in 1 .. 4 * blocks : known[j] = Code(src, j),
           NEW n \in 1 .. blocks
    PROVE  Text64!Pads(known, n) = IF n = blocks THEN 3 * blocks - Len(src) ELSE 0
<1> DEFINE m == n - 1
           missing(j) == IF 3 * m + (j - 1) > Len(src) THEN 1 ELSE 0
<1>1. m \in Nat /\ n = m + 1
  OBVIOUS
<1>2. ASSUME NEW j \in 1 .. 4
      PROVE  (IF known[4 * n - 4 + j] = Text64!Pad THEN 1 ELSE 0) = missing(j)
  <2>1. 4 * n - 4 + j = 4 * m + j /\ 4 * m + j \in 1 .. 4 * blocks
    OBVIOUS
  <2>2. known[4 * n - 4 + j] = Code(src, 4 * m + j)
    BY <2>1
  <2>3. Code(src, 4 * m + j) = Text64!Pad <=> 3 * m + (j - 1) > Len(src)
    BY <1>1, CodeIsPad
  <2> QED
    BY <2>2, <2>3
<1>3. Text64!Pads(known, n) = missing(1) + missing(2) + missing(3) + missing(4)
  <2> HIDE DEF missing
  <2>1. 1 \in 1 .. 4 /\ 2 \in 1 .. 4 /\ 3 \in 1 .. 4 /\ 4 \in 1 .. 4
    OBVIOUS
  <2>2. Text64!Pads(known, n) =
            (IF known[4 * n - 4 + 1] = Text64!Pad THEN 1 ELSE 0)
            + (IF known[4 * n - 4 + 2] = Text64!Pad THEN 1 ELSE 0)
            + (IF known[4 * n - 4 + 3] = Text64!Pad THEN 1 ELSE 0)
            + (IF known[4 * n - 4 + 4] = Text64!Pad THEN 1 ELSE 0)
    BY Zenon DEF Text64!Pads
  <2> QED
    BY <1>2, <2>1, <2>2, Zenon
<1>4. Len(src) \in Nat
  OBVIOUS
<1>5. missing(1) = 0 /\ missing(2) = 0
  BY <1>1, <1>4
<1>6. CASE n = blocks
  <2>1. missing(3) + missing(4) = 3 * blocks - Len(src)
    BY <1>1, <1>4, <1>6
  <2> HIDE DEF missing
  <2>2. Text64!Pads(known, n) = 0 + 0 + missing(3) + missing(4)
    BY <1>3, <1>5, Zenon
  <2>3. missing(3) \in Int /\ missing(4) \in Int
    BY DEF missing
  <2> QED
    BY <1>6, <2>1, <2>2, <2>3
<1>7. CASE n # blocks
  <2>1. missing(3) = 0 /\ missing(4) = 0
    BY <1>1, <1>4, <1>7
  <2> HIDE DEF missing
  <2>2. Text64!Pads(known, n) = 0 + 0 + 0 + 0
    BY <1>3, <1>5, <2>1, Zenon
  <2> QED
    BY <1>7, <2>2
<1> QED
  BY <1>6, <1>7

LEMMA Decoded ==
    ASSUME NEW src \in Seq(Octet), NEW blocks \in Nat \ {0}, NEW text,
           3 * blocks - 2 <= Len(src), Len(src) <= 3 * blocks,
           Encoded(text, src, blocks)
    PROVE  Text64!base64_decode(text) = src
<1> DEFINE known == Text64!Known(text)
           padded == {n \in 1 .. Len(known) \div 4 : Text64!Pads(known, n) > 0}
           end == IF padded = {} THEN Len(known) \div 4
                  ELSE CHOOSE n \in padded : \A m \in padded : n <= m
           bytes == Text64!Bytes(known, blocks)
<1>1. /\ known \in Seq(Char) /\ Len(known) = 4 * blocks
      /\ \A j \in 1 .. 4 * blocks : known[j] = Code(src, j)
  BY KnownEncoded
<1>2. text \in Seq(Char)
  BY DEF Encoded
<1>3. Text64!base64_decode(text) =
          IF known = << >> \/ Len(known) % 4 # 0 \/ Text64!Pads(known, end) > 2
          THEN Text64!Failure
          ELSE SubSeq(Text64!Bytes(known, end), 1, 3 * end - Text64!Pads(known, end))
  BY DEF Text64!base64_decode
<1> HIDE DEF known
<1>4. Len(known) \div 4 = blocks /\ Len(known) % 4 = 0 /\ known # << >>
  BY <1>1, SMT
<1>5. \A n \in 1 .. blocks :
          Text64!Pads(known, n) = IF n = blocks THEN 3 * blocks - Len(src) ELSE 0
  BY <1>1, PadsOf
<1>6. end = blocks
  <2>1. blocks \in 1 .. blocks
    OBVIOUS
  <2>2. CASE 3 * blocks = Len(src)
    <3>1. padded = {}
      BY <1>4, <1>5, <2>2
    <3> QED
      BY <1>4, <3>1
  <2>3. CASE 3 * blocks # Len(src)
    <3>1. padded = {blocks}
      BY <1>4, <1>5, <2>1, <2>3
    <3> HIDE DEF padded
    <3>2. (CHOOSE n \in padded : \A m \in padded : n <= m) = blocks
      BY <3>1
    <3> QED
      BY <3>1, <3>2
  <2> QED
    BY <2>2, <2>3
<1> HIDE DEF padded, end
<1>7. Text64!Pads(known, end) = 3 * blocks - Len(src)
  <2>1. blocks \in 1 .. blocks
    OBVIOUS
  <2> QED
    BY <1>5, <1>6, <2>1
<1>8. Text64!base64_decode(text) = SubSeq(bytes, 1, Len(src))
  <2>1. ~(3 * blocks - Len(src) > 2) /\ 3 * blocks - (3 * blocks - Len(src)) = Len(src)
    OBVIOUS
  <2> QED
    BY <1>3, <1>4, <1>6, <1>7, <2>1
<1>9. /\ bytes \in Seq(Octet) /\ Len(bytes) = 3 * blocks
      /\ \A i \in 1 .. 3 * blocks : bytes[i] = Source(src, i)
  BY <1>1, BytesBack
<1> HIDE DEF bytes
<1> DEFINE back == SubSeq(bytes, 1, Len(src))
<1>10. /\ back \in Seq(Octet) /\ Len(back) = Len(src)
       /\ \A i \in 1 .. Len(src) : back[i] = bytes[i]
  <2>1. Len(src) \in Nat /\ Len(src) <= Len(bytes)
    BY <1>9
  <2> QED
    BY <1>9, <2>1, SubSeqProperties
<1>11. \A i \in 1 .. Len(src) : back[i] = src[i]
  <2> HIDE DEF back
  <2>1. \A i \in 1 .. Len(src) : i \in 1 .. 3 * blocks /\ i <= Len(src)
    OBVIOUS
  <2> QED
    BY <1>9, <1>10, <2>1 DEF Source
<1>12. back = src
  <2> HIDE DEF back
  <2> QED
    BY <1>10, <1>11, SeqEqual
<1> QED
  BY <1>8, <1>12

LEMMA EmptyText ==
    ASSUME NEW text, Encoded(text, << >>, 0)
    PROVE  text = << >> /\ Text64!base64_decode(text) = Text64!Failure
<1>1. text = << >>
  <2>1. 17 \div 18 = 0 /\ 4 * 0 + (0 + 17) \div 18 = 0
    BY SMT
  <2> QED
    BY <2>1 DEF Encoded
<1>2. text \in Seq(Char) /\ 0 = Len(text)
  BY <1>1
<1>3. Text64!Known(text) = << >>
  <2>1. 0 \in Nat
    OBVIOUS
  <2>2. PICK k \in [0 .. 0 -> Seq(Char)] : k[0] = << >> /\ Text64!Known(text) = k[0]
    BY <1>2, <2>1, KnownSteps, Zenon
  <2> QED
    BY <2>2
<1> QED
  BY <1>1, <1>3 DEF Text64!base64_decode

(* Decoding undoes encoding for every sequence of bytes, over as many lines  *)
(* as it takes, and the text fits its buffer (base64.cpp 29-150).            *)
THEOREM Base64Undoes ==
    ASSUME NEW src \in Seq(Octet)
    PROVE  Text64!RoundTrip(src)
<1> DEFINE text == Text64!base64_encode(src)
           blocks == (Len(src) + 2) \div 3
           l == Len(src)
<1>1. Encoded(text, src, blocks)
  BY EncodedText
<1>2. l \in Nat /\ blocks \in Nat /\ 3 * blocks - 2 <= l /\ l <= 3 * blocks
  BY SMT
<1> HIDE DEF text, blocks
<1>3. Text64!base64_decode(text) = IF src = << >> THEN Text64!Failure ELSE src
  <2>1. CASE src = << >>
    <3>1. blocks = 0
      BY <1>2, <2>1
    <3> QED
      BY <1>1, <2>1, <3>1, EmptyText
  <2>2. CASE src # << >>
    <3>1. blocks # 0
      BY <1>2, <2>2
    <3> QED
      BY <1>1, <1>2, <2>2, <3>1, Decoded
  <2> QED
    BY <2>1, <2>2
<1>4. Len(text) + 1 <= Text64!Allocated(Len(src))
  <2> HIDE DEF l
  <2> DEFINE olen == (l * 4) \div 3 + 4
             lines == (blocks + 17) \div 18
  <2>1. Len(text) = 4 * blocks + lines
    BY <1>1 DEF Encoded
  <2>2. Text64!Allocated(l) = olen + (olen \div 72) + 1
    BY DEF Text64!Allocated
  <2>3. olen \in Nat /\ 4 * blocks <= olen + 1
    BY <1>2, SMT
  <2>4. olen >= 4 * blocks - 3 + 4 \/ (blocks = 0 /\ olen = 4) \/ olen >= 4 * blocks
    BY <1>2, SMT
  <2>5. lines <= (olen \div 72) + 1 /\ lines \in Nat /\ olen \div 72 \in Nat
    BY <1>2, SMT
  <2> QED
    BY <1>2, <2>1, <2>2, <2>3, <2>4, <2>5 DEF l
<1>5. \A i \in DOMAIN text : text[i] = Text64!Newline <=> i % 73 = 0 \/ i = Len(text)
  <2>1. DOMAIN text = 1 .. Len(text) /\ Len(text) \in Nat
    BY <1>1 DEF Encoded
  <2>2. ASSUME NEW i \in 1 .. Len(text)
        PROVE  text[i] = Text64!Newline <=> i % 73 = 0 \/ i = Len(text)
    <3>1. text[i] = IF i % 73 = 0 \/ i = Len(text) THEN Text64!Newline
                    ELSE Code(src, i - i \div 73)
      BY <1>1 DEF Encoded
    <3>2. CASE i % 73 = 0 \/ i = Len(text)
      BY <3>1, <3>2
    <3>3. CASE ~(i % 73 = 0 \/ i = Len(text))
      <4>1. i - i \div 73 \in Nat \ {0}
        <5>1. i \in Nat \ {0}
          BY <2>1
        <5>2. i % 73 # 0
          BY <3>3, Zenon
        <5> QED
          BY <5>1, <5>2, PlaceOfKnown
      <4>2. Code(src, i - i \div 73) \in 0 .. 64
        BY <4>1, CodeChar
      <4>3. \A c \in 0 .. 64 : c # Text64!Newline
        BY DEF Text64!Newline
      <4>4. text[i] # Text64!Newline
        BY <3>1, <3>3, <4>2, <4>3, Zenon
      <4> QED
        BY <3>3, <4>4
    <3> QED
      BY <3>2, <3>3
  <2> QED
    BY <2>1, <2>2
<1> QED
  BY <1>3, <1>4, <1>5 DEF Text64!RoundTrip, text

-----------------------------------------------------------------------------
(* What sha1 is given, and the blocks it hashes: after k bytes of a padded   *)
(* message P, a context has the blocks that are full and the rest of P in    *)
(* its buffer, wherever the input was cut; padding continues P.              *)

(* The bytes of a block, and a context (sha1.h).                             *)
Cell == 0 .. BlockLength - 1
Contents == [Cell -> Octet]
Context ==
    [block : Contents, index : Nat, length : Nat, processed : Seq(Contents),
     computed : BOOLEAN, corrupted : BOOLEAN]

(* The place of a block's byte in all that is hashed, both from 0.           *)
Place(b, i) == b * BlockLength + i

LEMMA Sizes ==
    /\ BlockLength \in Nat \ {0} /\ LengthBytes \in Nat \ {0}
    /\ Sha1!Start = BlockLength - LengthBytes /\ Sha1!Start \in Nat \ {0}
    /\ Sha1!Start < BlockLength
BY BlocksAssumption DEF Sha1!Start

(* A context holds what P has up to byte r of block q.                       *)
Whole(c, P, q) ==
    Len(c.processed) = q
    /\ \A b \in 1 .. q : \A i \in Cell : c.processed[b][i] = P[Place(b - 1, i)]

UpTo(x, S, n, m) == \A j \in 0 .. m - 1 : x.block[j] = S[Place(n, j)]

Reached(c, P, q, r) ==
    c \in Context /\ c.index = r /\ Whole(c, P, q) /\ UpTo(c, P, q, r)

Same(c, d) ==
    d.length = c.length /\ d.computed = c.computed /\ d.corrupted = c.corrupted

LEMMA BlockFields ==
    ASSUME NEW c \in Context
    PROVE  LET d == Sha1!SHA1ProcessMessageBlock(c)
           IN  /\ d \in Context /\ d.block = c.block /\ d.index = 0
               /\ d.processed = Append(c.processed, c.block) /\ Same(c, d)
<1> DEFINE d == Sha1!SHA1ProcessMessageBlock(c)
<1>1. d = [c EXCEPT !.processed = Append(c.processed, c.block), !.index = 0]
  BY DEF Sha1!SHA1ProcessMessageBlock
<1>2. Append(c.processed, c.block) \in Seq(Contents)
  <2>1. c.processed \in Seq(Contents) /\ c.block \in Contents
    BY DEF Context
  <2> QED
    BY <2>1, AppendProperties
<1> HIDE DEF d
<1>3. /\ d.block = c.block /\ d.index = 0 /\ d.processed = Append(c.processed, c.block)
      /\ d.length = c.length /\ d.computed = c.computed /\ d.corrupted = c.corrupted
  BY <1>1 DEF Context
<1>4. d \in Context
  BY <1>1, <1>2 DEF Context
<1> QED
  BY <1>3, <1>4 DEF d, Same

LEMMA BlockEnded ==
    ASSUME NEW c, NEW P, NEW q \in Nat, Reached(c, P, q, BlockLength)
    PROVE  /\ Reached(Sha1!SHA1ProcessMessageBlock(c), P, q + 1, 0)
           /\ Same(c, Sha1!SHA1ProcessMessageBlock(c))
<1> DEFINE d == Sha1!SHA1ProcessMessageBlock(c)
           s == c.processed
           e == c.block
<1>1. c \in Context
  BY DEF Reached
<1>2. /\ d \in Context /\ d.index = 0 /\ d.processed = Append(s, e) /\ Same(c, d)
  BY <1>1, BlockFields
<1>3. s \in Seq(Contents) /\ e \in Contents /\ Len(s) = q
  BY <1>1 DEF Context, Reached, Whole
<1>4. \A b \in 1 .. q : \A i \in Cell : s[b][i] = P[Place(b - 1, i)]
  BY DEF Reached, Whole
<1>5. \A i \in Cell : e[i] = P[Place(q, i)]
  BY DEF Reached, UpTo, Cell
<1> HIDE DEF d, s, e
<1>6. /\ Len(Append(s, e)) = q + 1 /\ Append(s, e)[q + 1] = e
      /\ \A b \in 1 .. q : Append(s, e)[b] = s[b]
  BY <1>3, AppendProperties
<1>7. \A b \in 1 .. q + 1 : \A i \in Cell : d.processed[b][i] = P[Place(b - 1, i)]
  <2>1. ASSUME NEW b \in 1 .. q + 1, NEW i \in Cell
        PROVE  d.processed[b][i] = P[Place(b - 1, i)]
    <3>1. CASE b = q + 1
      <4>1. b - 1 = q
        BY <3>1
      <4> QED
        BY <1>2, <1>5, <1>6, <3>1, <4>1
    <3>2. CASE b # q + 1
      <4>1. b \in 1 .. q
        BY <3>2
      <4> QED
        BY <1>2, <1>4, <1>6, <4>1
    <3> QED
      BY <3>1, <3>2
  <2> QED
    BY <2>1
<1>8. UpTo(d, P, q + 1, 0)
  BY DEF UpTo
<1>9. Whole(d, P, q + 1)
  BY <1>2, <1>6, <1>7 DEF Whole
<1>10. Reached(d, P, q + 1, 0)
  BY <1>2, <1>8, <1>9, Zenon DEF Reached
<1> QED
  BY <1>2, <1>10 DEF d

(* One byte more.                                                            *)

Stored(c, byte) ==
    [c EXCEPT !.block[c.index] = byte, !.index = @ + 1, !.length = @ + 1]

LEMMA StoredFields ==
    ASSUME NEW c \in Context, NEW byte \in Octet, c.index \in Cell
    PROVE  LET d == Stored(c, byte)
           IN  /\ d \in Context /\ d.block = [c.block EXCEPT ![c.index] = byte]
               /\ d.index = c.index + 1 /\ d.length = c.length + 1 /\ d.processed = c.processed
               /\ d.computed = c.computed /\ d.corrupted = c.corrupted
<1> DEFINE d == Stored(c, byte)
           e == [c.block EXCEPT ![c.index] = byte]
<1>1. d = [c EXCEPT !.block = e, !.index = c.index + 1, !.length = c.length + 1]
  BY DEF Stored, Context
<1>2. e \in Contents
  <2>1. c.block \in Contents
    BY DEF Context
  <2> QED
    BY <2>1 DEF Contents
<1> HIDE DEF d, e
<1>3. /\ d.block = e /\ d.index = c.index + 1 /\ d.length = c.length + 1
      /\ d.processed = c.processed /\ d.computed = c.computed /\ d.corrupted = c.corrupted
  BY <1>1 DEF Context
<1>4. d \in Context
  <2>1. c.index + 1 \in Nat /\ c.length + 1 \in Nat
    BY DEF Context, Cell
  <2> QED
    BY <1>1, <1>2, <2>1 DEF Context
<1> QED
  BY <1>3, <1>4 DEF d, e

LEMMA StoredHeld ==
    ASSUME NEW c, NEW P, NEW q \in Nat, NEW r \in Cell, Reached(c, P, q, r),
           NEW byte \in Octet, byte = P[Place(q, r)]
    PROVE  Reached(Stored(c, byte), P, q, r + 1)
<1> DEFINE d == Stored(c, byte)
           e == c.block
<1>1. c \in Context /\ c.index = r
  BY DEF Reached
<1>2. /\ d \in Context /\ d.block = [e EXCEPT ![r] = byte]
      /\ d.index = r + 1 /\ d.processed = c.processed
  BY <1>1, StoredFields
<1>3. e \in Contents /\ Whole(c, P, q)
  BY <1>1 DEF Context, Reached
<1>4. \A i \in 0 .. r - 1 : e[i] = P[Place(q, i)]
  BY DEF Reached, UpTo
<1> HIDE DEF d, e
<1>6. UpTo(d, P, q, r + 1)
  <2>0. r \in Int
    BY Sizes DEF Cell
  <2>1. ASSUME NEW i \in 0 .. r PROVE d.block[i] = P[Place(q, i)]
    <3>0. r \in Int /\ i \in Cell
      BY Sizes DEF Cell
    <3>1. CASE i = r
      BY <1>2, <1>3, <3>0, <3>1 DEF Contents
    <3>2. CASE i # r
      <4>1. i \in 0 .. r - 1
        BY <3>0, <3>2
      <4>2. d.block[i] = e[i]
        BY <1>2, <1>3, <3>0, <3>2 DEF Contents
      <4> QED
        BY <1>4, <4>1, <4>2
    <3> QED
      BY <3>1, <3>2
  <2>3. SUFFICES ASSUME NEW i \in 0 .. (r + 1) - 1 PROVE d.block[i] = P[Place(q, i)]
    BY Zenon DEF UpTo
  <2>4. i \in 0 .. r
    BY <2>0
  <2> QED
    BY <2>1, <2>4
<1>7. Reached(d, P, q, r + 1)
  <2>1. Whole(d, P, q)
    <3>1. Whole(c, P, q) /\ d.processed = c.processed
      BY <1>2, <1>3, Zenon
    <3> QED
      BY <3>1 DEF Whole
  <2> QED
    BY <1>2, <1>6, <2>1, Zenon DEF Reached
<1> QED
  BY <1>7 DEF d

(* After k bytes of P.                                                       *)
Fed(c, P, k) ==
    /\ \E q \in Nat, r \in Cell : Reached(c, P, q, r) /\ Place(q, r) = k
    /\ c.length = k /\ c.computed = FALSE /\ c.corrupted = FALSE

LEMMA PlaceNext ==
    ASSUME NEW q \in Nat, NEW r \in Nat
    PROVE  /\ Place(q, r) \in Nat /\ Place(q, r + 1) = Place(q, r) + 1
           /\ Place(q + 1, 0) = Place(q, BlockLength)
<1> DEFINE B == BlockLength
           x == q * B
<1>1. B \in Nat
  BY Sizes
<1> HIDE DEF B
<1>2. x \in Nat /\ (q + 1) * B = x + B
  BY <1>1, SMT
<1> HIDE DEF x
<1>3. Place(q, r) = x + r /\ Place(q, r + 1) = x + (r + 1) /\ Place(q, BlockLength) = x + B
      /\ Place(q + 1, 0) = x + B + 0
  BY <1>2 DEF Place, x, B
<1> QED
  BY <1>1, <1>2, <1>3

LEMMA FedOne ==
    ASSUME NEW c, NEW P, NEW k \in Nat, Fed(c, P, k), NEW byte \in Octet, byte = P[k]
    PROVE  Fed(Sha1!Store(c, byte), P, k + 1)
<1>1. PICK q \in Nat, r \in Cell : Reached(c, P, q, r) /\ Place(q, r) = k
  BY DEF Fed
<1> DEFINE d == Stored(c, byte)
           f == Sha1!Store(c, byte)
<1>2. Reached(d, P, q, r + 1)
  BY <1>1, StoredHeld
<1>3. d.length = k + 1 /\ d.computed = FALSE /\ d.corrupted = FALSE /\ d.index = r + 1
  <2>1. c \in Context /\ c.index = r
    BY <1>1 DEF Reached
  <2>2. d.length = c.length + 1 /\ d.computed = c.computed /\ d.corrupted = c.corrupted
        /\ d.index = r + 1
    BY <2>1, StoredFields
  <2> QED
    BY <2>2 DEF Fed
<1>4. f = IF d.index = BlockLength THEN Sha1!SHA1ProcessMessageBlock(d) ELSE d
  BY DEF Sha1!Store, Stored
<1>5. r \in Nat /\ BlockLength \in Nat
  BY Sizes DEF Cell
<1>6. Place(q, r + 1) = k + 1
  BY <1>1, <1>5, PlaceNext
<1> HIDE DEF d, f
<1>7. CASE r + 1 = BlockLength
  <2>0. Reached(d, P, q, BlockLength)
    BY <1>2, <1>7, Zenon
  <2>1. Reached(f, P, q + 1, 0) /\ Same(d, f)
    <3>1. f = Sha1!SHA1ProcessMessageBlock(d)
      BY <1>3, <1>4, <1>7
    <3> QED
      BY <2>0, <3>1, BlockEnded
  <2>2. q + 1 \in Nat /\ 0 \in Cell /\ Place(q + 1, 0) = k + 1
    <3>1. Place(q + 1, 0) = Place(q, BlockLength)
      BY PlaceNext
    <3>2. Place(q, BlockLength) = k + 1
      BY <1>6, <1>7, Zenon
    <3>3. 0 \in Cell
      BY Sizes DEF Cell
    <3> QED
      BY <3>1, <3>2, <3>3
  <2> QED
    BY <1>3, <2>1, <2>2 DEF Fed, Same, f
<1>8. CASE r + 1 # BlockLength
  <2>1. r + 1 \in Cell
    BY <1>5, <1>8 DEF Cell
  <2>2. f = d
    BY <1>3, <1>4, <1>8
  <2> QED
    BY <1>2, <1>3, <1>6, <2>1, <2>2 DEF Fed, f
<1> QED
  BY <1>7, <1>8

(* Store, on every context with room for a byte.                             *)
Ready == {c \in Context : c.index \in Cell}

LEMMA StoreReady ==
    ASSUME NEW c \in Ready, NEW byte \in Octet
    PROVE  Sha1!Store(c, byte) \in Ready
<1> DEFINE d == Stored(c, byte)
           f == Sha1!Store(c, byte)
<1>1. c \in Context /\ c.index \in Cell
  BY DEF Ready
<1>2. d \in Context /\ d.index = c.index + 1
  BY <1>1, StoredFields
<1>3. f = IF d.index = BlockLength THEN Sha1!SHA1ProcessMessageBlock(d) ELSE d
  BY DEF Sha1!Store, Stored
<1> HIDE DEF d, f
<1>4. CASE d.index = BlockLength
  <2>1. f \in Context /\ f.index = 0
    BY <1>2, <1>3, <1>4, BlockFields
  <2>2. 0 \in Cell
    BY Sizes DEF Cell
  <2> QED
    BY <2>1, <2>2 DEF Ready, f
<1>5. CASE d.index # BlockLength
  <2>1. f = d
    BY <1>3, <1>5
  <2>2. d.index \in Cell
    BY <1>1, <1>2, <1>5, Sizes DEF Cell
  <2> QED
    BY <1>2, <2>1, <2>2 DEF Ready, f
<1> QED
  BY <1>4, <1>5

LEMMA FedReady ==
    ASSUME NEW c, NEW P, NEW k, Fed(c, P, k)
    PROVE  c \in Ready
BY DEF Fed, Reached, Ready

(* The contexts after each byte of an input.                                 *)
IsAfter(f, c, bytes, N) ==
    f = [n \in 0 .. N |-> IF n = 0 THEN c ELSE Sha1!Store(f[n - 1], bytes[n])]

LEMMA Afterwards ==
    ASSUME NEW c \in Ready, NEW bytes \in Seq(Octet), NEW N \in Nat, N = Len(bytes)
    PROVE  \E f : IsAfter(f, c, bytes, N)
<1> DEFINE F == [x \in (1 .. N) \X Ready |-> Sha1!Store(x[2], bytes[x[1]])]
<1>1. \A i \in 1 .. N : bytes[i] \in Octet
  BY ElementOfSeq
<1>2. \A i \in 1 .. N, y \in Ready : Sha1!Store(y, bytes[i]) \in Ready
  BY <1>1, StoreReady
<1>3. F \in [(1 .. N) \X Ready -> Ready]
  BY <1>2
<1>4. \A i \in 1 .. N, y \in Ready : F[<<i, y>>] = Sha1!Store(y, bytes[i])
  OBVIOUS
<1> HIDE DEF F
<1>5. PICK g \in [0 .. N -> Ready] : Steps(g, N, c, F)
  BY <1>3, Recursion
<1>6. g[0] = c
  BY <1>5 DEF Steps
<1>7. ASSUME NEW i \in 1 .. N PROVE g[i] = Sha1!Store(g[i - 1], bytes[i])
  <2>1. g[i] = F[<<i, g[i - 1]>>]
    BY <1>5 DEF Steps
  <2>2. i - 1 \in 0 .. N /\ g[i - 1] \in Ready
    OBVIOUS
  <2> QED
    BY <1>4, <2>1, <2>2
<1>8. g = [i \in 0 .. N |-> g[i]]
  OBVIOUS
<1>9. \A i \in 0 .. N : g[i] = IF i = 0 THEN c ELSE Sha1!Store(g[i - 1], bytes[i])
  <2>1. \A i \in 0 .. N : i # 0 => i \in 1 .. N
    OBVIOUS
  <2> QED
    BY <1>6, <1>7, <2>1, Zenon
<1>10. IsAfter(g, c, bytes, N)
  BY <1>8, <1>9, Zenon DEF IsAfter
<1> QED
  BY <1>10

LEMMA FedMany ==
    ASSUME NEW c, NEW P, NEW k \in Nat, Fed(c, P, k), NEW bytes \in Seq(Octet),
           NEW N \in Nat, N = Len(bytes), \A i \in 1 .. N : bytes[i] = P[k + i - 1]
    PROVE  Fed(Sha1!SHA1Input(c, bytes), P, k + N)
<1> DEFINE after == CHOOSE f : IsAfter(f, c, bytes, N)
<1>1. c.computed = FALSE /\ c.corrupted = FALSE
  BY DEF Fed
<1>2. Sha1!SHA1Input(c, bytes) = IF bytes = << >> \/ c.corrupted THEN c
                                 ELSE IF c.computed THEN [c EXCEPT !.corrupted = TRUE]
                                 ELSE after[N]
  BY DEF Sha1!SHA1Input, IsAfter
<1>3. IsAfter(after, c, bytes, N)
  <2>1. c \in Ready
    BY FedReady
  <2>2. \E f : IsAfter(f, c, bytes, N)
    BY <2>1, Afterwards
  <2> QED
    BY <2>2, Zenon
<1> HIDE DEF after
<1>4. \A n \in 0 .. N : after[n] = IF n = 0 THEN c ELSE Sha1!Store(after[n - 1], bytes[n])
  BY <1>3 DEF IsAfter
<1>5. \A i \in 1 .. N : bytes[i] \in Octet
  BY ElementOfSeq
<1> DEFINE T == {n \in 0 .. N : Fed(after[n], P, k + n)}
<1>6. 0 \in T
  <2>1. after[0] = c /\ k + 0 = k
    BY <1>4
  <2> QED
    BY <2>1
<1>7. ASSUME NEW n \in 1 .. N, n - 1 \in T PROVE n \in T
  <2>1. Fed(after[n - 1], P, k + (n - 1)) /\ k + (n - 1) \in Nat
    BY <1>7
  <2>2. bytes[n] \in Octet /\ bytes[n] = P[k + (n - 1)]
    <3>1. k + n - 1 = k + (n - 1)
      OBVIOUS
    <3> QED
      BY <1>5, <3>1, Zenon
  <2>3. Fed(Sha1!Store(after[n - 1], bytes[n]), P, k + (n - 1) + 1)
    BY <2>1, <2>2, FedOne
  <2>4. after[n] = Sha1!Store(after[n - 1], bytes[n])
    BY <1>4
  <2>5. k + (n - 1) + 1 = k + n
    OBVIOUS
  <2>6. Fed(after[n], P, k + n)
    BY <2>3, <2>4, <2>5, Zenon
  <2> QED
    BY <2>6
<1>8. N \in T
  <2> HIDE DEF T
  <2>1. \A n \in 0 .. N : n \in T
    BY <1>6, <1>7, Upwards
  <2> QED
    BY <2>1
<1>9. Fed(after[N], P, k + N)
  BY <1>8
<1>10. CASE bytes = << >>
  <2>1. Sha1!SHA1Input(c, bytes) = c
    BY <1>2, <1>10
  <2>2. k + N = k
    BY <1>10
  <2> QED
    BY <2>1, <2>2, Zenon
<1>11. CASE bytes # << >>
  <2>1. Sha1!SHA1Input(c, bytes) = after[N]
    BY <1>1, <1>2, <1>11, Zenon
  <2> QED
    BY <1>9, <2>1, Zenon
<1> QED
  BY <1>10, <1>11

(* Where the first byte goes.                                                *)
LEMMA FedReset ==
    ASSUME NEW P
    PROVE  Fed(Sha1!SHA1Reset, P, 0)
<1> DEFINE c == Sha1!SHA1Reset
<1>0. 0 \in Cell /\ 0 \in Octet
  BY Sizes DEF Cell, Octet
<1>1. c \in Context /\ c.index = 0 /\ c.length = 0 /\ c.processed = << >>
      /\ c.computed = FALSE /\ c.corrupted = FALSE
  <2>1. c.block \in Contents
    BY <1>0 DEF Sha1!SHA1Reset, Contents, Cell
  <2> QED
    BY <2>1 DEF Sha1!SHA1Reset, Context
<1> HIDE DEF c
<1>2. Whole(c, P, 0) /\ UpTo(c, P, 0, 0)
  BY <1>1 DEF Whole, UpTo
<1>3. Reached(c, P, 0, 0)
  BY <1>1, <1>2, Zenon DEF Reached
<1>4. Place(0, 0) = 0
  BY Sizes DEF Place
<1> QED
  BY <1>0, <1>1, <1>3, <1>4 DEF Fed, c

LEMMA Product ==
    ASSUME NEW a \in Nat, NEW b \in Nat, NEW n \in Nat, a <= b
    PROVE  a * n <= b * n
OBVIOUS

LEMMA Quotient ==
    ASSUME NEW n \in Nat \ {0}, NEW q \in Nat, NEW s \in Nat, s < n
    PROVE  (q * n + s) \div n = q
<1> DEFINE x == q * n
           a == x + s
           d == a \div n
           y == d * n
<1>1. x \in Nat /\ a \in Nat
  OBVIOUS
<1>2. d \in Nat /\ y \in Nat /\ y <= a /\ a < y + n
  <2> HIDE DEF a
  <2> QED
    BY <1>1
<1>3. CASE d < q
  <2>1. (d + 1) * n = y + n
    BY <1>2
  <2>2. (d + 1) * n <= q * n
    <3> HIDE DEF d
    <3> QED
      BY <1>2, <1>3, Product
  <2> QED
    BY <1>1, <1>2, <2>1, <2>2
<1>4. CASE q < d
  <2>1. (q + 1) * n = x + n
    BY <1>1
  <2>2. (q + 1) * n <= d * n
    <3> HIDE DEF d
    <3> QED
      BY <1>2, <1>4, Product
  <2> QED
    BY <1>1, <1>2, <2>1, <2>2
<1> QED
  BY <1>2, <1>3, <1>4

(* A block that is full, wherever the index is.                              *)
LEMMA BlockDone ==
    ASSUME NEW c \in Context, NEW P, NEW q \in Nat,
           Whole(c, P, q), UpTo(c, P, q, BlockLength)
    PROVE  /\ Reached(Sha1!SHA1ProcessMessageBlock(c), P, q + 1, 0)
           /\ Same(c, Sha1!SHA1ProcessMessageBlock(c))
<1> DEFINE e == [c EXCEPT !.index = BlockLength]
<1>1. BlockLength \in Nat
  BY Sizes
<1>2. e \in Context /\ e.index = BlockLength /\ e.block = c.block
      /\ e.processed = c.processed /\ Same(c, e)
  BY <1>1 DEF Context, Same
<1>3. Sha1!SHA1ProcessMessageBlock(e) = Sha1!SHA1ProcessMessageBlock(c)
  BY DEF Context, Sha1!SHA1ProcessMessageBlock
<1> HIDE DEF e
<1>4. Whole(e, P, q) /\ UpTo(e, P, q, BlockLength)
  BY <1>2, Zenon DEF Whole, UpTo
<1>5. Reached(e, P, q, BlockLength)
  BY <1>2, <1>4, Zenon DEF Reached
<1> QED
  BY <1>2, <1>3, <1>5, BlockEnded DEF Same

(* Zeros up to place n.                                                      *)
LEMMA Filled ==
    ASSUME NEW c, NEW P, NEW q \in Nat, NEW r \in Nat, NEW n \in Nat,
           Reached(c, P, q, r), n <= BlockLength,
           \A i \in r .. n - 1 : P[Place(q, i)] = 0
    PROVE  Reached(Sha1!Fill(c, n), P, q, n) /\ Same(c, Sha1!Fill(c, n))
<1> DEFINE d == Sha1!Fill(c, n)
           e == c.block
           z == [i \in Cell |-> IF i >= r /\ i < n THEN 0 ELSE e[i]]
<1>1. c \in Context /\ c.index = r /\ Whole(c, P, q)
  BY DEF Reached
<1>2. \A i \in 0 .. r - 1 : e[i] = P[Place(q, i)]
  BY DEF Reached, UpTo
<1>3. e \in Contents
  BY <1>1 DEF Context
<1>4. z \in Contents
  BY <1>3 DEF Contents, Octet
<1>5. d = [c EXCEPT !.block = z, !.index = n]
  <2>1. c.block = e /\ DOMAIN e = Cell
    BY <1>3 DEF Contents
  <2> QED
    BY <1>1, <2>1 DEF Sha1!Fill, Context
<1>6. \A i \in Cell : z[i] = IF i >= r /\ i < n THEN 0 ELSE e[i]
  OBVIOUS
<1> HIDE DEF d, e, z
<1>7. d \in Context /\ d.block = z /\ d.index = n /\ d.processed = c.processed /\ Same(c, d)
  BY <1>1, <1>4, <1>5 DEF Context, Same
<1>8. UpTo(d, P, q, n)
  <2>1. SUFFICES ASSUME NEW i \in 0 .. n - 1 PROVE d.block[i] = P[Place(q, i)]
    BY Zenon DEF UpTo
  <2>2. i \in Cell /\ i < n
    BY Sizes DEF Cell
  <2>3. CASE i >= r
    <3>1. i \in r .. n - 1
      BY <2>3
    <3>2. z[i] = 0
      BY <1>6, <2>2, <2>3
    <3> QED
      BY <1>7, <3>1, <3>2
  <2>4. CASE ~(i >= r)
    <3>1. i \in 0 .. r - 1
      BY <2>4
    <3>2. z[i] = e[i]
      BY <1>6, <2>2, <2>4
    <3> QED
      BY <1>2, <1>7, <3>1, <3>2
  <2> QED
    BY <2>3, <2>4
<1>9. Whole(d, P, q)
  BY <1>1, <1>7, Zenon DEF Whole
<1>10. Reached(d, P, q, n)
  BY <1>7, <1>8, <1>9, Zenon DEF Reached
<1> QED
  BY <1>7, <1>10 DEF d

(* The 1 bit behind the message.                                             *)
LEMMA Marked ==
    ASSUME NEW c, NEW P, NEW q \in Nat, NEW r \in Cell, Reached(c, P, q, r),
           P[Place(q, r)] = 128
    PROVE  Reached(Sha1!Mark(c), P, q, r + 1) /\ Same(c, Sha1!Mark(c))
<1> DEFINE d == Sha1!Mark(c)
           s == Stored(c, 128)
<1>1. 128 \in Octet
  BY DEF Octet
<1>2. Reached(s, P, q, r + 1)
  <2> DEFINE byte == 128
  <2>1. byte \in Octet /\ byte = P[Place(q, r)]
    BY <1>1
  <2> HIDE DEF byte
  <2>2. Reached(Stored(c, byte), P, q, r + 1)
    BY <2>1, StoredHeld
  <2> QED
    BY <2>2 DEF byte
<1>3. c \in Context /\ c.index = r
  BY DEF Reached
<1>4. c.length \in Nat /\ r + 1 \in Nat
  BY <1>3, Sizes DEF Context, Cell
<1>5. d = [s EXCEPT !.length = c.length]
  BY <1>3 DEF Sha1!Mark, Stored, Context
<1>6. s \in Context /\ s.index = r + 1 /\ Whole(s, P, q) /\ UpTo(s, P, q, r + 1)
  BY <1>2, Zenon DEF Reached
<1>7. s.computed = c.computed /\ s.corrupted = c.corrupted
  <2> DEFINE byte == 128
             t == Stored(c, byte)
  <2>1. byte \in Octet
    BY <1>1
  <2> HIDE DEF byte
  <2>2. t.computed = c.computed /\ t.corrupted = c.corrupted
    BY <1>3, <2>1, StoredFields
  <2> QED
    BY <2>2 DEF byte
<1> HIDE DEF d, s
<1>8. d \in Context /\ d.index = r + 1 /\ d.block = s.block /\ d.processed = s.processed
      /\ d.length = c.length /\ d.computed = c.computed /\ d.corrupted = c.corrupted
  BY <1>4, <1>5, <1>6, <1>7 DEF Context
<1>9. Whole(d, P, q) /\ UpTo(d, P, q, r + 1)
  <2>1. Whole(d, P, q)
    <3>1. Whole(s, P, q) /\ d.processed = s.processed
      BY <1>6, <1>8, Zenon
    <3> QED
      BY <3>1 DEF Whole
  <2> QED
    BY <1>6, <1>8, <2>1, Zenon DEF UpTo
<1>10. Reached(d, P, q, r + 1)
  BY <1>8, <1>9, Zenon DEF Reached
<1> QED
  BY <1>8, <1>10 DEF d, Same

(* The padded message of the standard, byte by byte from 0.                  *)
LengthByte(n, k) ==
    IF k > 3 THEN 0 ELSE ((8 * n) \div <<1, 256, 65536, 16777216>>[k + 1]) % 256

Total(n) == (n + LengthBytes) \div BlockLength + 1

PaddedByte(message, p) ==
    LET n == Len(message)
        k == Total(n) * BlockLength - 1 - p
    IN  IF p < n THEN message[p + 1] ELSE IF p = n THEN 128
        ELSE IF k >= LengthBytes THEN 0 ELSE LengthByte(n, k)

Padding(message) == [p \in Nat |-> PaddedByte(message, p)]

LEMMA LengthOctets ==
    ASSUME NEW n \in Nat, NEW k \in Nat
    PROVE  LengthByte(n, k) \in Octet
<1> DEFINE a == <<1, 256, 65536, 16777216>>[k + 1]
<1>1. CASE k > 3
  BY <1>1 DEF LengthByte, Octet
<1>2. CASE ~(k > 3)
  <2>1. k + 1 \in {1, 2, 3, 4}
    BY <1>2
  <2>2. a \in Nat \ {0}
    BY <2>1
  <2>3. LengthByte(n, k) = ((8 * n) \div a) % 256
    BY <1>2 DEF LengthByte
  <2> HIDE DEF a
  <2>4. (8 * n) \div a \in Nat
    <3> DEFINE x == 8 * n
    <3>1. x \in Nat
      OBVIOUS
    <3> HIDE DEF x
    <3>2. x \div a \in Nat
      BY <2>2, <3>1
    <3> QED
      BY <3>2 DEF x
  <2> QED
    BY <2>3, <2>4 DEF Octet
<1> QED
  BY <1>1, <1>2

(* The blocks of a message that ends in byte r of block q.                   *)
LEMMA TotalOf ==
    ASSUME NEW q \in Nat, NEW r \in Cell, NEW n, n = Place(q, r)
    PROVE  /\ n \in Nat
           /\ r < Sha1!Start => Total(n) = q + 1
           /\ r >= Sha1!Start => Total(n) = q + 2
<1> DEFINE B == BlockLength
           L == LengthBytes
           x == q * B
<1>1. B \in Nat \ {0} /\ L \in Nat /\ L < B /\ Sha1!Start = B - L
      /\ r \in Nat /\ r < B
  BY Sizes DEF Cell
<1>2. n = x + r
  BY DEF Place
<1> HIDE DEF B, L
<1>3. x \in Nat /\ (q + 1) * B = x + B
  BY <1>1
<1>4. CASE r < Sha1!Start
  <2>1. r + L \in Nat /\ r + L < B
    BY <1>1, <1>4
  <2>2. (q * B + (r + L)) \div B = q
    BY <1>1, <2>1, Quotient
  <2>3. n + L = q * B + (r + L)
    BY <1>1, <1>2, <1>3
  <2> QED
    BY <1>1, <1>2, <1>3, <1>4, <2>2, <2>3 DEF Total, B, L
<1>5. CASE r >= Sha1!Start
  <2> DEFINE s == r + L - B
  <2>1. s \in Nat /\ s < B
    BY <1>1, <1>5
  <2>2. q + 1 \in Nat
    OBVIOUS
  <2>3. n + L = (q + 1) * B + s
    BY <1>1, <1>2, <1>3
  <2> HIDE DEF s
  <2>4. ((q + 1) * B + s) \div B = q + 1
    BY <1>1, <2>1, <2>2, Quotient
  <2> QED
    BY <1>1, <1>2, <1>3, <1>5, <2>3, <2>4 DEF Total, B, L
<1> QED
  BY <1>1, <1>2, <1>3, <1>4, <1>5

LEMMA PaddedAt ==
    ASSUME NEW message \in Seq(Octet), NEW n \in Nat, n = Len(message), NEW q \in Nat,
           NEW i \in Cell, Place(q, i) > n
    PROVE  /\ Place(q, i) \in Nat
           /\ Total(n) = q + 1 =>
                  Padding(message)[Place(q, i)] =
                      IF i < Sha1!Start THEN 0 ELSE LengthByte(n, BlockLength - 1 - i)
           /\ Total(n) = q + 2 => Padding(message)[Place(q, i)] = 0
<1> DEFINE B == BlockLength
           L == LengthBytes
           x == q * B
           p == Place(q, i)
           k == Total(n) * B - 1 - p
<1>1. B \in Nat \ {0} /\ L \in Nat /\ L < B /\ Sha1!Start = B - L
      /\ i \in Nat /\ i < B
  BY Sizes DEF Cell
<1>2. p = x + i
  BY DEF Place
<1> HIDE DEF B, L
<1>3. x \in Nat /\ (q + 1) * B = x + B /\ (q + 2) * B = x + B + B
  BY <1>1
<1> HIDE DEF x
<1>4. p \in Nat
  BY <1>1, <1>2, <1>3
<1>5. Padding(message)[p] = IF k >= L THEN 0 ELSE LengthByte(n, k)
  <2>1. Padding(message)[p] = PaddedByte(message, p)
    BY <1>4 DEF Padding
  <2>2. ~(p < n) /\ p # n
    BY <1>4
  <2> QED
    BY <2>1, <2>2 DEF PaddedByte, B, L
<1>6. ASSUME Total(n) = q + 1
      PROVE  Padding(message)[p] = IF i < Sha1!Start THEN 0 ELSE LengthByte(n, B - 1 - i)
  <2>1. k = B - 1 - i
    BY <1>1, <1>2, <1>3, <1>6
  <2>2. k >= L <=> i < Sha1!Start
    BY <1>1, <2>1
  <2> QED
    BY <1>5, <2>1, <2>2
<1>7. ASSUME Total(n) = q + 2 PROVE Padding(message)[p] = 0
  <2>1. k = B + B - 1 - i
    BY <1>1, <1>2, <1>3, <1>7
  <2>2. k >= L
    BY <1>1, <2>1
  <2> QED
    BY <1>5, <2>2
<1> QED
  BY <1>4, <1>6, <1>7 DEF B

LEMMA PaddedMessage ==
    ASSUME NEW message \in Seq(Octet), NEW n \in Nat, n = Len(message)
    PROVE  /\ \A i \in 1 .. n : Padding(message)[i - 1] = message[i]
           /\ Padding(message)[n] = 128
<1>1. ASSUME NEW i \in 1 .. n PROVE Padding(message)[i - 1] = message[i]
  <2>1. i - 1 \in Nat /\ i - 1 < n /\ i - 1 + 1 = i
    OBVIOUS
  <2>2. Padding(message)[i - 1] = PaddedByte(message, i - 1)
    BY <2>1 DEF Padding
  <2>3. PaddedByte(message, i - 1) = message[i - 1 + 1]
    BY <2>1 DEF PaddedByte
  <2> QED
    BY <2>1, <2>2, <2>3
<1>2. Padding(message)[n] = 128
  <2>1. Padding(message)[n] = PaddedByte(message, n)
    BY DEF Padding
  <2> QED
    BY <2>1 DEF PaddedByte
<1> QED
  BY <1>1, <1>2

(* The last block, with the length at its end.                               *)
LEMMA LastBlock ==
    ASSUME NEW message \in Seq(Octet), NEW n \in Nat, n = Len(message), NEW q \in Nat,
           Total(n) = q + 1, NEW r \in Nat, r <= Sha1!Start, Place(q, r) > n,
           NEW c, Reached(c, Padding(message), q, r), c.length = n
    PROVE  LET d == Sha1!SHA1ProcessMessageBlock(Sha1!StoreLength(Sha1!Fill(c, Sha1!Start)))
           IN  Reached(d, Padding(message), q + 1, 0) /\ Same(c, d)
<1> DEFINE P == Padding(message)
           S == Sha1!Start
           B == BlockLength
           e == Sha1!Fill(c, S)
           z == [i \in Cell |-> IF i >= S THEN LengthByte(n, B - 1 - i) ELSE e.block[i]]
           f == Sha1!StoreLength(e)
<1>1. S \in Nat /\ S < B /\ B \in Nat /\ S <= B
  BY Sizes
<1>2. \A i \in r .. B - 1 :
          /\ i \in Cell
          /\ P[Place(q, i)] = IF i < S THEN 0 ELSE LengthByte(n, B - 1 - i)
  <2>1. ASSUME NEW i \in r .. B - 1
        PROVE  /\ i \in Cell
               /\ P[Place(q, i)] = IF i < S THEN 0 ELSE LengthByte(n, B - 1 - i)
    <3>1. i \in Cell /\ i \in Nat /\ r <= i
      BY <1>1 DEF Cell
    <3>2. Place(q, i) > n
      <4> DEFINE x == q * B
      <4>1. x \in Nat
        BY <1>1
      <4>2. Place(q, i) = x + i /\ Place(q, r) = x + r
        BY DEF Place
      <4> HIDE DEF x
      <4> QED
        BY <3>1, <4>1, <4>2
    <3> QED
      BY <3>1, <3>2, PaddedAt
  <2> QED
    BY <2>1
<1>3. Reached(e, P, q, S) /\ Same(c, e)
  <2>1. \A i \in r .. S - 1 : P[Place(q, i)] = 0
    <3>1. \A i \in r .. S - 1 : i \in r .. B - 1 /\ i < S
      BY <1>1
    <3> QED
      BY <1>2, <3>1
  <2> HIDE DEF P, S
  <2> QED
    BY <1>1, <2>1, Filled DEF P
<1>4. e \in Context /\ e.length = n /\ Whole(e, P, q) /\ UpTo(e, P, q, S)
  BY <1>3, Zenon DEF Reached, Same
<1>5. z \in Contents
  <2>1. \A i \in Cell : B - 1 - i \in Nat
    BY <1>1 DEF Cell
  <2>2. \A i \in Cell : LengthByte(n, B - 1 - i) \in Octet
    BY <2>1, LengthOctets
  <2>3. e.block \in [Cell -> Octet]
    BY <1>4 DEF Context, Contents
  <2> HIDE DEF e
  <2> QED
    BY <2>2, <2>3 DEF Contents
<1>6. f = [e EXCEPT !.block = z]
  <2>1. DOMAIN e.block = Cell
    BY <1>4 DEF Context, Contents
  <2> HIDE DEF e
  <2>2. [i \in DOMAIN e.block |->
            IF i >= S THEN LengthByte(e.length, B - 1 - i) ELSE e.block[i]] = z
    BY <1>4, <2>1
  <2>3. f = [e EXCEPT !.block =
                [i \in DOMAIN e.block |->
                    IF i >= S THEN LengthByte(e.length, B - 1 - i) ELSE e.block[i]]]
    BY <1>4 DEF Sha1!StoreLength, LengthByte, Context
  <2> QED
    BY <2>2, <2>3
<1>7. \A i \in Cell : z[i] = IF i >= S THEN LengthByte(n, B - 1 - i) ELSE e.block[i]
  OBVIOUS
<1> HIDE DEF e, f, z, P, S, B
<1>8. f \in Context /\ f.block = z /\ f.processed = e.processed /\ Same(e, f)
  BY <1>4, <1>5, <1>6 DEF Context, Same
<1>9. Whole(f, P, q)
  BY <1>4, <1>8, Zenon DEF Whole
<1>10. UpTo(f, P, q, BlockLength)
  <2>0. r <= S
    BY DEF S
  <2>1. SUFFICES ASSUME NEW i \in 0 .. BlockLength - 1 PROVE f.block[i] = P[Place(q, i)]
    BY Zenon DEF UpTo
  <2>2. i \in Cell /\ i \in Nat /\ i < B
    BY Sizes DEF Cell, B
  <2>3. CASE i >= S
    <3>1. i \in r .. B - 1 /\ ~(i < S)
      BY <1>1, <2>0, <2>2, <2>3
    <3>2. P[Place(q, i)] = LengthByte(n, B - 1 - i)
      BY <1>2, <3>1
    <3>3. z[i] = LengthByte(n, B - 1 - i)
      BY <1>7, <2>2, <2>3
    <3> QED
      BY <1>8, <3>2, <3>3
  <2>4. CASE ~(i >= S)
    <3>1. i \in 0 .. S - 1
      BY <1>1, <2>2, <2>4
    <3>2. e.block[i] = P[Place(q, i)]
      BY <1>4, <3>1, Zenon DEF UpTo
    <3>3. z[i] = e.block[i]
      BY <1>7, <2>2, <2>4
    <3> QED
      BY <1>8, <3>2, <3>3
  <2> QED
    BY <2>3, <2>4
<1>11. /\ Reached(Sha1!SHA1ProcessMessageBlock(f), P, q + 1, 0)
       /\ Same(f, Sha1!SHA1ProcessMessageBlock(f))
  BY <1>8, <1>9, <1>10, BlockDone
<1>12. Same(c, Sha1!SHA1ProcessMessageBlock(f))
  BY <1>3, <1>8, <1>11 DEF Same
<1> QED
  BY <1>11, <1>12 DEF P, f, e, S

LEMMA PaddedOut ==
    ASSUME NEW message \in Seq(Octet), NEW n \in Nat, n = Len(message),
           NEW c, Fed(c, Padding(message), n)
    PROVE  LET d == Sha1!SHA1PadMessage(c)
           IN  /\ d \in Context /\ Whole(d, Padding(message), Total(n)) /\ Same(c, d)
               /\ Total(n) \in Nat
<1> DEFINE P == Padding(message)
           B == BlockLength
           S == Sha1!Start
           c1 == Sha1!Mark(c)
           c2 == Sha1!Fill(c1, B)
           c3 == Sha1!SHA1ProcessMessageBlock(c2)
           room == IF Sha1!NoRoom(c) THEN c3 ELSE c1
           d == Sha1!SHA1ProcessMessageBlock(Sha1!StoreLength(Sha1!Fill(room, S)))
<1>1. PICK q \in Nat, r \in Cell : Reached(c, P, q, r) /\ Place(q, r) = n
  BY DEF Fed
<1>2. c.length = n
  BY DEF Fed
<1>3. P[Place(q, r)] = 128
  BY <1>1, PaddedMessage
<1>4. r \in Nat /\ r + 1 \in Nat /\ r + 1 <= B /\ B \in Nat /\ S \in Nat /\ S < B
  BY Sizes DEF Cell
<1>5. c.index = r
  BY <1>1, Zenon DEF Reached
<1>6. d = Sha1!SHA1PadMessage(c)
  BY DEF Sha1!SHA1PadMessage
<1>7. Sha1!NoRoom(c) <=> r >= S
  BY <1>4, <1>5 DEF Sha1!NoRoom
<1>8. Place(q, r + 1) = n + 1
  BY <1>1, <1>4, PlaceNext
<1> HIDE DEF d, P, c1, S
<1>9. Reached(c1, P, q, r + 1) /\ Same(c, c1)
  BY <1>1, <1>3, Marked DEF c1
<1>10. c1.length = n
  BY <1>2, <1>9 DEF Same
<1>11. CASE r < S
  <2>1. Total(n) = q + 1
    BY <1>1, <1>11, TotalOf DEF S
  <2>2. room = c1
    BY <1>4, <1>7, <1>11
  <2>3. r + 1 <= Sha1!Start /\ Place(q, r + 1) > n
    BY <1>4, <1>8, <1>11 DEF S
  <2>4. Reached(d, P, q + 1, 0) /\ Same(c1, d)
    <3>1. d = Sha1!SHA1ProcessMessageBlock(Sha1!StoreLength(Sha1!Fill(c1, Sha1!Start)))
      BY <2>2 DEF d, S
    <3> QED
      BY <1>4, <1>9, <1>10, <2>1, <2>3, <3>1, LastBlock DEF P
  <2>5. d \in Context /\ Whole(d, P, q + 1)
    BY <2>4, Zenon DEF Reached
  <2>6. Same(c, d)
    BY <1>9, <2>4 DEF Same
  <2> QED
    BY <1>6, <2>1, <2>5, <2>6 DEF P
<1>12. CASE ~(r < S)
  <2>1. Total(n) = q + 2
    BY <1>1, <1>4, <1>12, TotalOf DEF S
  <2>2. room = c3
    BY <1>4, <1>7, <1>12
  <2>3. \A i \in r + 1 .. B - 1 : P[Place(q, i)] = 0
    <3>1. ASSUME NEW i \in r + 1 .. B - 1 PROVE P[Place(q, i)] = 0
      <4>1. i \in Cell /\ i \in Nat /\ r + 1 <= i
        BY <1>4 DEF Cell
      <4>2. Place(q, i) > n
        <5> DEFINE x == q * B
        <5>1. x \in Nat
          BY <1>4
        <5>2. Place(q, i) = x + i /\ Place(q, r) = x + r
          BY DEF Place
        <5> HIDE DEF x
        <5> QED
          BY <1>1, <1>4, <4>1, <5>1, <5>2
      <4> QED
        BY <2>1, <4>1, <4>2, PaddedAt DEF P
    <3> QED
      BY <3>1
  <2>4. Reached(c2, P, q, B) /\ Same(c1, c2)
    <3>1. B <= BlockLength
      BY <1>4
    <3> QED
      BY <1>4, <1>9, <2>3, <3>1, Filled
  <2>5. Reached(c3, P, q + 1, 0) /\ Same(c2, c3)
    <3> HIDE DEF c2
    <3> QED
      BY <2>4, BlockEnded
  <2> HIDE DEF c2, c3
  <2>6. c3.length = n
    BY <1>10, <2>4, <2>5 DEF Same
  <2>7. Place(q + 1, 0) > n
    <3>1. Place(q + 1, 0) = Place(q, B)
      BY PlaceNext
    <3> DEFINE x == q * B
    <3>2. x \in Nat
      BY <1>4
    <3>3. Place(q, B) = x + B /\ Place(q, r) = x + r
      BY DEF Place
    <3> HIDE DEF x, B
    <3> QED
      BY <1>1, <1>4, <3>1, <3>2, <3>3
  <2>8. Reached(d, P, q + 2, 0) /\ Same(c3, d)
    <3>1. d = Sha1!SHA1ProcessMessageBlock(Sha1!StoreLength(Sha1!Fill(c3, Sha1!Start)))
      BY <2>2 DEF d, S
    <3> DEFINE t == q + 1
    <3>2. t \in Nat /\ Total(n) = t + 1 /\ t + 1 = q + 2
      BY <2>1
    <3>3. Reached(c3, Padding(message), t, 0) /\ Place(t, 0) > n
      BY <2>5, <2>7 DEF P
    <3>4. 0 <= Sha1!Start
      BY Sizes
    <3> HIDE DEF t
    <3>5. Reached(d, Padding(message), t + 1, 0) /\ Same(c3, d)
      BY <2>6, <3>1, <3>2, <3>3, <3>4, LastBlock
    <3> QED
      BY <3>2, <3>5 DEF P
  <2>9. d \in Context /\ Whole(d, P, q + 2)
    BY <2>8, Zenon DEF Reached
  <2>10. Same(c, d)
    BY <1>9, <2>4, <2>5, <2>8 DEF Same
  <2> QED
    BY <1>6, <2>1, <2>9, <2>10 DEF P
<1> QED
  BY <1>11, <1>12

(* What is hashed is the padded message.                                     *)
LEMMA StandardBlocks ==
    ASSUME NEW message \in Seq(Octet), NEW n \in Nat, n = Len(message),
           NEW d \in Context, Total(n) \in Nat, Whole(d, Padding(message), Total(n))
    PROVE  d.processed = Sha1!Standard(message)
<1> DEFINE blocks == Total(n)
           B == BlockLength
           P == Padding(message)
           M == [b \in 1 .. blocks |-> [i \in Cell |-> P[Place(b - 1, i)]]]
<1>1. M = Sha1!Standard(message)
  <2>1. ASSUME NEW b \in 1 .. blocks, NEW i \in Cell
        PROVE  /\ (b - 1) * B + i \in Nat
               /\ P[Place(b - 1, i)] = PaddedByte(message, (b - 1) * B + i)
    <3> DEFINE p == (b - 1) * B + i
    <3>1. b - 1 \in Nat /\ B \in Nat /\ i \in Nat
      BY Sizes DEF Cell
    <3>2. p \in Nat
      BY <3>1
    <3> HIDE DEF p
    <3>3. P[p] = PaddedByte(message, p)
      BY <3>2 DEF Padding
    <3>4. Place(b - 1, i) = p
      BY DEF Place, p
    <3> QED
      BY <3>2, <3>3, <3>4 DEF p
  <2>2. Sha1!Standard(message) =
            [b \in 1 .. blocks |-> [i \in Cell |-> PaddedByte(message, (b - 1) * B + i)]]
    BY DEF Sha1!Standard, PaddedByte, LengthByte, Total, Cell
  <2> QED
    BY <2>1, <2>2
<1>2. d.processed \in Seq(Contents) /\ Len(d.processed) = blocks
  BY DEF Whole, Context
<1>3. \A b \in 1 .. blocks : d.processed[b] \in [Cell -> Octet]
  <2>1. \A b \in 1 .. blocks : d.processed[b] \in Contents
    BY <1>2, ElementOfSeq
  <2> QED
    BY <2>1 DEF Contents
<1>4. \A b \in 1 .. blocks : \A i \in Cell : d.processed[b][i] = P[Place(b - 1, i)]
  BY DEF Whole
<1> HIDE DEF P, blocks
<1>5. \A b \in 1 .. blocks : d.processed[b] = [i \in Cell |-> P[Place(b - 1, i)]]
  BY <1>3, <1>4
<1>6. d.processed = [b \in 1 .. blocks |-> d.processed[b]]
  <2>1. d.processed \in [1 .. Len(d.processed) -> Contents]
    BY <1>2, LenProperties
  <2> QED
    BY <1>2, <2>1
<1>7. d.processed = M
  BY <1>5, <1>6
<1> QED
  BY <1>1, <1>7

LEMMA Hashed ==
    ASSUME NEW message \in Seq(Octet), NEW cut \in Nat, cut <= Len(message)
    PROVE  Sha1!PaddedRight(message, cut)
<1> DEFINE n == Len(message)
           P == Padding(message)
           s == SubSeq(message, 1, cut)
           t == SubSeq(message, cut + 1, n)
           c1 == Sha1!SHA1Input(Sha1!SHA1Reset, s)
           c2 == Sha1!SHA1Input(c1, t)
           d == Sha1!SHA1PadMessage(c2)
           last == Sha1!SHA1Result(c2)
           more == Sha1!SHA1Input(last, <<1>>)
<1>1. n \in Nat
  OBVIOUS
<1>2. \A i \in 1 .. n : message[i] \in Octet /\ P[i - 1] = message[i]
  BY <1>1, PaddedMessage, ElementOfSeq
<1> HIDE DEF P
<1>3. s \in Seq(Octet) /\ Len(s) = cut /\ \A i \in 1 .. cut : s[i] = message[i]
  OBVIOUS
<1>4. t \in Seq(Octet) /\ Len(t) = n - cut /\ \A i \in 1 .. n - cut : t[i] = message[cut + i]
  OBVIOUS
<1> HIDE DEF s, t
<1>5. Fed(c1, P, cut)
  <2>1. \A i \in 1 .. cut : s[i] = P[0 + i - 1]
    <3>1. \A i \in 1 .. cut : 0 + i - 1 = i - 1 /\ i \in 1 .. n
      OBVIOUS
    <3> QED
      BY <1>2, <1>3, <3>1
  <2>2. Fed(c1, P, 0 + cut)
    BY <1>3, <2>1, FedReset, FedMany
  <2>3. 0 + cut = cut
    OBVIOUS
  <2> QED
    BY <2>2, <2>3, Zenon
<1> HIDE DEF c1
<1>6. Fed(c2, P, n)
  <2>0. n - cut \in Nat
    BY <1>1
  <2>1. \A i \in 1 .. n - cut : t[i] = P[cut + i - 1]
    <3>1. ASSUME NEW i \in 1 .. n - cut PROVE t[i] = P[cut + i - 1]
      <4> DEFINE j == cut + i
      <4>1. j \in 1 .. n
        BY <1>1
      <4>2. t[i] = message[j]
        BY <1>4
      <4> HIDE DEF j
      <4>3. message[j] = P[j - 1]
        BY <1>2, <4>1, Zenon
      <4> QED
        BY <4>2, <4>3 DEF j
    <3> QED
      BY <3>1
  <2>2. Fed(c2, P, cut + (n - cut))
    BY <1>4, <1>5, <2>0, <2>1, FedMany
  <2>3. cut + (n - cut) = n
    BY <1>1
  <2> QED
    BY <2>2, <2>3, Zenon
<1> HIDE DEF c2, n
<1>7. d \in Context /\ Whole(d, P, Total(n)) /\ Same(c2, d) /\ Total(n) \in Nat
  BY <1>1, <1>6, PaddedOut DEF P, n
<1>8. d.processed = Sha1!Standard(message)
  BY <1>1, <1>7, StandardBlocks DEF P, n
<1>9. c2.computed = FALSE /\ c2.corrupted = FALSE
  BY <1>6 DEF Fed
<1>10. d.corrupted = FALSE
  BY <1>7, <1>9 DEF Same
<1>11. last = [d EXCEPT !.computed = TRUE, !.length = 0, !.block = [i \in DOMAIN @ |-> 0]]
  BY <1>9 DEF Sha1!SHA1Result
<1> HIDE DEF d, last
<1>12. last.computed = TRUE /\ last.corrupted = FALSE /\ last.processed = d.processed
  BY <1>7, <1>10, <1>11 DEF Context
<1>13. Sha1!SHA1Result(last) = last
  BY <1>12 DEF Sha1!SHA1Result
<1>14. more = [last EXCEPT !.corrupted = TRUE]
  BY <1>12 DEF Sha1!SHA1Input
<1> HIDE DEF more
<1>15. more.corrupted = TRUE /\ more.processed = last.processed
  BY <1>7, <1>11, <1>14 DEF Context
<1>16. Sha1!SHA1Result(more) = more
  BY <1>15 DEF Sha1!SHA1Result
<1> QED
  BY <1>8, <1>12, <1>13, <1>15, <1>16
     DEF Sha1!PaddedRight, more, last, d, c2, c1, t, s, n

-----------------------------------------------------------------------------
(* The inputs of the codecs                                                  *)

LEMMA InitInput == InitCodecs => InputKnown
  BY DEF InitCodecs, InputKnown

LEMMA NextInput == InputKnown /\ [NextCodecs]_input => InputKnown'
  BY DEF NextCodecs, InputKnown

LEMMA InputAlways == SpecCodecs => []InputKnown
  BY InitInput, NextInput, PTL DEF SpecCodecs

(* A message arrives as one frame that says its length, whatever the length  *)
(* is, and a text of a browser as it was sent (ws.cpp).                      *)
THEOREM FramesCorrect == SpecCodecs => []FramesUnderstood
  BY FramesKnown, InputAlways, PTL

LEMMA Base64Known ==
    ASSUME InputKnown, input.codec = "base64"
    PROVE  input.bytes \in Seq(Octet)
<1>1. input \in Base64Inputs
  BY SocketInputs, GpsInputs, BoardInputs, FigureInputs, OtherInputs DEF InputKnown, Nothing
<1> QED
  BY <1>1, SocketInputs

(* Whatever bytes are encoded, they come back.                               *)
THEOREM Base64Correct == SpecCodecs => []Base64Undone
<1>1. InputKnown => Base64Undone
  BY Base64Known, Base64Undoes DEF Base64Undone
<1> QED
  BY <1>1, InputAlways, PTL

LEMMA InputHashed == InputKnown => HashedIsPadded
<1> SUFFICES ASSUME InputKnown, input.codec = "sha1"
             PROVE  Sha1!PaddedRight(input.message, input.cut)
  BY DEF HashedIsPadded
<1>1. input \in Sha1Inputs
  BY SocketInputs, GpsInputs, BoardInputs, FigureInputs, OtherInputs DEF InputKnown, Nothing
<1>2. input.message \in Seq(Octet) /\ input.cut \in Nat /\ input.cut <= Len(input.message)
  BY <1>1, SocketInputs
<1> QED
  BY <1>2, Hashed

(* However a message is cut, sha1 hashes the padded message (sha1.cpp).       *)
THEOREM Sha1Correct == SpecCodecs => []HashedIsPadded
  BY InputAlways, InputHashed, PTL
=============================================================================
