------------------------------ MODULE WsClients ------------------------------
(* websocket/: the client table actsock, the thread of each connection       *)
(* (ws_establishconnection with its onopen, onmessage, onwork and onclose),  *)
(* the application that calls ws_send and the one-second timer ws_alive.     *)
(*                                                                           *)
(* A WS_LOCK .. WS_UNLOCK section is one step.  What ws_alive, onwork and    *)
(* onmessage do to the table without the mutex is cut at every access.  The  *)
(* browsers, the kernel's descriptors and the timer are external: a          *)
(* descriptor is the lowest free one, as accept() promises.  The printed     *)
(* counter of connections and the clients' addresses are left out.           *)
EXTENDS Integers, Sequences

CONSTANTS
    Conns,         \* connections a browser makes, one thread each
    MaxClients,    \* MAX_CLIENTS, slots of the table
    MaxFd,         \* descriptors the process may have open for browsers
    AliveOpen,     \* alive of a new client (10)
    AliveMessage,  \* alive after a message of the client (20)
    Lengths,       \* of the messages: "short" below 7 bytes, or "long"
    MayStop,       \* can keeprunning be cleared
    MaxSends       \* bound: calls of ws_send

ASSUME WsAssumption ==
    /\ MaxClients \in Nat \ {0} /\ MaxFd \in Nat
    /\ AliveOpen \in Nat \ {0} /\ AliveMessage \in Nat \ {0}
    /\ Lengths \subseteq {"short", "long"}
    /\ MayStop \in BOOLEAN /\ MaxSends \in Nat

Slots == 1 .. MaxClients
Fds == 1 .. MaxFd
NoFd == -1
NoSlot == 0

VARIABLES
    (* actsock[i] *)
    socket, send, msg, alive,
    (* the thread of a connection *)
    pc, fd, handshaked, slot, txdata,
    (* the timer thread *)
    tpc, ti, tval, tfd,
    (* the rest of the world *)
    peer,          \* is the browser there, or something it sent not read yet
    sends,         \* number of the last ws_send, also the message's identity
    keeprunning,
    (* ghost *)
    owner,         \* connection that inserted the entry of a slot
    tried          \* messages each connection handed to the kernel

table == <<socket, send, msg, alive, owner>>
local == <<handshaked, slot, txdata>>
timer == <<tpc, ti, tval, tfd>>
world == <<peer, sends, keeprunning>>
vars == <<socket, send, msg, alive, owner, pc, fd, handshaked, slot, txdata,
          tpc, ti, tval, tfd, peer, sends, keeprunning, tried>>

Message(id, len) == [id |-> id, len |-> len]

Init ==
    /\ socket = [i \in Slots |-> NoFd]
    /\ send = [i \in Slots |-> 0]
    /\ msg = [i \in Slots |-> Message(0, "short")]
    /\ alive = [i \in Slots |-> 0]
    /\ owner = [i \in Slots |-> "none"]
    /\ pc = [c \in Conns |-> "none"]
    /\ fd = [c \in Conns |-> NoFd]
    /\ handshaked = [c \in Conns |-> FALSE]
    /\ slot = [c \in Conns |-> NoSlot]
    /\ txdata = [c \in Conns |-> 0]
    /\ tpc = "idle" /\ ti = 1 /\ tval = 0 /\ tfd = NoFd
    /\ peer = [c \in Conns |-> TRUE]
    /\ sends = 0
    /\ keeprunning = TRUE
    /\ tried = [c \in Conns |-> << >>]

Goto(c, place) == pc' = [pc EXCEPT ![c] = place]

(* The first slot with descriptor f, or NoSlot                               *)
Find(f) ==
    IF \E i \in Slots : socket[i] = f
      THEN CHOOSE i \in Slots :
             socket[i] = f /\ \A j \in Slots : socket[j] = f => i <= j
      ELSE NoSlot

-----------------------------------------------------------------------------
(* websocketserver.cpp: the locked operations on the table                   *)

insert_socket(c) ==
    LET i == Find(NoFd)
    IN  IF i = NoSlot THEN UNCHANGED table
        ELSE /\ socket' = [socket EXCEPT ![i] = fd[c]]
             /\ send' = [send EXCEPT ![i] = 0]
             /\ alive' = [alive EXCEPT ![i] = AliveOpen]
             /\ owner' = [owner EXCEPT ![i] = c]
             /\ UNCHANGED msg

remove_socket(f) ==
    /\ socket' = [i \in Slots |-> IF socket[i] = f THEN NoFd ELSE socket[i]]
    /\ UNCHANGED <<send, msg, alive, owner>>

get_alive(f) == IF Find(f) = NoSlot THEN 0 ELSE alive[Find(f)]

(* Stores the message for every active client that has none waiting.         *)
ws_send(len) ==
    LET takes == {i \in Slots : socket[i] # NoFd /\ send[i] = 0}
        id == sends + 1
    IN  /\ sends < MaxSends
        /\ sends' = id
        /\ send' = [i \in Slots |-> IF i \in takes THEN 1 ELSE send[i]]
        /\ msg' = [i \in Slots |-> IF i \in takes THEN Message(id, len) ELSE msg[i]]
        /\ UNCHANGED <<socket, alive, owner, pc, fd, local, timer, peer,
                       keeprunning, tried>>

-----------------------------------------------------------------------------
(* ws_socket: the accept loop                                                *)

FreeFds == Fds \ {fd[c] : c \in Conns}

Accept(c) ==
    /\ pc[c] = "none"
    /\ keeprunning
    /\ FreeFds # {}
    /\ fd' = [fd EXCEPT ![c] = CHOOSE f \in FreeFds : \A g \in FreeFds : f <= g]
    /\ Goto(c, "read")
    /\ UNCHANGED <<table, local, timer, world, tried>>

-----------------------------------------------------------------------------
(* ws_establishconnection                                                    *)

Reading(c) == pc[c] = "read" /\ keeprunning

(* First data: the response, onopen, and no frame in it.  onopen does not    *)
(* insert a client whose address it cannot get any more.                     *)
Handshake(c) ==
    /\ Reading(c)
    /\ ~handshaked[c]
    /\ handshaked' = [handshaked EXCEPT ![c] = TRUE]
    /\ insert_socket(c) \/ (~peer[c] /\ UNCHANGED table)
    /\ UNCHANGED <<pc, fd, slot, txdata, timer, world, tried>>

(* A text frame: onmessage looks up the slot, then renews it unlocked.  (A   *)
(* frame without a message, a close frame too, changes nothing: the loop     *)
(* continues before it looks at the type.)                                   *)
OnMessage(c) ==
    /\ Reading(c)
    /\ handshaked[c] /\ peer[c]
    /\ slot' = [slot EXCEPT ![c] = Find(fd[c])]
    /\ Goto(c, "renew")
    /\ UNCHANGED <<table, fd, handshaked, txdata, timer, world, tried>>

(* A local that is not used any more is reset, to have fewer states.         *)
Forget(c) ==
    /\ slot' = [slot EXCEPT ![c] = NoSlot]
    /\ txdata' = [txdata EXCEPT ![c] = 0]

(* Without a slot the store goes outside the table.                          *)
Renew(c) ==
    /\ pc[c] = "renew"
    /\ alive' = IF slot[c] = NoSlot THEN alive
                ELSE [alive EXCEPT ![slot[c]] = AliveMessage]
    /\ Goto(c, "read")
    /\ Forget(c)
    /\ UNCHANGED <<socket, send, msg, owner, fd, handshaked, timer, world, tried>>

(* Mutant: no look at alive.                                                 *)
NoDataNoAlive(c) ==
    /\ Reading(c)
    /\ Goto(c, "work")
    /\ UNCHANGED <<table, fd, local, timer, world, tried>>

(* Nothing to read within 10 ms, or end of file.                             *)
NoData(c) ==
    /\ Reading(c)
    /\ Goto(c, IF get_alive(fd[c]) = 0 THEN "close" ELSE "work")
    /\ UNCHANGED <<table, fd, local, timer, world, tried>>

(* Mutant: the search ends one slot early.                                   *)
WorkMissesLast(c) ==
    LET i == IF Find(fd[c]) = MaxClients THEN NoSlot ELSE Find(fd[c])
    IN  /\ pc[c] = "work"
        /\ slot' = [slot EXCEPT ![c] = i]
        /\ Goto(c, IF i = NoSlot THEN "read" ELSE "build")
        /\ UNCHANGED <<table, fd, handshaked, txdata, timer, world, tried>>

(* onwork: the slot is looked up without the mutex.                          *)
Work(c) ==
    /\ pc[c] = "work"
    /\ slot' = [slot EXCEPT ![c] = Find(fd[c])]
    /\ Goto(c, IF Find(fd[c]) = NoSlot THEN "read" ELSE "build")
    /\ UNCHANGED <<table, fd, handshaked, txdata, timer, world, tried>>

(* ws_build_txframe makes no frame of less than 10 bytes, header included.   *)
Build(c) ==
    LET i == slot[c]
        some == send[i] = 1 /\ msg[i].len = "long"
    IN  /\ pc[c] = "build"
        /\ \/ /\ some
              /\ txdata' = [txdata EXCEPT ![c] = msg[i].id]
              /\ Goto(c, "send")
              /\ UNCHANGED slot
           \/ ~some /\ Forget(c) /\ Goto(c, "read")
        /\ UNCHANGED <<table, fd, handshaked, timer, world, tried>>

(* send() may still succeed for a while after the browser has gone.          *)
SendFrame(c) ==
    /\ pc[c] = "send"
    /\ tried' = [tried EXCEPT ![c] = Append(@, txdata[c])]
    /\ Goto(c, "sent") \/ (~peer[c] /\ Goto(c, "failed"))
    /\ UNCHANGED <<table, fd, local, timer, world>>

(* Mutant: a sent message stays in its slot.                                 *)
SentKept(c) ==
    /\ pc[c] \in {"sent", "failed"}
    /\ Goto(c, IF pc[c] = "sent" THEN "read" ELSE "close")
    /\ Forget(c)
    /\ UNCHANGED <<table, fd, handshaked, timer, world, tried>>

(* The flag is cleared without the mutex, whoever has the slot by now.       *)
Sent(c) ==
    /\ pc[c] \in {"sent", "failed"}
    /\ send' = [send EXCEPT ![slot[c]] = 0]
    /\ Goto(c, IF pc[c] = "sent" THEN "read" ELSE "close")
    /\ Forget(c)
    /\ UNCHANGED <<socket, msg, alive, owner, fd, handshaked, timer, world, tried>>

(* Mutant: only close(), the entry stays.                                    *)
OnCloseNoRemove(c) ==
    /\ pc[c] = "close"
    /\ Goto(c, "closefd")
    /\ UNCHANGED <<table, fd, local, timer, world, tried>>

(* onclose: out of the table, then close().                                  *)
OnClose(c) ==
    /\ pc[c] = "close"
    /\ remove_socket(fd[c])
    /\ Goto(c, "closefd")
    /\ UNCHANGED <<fd, local, timer, world, tried>>

CloseFd(c) ==
    /\ pc[c] = "closefd"
    /\ fd' = [fd EXCEPT ![c] = NoFd]
    /\ Goto(c, "done")
    /\ UNCHANGED <<table, local, timer, world, tried>>

(* The loop ends with the program; the entry stays.                          *)
Quit(c) ==
    /\ pc[c] = "read"
    /\ ~keeprunning
    /\ fd' = [fd EXCEPT ![c] = NoFd]
    /\ Goto(c, "done")
    /\ UNCHANGED <<table, local, timer, world, tried>>

-----------------------------------------------------------------------------
(* ws_alive, every second in the timer's thread                              *)

Tick ==
    /\ tpc = "idle"
    /\ tpc' = "look"
    /\ UNCHANGED <<table, pc, fd, local, ti, tval, tfd, world, tried>>

(* Mutant: the loop runs one slot too far.                                   *)
NextSlotTooFar ==
    /\ IF ti > MaxClients THEN tpc' = "idle" /\ ti' = 1
                          ELSE tpc' = "look" /\ ti' = ti + 1
    /\ tval' = 0
    /\ tfd' = NoFd

NextSlot ==
    /\ IF ti = MaxClients THEN tpc' = "idle" /\ ti' = 1
                          ELSE tpc' = "look" /\ ti' = ti + 1
    /\ tval' = 0
    /\ tfd' = NoFd

Look ==
    /\ tpc = "look"
    /\ IF socket[ti] # NoFd /\ alive[ti] > 0
         THEN tpc' = "count" /\ tval' = alive[ti] - 1 /\ UNCHANGED <<ti, tfd>>
         ELSE NextSlot
    /\ UNCHANGED <<table, pc, fd, local, world, tried>>

CountDown ==
    /\ tpc = "count"
    /\ alive' = [alive EXCEPT ![ti] = tval]
    /\ IF tval = 0 THEN tpc' = "who" /\ UNCHANGED <<ti, tval, tfd>> ELSE NextSlot
    /\ UNCHANGED <<socket, send, msg, owner, pc, fd, local, world, tried>>

(* The build may load alive again for the test, and find it renewed.         *)
Who ==
    /\ tpc = "who"
    /\ \/ tpc' = "remove" /\ tfd' = socket[ti] /\ UNCHANGED <<ti, tval>>
       \/ alive[ti] > 0 /\ NextSlot
    /\ UNCHANGED <<table, pc, fd, local, world, tried>>

Remove ==
    /\ tpc = "remove"
    /\ remove_socket(tfd)
    /\ NextSlot
    /\ UNCHANGED <<pc, fd, local, world, tried>>

ws_alive == Tick \/ Look \/ CountDown \/ Who \/ Remove

-----------------------------------------------------------------------------

PeerGone(c) ==
    /\ pc[c] # "none"
    /\ peer[c]
    /\ peer' = [peer EXCEPT ![c] = FALSE]
    /\ UNCHANGED <<table, pc, fd, local, timer, sends, keeprunning, tried>>

Stop ==
    /\ MayStop
    /\ keeprunning' = FALSE
    /\ UNCHANGED <<table, pc, fd, local, timer, peer, sends, tried>>

Going(c) ==
    \/ Renew(c) \/ Work(c) \/ Build(c) \/ SendFrame(c) \/ Sent(c)
    \/ OnClose(c) \/ CloseFd(c) \/ Quit(c)

Next ==
    \/ \E c \in Conns :
          \/ Accept(c) \/ Handshake(c) \/ OnMessage(c) \/ NoData(c)
          \/ Going(c) \/ PeerGone(c)
    \/ \E len \in Lengths : ws_send(len)
    \/ ws_alive
    \/ Stop

Spec == Init /\ [][Next]_vars

(* The timer fires for ever and every thread goes on.  A browser pauses      *)
(* again and again, so that a read comes back without data: strong fairness. *)
FairSpec ==
    /\ Spec
    /\ WF_vars(ws_alive)
    /\ \A c \in Conns : WF_vars(Going(c)) /\ SF_vars(NoData(c))

-----------------------------------------------------------------------------
(* Properties                                                                *)

Places == {"none", "read", "renew", "work", "build", "send", "sent", "failed",
           "close", "closefd", "done"}

(* Types of the table, the connection threads, the timer and the ghosts.     *)
TypeOK ==
    /\ socket \in [Slots -> Fds \cup {NoFd}]
    /\ send \in [Slots -> {0, 1}]
    /\ msg \in [Slots -> [id : Nat, len : {"short", "long"}]]
    /\ alive \in [Slots -> Nat]
    /\ owner \in [Slots -> Conns \cup {"none"}]
    /\ pc \in [Conns -> Places]
    /\ fd \in [Conns -> Fds \cup {NoFd}]
    /\ handshaked \in [Conns -> BOOLEAN]
    /\ slot \in [Conns -> Slots \cup {NoSlot}]
    /\ txdata \in [Conns -> Nat]
    /\ tpc \in {"idle", "look", "count", "who", "remove"}
    /\ ti \in Slots /\ tval \in Nat /\ tfd \in Fds \cup {NoFd}
    /\ peer \in [Conns -> BOOLEAN]
    /\ sends \in Nat /\ keeprunning \in BOOLEAN
    /\ tried \in [Conns -> Seq(Nat)]

(* While the server runs, an active entry is the one its own connection      *)
(* inserted, and its descriptor is still that connection's: never one that   *)
(* was closed, or closed and given to the next browser.                      *)
TableOwned ==
    keeprunning =>
        \A i \in Slots : socket[i] # NoFd =>
            /\ owner[i] \in Conns
            /\ fd[owner[i]] = socket[i]
            /\ pc[owner[i]] \notin {"closefd", "done"}
            /\ \A j \in Slots : (j # i /\ socket[j] # NoFd) => owner[j] # owner[i]

(* A browser gets the messages in the order of the ws_send calls and none    *)
(* twice, even one whose slot was given to somebody else while it was sent.  *)
InOrder ==
    \A c \in Conns : \A m, n \in DOMAIN tried[c] :
        m < n => tried[c][m] < tried[c][n]

(* The connection of a browser that went away without a word is closed.      *)
GoneIsClosed == \A c \in Conns : (pc[c] # "none" /\ ~peer[c]) ~> (pc[c] = "done")

(* "send pdata to all connected clients ... sent to the clients in the       *)
(* websocket-thread in the background" (websocketserver.cpp:43): a stored    *)
(* message is taken from its slot or the client leaves, as long as the       *)
(* program runs.                                                             *)
StoredIsTaken ==
    \A i \in Slots :
        (socket[i] # NoFd /\ send[i] = 1)
          ~> (socket[i] = NoFd \/ send[i] = 0 \/ ~keeprunning)
=============================================================================
