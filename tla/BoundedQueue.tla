---------------------------- MODULE BoundedQueue ----------------------------
(* What kmlib/kmfifo promises its callers, without the ring, the mutex or    *)
(* the C memory behind it: a sequence of at most Capacity elements.  A write *)
(* to a full queue is ignored (kmfifo.cpp:68), a read takes the oldest       *)
(* element, and a clear empties the queue in one step.                       *)
EXTENDS Naturals, Sequences

CONSTANTS
    Clients,     \* the threads that call the fifo
    Elems,       \* what can be put into it
    Nothing,     \* payload of an answer that carries none
    Capacity     \* number of elements it can hold

VARIABLES
    q,           \* the elements, oldest first
    ret          \* the answer each client got to its last call

qvars == <<q, ret>>

Answer(kind, val) == [kind |-> kind, val |-> val]

Reply(c, kind, val) == ret' = [ret EXCEPT ![c] = Answer(kind, val)]

Init ==
    /\ q = << >>
    /\ ret = [c \in Clients |-> Answer("init", Nothing)]

Put(c, e) ==
    /\ Len(q) < Capacity
    /\ q' = Append(q, e)
    /\ Reply(c, "stored", Nothing)

Ignore(c) ==
    /\ Len(q) = Capacity
    /\ Reply(c, "ignored", Nothing)
    /\ UNCHANGED q

Get(c) ==
    /\ q # << >>
    /\ Reply(c, "data", Head(q))
    /\ q' = Tail(q)

GetNone(c) ==
    /\ q = << >>
    /\ Reply(c, "none", Nothing)
    /\ UNCHANGED q

(* The caller's buffer is too small for the oldest element, which stays.     *)
Refuse(c) ==
    /\ q # << >>
    /\ Reply(c, "small", Nothing)
    /\ UNCHANGED q

Clear(c) ==
    /\ q' = << >>
    /\ Reply(c, "cleared", Nothing)

(* The fill level or the availability of data; the number is not kept.       *)
Query(c) ==
    /\ Reply(c, "count", Nothing)
    /\ UNCHANGED q

Next ==
    \E c \in Clients :
        \/ \E e \in Elems : Put(c, e)
        \/ Ignore(c) \/ Get(c) \/ GetNone(c) \/ Refuse(c)
        \/ Clear(c) \/ Query(c)

Spec == Init /\ [][Next]_qvars
=============================================================================
