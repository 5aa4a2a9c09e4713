------------------------------- MODULE KmFifo -------------------------------
(* kmlib/kmfifo.cpp: one FIFO object used by several threads.                *)
(*                                                                           *)
(* write_fifo and read_fifo work under the object's mutex in two steps here, *)
(* the copy of the element and the advance of the index, because fifo_clear  *)
(* resets both indices without the mutex and may run in between.  What a     *)
(* call does before its copy is one step with it: nothing it read can have   *)
(* changed since the mutex was taken, except by a clear that might as well   *)
(* have come first.                                                          *)
EXTENDS Integers, Sequences

CONSTANTS
    Writers,    \* threads that call write_fifo and fifo_freespace
    Readers,    \* threads that call read_fifo and fifo_dataavail
    Clearers,   \* threads that call fifo_clear
    Vals,       \* payloads
    Lens,       \* the len arguments of write_fifo
    MaxLens,    \* the maxlen arguments of read_fifo
    MaxElem,    \* maxelem_num of create_fifo
    NoVal,      \* malloc'ed bytes nobody wrote yet; no payload
    NoThread    \* the mutex is free

Threads == Writers \cup Readers \cup Clearers
Slots == 0 .. MaxElem - 1

ASSUME SizeAssumption == MaxElem \in Nat \ {0}
ASSUME LenAssumption == Lens \subseteq Nat /\ MaxLens \subseteq Nat
ASSUME NoThreadAssumption == NoThread \notin Threads
ASSUME NoValAssumption == NoVal \notin Vals

VARIABLES
    crit_sec,   \* holder of the mutex, or NoThread
    rdidx,      \* next slot to read
    wridx,      \* next slot to write
    fifomem,    \* slot -> payload
    plen,       \* the one length cell plen[0] that every call uses
    pc,         \* where each thread is
    loc,        \* locals of a call: the index it loaded, payload and length
    ret         \* the answer to each thread's last call

vars == <<crit_sec, rdidx, wridx, fifomem, plen, pc, loc, ret>>

NoLocals == [idx |-> 0, val |-> NoVal, len |-> 0]
Answer(kind, val, n) == [kind |-> kind, val |-> val, n |-> n]
Reply(t, kind, val, n) == ret' = [ret EXCEPT ![t] = Answer(kind, val, n)]

(* Mutant: the wrap compares with > instead of >=.                           *)
SuccWrapsLate(i) == IF i + 1 > MaxElem THEN 0 ELSE i + 1

(* ++idx, wrapped: the code writes it as an if when it stores an index and   *)
(* as a remainder in the full test.                                          *)
Succ(i) == IF i + 1 >= MaxElem THEN 0 ELSE i + 1

(* Mutant: the two indices swapped in the remainder.                         *)
UsedSwapped == IF rdidx >= wridx THEN rdidx - wridx ELSE rdidx + MaxElem - wridx

(* elemInFifo of fifo_freespace, (wridx + maxelem - rdidx) % maxelem.        *)
Used == IF wridx >= rdidx THEN wridx - rdidx ELSE wridx + MaxElem - rdidx

(* Mutant: no full test.                                                     *)
NeverFull == FALSE

Full == Succ(wridx) = rdidx
Empty == rdidx = wridx

Init ==
    /\ crit_sec = NoThread
    /\ rdidx = 0
    /\ wridx = 0
    /\ fifomem = [s \in Slots |-> NoVal]
    /\ plen = 0
    /\ pc = [t \in Threads |-> "idle"]
    /\ loc = [t \in Threads |-> NoLocals]
    /\ ret = [t \in Threads |-> Answer("init", NoVal, 0)]

(* A call can start in a thread that is in no other one, once the mutex is   *)
(* free.                                                                     *)
Enter(t) ==
    /\ pc[t] = "idle"
    /\ crit_sec = NoThread

-----------------------------------------------------------------------------
(* write_fifo                                                                *)

WriteFull(t) ==
    /\ Enter(t)
    /\ Full
    /\ Reply(t, "ignored", NoVal, 0)
    /\ UNCHANGED <<crit_sec, rdidx, wridx, fifomem, plen, pc, loc>>

WriteStore(t, val, len) ==
    /\ Enter(t)
    /\ ~Full
    /\ crit_sec' = t
    /\ plen' = len
    /\ fifomem' = [fifomem EXCEPT ![wridx] = val]
    /\ loc' = [loc EXCEPT ![t] = [idx |-> wridx, val |-> val, len |-> len]]
    /\ pc' = [pc EXCEPT ![t] = "w_advance"]
    /\ UNCHANGED <<rdidx, wridx, ret>>

(* The build may have kept the index in a register since the full test or    *)
(* load it again: they differ only after a clear in between.                 *)
WriteAdvance(t) ==
    /\ pc[t] = "w_advance"
    /\ \E w \in {wridx, loc[t].idx} : wridx' = Succ(w)
    /\ crit_sec' = NoThread
    /\ pc' = [pc EXCEPT ![t] = "idle"]
    /\ loc' = [loc EXCEPT ![t] = NoLocals]
    /\ Reply(t, "stored", NoVal, 0)
    /\ UNCHANGED <<rdidx, fifomem, plen>>

-----------------------------------------------------------------------------
(* read_fifo                                                                 *)

ReadEmpty(t) ==
    /\ Enter(t)
    /\ Empty
    /\ Reply(t, "none", NoVal, 0)
    /\ UNCHANGED <<crit_sec, rdidx, wridx, fifomem, plen, pc, loc>>

(* The call returns 0 and has not released the mutex.                        *)
ReadTooSmall(t, maxlen) ==
    /\ Enter(t)
    /\ ~Empty
    /\ plen > maxlen
    /\ crit_sec' = t
    /\ Reply(t, "small", NoVal, 0)
    /\ UNCHANGED <<rdidx, wridx, fifomem, plen, pc, loc>>

ReadCopy(t, maxlen) ==
    /\ Enter(t)
    /\ ~Empty
    /\ plen <= maxlen
    /\ crit_sec' = t
    /\ loc' = [loc EXCEPT ![t] =
                 [idx |-> rdidx, val |-> fifomem[rdidx], len |-> plen]]
    /\ pc' = [pc EXCEPT ![t] = "r_advance"]
    /\ UNCHANGED <<rdidx, wridx, fifomem, plen, ret>>

ReadAdvance(t) ==
    /\ pc[t] = "r_advance"
    /\ \E r \in {rdidx, loc[t].idx} : rdidx' = Succ(r)
    /\ crit_sec' = NoThread
    /\ pc' = [pc EXCEPT ![t] = "idle"]
    /\ loc' = [loc EXCEPT ![t] = NoLocals]
    /\ Reply(t, "data", loc[t].val, loc[t].len)
    /\ UNCHANGED <<wridx, fifomem, plen>>

-----------------------------------------------------------------------------
(* fifo_clear: two plain stores without the mutex, in either order.          *)

ClearFirst(t) ==
    /\ pc[t] = "idle"
    /\ \/ /\ rdidx' = 0
          /\ pc' = [pc EXCEPT ![t] = "clear_wr"]
          /\ UNCHANGED wridx
       \/ /\ wridx' = 0
          /\ pc' = [pc EXCEPT ![t] = "clear_rd"]
          /\ UNCHANGED rdidx
    /\ Reply(t, "cleared", NoVal, 0)
    /\ UNCHANGED <<crit_sec, fifomem, plen, loc>>

ClearSecond(t) ==
    /\ \/ pc[t] = "clear_wr" /\ wridx' = 0 /\ UNCHANGED rdidx
       \/ pc[t] = "clear_rd" /\ rdidx' = 0 /\ UNCHANGED wridx
    /\ pc' = [pc EXCEPT ![t] = "idle"]
    /\ UNCHANGED <<crit_sec, fifomem, plen, loc, ret>>

-----------------------------------------------------------------------------
(* fifo_freespace, and fifo_usedspace which is maxelem minus its result;     *)
(* fifo_dataavail.                                                           *)

FreeSpace(t) ==
    /\ Enter(t)
    /\ Reply(t, "free", NoVal, MaxElem - Used)
    /\ UNCHANGED <<crit_sec, rdidx, wridx, fifomem, plen, pc, loc>>

DataAvail(t) ==
    /\ Enter(t)
    /\ Reply(t, "avail", NoVal, IF Empty THEN 0 ELSE 1)
    /\ UNCHANGED <<crit_sec, rdidx, wridx, fifomem, plen, pc, loc>>

Next ==
    \/ \E t \in Writers :
          \/ \E val \in Vals, len \in Lens : WriteStore(t, val, len)
          \/ WriteFull(t) \/ WriteAdvance(t) \/ FreeSpace(t)
    \/ \E t \in Readers :
          \/ \E maxlen \in MaxLens : ReadTooSmall(t, maxlen) \/ ReadCopy(t, maxlen)
          \/ ReadEmpty(t) \/ ReadAdvance(t) \/ DataAvail(t)
    \/ \E t \in Clearers : ClearFirst(t) \/ ClearSecond(t)

Spec == Init /\ [][Next]_vars

(* A thread inside a call goes on: nothing in it waits.  Callers are free to *)
(* stop calling.                                                             *)
FairSpec ==
    /\ Spec
    /\ \A t \in Writers : WF_vars(WriteAdvance(t))
    /\ \A t \in Readers : WF_vars(ReadAdvance(t))
    /\ \A t \in Clearers : WF_vars(ClearSecond(t))

-----------------------------------------------------------------------------
(* Properties                                                                *)

AnswerKinds == {"init", "stored", "ignored", "data", "none", "small",
                "cleared", "free", "avail"}

(* Types, and the range of the two ring indices that address fifomem in      *)
(* write_fifo and read_fifo.                                                 *)
TypeOK ==
    /\ crit_sec \in Threads \cup {NoThread}
    /\ rdidx \in Slots
    /\ wridx \in Slots
    /\ fifomem \in [Slots -> Vals \cup {NoVal}]
    /\ plen \in Nat
    /\ pc \in [Threads -> {"idle", "w_advance", "r_advance",
                           "clear_rd", "clear_wr"}]
    /\ loc \in [Threads -> [idx : Slots, val : Vals \cup {NoVal}, len : Nat]]
    /\ ret \in [Threads -> [kind : AnswerKinds, val : Vals \cup {NoVal}, n : Nat]]

(* The elements in the fifo, oldest first; none while a clear is under way.  *)
At(i) == IF rdidx + i <= MaxElem THEN rdidx + i - 1 ELSE rdidx + i - 1 - MaxElem
Clearing == \E t \in Threads : pc[t] \in {"clear_wr", "clear_rd"}
Payloads == IF Clearing THEN << >> ELSE [i \in 1 .. Used |-> fifomem[At(i)]]
Kind(k) == IF k \in {"free", "avail"} THEN "count" ELSE k
Answers == [t \in Threads |-> [kind |-> Kind(ret[t].kind), val |-> ret[t].val]]

Queue == INSTANCE BoundedQueue
    WITH Clients <- Threads, Elems <- Vals, Nothing <- NoVal,
         Capacity <- MaxElem - 1, q <- Payloads, ret <- Answers

(* However the calls of write_fifo, read_fifo and the queries interleave,    *)
(* the ring is a bounded queue: payloads come out once each, in the order    *)
(* they were accepted, and one is ignored only when maxelem - 1 are waiting. *)
PayloadQueue == Queue!Spec

(* The mutex is always given back (LOCK and UNLOCK in every function).       *)
LockReleased == \A t \in Threads : (crit_sec = t) ~> (crit_sec # t)

(* A check keeps its worth for a sole user: when fifo_freespace told the     *)
(* only writer that more than one slot is free its next write is accepted,   *)
(* and when fifo_dataavail told the only reader there is data its next read  *)
(* does not come back empty.                                                 *)
CheckThenAct ==
    [][/\ \A t \in Writers :
            (Writers = {t} /\ ret[t].kind = "free" /\ ret[t].n > 1)
               => ret'[t].kind # "ignored"
       /\ \A t \in Readers :
            (Readers = {t} /\ ret[t].kind = "avail" /\ ret[t].n = 1)
               => ret'[t].kind # "none"]_vars
=============================================================================
