----------------------------- MODULE KmlibProofs -----------------------------
(* Theorems about kmlib: KmFifo, for every number of threads, payloads,      *)
(* lengths and slots; Timers when one thread starts and stops them, for any  *)
(* number of timers, functions and calls under way; and ConfigFile, for any  *)
(* lines of a file.                                                          *)
EXTENDS KmFifo, Timers, Codecs, SequenceTheorems, TLAPS, WellFoundedInduction

-----------------------------------------------------------------------------
(* KmFifo                                                                    *)

(* Both ways of computing the next index stay inside the ring.               *)
LEMMA SuccInSlots ==
    ASSUME NEW i \in Slots PROVE Succ(i) \in Slots
BY SizeAssumption DEF Succ, Slots

(* Types and index ranges hold initially.                                    *)
LEMMA InitTypeOK == Init => TypeOK
BY SizeAssumption
   DEF Init, TypeOK, Slots, NoLocals, Answer, AnswerKinds

(* Every operation, clears at any moment included, keeps the types and the   *)
(* two indices inside the ring.                                              *)
LEMMA NextTypeOK == TypeOK /\ [Next]_vars => TypeOK'
<1> SUFFICES ASSUME TypeOK, [Next]_vars PROVE TypeOK'
    OBVIOUS
<1>0. 0 \in Slots
    BY SizeAssumption DEF Slots
<1> USE SizeAssumption, LenAssumption DEF TypeOK, Threads, Enter
<1>1. ASSUME NEW t \in Writers, NEW val \in Vals, NEW len \in Lens,
             WriteStore(t, val, len)
      PROVE TypeOK'
    BY <1>1 DEF WriteStore
<1>2. ASSUME NEW t \in Writers, WriteFull(t) PROVE TypeOK'
    BY <1>2 DEF WriteFull, Reply, Answer, AnswerKinds
<1>3. ASSUME NEW t \in Writers, WriteAdvance(t) PROVE TypeOK'
    <2>1. wridx' \in Slots
        BY <1>3, SuccInSlots DEF WriteAdvance
    <2> QED BY <1>3, <2>1 DEF WriteAdvance, Reply, Answer, AnswerKinds, NoLocals, Slots
<1>4. ASSUME NEW t \in Writers, FreeSpace(t) PROVE TypeOK'
    <2>1. MaxElem - Used \in Nat
        BY DEF Used, Slots
    <2> QED BY <1>4, <2>1 DEF FreeSpace, Reply, Answer, AnswerKinds
<1>5. ASSUME NEW t \in Readers, NEW maxlen \in MaxLens, ReadTooSmall(t, maxlen)
      PROVE TypeOK'
    BY <1>5 DEF ReadTooSmall, Reply, Answer, AnswerKinds
<1>6. ASSUME NEW t \in Readers, NEW maxlen \in MaxLens, ReadCopy(t, maxlen)
      PROVE TypeOK'
    BY <1>6 DEF ReadCopy
<1>7. ASSUME NEW t \in Readers, ReadEmpty(t) PROVE TypeOK'
    BY <1>7 DEF ReadEmpty, Reply, Answer, AnswerKinds
<1>8. ASSUME NEW t \in Readers, ReadAdvance(t) PROVE TypeOK'
    <2>1. rdidx' \in Slots
        BY <1>8, SuccInSlots DEF ReadAdvance
    <2> QED BY <1>8, <2>1 DEF ReadAdvance, Reply, Answer, AnswerKinds, NoLocals, Slots
<1>9. ASSUME NEW t \in Readers, DataAvail(t) PROVE TypeOK'
    BY <1>9 DEF DataAvail, Reply, Answer, AnswerKinds
<1>10. ASSUME NEW t \in Clearers, ClearFirst(t) PROVE TypeOK'
    BY <1>0, <1>10 DEF ClearFirst, Reply, Answer, AnswerKinds
<1>11. ASSUME NEW t \in Clearers, ClearSecond(t) PROVE TypeOK'
    BY <1>0, <1>11 DEF ClearSecond
<1>12. CASE UNCHANGED vars
    BY <1>12 DEF vars
<1> QED
    BY <1>1, <1>2, <1>3, <1>4, <1>5, <1>6, <1>7, <1>8, <1>9, <1>10, <1>11, <1>12
       DEF Next

(* No interleaving of write_fifo, read_fifo, fifo_clear and the queries      *)
(* takes rdidx or wridx out of the element memory, nor any length below 0.   *)
THEOREM TypeCorrect == Spec => []TypeOK
BY InitTypeOK, NextTypeOK, PTL DEF Spec
-----------------------------------------------------------------------------
(* fifo_clear takes no mutex.  It is only used by a thread that is alone with *)
(* its fifo, or not at all.                                                  *)
ClearedAlone == \A t \in Clearers : Threads = {t}

(* Then what a call loaded still holds when it stores its index: nobody else *)
(* got the mutex, or there is nobody else.                                   *)
CallInv ==
    \A t \in Threads :
        /\ pc[t] \in {"w_advance", "r_advance"} => crit_sec = t
        /\ pc[t] \in {"clear_wr", "clear_rd"} => t \in Clearers
        /\ pc[t] = "clear_wr" => rdidx = 0
        /\ pc[t] = "clear_rd" => wridx = 0
        /\ pc[t] = "w_advance" =>
              /\ loc[t].idx = wridx
              /\ loc[t].val \in Vals
              /\ fifomem[wridx] = loc[t].val
              /\ ~Full
        /\ pc[t] = "r_advance" =>
              /\ loc[t].idx = rdidx
              /\ loc[t].val = fifomem[rdidx]
              /\ ~Empty

LEMMA InitCallInv == Init => CallInv
BY DEF Init, CallInv

(* A call that gets the mutex finds no other one under way, and one that has *)
(* it is the only one.                                                       *)
LEMMA EnterAlone ==
    ASSUME ClearedAlone, TypeOK, CallInv, NEW t \in Threads, Enter(t)
    PROVE  \A u \in Threads : pc[u] = "idle"
BY NoThreadAssumption DEF ClearedAlone, TypeOK, CallInv, Enter

LEMMA InsideAlone ==
    ASSUME ClearedAlone, TypeOK, CallInv, NEW t \in Threads, pc[t] # "idle"
    PROVE  \A u \in Threads \ {t} : pc[u] = "idle"
BY DEF ClearedAlone, TypeOK, CallInv

LEMMA NextCallInv ==
    ASSUME ClearedAlone, TypeOK, CallInv, [Next]_vars
    PROVE  CallInv'
<1> USE DEF CallInv, TypeOK, Full, Empty
<1>0. Writers \subseteq Threads /\ Readers \subseteq Threads /\ Clearers \subseteq Threads
    BY DEF Threads
<1>1. ASSUME NEW t \in Writers, NEW val \in Vals, NEW len \in Lens,
             WriteStore(t, val, len)
      PROVE CallInv'
    <2>1. \A u \in Threads : pc[u] = "idle"
        BY <1>0, <1>1, EnterAlone DEF WriteStore
    <2>2. \A u \in Threads \ {t} : pc'[u] = "idle"
        BY <1>1, <2>1 DEF WriteStore
    <2>3. t \in Threads /\ pc'[t] = "w_advance" /\ crit_sec' = t
        BY <1>0, <1>1 DEF WriteStore
    <2>4. /\ loc'[t].idx = wridx' /\ loc'[t].val = val
          /\ fifomem'[wridx'] = val /\ ~Full'
        BY <1>1, <2>3 DEF WriteStore, Succ
    <2> QED BY <2>2, <2>3, <2>4
<1>2. ASSUME NEW t \in Writers, WriteFull(t) PROVE CallInv'
    BY <1>2 DEF WriteFull, Succ
<1>3. ASSUME NEW t \in Writers, WriteAdvance(t) PROVE CallInv'
    <2>1. \A u \in Threads \ {t} : pc[u] = "idle"
        BY <1>0, <1>3, InsideAlone DEF WriteAdvance
    <2>2. \A u \in Threads : pc'[u] = "idle"
        BY <1>3, <2>1 DEF WriteAdvance
    <2> QED BY <2>2
<1>4. ASSUME NEW t \in Writers, FreeSpace(t) PROVE CallInv'
    BY <1>4 DEF FreeSpace, Succ
<1>5. ASSUME NEW t \in Readers, NEW maxlen \in MaxLens, ReadTooSmall(t, maxlen)
      PROVE CallInv'
    <2>1. \A u \in Threads : pc[u] = "idle"
        BY <1>0, <1>5, EnterAlone DEF ReadTooSmall
    <2>2. \A u \in Threads : pc'[u] = "idle"
        BY <1>5, <2>1 DEF ReadTooSmall
    <2> QED BY <2>2
<1>6. ASSUME NEW t \in Readers, NEW maxlen \in MaxLens, ReadCopy(t, maxlen)
      PROVE CallInv'
    <2>1. \A u \in Threads : pc[u] = "idle"
        BY <1>0, <1>6, EnterAlone DEF ReadCopy
    <2>2. \A u \in Threads \ {t} : pc'[u] = "idle"
        BY <1>6, <2>1 DEF ReadCopy
    <2>3. t \in Threads /\ pc'[t] = "r_advance" /\ crit_sec' = t
        BY <1>0, <1>6 DEF ReadCopy
    <2>4. /\ loc'[t].idx = rdidx' /\ loc'[t].val = fifomem'[rdidx']
          /\ ~Empty'
        BY <1>6, <2>3 DEF ReadCopy
    <2> QED BY <2>2, <2>3, <2>4
<1>7. ASSUME NEW t \in Readers, ReadEmpty(t) PROVE CallInv'
    BY <1>7 DEF ReadEmpty, Succ
<1>8. ASSUME NEW t \in Readers, ReadAdvance(t) PROVE CallInv'
    <2>1. \A u \in Threads \ {t} : pc[u] = "idle"
        BY <1>0, <1>8, InsideAlone DEF ReadAdvance
    <2>2. \A u \in Threads : pc'[u] = "idle"
        BY <1>8, <2>1 DEF ReadAdvance
    <2> QED BY <2>2
<1>9. ASSUME NEW t \in Readers, DataAvail(t) PROVE CallInv'
    BY <1>9 DEF DataAvail, Succ
<1>10. ASSUME NEW t \in Clearers, ClearFirst(t) PROVE CallInv'
    <2>1. Threads = {t}
        BY <1>10 DEF ClearedAlone
    <2>2. \/ pc'[t] = "clear_wr" /\ rdidx' = 0
          \/ pc'[t] = "clear_rd" /\ wridx' = 0
        BY <1>0, <1>10 DEF ClearFirst
    <2> QED BY <2>1, <2>2
<1>11. ASSUME NEW t \in Clearers, ClearSecond(t) PROVE CallInv'
    <2>1. Threads = {t} /\ pc'[t] = "idle"
        BY <1>0, <1>11 DEF ClearedAlone, ClearSecond
    <2> QED BY <2>1
<1>12. CASE UNCHANGED vars
    BY <1>12 DEF vars, Succ
<1> QED
    BY <1>1, <1>2, <1>3, <1>4, <1>5, <1>6, <1>7, <1>8, <1>9, <1>10, <1>11, <1>12
       DEF Next

(* The number of elements, and where the ring index arithmetic puts them.    *)
LEMMA UsedBounds ==
    ASSUME TypeOK
    PROVE  /\ Used \in 0 .. MaxElem - 1
           /\ Full <=> Used = MaxElem - 1
           /\ Empty <=> Used = 0
           /\ \A i \in 1 .. Used : At(i) \in Slots /\ At(i) # wridx
BY SizeAssumption DEF TypeOK, Slots, Used, Full, Empty, Succ, At

(* The same arithmetic for any two indices.                                  *)
LEMMA RingRange ==
    \A rd, wr \in Slots :
        /\ (IF wr >= rd THEN wr - rd ELSE wr + MaxElem - rd) \in Nat
        /\ \A i \in 1 .. (IF wr >= rd THEN wr - rd ELSE wr + MaxElem - rd) :
              (IF rd + i <= MaxElem THEN rd + i - 1 ELSE rd + i - 1 - MaxElem)
                  \in Slots
BY SizeAssumption DEF Slots

(* Advancing wridx appends the slot just written.                            *)
LEMMA AdvanceWrite ==
    ASSUME TypeOK, ~Full, wridx' = Succ(wridx), rdidx' = rdidx
    PROVE  /\ Used' = Used + 1
           /\ \A i \in 1 .. Used : At(i)' = At(i)
           /\ \A i \in Nat : i = Used + 1 => At(i)' = wridx
BY SizeAssumption DEF TypeOK, Slots, Used, Full, Succ, At

(* Advancing rdidx drops the oldest slot.                                    *)
LEMMA AdvanceRead ==
    ASSUME TypeOK, ~Empty, rdidx' = Succ(rdidx), wridx' = wridx
    PROVE  /\ Used' = Used - 1
           /\ At(1) = rdidx
           /\ \A i \in 1 .. Used - 1 : At(i)' = At(i + 1)
BY SizeAssumption DEF TypeOK, Slots, Used, Empty, Succ, At
(* The abstract queue is a sequence, one payload per slot in use.            *)
Payload == Vals \cup {NoVal}

LEMMA PayloadSeq ==
    ASSUME TypeOK, ~Clearing
    PROVE  /\ Payloads \in Seq(Payload)
           /\ Len(Payloads) = Used
           /\ \A i \in 1 .. Used : Payloads[i] = fifomem[At(i)]
<1>1. Payloads = [i \in 1 .. Used |-> fifomem[At(i)]]
    BY DEF Payloads
<1>2. Used \in Nat /\ \A i \in 1 .. Used : At(i) \in Slots
    BY UsedBounds
<1>3. \A i \in 1 .. Used : fifomem[At(i)] \in Payload
    BY <1>2 DEF TypeOK, Payload
<1>4. Payloads \in Seq(Payload)
    BY <1>1, <1>2, <1>3
<1> QED BY <1>1, <1>2, <1>4

LEMMA PayloadSeqNext ==
    ASSUME TypeOK', ~Clearing'
    PROVE  /\ Payloads' \in Seq(Payload)
           /\ Len(Payloads') = Used'
           /\ \A i \in 1 .. Used' : Payloads'[i] = fifomem'[At(i)']
<1>1. Payloads' = [i \in 1 .. Used' |-> fifomem'[At(i)']]
    BY DEF Payloads
<1>2. Used' \in Nat /\ \A i \in 1 .. Used' : At(i)' \in Slots
    <2>1. rdidx' \in Slots /\ wridx' \in Slots
        BY DEF TypeOK
    <2> QED BY <2>1, RingRange DEF Used, At
<1>3. \A i \in 1 .. Used' : fifomem'[At(i)'] \in Payload
    BY <1>2 DEF TypeOK, Payload
<1>4. Payloads' \in Seq(Payload)
    BY <1>1, <1>2, <1>3
<1>5. Len(Payloads') = Used'
    BY <1>1, <1>2
<1>6. \A i \in 1 .. Used' : Payloads'[i] = fifomem'[At(i)']
    BY <1>1
<1> QED BY <1>4, <1>5, <1>6

(* A call that leaves the indices and the slots in use alone leaves the      *)
(* abstract queue alone, even when it has filled the free slot at wridx.     *)
LEMMA PayloadsKept ==
    ASSUME TypeOK, TypeOK', ~Clearing, ~Clearing',
           UNCHANGED <<rdidx, wridx>>,
           \A s \in Slots \ {wridx} : fifomem'[s] = fifomem[s]
    PROVE  Payloads' = Payloads
<1>1. Used' = Used /\ \A i \in 1 .. Used : At(i)' = At(i)
    BY DEF Used, At
<1>2. \A i \in 1 .. Used : At(i) \in Slots \ {wridx}
    BY UsedBounds
<1>3. \A i \in 1 .. Used : Payloads'[i] = Payloads[i]
    BY <1>1, <1>2, PayloadSeq, PayloadSeqNext
<1> QED BY <1>1, <1>3, PayloadSeq, PayloadSeqNext, SeqEqual

(* The answers map to the abstract ones, one caller at a time.               *)
LEMMA AnswersReply ==
    ASSUME TypeOK, NEW t \in Threads, NEW kind, NEW val, NEW n,
           Reply(t, kind, val, n)
    PROVE  Answers' = [Answers EXCEPT ![t] = [kind |-> Kind(kind), val |-> val]]
BY DEF TypeOK, Reply, Answer, Answers

LEMMA AnswersKept ==
    ASSUME UNCHANGED ret PROVE Answers' = Answers
BY DEF Answers

(* The write that advances wridx appends its payload.                        *)
LEMMA WriteAppends ==
    ASSUME TypeOK, CallInv, TypeOK', ~Clearing, ~Clearing',
           NEW t \in Writers, WriteAdvance(t)
    PROVE  /\ Len(Payloads) < MaxElem - 1
           /\ Payloads' = Append(Payloads, loc[t].val)
<1>1. /\ t \in Threads /\ pc[t] = "w_advance"
      /\ ~Full /\ wridx' = Succ(wridx) /\ rdidx' = rdidx /\ fifomem' = fifomem
      /\ loc[t].val = fifomem[wridx] /\ loc[t].val \in Payload
    BY DEF WriteAdvance, CallInv, Threads, Payload
<1>2. /\ Used' = Used + 1
      /\ \A i \in 1 .. Used : At(i)' = At(i)
      /\ \A i \in Nat : i = Used + 1 => At(i)' = wridx
    BY <1>1, AdvanceWrite
<1>3. Used \in Nat /\ Used < MaxElem - 1
    BY <1>1, UsedBounds, SizeAssumption
<1>4. /\ Append(Payloads, loc[t].val) \in Seq(Payload)
      /\ Len(Append(Payloads, loc[t].val)) = Used + 1
      /\ \A i \in 1 .. Used + 1 : Append(Payloads, loc[t].val)[i] =
            IF i <= Used THEN Payloads[i] ELSE loc[t].val
    BY <1>1, <1>3, PayloadSeq
<1>5. ASSUME NEW i \in 1 .. Used + 1
      PROVE Payloads'[i] = Append(Payloads, loc[t].val)[i]
    <2>0. Payloads'[i] = fifomem[At(i)']
        BY <1>1, <1>2, PayloadSeqNext
    <2>1. CASE i <= Used
        <3>1. i \in 1 .. Used
            BY <2>1, <1>3
        <3> QED BY <2>0, <2>1, <3>1, <1>2, <1>4, PayloadSeq
    <2>2. CASE i = Used + 1
        <3>1. i \in Nat /\ ~(i <= Used)
            BY <2>2, <1>3
        <3>2. At(i)' = wridx
            BY <3>1, <2>2, <1>2
        <3> QED BY <2>0, <3>1, <3>2, <1>1, <1>4
    <2>3. i <= Used \/ i = Used + 1
        BY <1>3
    <2> QED BY <2>1, <2>2, <2>3
<1>6. Payloads' = Append(Payloads, loc[t].val)
    BY <1>2, <1>4, <1>5, PayloadSeqNext, SeqEqual
<1> QED BY <1>3, <1>6, PayloadSeq

(* The read that advances rdidx returns the oldest payload and drops it.     *)
LEMMA ReadTakesHead ==
    ASSUME TypeOK, CallInv, TypeOK', ~Clearing, ~Clearing',
           NEW t \in Readers, ReadAdvance(t)
    PROVE  /\ Payloads # << >>
           /\ loc[t].val = Head(Payloads)
           /\ Payloads' = Tail(Payloads)
<1>1. /\ t \in Threads /\ pc[t] = "r_advance"
      /\ ~Empty /\ rdidx' = Succ(rdidx) /\ wridx' = wridx /\ fifomem' = fifomem
      /\ loc[t].val = fifomem[rdidx]
    BY DEF ReadAdvance, CallInv, Threads
<1>2. /\ Used' = Used - 1
      /\ At(1) = rdidx
      /\ \A i \in 1 .. Used - 1 : At(i)' = At(i + 1)
    BY <1>1, AdvanceRead
<1>3. Used \in Nat \ {0}
    BY <1>1, UsedBounds
<1>4. Payloads # << >>
    BY <1>3, PayloadSeq
<1>5. loc[t].val = Head(Payloads)
    BY <1>1, <1>2, <1>3, <1>4, PayloadSeq
<1>6. /\ Tail(Payloads) \in Seq(Payload)
      /\ Len(Tail(Payloads)) = Used - 1
      /\ \A i \in 1 .. Used - 1 : Tail(Payloads)[i] = Payloads[i + 1]
    BY <1>3, <1>4, PayloadSeq, HeadTailProperties
<1>7. ASSUME NEW i \in 1 .. Used - 1
      PROVE Payloads'[i] = Tail(Payloads)[i]
    <2>1. Payloads'[i] = fifomem[At(i + 1)]
        BY <1>1, <1>2, PayloadSeqNext
    <2>2. i + 1 \in 1 .. Used
        BY <1>3
    <2> QED BY <2>1, <2>2, <1>6, PayloadSeq
<1>8. Payloads' = Tail(Payloads)
    BY <1>2, <1>6, <1>7, PayloadSeqNext, SeqEqual
<1> QED BY <1>4, <1>5, <1>8

(* Every step of the ring is a step of the abstract queue or a stutter.      *)
LEMMA StepRefines ==
    ASSUME ClearedAlone, TypeOK, CallInv, TypeOK', CallInv', [Next]_vars
    PROVE  [Queue!Next]_Queue!qvars
<1> USE DEF Queue!Answer, Queue!Reply, Kind
<1>0. ASSUME NEW t \in Threads, pc[t] \in {"idle", "w_advance", "r_advance"},
             pc'[t] \in {"idle", "w_advance", "r_advance"},
             \A u \in Threads \ {t} : pc'[u] = pc[u]
      PROVE ~Clearing /\ ~Clearing'
    BY <1>0 DEF Clearing, ClearedAlone, CallInv
<1>1. ASSUME NEW t \in Writers, NEW val \in Vals, NEW len \in Lens,
             WriteStore(t, val, len)
      PROVE UNCHANGED <<Payloads, Answers>>
    <2>0. ~Clearing /\ ~Clearing'
        BY <1>0, <1>1 DEF WriteStore, Enter, TypeOK, Threads
    <2>1. \A s \in Slots \ {wridx} : fifomem'[s] = fifomem[s]
        BY <1>1 DEF WriteStore, TypeOK
    <2>2. Payloads' = Payloads
        BY <1>1, <2>1, <2>0, PayloadsKept DEF WriteStore
    <2> QED BY <1>1, <2>2, AnswersKept DEF WriteStore
<1>2. ASSUME NEW t \in Writers, WriteFull(t) PROVE Queue!Ignore(t)
    <2>0. ~Clearing /\ ~Clearing'
        BY <1>0, <1>2 DEF WriteFull, Enter, TypeOK, Threads
    <2>1. Payloads' = Payloads
        BY <1>2, <2>0, PayloadsKept DEF WriteFull
    <2>2. Len(Payloads) = MaxElem - 1
        BY <1>2, UsedBounds, <2>0, PayloadSeq DEF WriteFull
    <2>3. Answers' = [Answers EXCEPT ![t] = [kind |-> "ignored", val |-> NoVal]]
        BY <1>2, AnswersReply DEF WriteFull, Threads
    <2> QED BY <2>1, <2>2, <2>3 DEF Queue!Ignore
<1>3. ASSUME NEW t \in Writers, WriteAdvance(t)
      PROVE \E e \in Vals : Queue!Put(t, e)
    <2>0. ~Clearing /\ ~Clearing'
        BY <1>0, <1>3 DEF WriteAdvance, Enter, TypeOK, Threads
    <2>1. loc[t].val \in Vals
        BY <1>3 DEF WriteAdvance, CallInv, Threads
    <2>2. Len(Payloads) < MaxElem - 1 /\ Payloads' = Append(Payloads, loc[t].val)
        BY <1>3, <2>0, WriteAppends
    <2>3. Answers' = [Answers EXCEPT ![t] = [kind |-> "stored", val |-> NoVal]]
        BY <1>3, AnswersReply DEF WriteAdvance, Threads
    <2> QED BY <2>1, <2>2, <2>3 DEF Queue!Put
<1>4. ASSUME NEW t \in Writers, FreeSpace(t) PROVE Queue!Query(t)
    <2>0. ~Clearing /\ ~Clearing'
        BY <1>0, <1>4 DEF FreeSpace, Enter, TypeOK, Threads
    <2>1. Payloads' = Payloads
        BY <1>4, <2>0, PayloadsKept DEF FreeSpace
    <2>2. Answers' = [Answers EXCEPT ![t] = [kind |-> "count", val |-> NoVal]]
        BY <1>4, AnswersReply DEF FreeSpace, Threads
    <2> QED BY <2>1, <2>2 DEF Queue!Query
<1>5. ASSUME NEW t \in Readers, NEW maxlen \in MaxLens, ReadTooSmall(t, maxlen)
      PROVE Queue!Refuse(t)
    <2>0. ~Clearing /\ ~Clearing'
        BY <1>0, <1>5 DEF ReadTooSmall, Enter, TypeOK, Threads
    <2>1. Payloads' = Payloads
        BY <1>5, <2>0, PayloadsKept DEF ReadTooSmall
    <2>2. Payloads # << >>
        BY <1>5, UsedBounds, <2>0, PayloadSeq DEF ReadTooSmall
    <2>3. Answers' = [Answers EXCEPT ![t] = [kind |-> "small", val |-> NoVal]]
        BY <1>5, AnswersReply DEF ReadTooSmall, Threads
    <2> QED BY <2>1, <2>2, <2>3 DEF Queue!Refuse
<1>6. ASSUME NEW t \in Readers, NEW maxlen \in MaxLens, ReadCopy(t, maxlen)
      PROVE UNCHANGED <<Payloads, Answers>>
    <2>0. ~Clearing /\ ~Clearing'
        BY <1>0, <1>6 DEF ReadCopy, Enter, TypeOK, Threads
    <2>1. Payloads' = Payloads
        BY <1>6, <2>0, PayloadsKept DEF ReadCopy
    <2> QED BY <1>6, <2>1, AnswersKept DEF ReadCopy
<1>7. ASSUME NEW t \in Readers, ReadEmpty(t) PROVE Queue!GetNone(t)
    <2>0. ~Clearing /\ ~Clearing'
        BY <1>0, <1>7 DEF ReadEmpty, Enter, TypeOK, Threads
    <2>1. Payloads' = Payloads
        BY <1>7, <2>0, PayloadsKept DEF ReadEmpty
    <2>2. Payloads = << >>
        BY <1>7, UsedBounds, <2>0, PayloadSeq DEF ReadEmpty
    <2>3. Answers' = [Answers EXCEPT ![t] = [kind |-> "none", val |-> NoVal]]
        BY <1>7, AnswersReply DEF ReadEmpty, Threads
    <2> QED BY <2>1, <2>2, <2>3 DEF Queue!GetNone
<1>8. ASSUME NEW t \in Readers, ReadAdvance(t) PROVE Queue!Get(t)
    <2>0. ~Clearing /\ ~Clearing'
        BY <1>0, <1>8 DEF ReadAdvance, Enter, TypeOK, Threads
    <2>1. /\ Payloads # << >> /\ loc[t].val = Head(Payloads)
          /\ Payloads' = Tail(Payloads)
        BY <1>8, <2>0, ReadTakesHead
    <2>2. Answers' = [Answers EXCEPT ![t] = [kind |-> "data", val |-> loc[t].val]]
        BY <1>8, AnswersReply DEF ReadAdvance, Threads
    <2> QED BY <2>1, <2>2 DEF Queue!Get
<1>9. ASSUME NEW t \in Readers, DataAvail(t) PROVE Queue!Query(t)
    <2>0. ~Clearing /\ ~Clearing'
        BY <1>0, <1>9 DEF DataAvail, Enter, TypeOK, Threads
    <2>1. Payloads' = Payloads
        BY <1>9, <2>0, PayloadsKept DEF DataAvail
    <2>2. Answers' = [Answers EXCEPT ![t] = [kind |-> "count", val |-> NoVal]]
        BY <1>9, AnswersReply DEF DataAvail, Threads
    <2> QED BY <2>1, <2>2 DEF Queue!Query
<1>10. ASSUME NEW t \in Clearers, ClearFirst(t) PROVE Queue!Clear(t)
    <2>1. t \in Threads
        BY DEF Threads
    <2>2. Clearing'
        BY <1>10, <2>1 DEF ClearFirst, Clearing, TypeOK
    <2>3. Payloads' = << >>
        BY <2>2 DEF Payloads
    <2>4. Answers' = [Answers EXCEPT ![t] = [kind |-> "cleared", val |-> NoVal]]
        BY <1>10, <2>1, AnswersReply DEF ClearFirst
    <2> QED BY <2>3, <2>4 DEF Queue!Clear
<1>11. ASSUME NEW t \in Clearers, ClearSecond(t) PROVE UNCHANGED <<Payloads, Answers>>
    <2>1. Threads = {t} /\ pc[t] \in {"clear_wr", "clear_rd"} /\ pc'[t] = "idle"
        BY <1>11 DEF ClearedAlone, ClearSecond, TypeOK
    <2>2. Clearing /\ ~Clearing'
        BY <2>1 DEF Clearing
    <2>3. rdidx' = 0 /\ wridx' = 0
        BY <1>11, <2>1 DEF ClearSecond, CallInv
    <2>4. Used' = 0
        BY <2>3 DEF Used
    <2>5. Payloads' = << >>
        BY <2>2, <2>4, PayloadSeqNext
    <2>6. Payloads = << >>
        BY <2>2 DEF Payloads
    <2> QED BY <1>11, <2>5, <2>6, AnswersKept DEF ClearSecond
<1>12. CASE UNCHANGED vars
    <2>1. UNCHANGED <<Payloads, Answers>>
        BY <1>12 DEF vars, Payloads, Clearing, Used, At, Answers
    <2> QED BY <2>1 DEF Queue!qvars
<1> QED
    BY <1>1, <1>2, <1>3, <1>4, <1>5, <1>6, <1>7, <1>8, <1>9, <1>10, <1>11, <1>12
       DEF Next, Queue!Next, Queue!qvars, Threads

LEMMA InitRefines == Init => Queue!Init
<1> SUFFICES ASSUME Init PROVE Queue!Init
    OBVIOUS
<1>1. Payloads = << >>
    BY DEF Init, Payloads, Clearing, Used
<1>2. Answers = [t \in Threads |-> [kind |-> "init", val |-> NoVal]]
    BY DEF Init, Answers, Answer, Kind
<1> QED BY <1>1, <1>2 DEF Queue!Init, Queue!Answer

(* However many threads write, read and query at once, the ring of           *)
(* kmfifo.cpp is a bounded queue of maxelem - 1 payloads, first in first     *)
(* out, if nobody calls fifo_clear; and so it is, cleared in one step, for a *)
(* thread that is alone with its fifo.                                       *)
THEOREM ImplementsQueue ==
    ASSUME ClearedAlone PROVE Spec => PayloadQueue
<1>1. Init => TypeOK /\ CallInv /\ Queue!Init
    BY InitTypeOK, InitCallInv, InitRefines
<1>2. TypeOK /\ CallInv /\ [Next]_vars => TypeOK' /\ CallInv'
    BY NextTypeOK, NextCallInv
<1>3. TypeOK /\ CallInv /\ TypeOK' /\ CallInv' /\ [Next]_vars
      => [Queue!Next]_Queue!qvars
    BY StepRefines
<1> QED BY <1>1, <1>2, <1>3, PTL DEF Spec, PayloadQueue, Queue!Spec
-----------------------------------------------------------------------------
(* What a sole user was told stays a safe bound until its next answer:       *)
(* readers only make room, writers only add data.                            *)
CheckInv ==
    \A t \in Threads :
        /\ pc[t] \in {"clear_wr", "clear_rd"} => ret[t].kind = "cleared"
        /\ (Writers = {t} /\ ret[t].kind = "free") => Used + ret[t].n <= MaxElem
        /\ (Readers = {t} /\ ret[t].kind = "avail" /\ ret[t].n = 1) => Used > 0

LEMMA InitCheckInv == Init => CheckInv
BY DEF Init, CheckInv, Answer

(* A step that neither moves an index nor answers free, avail keeps it.      *)
LEMMA CheckKept ==
    ASSUME TypeOK, CheckInv, NEW t \in Threads,
           NEW kind \in AnswerKinds \ {"free", "avail", "cleared"}, NEW val, NEW n,
           UNCHANGED <<rdidx, wridx>>, pc[t] \notin {"clear_wr", "clear_rd"},
           \A u \in Threads : pc'[u] = pc[u],
           Reply(t, kind, val, n)
    PROVE  CheckInv'
BY DEF TypeOK, CheckInv, Reply, Answer, Used

LEMMA NextCheckInv ==
    ASSUME ClearedAlone, TypeOK, CallInv, CheckInv, [Next]_vars
    PROVE  CheckInv'
<1>0. Writers \subseteq Threads /\ Readers \subseteq Threads /\ Clearers \subseteq Threads
    BY DEF Threads
<1>u. Used \in 0 .. MaxElem - 1 /\ (Empty <=> Used = 0)
    BY UsedBounds
<1>1. ASSUME NEW t \in Writers, NEW val \in Vals, NEW len \in Lens,
             WriteStore(t, val, len)
      PROVE CheckInv'
    <2>1. Used' = Used /\ ret' = ret
        BY <1>1 DEF WriteStore, Used
    <2>2. \A u \in Threads : pc'[u] \in {"clear_wr", "clear_rd"} => pc[u] = pc'[u]
        BY <1>1 DEF WriteStore, TypeOK
    <2> QED BY <2>1, <2>2 DEF CheckInv
<1>2. ASSUME NEW t \in Writers, WriteFull(t) PROVE CheckInv'
    BY <1>0, <1>2, CheckKept DEF WriteFull, Enter, AnswerKinds
<1>3. ASSUME NEW t \in Writers, WriteAdvance(t) PROVE CheckInv'
    <2>1. ~Full /\ wridx' = Succ(wridx) /\ rdidx' = rdidx
        BY <1>0, <1>3 DEF WriteAdvance, CallInv
    <2>2. Used' = Used + 1
        BY <2>1, AdvanceWrite
    <2>3. \A u \in Threads : pc'[u] \in {"clear_wr", "clear_rd"} => u # t /\ pc[u] = pc'[u]
        BY <1>0, <1>3 DEF WriteAdvance, TypeOK
    <2>4. /\ ret'[t].kind = "stored"
          /\ \A u \in Threads \ {t} : ret'[u] = ret[u]
        BY <1>0, <1>3 DEF WriteAdvance, Reply, Answer, TypeOK
    <2>5. \A u \in Threads \ {t} : Writers # {u}
        OBVIOUS
    <2> QED BY <1>u, <2>2, <2>3, <2>4, <2>5 DEF CheckInv
<1>4. ASSUME NEW t \in Writers, FreeSpace(t) PROVE CheckInv'
    <2>1. Used' = Used /\ UNCHANGED pc /\ pc[t] = "idle"
        BY <1>4 DEF FreeSpace, Used, Enter
    <2>2. /\ ret'[t].kind = "free" /\ ret'[t].n = MaxElem - Used
          /\ \A u \in Threads \ {t} : ret'[u] = ret[u]
        BY <1>0, <1>4 DEF FreeSpace, Reply, Answer, TypeOK
    <2> QED BY <1>u, <2>1, <2>2, SizeAssumption DEF CheckInv
<1>5. ASSUME NEW t \in Readers, NEW maxlen \in MaxLens, ReadTooSmall(t, maxlen)
      PROVE CheckInv'
    BY <1>0, <1>5, CheckKept DEF ReadTooSmall, Enter, AnswerKinds
<1>6. ASSUME NEW t \in Readers, NEW maxlen \in MaxLens, ReadCopy(t, maxlen)
      PROVE CheckInv'
    <2>1. Used' = Used /\ ret' = ret
        BY <1>6 DEF ReadCopy, Used
    <2>2. \A u \in Threads : pc'[u] \in {"clear_wr", "clear_rd"} => pc[u] = pc'[u]
        BY <1>6 DEF ReadCopy, TypeOK
    <2> QED BY <2>1, <2>2 DEF CheckInv
<1>7. ASSUME NEW t \in Readers, ReadEmpty(t) PROVE CheckInv'
    BY <1>0, <1>7, CheckKept DEF ReadEmpty, Enter, AnswerKinds
<1>8. ASSUME NEW t \in Readers, ReadAdvance(t) PROVE CheckInv'
    <2>1. ~Empty /\ rdidx' = Succ(rdidx) /\ wridx' = wridx
        BY <1>0, <1>8 DEF ReadAdvance, CallInv
    <2>2. Used' = Used - 1
        BY <2>1, AdvanceRead
    <2>3. \A u \in Threads : pc'[u] \in {"clear_wr", "clear_rd"} => u # t /\ pc[u] = pc'[u]
        BY <1>0, <1>8 DEF ReadAdvance, TypeOK
    <2>4. /\ ret'[t].kind = "data"
          /\ \A u \in Threads \ {t} : ret'[u] = ret[u]
        BY <1>0, <1>8 DEF ReadAdvance, Reply, Answer, TypeOK
    <2>5. \A u \in Threads \ {t} : Readers # {u}
        OBVIOUS
    <2>6. \A u \in Threads : ret[u].n \in Nat
        BY DEF TypeOK
    <2> QED BY <1>u, <2>2, <2>3, <2>4, <2>5, <2>6, SizeAssumption DEF CheckInv
<1>9. ASSUME NEW t \in Readers, DataAvail(t) PROVE CheckInv'
    <2>1. Used' = Used /\ UNCHANGED pc /\ pc[t] = "idle"
        BY <1>9 DEF DataAvail, Used, Enter
    <2>2. /\ ret'[t].kind = "avail" /\ ret'[t].n = (IF Empty THEN 0 ELSE 1)
          /\ \A u \in Threads \ {t} : ret'[u] = ret[u]
        BY <1>0, <1>9 DEF DataAvail, Reply, Answer, TypeOK
    <2> QED BY <1>u, <2>1, <2>2 DEF CheckInv
<1>10. ASSUME NEW t \in Clearers, ClearFirst(t) PROVE CheckInv'
    <2>1. Threads = {t}
        BY <1>10 DEF ClearedAlone
    <2>2. ret'[t].kind = "cleared"
        BY <1>0, <1>10 DEF ClearFirst, Reply, Answer, TypeOK
    <2> QED BY <2>1, <2>2 DEF CheckInv
<1>11. ASSUME NEW t \in Clearers, ClearSecond(t) PROVE CheckInv'
    <2>1. Threads = {t} /\ pc[t] \in {"clear_wr", "clear_rd"} /\ ret' = ret
        BY <1>11 DEF ClearedAlone, ClearSecond
    <2>2. ret'[t].kind = "cleared"
        BY <2>1 DEF CheckInv
    <2> QED BY <2>1, <2>2 DEF CheckInv
<1>12. CASE UNCHANGED vars
    BY <1>12 DEF vars, CheckInv, Used
<1> QED
    BY <1>1, <1>2, <1>3, <1>4, <1>5, <1>6, <1>7, <1>8, <1>9, <1>10, <1>11, <1>12
       DEF Next

(* An answer changes only by the step that gives it.                         *)
LEMMA AnswerByOwnStep ==
    ASSUME TypeOK, [Next]_vars, NEW u \in Threads
    PROVE  /\ ret'[u].kind = "ignored" =>
                 (u \in Writers /\ Full) \/ ret'[u] = ret[u]
           /\ ret'[u].kind = "none" => Empty \/ ret'[u] = ret[u]
<1> USE DEF TypeOK, Threads, Reply, Answer
<1>1. ASSUME NEW t \in Writers, NEW val \in Vals, NEW len \in Lens,
             WriteStore(t, val, len)
      PROVE ret' = ret
    BY <1>1 DEF WriteStore
<1>2. ASSUME NEW t \in Writers, WriteFull(t)
      PROVE /\ Full /\ ret'[t].kind = "ignored"
            /\ \A v \in Threads \ {t} : ret'[v] = ret[v]
    BY <1>2 DEF WriteFull
<1>3. ASSUME NEW t \in Writers, WriteAdvance(t) \/ FreeSpace(t)
      PROVE /\ ret'[t].kind \in {"stored", "free"}
            /\ \A v \in Threads \ {t} : ret'[v] = ret[v]
    BY <1>3 DEF WriteAdvance, FreeSpace
<1>4. ASSUME NEW t \in Readers, NEW maxlen \in MaxLens, ReadTooSmall(t, maxlen)
      PROVE /\ ret'[t].kind = "small"
            /\ \A v \in Threads \ {t} : ret'[v] = ret[v]
    BY <1>4 DEF ReadTooSmall
<1>5. ASSUME NEW t \in Readers, NEW maxlen \in MaxLens, ReadCopy(t, maxlen)
      PROVE ret' = ret
    BY <1>5 DEF ReadCopy
<1>6. ASSUME NEW t \in Readers, ReadEmpty(t)
      PROVE /\ Empty /\ ret'[t].kind = "none"
            /\ \A v \in Threads \ {t} : ret'[v] = ret[v]
    BY <1>6 DEF ReadEmpty
<1>7. ASSUME NEW t \in Readers, ReadAdvance(t) \/ DataAvail(t)
      PROVE /\ ret'[t].kind \in {"data", "avail"}
            /\ \A v \in Threads \ {t} : ret'[v] = ret[v]
    BY <1>7 DEF ReadAdvance, DataAvail
<1>8. ASSUME NEW t \in Clearers, ClearFirst(t)
      PROVE /\ ret'[t].kind = "cleared"
            /\ \A v \in Threads \ {t} : ret'[v] = ret[v]
    BY <1>8 DEF ClearFirst
<1>9. ASSUME NEW t \in Clearers, ClearSecond(t) PROVE ret' = ret
    BY <1>9 DEF ClearSecond
<1>10. CASE UNCHANGED vars
    BY <1>10 DEF vars
<1> HIDE DEF TypeOK, Threads, Reply, Answer
<1> QED
    BY <1>1, <1>2, <1>3, <1>4, <1>5, <1>6, <1>7, <1>8, <1>9, <1>10 DEF Next

(* However many readers run beside it, the only writer's next write is       *)
(* accepted once fifo_freespace told it that more than one slot is free; and *)
(* however many writers, the only reader's next read finds data once         *)
(* fifo_dataavail said there is.                                             *)
THEOREM CheckCorrect ==
    ASSUME ClearedAlone PROVE Spec => CheckThenAct
<1> DEFINE Worth ==
      /\ \A t \in Writers :
            (Writers = {t} /\ ret[t].kind = "free" /\ ret[t].n > 1)
               => ret'[t].kind # "ignored"
      /\ \A t \in Readers :
            (Readers = {t} /\ ret[t].kind = "avail" /\ ret[t].n = 1)
               => ret'[t].kind # "none"
<1>1. Init => TypeOK /\ CallInv /\ CheckInv
    BY InitTypeOK, InitCallInv, InitCheckInv
<1>2. TypeOK /\ CallInv /\ CheckInv /\ [Next]_vars => TypeOK' /\ CallInv' /\ CheckInv'
    BY NextTypeOK, NextCallInv, NextCheckInv
<1>3. ASSUME TypeOK, CheckInv, [Next]_vars PROVE Worth
    <2>0. /\ Writers \subseteq Threads /\ Readers \subseteq Threads
          /\ \A t \in Threads : ret[t].n \in Nat
        BY <1>3 DEF Threads, TypeOK
    <2>1. ASSUME NEW t \in Writers, Writers = {t}, ret[t].kind = "free", ret[t].n > 1
          PROVE ret'[t].kind # "ignored"
        <3>1. Used + ret[t].n <= MaxElem
            BY <1>3, <2>0, <2>1 DEF CheckInv
        <3>2. ~Full
            BY <1>3, <2>0, <2>1, <3>1, UsedBounds, SizeAssumption
        <3> QED BY <1>3, <2>0, <2>1, <3>2, AnswerByOwnStep
    <2>2. ASSUME NEW t \in Readers, Readers = {t}, ret[t].kind = "avail", ret[t].n = 1
          PROVE ret'[t].kind # "none"
        <3>1. ~Empty
            BY <1>3, <2>0, <2>2, UsedBounds DEF CheckInv
        <3> QED BY <1>3, <2>0, <2>2, <3>1, AnswerByOwnStep
    <2> QED BY <2>1, <2>2
<1> QED BY <1>1, <1>2, <1>3, PTL DEF Spec, CheckThenAct

-----------------------------------------------------------------------------
(* Timers                                                                    *)

TimerType == [slot : Entries, armed : BOOLEAN, pending : 0 .. MaxPending,
              wanted : Functions \cup {NoFunction}]
Cells == Functions \cup {NoFunction}

Live(k) == system[k].armed \/ system[k].pending > 0

(* The entry timernum belongs to the call of start_timer under way.          *)
NumberInv(u) ==
    /\ timernum + (IF at[u] = "idle" THEN 0 ELSE 1) <= starts
    /\ Len(system) + (IF at[u] = "create" THEN 1 ELSE 0) <= starts
    /\ at[u] = "return" => r[u] = timernum

(* What the call under way has made so far.                                  *)
MadeInv(u) ==
    /\ at[u] \in {"create", "settime", "number", "return"} => handler[timernum] \in Cells
    /\ at[u] \in {"settime", "number", "return"} =>
          /\ timerid[timernum] \in DOMAIN system
          /\ system[timerid[timernum]].slot = timernum
          /\ system[timerid[timernum]].wanted = handler[timernum]
    /\ at[u] \in {"number", "return"} => system[timerid[timernum]].armed

(* A timer that expires, or has, has the entry of a call that succeeded.     *)
LiveInv(u) ==
    \A k \in DOMAIN system : Live(k) =>
        /\ handler[system[k].slot] = system[k].wanted
        /\ \/ system[k].slot < timernum
           \/ /\ system[k].slot = timernum /\ timerid[timernum] = k
              /\ at[u] \in {"number", "return"}

(* Each number not stopped yet is that of a timer of its own, armed.         *)
HandleInv ==
    \A h \in handles :
        /\ h < timernum /\ timerid[h] \in DOMAIN system
        /\ system[timerid[h]].slot = h /\ system[timerid[h]].armed

ArmedInv(u) ==
    \A k \in DOMAIN system : system[k].armed =>
        \/ timerid[system[k].slot] = k /\ system[k].slot \in handles
        \/ at[u] \in {"number", "return"} /\ timerid[timernum] = k

TimersInv(u) ==
    /\ TimersTypeOK /\ NumberInv(u) /\ MadeInv(u) /\ LiveInv(u) /\ HandleInv /\ ArmedInv(u)
    /\ CallsItsFunction

-----------------------------------------------------------------------------
LEMMA InitTimersInv == ASSUME NEW u, Users = {u} PROVE InitTimers => TimersInv(u)
<1> SUFFICES ASSUME InitTimers PROVE TimersInv(u)
  OBVIOUS
<1> USE DEF InitTimers, Entries, NoFunction
<1>1. DOMAIN system = {} /\ at[u] = "idle" /\ 0 \in 0 .. MaxStarts /\ system = <<>>
  BY TimersAssumption
<1>2. /\ handler \in [Entries -> Functions \cup {NoFunction}]
      /\ timerid \in [Entries -> 0 .. MaxStarts]
  BY <1>1
<1>3. system \in Seq([slot : Entries, armed : BOOLEAN, pending : 0 .. MaxPending,
                       wanted : Functions \cup {NoFunction}])
  BY <1>1
<1>4. TimersTypeOK
  BY <1>1, <1>2, <1>3 DEF TimersTypeOK
<1>5. NumberInv(u) /\ MadeInv(u)
  BY <1>1 DEF NumberInv, MadeInv
<1>6. LiveInv(u) /\ ArmedInv(u)
  BY <1>1 DEF LiveInv, ArmedInv
<1>7. HandleInv /\ CallsItsFunction
  BY DEF HandleInv, CallsItsFunction
<1> QED
  BY <1>4, <1>5, <1>6, <1>7 DEF TimersInv

LEMMA TimerTypes ==
    TimersTypeOK => system \in Seq(TimerType) /\ \A k \in DOMAIN system : system[k] \in TimerType
<1> SUFFICES ASSUME TimersTypeOK
             PROVE  system \in Seq(TimerType) /\ \A k \in DOMAIN system : system[k] \in TimerType
  OBVIOUS
<1>1. system \in Seq(TimerType)
  BY DEF TimersTypeOK, TimerType
<1> HIDE DEF TimerType
<1> QED
  BY <1>1

(* A change of one system timer leaves the others.                           *)
LEMMA Touched ==
    ASSUME TimersTypeOK, NEW k \in DOMAIN system, NEW t \in TimerType,
           system' = [system EXCEPT ![k] = t]
    PROVE  /\ system' \in Seq(TimerType) /\ DOMAIN system' = DOMAIN system
           /\ Len(system') = Len(system)
           /\ system'[k] = t /\ \A i \in DOMAIN system : i # k => system'[i] = system[i]
  BY DEF TimersTypeOK, TimerType, NoFunction

LEMMA StartStep == ASSUME NEW u, Users = {u}, TimersInv(u), start_timer(u) PROVE TimersInv(u)'
<1> USE DEF TimersInv
<1>1. /\ at[u] = "idle" /\ starts < MaxStarts /\ starts' = starts + 1
      /\ at' = [at EXCEPT ![u] = "create"]
      /\ UNCHANGED <<timerid, timernum, r, system, handles, called>>
  BY DEF start_timer, Goto
<1>2. PICK f \in Functions : handler' = [handler EXCEPT ![timernum] = f]
  BY DEF start_timer
<1>3. at'[u] = "create" /\ timernum \in Entries /\ starts' \in 0 .. MaxStarts
  BY <1>1, TimersAssumption DEF TimersTypeOK, NumberInv, Entries
<1>4. TimersTypeOK'
  BY <1>1, <1>2, <1>3 DEF TimersTypeOK
<1>5. handler'[timernum] = f /\ \A s \in Entries : s # timernum => handler'[s] = handler[s]
  BY <1>2, <1>3 DEF TimersTypeOK
<1>6. NumberInv(u)'
  BY <1>1, <1>3 DEF NumberInv, TimersTypeOK
<1>7. MadeInv(u)'
  BY <1>1, <1>3, <1>5 DEF MadeInv, Cells
<1>8. LiveInv(u)'
  <2>1. \A k \in DOMAIN system : system[k].slot \in Entries
    BY TimerTypes DEF TimerType
  <2>2. \A k \in DOMAIN system : Live(k) => system[k].slot # timernum
    BY <1>1, <2>1 DEF LiveInv, TimersTypeOK, Entries
  <2> QED
    BY <1>1, <1>5, <2>1, <2>2 DEF LiveInv, Live
<1>9. HandleInv'
  BY <1>1 DEF HandleInv
<1>10. ArmedInv(u)'
  BY <1>1 DEF ArmedInv
<1>11. CallsItsFunction'
  BY <1>1 DEF CallsItsFunction
<1> QED
  BY <1>4, <1>6, <1>7, <1>8, <1>9, <1>10, <1>11

LEMMA CreateStep == ASSUME NEW u, Users = {u}, TimersInv(u), Create(u) PROVE TimersInv(u)'
<1> USE DEF TimersInv
<1> DEFINE t == [slot |-> timernum, armed |-> FALSE, pending |-> 0, wanted |-> handler[timernum]]
           n == Len(system) + 1
<1>1. /\ at[u] = "create" /\ system' = Append(system, t)
      /\ timerid' = [timerid EXCEPT ![timernum] = Len(system')]
      /\ at' = [at EXCEPT ![u] = "settime"]
      /\ UNCHANGED <<handler, timernum, r, handles, starts, called>>
  BY DEF Create, Goto
<1>2. at'[u] = "settime" /\ timernum \in Entries /\ n \in 0 .. MaxStarts
  BY <1>1, TimersAssumption DEF TimersTypeOK, NumberInv, Entries
<1>3. t \in TimerType
  BY <1>2, TimersAssumption DEF TimerType, TimersTypeOK
<1>4. /\ system' \in Seq(TimerType) /\ Len(system') = n
      /\ DOMAIN system' = DOMAIN system \cup {n} /\ n \notin DOMAIN system
      /\ system'[n] = t /\ \A k \in DOMAIN system : system'[k] = system[k]
  <2>1. system \in Seq(TimerType)
    BY DEF TimersTypeOK, TimerType
  <2> HIDE DEF t
  <2> QED
    BY <1>1, <1>3, <2>1
<1>5. timerid'[timernum] = n /\ \A s \in Entries : s # timernum => timerid'[s] = timerid[s]
  BY <1>1, <1>2, <1>4 DEF TimersTypeOK
<1>6. timerid' \in [Entries -> 0 .. MaxStarts]
  BY <1>1, <1>2, <1>4 DEF TimersTypeOK
<1>7. TimersTypeOK'
  BY <1>1, <1>4, <1>6 DEF TimersTypeOK, TimerType
<1>8. NumberInv(u)'
  BY <1>1, <1>2, <1>4 DEF NumberInv, TimersTypeOK
<1>9. MadeInv(u)'
  BY <1>1, <1>2, <1>4, <1>5 DEF MadeInv
<1>10. LiveInv(u)'
  BY <1>1, <1>2, <1>4 DEF LiveInv, Live
<1>11. HandleInv'
  <2> SUFFICES ASSUME NEW h \in handles'
               PROVE  /\ h < timernum' /\ timerid'[h] \in DOMAIN system'
                      /\ system'[timerid'[h]].slot = h /\ system'[timerid'[h]].armed
    BY DEF HandleInv
  <2>1. /\ h < timernum /\ timerid[h] \in DOMAIN system /\ h \in Entries
        /\ system[timerid[h]].slot = h /\ system[timerid[h]].armed
    BY <1>1 DEF HandleInv, TimersTypeOK
  <2>2. timerid'[h] = timerid[h]
    BY <1>2, <1>5, <2>1 DEF Entries
  <2> QED
    BY <1>1, <1>4, <2>1, <2>2
<1>12. ArmedInv(u)'
  <2> SUFFICES ASSUME NEW k \in DOMAIN system', system'[k].armed
               PROVE  timerid'[system'[k].slot] = k /\ system'[k].slot \in handles'
    BY DEF ArmedInv
  <2>1. k \in DOMAIN system /\ system'[k] = system[k]
    BY <1>4
  <2>2. timerid[system[k].slot] = k /\ system[k].slot \in handles
    BY <1>1, <2>1 DEF ArmedInv
  <2>3. system[k].slot # timernum /\ system[k].slot \in Entries
    <3>1. system[k].slot < timernum /\ system[k].slot \in Entries
      BY <2>2 DEF HandleInv, TimersTypeOK
    <3> QED
      BY <1>2, <3>1 DEF Entries
  <2> QED
    BY <1>1, <1>5, <2>1, <2>2, <2>3
<1>13. CallsItsFunction'
  BY <1>1, <1>4 DEF CallsItsFunction, TimersTypeOK
<1> QED
  BY <1>7, <1>8, <1>9, <1>10, <1>11, <1>12, <1>13

LEMMA FailStep ==
    ASSUME NEW u, Users = {u}, TimersInv(u), CreateFails(u) \/ SetTimeFails(u) PROVE TimersInv(u)'
<1> USE DEF TimersInv
<1>1. /\ at[u] \in {"create", "settime"} /\ at' = [at EXCEPT ![u] = "idle"]
      /\ UNCHANGED <<handler, timerid, timernum, r, system, handles, starts, called>>
  BY DEF CreateFails, SetTimeFails, Goto, table
<1>2. at'[u] = "idle"
  BY <1>1 DEF TimersTypeOK
<1>3. TimersTypeOK'
  BY <1>1 DEF TimersTypeOK
<1>4. NumberInv(u)' /\ MadeInv(u)'
  BY <1>1, <1>2 DEF NumberInv, MadeInv, TimersTypeOK
<1>5. LiveInv(u)'
  BY <1>1, <1>2 DEF LiveInv, Live
<1>6. HandleInv' /\ ArmedInv(u)' /\ CallsItsFunction'
  BY <1>1, <1>2 DEF HandleInv, ArmedInv, CallsItsFunction
<1> QED
  BY <1>3, <1>4, <1>5, <1>6

LEMMA SetTimeStep == ASSUME NEW u, Users = {u}, TimersInv(u), SetTime(u) PROVE TimersInv(u)'
<1> USE DEF TimersInv
<1> DEFINE n == timerid[timernum]
           t == [system[n] EXCEPT !.armed = TRUE]
<1>1. /\ at[u] = "settime" /\ at' = [at EXCEPT ![u] = "number"]
      /\ system' = [system EXCEPT ![n] = t]
      /\ UNCHANGED <<handler, timerid, timernum, r, handles, starts, called>>
  BY DEF SetTime, Goto, table
<1>2. at'[u] = "number"
  BY <1>1 DEF TimersTypeOK
<1>3. n \in DOMAIN system /\ system[n].slot = timernum /\ system[n].wanted = handler[timernum]
  BY <1>1 DEF MadeInv
<1>4. /\ t \in TimerType /\ t.slot = timernum /\ t.armed /\ t.pending = system[n].pending
      /\ t.wanted = handler[timernum]
  <2>1. system[n] \in TimerType
    BY <1>3, TimerTypes
  <2> QED
    BY <1>3, <2>1 DEF TimerType
<1> HIDE DEF t
<1>5. /\ system' \in Seq(TimerType) /\ DOMAIN system' = DOMAIN system
      /\ Len(system') = Len(system)
      /\ system'[n] = t /\ \A i \in DOMAIN system : i # n => system'[i] = system[i]
  BY <1>1, <1>3, <1>4, Touched
<1>6. TimersTypeOK'
  BY <1>1, <1>5 DEF TimersTypeOK, TimerType
<1>7. NumberInv(u)' /\ MadeInv(u)'
  BY <1>1, <1>2, <1>3, <1>4, <1>5 DEF NumberInv, MadeInv, TimersTypeOK
<1>8. LiveInv(u)'
  BY <1>1, <1>2, <1>3, <1>4, <1>5 DEF LiveInv, Live
<1>9. HandleInv'
  BY <1>1, <1>3, <1>4, <1>5 DEF HandleInv
<1>10. ArmedInv(u)'
  BY <1>1, <1>2, <1>3, <1>4, <1>5 DEF ArmedInv
<1>11. CallsItsFunction'
  BY <1>1, <1>3, <1>4, <1>5 DEF CallsItsFunction, TimersTypeOK
<1> QED
  BY <1>6, <1>7, <1>8, <1>9, <1>10, <1>11

LEMMA NumberStep == ASSUME NEW u, Users = {u}, TimersInv(u), Number(u) PROVE TimersInv(u)'
<1> USE DEF TimersInv
<1>1. /\ at[u] = "number" /\ at' = [at EXCEPT ![u] = "return"]
      /\ r' = [r EXCEPT ![u] = timernum]
      /\ UNCHANGED <<handler, timerid, timernum, system, handles, starts, called>>
  BY DEF Number, Goto, table
<1>2. at'[u] = "return" /\ r'[u] = timernum
  BY <1>1 DEF TimersTypeOK
<1>3. TimersTypeOK'
  BY <1>1 DEF TimersTypeOK
<1>4. NumberInv(u)' /\ MadeInv(u)'
  BY <1>1, <1>2 DEF NumberInv, MadeInv, TimersTypeOK
<1>5. LiveInv(u)'
  BY <1>1, <1>2 DEF LiveInv, Live
<1>6. HandleInv' /\ ArmedInv(u)' /\ CallsItsFunction'
  BY <1>1, <1>2 DEF HandleInv, ArmedInv, CallsItsFunction
<1> QED
  BY <1>3, <1>4, <1>5, <1>6

LEMMA ReturnStep == ASSUME NEW u, Users = {u}, TimersInv(u), Return(u) PROVE TimersInv(u)'
<1> USE DEF TimersInv
<1>1. /\ at[u] = "return" /\ at' = [at EXCEPT ![u] = "idle"] /\ r[u] = timernum
      /\ timernum' = timernum + 1 /\ handles' = handles \cup {timernum}
      /\ UNCHANGED <<handler, timerid, r, system, starts, called>>
  BY DEF Return, ReturnNumber, Goto, NumberInv
<1>2. at'[u] = "idle" /\ timernum \in Entries /\ timernum' \in 0 .. MaxStarts
  BY <1>1, TimersAssumption DEF TimersTypeOK, NumberInv, Entries
<1>3. /\ timerid[timernum] \in DOMAIN system /\ system[timerid[timernum]].slot = timernum
      /\ system[timerid[timernum]].armed
  BY <1>1 DEF MadeInv
<1>4. TimersTypeOK'
  BY <1>1, <1>2 DEF TimersTypeOK
<1>5. NumberInv(u)' /\ MadeInv(u)'
  BY <1>1, <1>2 DEF NumberInv, MadeInv, TimersTypeOK
<1>6. LiveInv(u)'
  <2>1. \A k \in DOMAIN system : system[k].slot \in Entries
    BY TimerTypes DEF TimerType
  <2> QED
    BY <1>1, <1>2, <2>1 DEF LiveInv, Live, Entries
<1>7. HandleInv'
  <2>1. \A h \in handles : h \in Entries
    BY DEF TimersTypeOK
  <2> QED
    BY <1>1, <1>2, <1>3, <2>1 DEF HandleInv, Entries
<1>8. ArmedInv(u)'
  BY <1>1, <1>2, <1>3 DEF ArmedInv
<1>9. CallsItsFunction'
  BY <1>1 DEF CallsItsFunction
<1> QED
  BY <1>4, <1>5, <1>6, <1>7, <1>8, <1>9

LEMMA StopStep ==
    ASSUME NEW u, Users = {u}, TimersInv(u), NEW h \in handles, stop_timer(u, h) PROVE TimersInv(u)'
<1> USE DEF TimersInv
<1> DEFINE n == timerid[h]
           t == [system[n] EXCEPT !.armed = FALSE]
<1>1. /\ at[u] = "idle" /\ handles' = handles \ {h}
      /\ system' = [system EXCEPT ![n] = t]
      /\ UNCHANGED <<handler, timerid, timernum, at, r, starts, called>>
  BY DEF stop_timer, table
<1>2. n \in DOMAIN system /\ system[n].slot = h
  BY DEF HandleInv
<1>3. /\ t \in TimerType /\ t.slot = h /\ ~t.armed /\ t.pending = system[n].pending
      /\ t.wanted = system[n].wanted
  <2>1. system[n] \in TimerType
    BY <1>2, TimerTypes
  <2> QED
    BY <1>2, <2>1 DEF TimerType
<1> HIDE DEF t
<1>4. /\ system' \in Seq(TimerType) /\ DOMAIN system' = DOMAIN system
      /\ Len(system') = Len(system)
      /\ system'[n] = t /\ \A i \in DOMAIN system : i # n => system'[i] = system[i]
  BY <1>1, <1>2, <1>3, Touched
<1>5. TimersTypeOK'
  BY <1>1, <1>4 DEF TimersTypeOK, TimerType
<1>6. NumberInv(u)' /\ MadeInv(u)'
  BY <1>1, <1>4 DEF NumberInv, MadeInv, TimersTypeOK
<1>7. LiveInv(u)'
  BY <1>1, <1>2, <1>3, <1>4 DEF LiveInv, Live
<1>8. HandleInv'
  <2> SUFFICES ASSUME NEW g \in handles'
               PROVE  /\ g < timernum' /\ timerid'[g] \in DOMAIN system'
                      /\ system'[timerid'[g]].slot = g /\ system'[timerid'[g]].armed
    BY DEF HandleInv
  <2>1. g \in handles /\ g # h
    BY <1>1
  <2>2. timerid[g] # n
    BY <1>2, <2>1 DEF HandleInv
  <2> QED
    BY <1>1, <1>4, <2>1, <2>2 DEF HandleInv
<1>9. ArmedInv(u)'
  <2> SUFFICES ASSUME NEW k \in DOMAIN system', system'[k].armed
               PROVE  timerid'[system'[k].slot] = k /\ system'[k].slot \in handles'
    BY DEF ArmedInv
  <2>1. k # n /\ k \in DOMAIN system
    BY <1>3, <1>4
  <2>2. system'[k] = system[k]
    BY <1>4, <2>1
  <2>3. timerid[system[k].slot] = k /\ system[k].slot \in handles
    BY <1>1, <2>1, <2>2 DEF ArmedInv
  <2>4. system[k].slot # h
    BY <2>1, <2>3
  <2> QED
    BY <1>1, <2>2, <2>3, <2>4
<1>10. CallsItsFunction'
  BY <1>1, <1>2, <1>3, <1>4 DEF CallsItsFunction, TimersTypeOK
<1> QED
  BY <1>5, <1>6, <1>7, <1>8, <1>9, <1>10

(* An expiry, and the call of the function it leads to.                      *)
LEMMA ExpireStep ==
    ASSUME NEW u, Users = {u}, TimersInv(u), NEW k \in DOMAIN system, Expire(k) PROVE TimersInv(u)'
<1> USE DEF TimersInv
<1> DEFINE t == [system[k] EXCEPT !.pending = @ + 1]
<1>1. /\ system[k].armed /\ system[k].pending < MaxPending
      /\ system' = [system EXCEPT ![k] = t]
      /\ UNCHANGED <<handler, timerid, timernum, at, r, handles, starts, called>>
  BY DEF Expire, Armed, table
<1>2. /\ t \in TimerType /\ t.slot = system[k].slot /\ t.armed
      /\ t.wanted = system[k].wanted
  <2>1. system[k] \in TimerType
    BY TimerTypes
  <2> QED
    BY <1>1, <2>1, TimersAssumption DEF TimerType
<1> HIDE DEF t
<1>3. /\ system' \in Seq(TimerType) /\ DOMAIN system' = DOMAIN system
      /\ Len(system') = Len(system)
      /\ system'[k] = t /\ \A i \in DOMAIN system : i # k => system'[i] = system[i]
  BY <1>1, <1>2, Touched
<1>4. TimersTypeOK'
  BY <1>1, <1>3 DEF TimersTypeOK, TimerType
<1>5. NumberInv(u)' /\ MadeInv(u)'
  BY <1>1, <1>2, <1>3 DEF NumberInv, MadeInv, TimersTypeOK
<1>6. LiveInv(u)'
  BY <1>1, <1>2, <1>3 DEF LiveInv, Live
<1>7. HandleInv' /\ ArmedInv(u)'
  BY <1>1, <1>2, <1>3 DEF HandleInv, ArmedInv
<1>8. CallsItsFunction'
  BY <1>1, <1>2, <1>3 DEF CallsItsFunction, TimersTypeOK
<1> QED
  BY <1>4, <1>5, <1>6, <1>7, <1>8

LEMMA SighlerStep ==
    ASSUME NEW u, Users = {u}, TimersInv(u), NEW k \in DOMAIN system, sighler(k) PROVE TimersInv(u)'
<1> USE DEF TimersInv
<1> DEFINE t == [system[k] EXCEPT !.pending = @ - 1]
<1>1. /\ system[k].pending > 0 /\ system' = [system EXCEPT ![k] = t]
      /\ called' = called \cup {<<k, handler[system[k].slot]>>}
      /\ UNCHANGED <<handler, timerid, timernum, at, r, handles, starts>>
  BY DEF sighler, table
<1>2. /\ t \in TimerType /\ t.slot = system[k].slot /\ t.armed = system[k].armed
      /\ t.wanted = system[k].wanted
  <2>1. system[k] \in TimerType
    BY TimerTypes
  <2> QED
    BY <1>1, <2>1, TimersAssumption DEF TimerType
<1> HIDE DEF t
<1>3. /\ system' \in Seq(TimerType) /\ DOMAIN system' = DOMAIN system
      /\ Len(system') = Len(system)
      /\ system'[k] = t /\ \A i \in DOMAIN system : i # k => system'[i] = system[i]
  BY <1>1, <1>2, Touched
<1>4. /\ handler[system[k].slot] = system[k].wanted
      /\ system[k].wanted \in Functions \cup {NoFunction}
  BY <1>1, TimerTypes DEF LiveInv, Live, TimerType
<1>5. TimersTypeOK'
  BY <1>1, <1>3, <1>4 DEF TimersTypeOK, TimerType
<1>6. NumberInv(u)' /\ MadeInv(u)'
  BY <1>1, <1>2, <1>3 DEF NumberInv, MadeInv, TimersTypeOK
<1>7. LiveInv(u)'
  <2>1. \A i \in DOMAIN system : Live(i)' => Live(i)
    BY <1>1, <1>2, <1>3 DEF Live
  <2> QED
    BY <1>1, <1>2, <1>3, <2>1 DEF LiveInv
<1>8. HandleInv' /\ ArmedInv(u)'
  BY <1>1, <1>2, <1>3 DEF HandleInv, ArmedInv
<1>9. CallsItsFunction'
  BY <1>1, <1>2, <1>3, <1>4 DEF CallsItsFunction, TimersTypeOK
<1> QED
  BY <1>5, <1>6, <1>7, <1>8, <1>9

LEMMA NextTimersInv ==
    ASSUME NEW u, Users = {u} PROVE TimersInv(u) /\ [NextTimers]_timervars => TimersInv(u)'
<1> SUFFICES ASSUME TimersInv(u), [NextTimers]_timervars PROVE TimersInv(u)'
  OBVIOUS
<1>1. CASE start_timer(u)
  BY <1>1, StartStep
<1>2. CASE Create(u)
  BY <1>2, CreateStep
<1>3. CASE CreateFails(u) \/ SetTimeFails(u)
  BY <1>3, FailStep
<1>4. CASE SetTime(u)
  BY <1>4, SetTimeStep
<1>5. CASE Number(u)
  BY <1>5, NumberStep
<1>6. CASE Return(u)
  BY <1>6, ReturnStep
<1>7. ASSUME NEW h \in handles, stop_timer(u, h) PROVE TimersInv(u)'
  BY <1>7, StopStep
<1>8. ASSUME NEW k \in DOMAIN system, Expire(k) PROVE TimersInv(u)'
  BY <1>8, ExpireStep
<1>9. ASSUME NEW k \in DOMAIN system, sighler(k) PROVE TimersInv(u)'
  BY <1>9, SighlerStep
<1>10. CASE UNCHANGED timervars
  BY <1>10 DEF timervars, table, TimersInv, TimersTypeOK, NumberInv, MadeInv, LiveInv,
              Live, HandleInv,
              ArmedInv, CallsItsFunction
<1> QED
  BY <1>1, <1>2, <1>3, <1>4, <1>5, <1>6, <1>7, <1>8, <1>9, <1>10 DEF NextTimers

-----------------------------------------------------------------------------
(* The table and the system's timers keep their types if one thread starts   *)
(* and stops timers; the index timernum stays in the table.                  *)
THEOREM TimersTypeCorrect == ASSUME NEW u, Users = {u} PROVE SpecTimers => []TimersTypeOK
<1>1. TimersInv(u) => TimersTypeOK
  BY DEF TimersInv
<1> QED
  BY <1>1, InitTimersInv, NextTimersInv, PTL DEF SpecTimers

(* A call is of the function its timer was started with, however many timers *)
(* there are, whichever failed half way, however late the call is.           *)
THEOREM CallsCorrect == ASSUME NEW u, Users = {u} PROVE SpecTimers => []CallsItsFunction
<1>1. TimersInv(u) => CallsItsFunction
  BY DEF TimersInv
<1> QED
  BY <1>1, InitTimersInv, NextTimersInv, PTL DEF SpecTimers

(* The timers that run are those whose number start_timer returned, or is    *)
(* about to return, and nobody has stopped.                                  *)
THEOREM HeldCorrect == ASSUME NEW u, Users = {u} PROVE SpecTimers => []RunsIffHeld
<1>1. TimersInv(u) => RunsIffHeld
  <2> SUFFICES ASSUME TimersInv(u), NEW k \in DOMAIN system
               PROVE  system[k].armed <=>
                         \/ \E h \in handles : timerid[h] = k
                         \/ at[u] \in {"number", "return"} /\ timerid[timernum] = k
    BY DEF RunsIffHeld
  <2>1. ASSUME system[k].armed
        PROVE  \/ \E h \in handles : timerid[h] = k
               \/ at[u] \in {"number", "return"} /\ timerid[timernum] = k
    BY <2>1 DEF TimersInv, ArmedInv
  <2>2. ASSUME NEW h \in handles, timerid[h] = k PROVE system[k].armed
    BY <2>2 DEF TimersInv, HandleInv
  <2>3. ASSUME at[u] \in {"number", "return"}, timerid[timernum] = k PROVE system[k].armed
    BY <2>3 DEF TimersInv, MadeInv
  <2> QED
    BY <2>1, <2>2, <2>3
<1> QED
  BY <1>1, InitTimersInv, NextTimersInv, PTL DEF SpecTimers

-----------------------------------------------------------------------------
(* ConfigFile                                                                *)

(* A set of numbers has a least one.                                         *)
LEMMA Least ==
    ASSUME NEW T, T \subseteq Nat, T # {}
    PROVE  \E x \in T : \A y \in T : x <= y
<1>1. PICK x \in T : \A y \in T : ~(<<y, x>> \in OpToRel(<, Nat))
  BY NatLessThanWellFounded, WFMin
<1>2. \A y \in T : y \in Nat /\ x \in Nat /\ ~(y < x)
  BY <1>1, Zenon DEF OpToRel
<1>3. \A y \in T : x <= y
  BY <1>2
<1> QED
  BY <1>3

(* Induction, for a set of numbers.                                          *)
LEMMA Upwards ==
    ASSUME NEW N \in Nat, NEW T, 0 \in T, \A n \in 1 .. N : n - 1 \in T => n \in T
    PROVE  \A n \in 0 .. N : n \in T
<1> DEFINE U == {n \in 0 .. N : n \notin T}
<1>1. SUFFICES ASSUME U # {} PROVE FALSE
  OBVIOUS
<1>2. U \subseteq Nat
  OBVIOUS
<1>3. PICK n \in U : \A m \in U : n <= m
  <2> HIDE DEF U
  <2> QED
    BY <1>1, <1>2, Least
<1>4. n \in 1 .. N
  BY <1>3
<1>5. n - 1 \in 0 .. N /\ ~(n <= n - 1)
  BY <1>4
<1>6. n - 1 \in T
  BY <1>3, <1>5
<1> QED
  BY <1>3, <1>4, <1>6

(* Characters of a line.                                                     *)
LEMMA CharacterKinds ==
    /\ \A c \in Config!Text : c \notin Config!Blank /\ c \notin Config!Signs /\ c # "#" /\ c # "NULL"
    /\ \A c \in Config!Signs : c \notin Config!Blank /\ c # "NULL"
    /\ " " \in Config!Blank /\ Config!NL \in Config!Blank /\ " " # Config!NL /\ "#" \in Config!Signs
    /\ Config!Text \subseteq Config!Character /\ Config!Blank \subseteq Config!Character
    /\ Config!Signs \subseteq Config!Character
    /\ \A c \in Config!Blank : c # "#" /\ c # "NULL"
BY DEF Config!Text, Config!Blank, Config!Signs, Config!NL, Config!Character

(* The first place of a sequence with a property: the k after it have not.   *)
LEMMA FirstPlace ==
    ASSUME NEW good, NEW n \in Nat, n \in good, \A m \in 1 .. n - 1 : m \notin good, n # 0,
           NEW N \in Nat, n <= N
    PROVE  (CHOOSE x \in 1 .. N : x \in good /\ \A y \in 1 .. x - 1 : y \notin good) = n
<1> DEFINE P(x) == x \in good /\ \A y \in 1 .. x - 1 : y \notin good
           first == CHOOSE x \in 1 .. N : P(x)
<1>1. n \in 1 .. N /\ P(n)
  OBVIOUS
<1> HIDE DEF P
<1>2. first \in 1 .. N /\ P(first)
  BY <1>1
<1> HIDE DEF first
<1>3. first \in Nat /\ first # 0 /\ first \in good /\ \A y \in 1 .. first - 1 : y \notin good
  BY <1>2 DEF P
<1>4. ~(first < n)
  <2>1. first < n => first \in 1 .. n - 1
    BY <1>3
  <2> QED
    BY <1>3, <2>1
<1>5. ~(n < first)
  <2>1. n < first => n \in 1 .. first - 1
    BY <1>3
  <2> QED
    BY <1>3, <2>1
<1>6. first = n
  BY <1>3, <1>4, <1>5
<1> QED
  BY <1>6 DEF first, P

LEMMA UptoFirst ==
    ASSUME NEW S, NEW s \in Seq(S), NEW N \in Nat, N = Len(s), NEW set, NEW k \in Nat, k <= N,
           \A n \in 1 .. k : s[n] \notin set, k = N \/ s[k + 1] \in set
    PROVE  Config!Upto(s, set) = SubSeq(s, 1, k)
<1>1. DOMAIN s = 1 .. N
  OBVIOUS
<1>2. CASE k = N
  <2>1. ~(\E n \in DOMAIN s : s[n] \in set)
    BY <1>1, <1>2
  <2>2. Config!Upto(s, set) = s
    BY <2>1, Zenon DEF Config!Upto
  <2>3. SubSeq(s, 1, Len(s)) = s
    BY SubSeqFull
  <2> QED
    BY <1>2, <2>2, <2>3
<1>3. CASE k # N
  <2> DEFINE good == {n \in DOMAIN s : s[n] \in set}
             first == CHOOSE n \in 1 .. N : n \in good /\ \A m \in 1 .. n - 1 : m \notin good
  <2>1. k + 1 \in DOMAIN s /\ s[k + 1] \in set /\ k + 1 \in Nat /\ k + 1 <= N /\ k + 1 # 0
    BY <1>1, <1>3
  <2>2. \A m \in 1 .. (k + 1) - 1 : m \notin good
    OBVIOUS
  <2>3. k + 1 \in good
    BY <2>1
  <2>4. first = k + 1
    <3> HIDE DEF good
    <3> QED
      BY <2>1, <2>2, <2>3, FirstPlace
  <2>5. first = CHOOSE n \in DOMAIN s : s[n] \in set /\ \A m \in 1 .. n - 1 : s[m] \notin set
    <3>1. \A n \in 1 .. N : (\A m \in 1 .. n - 1 : m \in DOMAIN s) /\ n \in DOMAIN s
      BY <1>1
    <3>2. \A n \in 1 .. N :
             (n \in good /\ \A m \in 1 .. n - 1 : m \notin good)
             <=> (s[n] \in set /\ \A m \in 1 .. n - 1 : s[m] \notin set)
      BY <3>1, Zenon
    <3> HIDE DEF good
    <3> QED
      BY <1>1, <3>2
  <2> HIDE DEF first
  <2>6. Config!Upto(s, set) = SubSeq(s, 1, first - 1)
    BY <2>1, <2>5, Zenon DEF Config!Upto
  <2>7. first - 1 = k
    BY <2>4
  <2> QED
    BY <2>6, <2>7
<1> QED
  BY <1>2, <1>3

(* A part of a sequence, element by element.                                 *)
LEMMA PartOf ==
    ASSUME NEW S, NEW s \in Seq(S), NEW N \in Nat, N = Len(s),
           NEW m \in Nat, NEW n \in Nat, m # 0, m <= n + 1, n <= N
    PROVE  /\ SubSeq(s, m, n) \in Seq(S) /\ Len(SubSeq(s, m, n)) = (n + 1) - m
           /\ \A i \in 1 .. (n + 1) - m : SubSeq(s, m, n)[i] = s[m + i - 1]
<1>2. \A i \in m .. n : i \in 1 .. N
  OBVIOUS
<1>3. \A i \in m .. n : s[i] \in S
  BY <1>2
<1>4. /\ SubSeq(s, m, n) \in Seq(S)
      /\ Len(SubSeq(s, m, n)) = IF m <= n THEN n - m + 1 ELSE 0
      /\ \A i \in 1 .. n - m + 1 : SubSeq(s, m, n)[i] = s[m + i - 1]
  BY <1>3, SubSeqProperties
<1>5. n - m + 1 = (n + 1) - m /\ (~(m <= n) => (n + 1) - m = 0)
  OBVIOUS
<1> QED
  BY <1>4, <1>5

(* A line written for an element: name, blanks, value and what is behind it. *)
Parts(w, name, A, blanks, value, V, tail, E) ==
    /\ w \in Seq(Config!Character)
    /\ Len(w) = A + blanks + V + E
    /\ \A i \in 1 .. A : w[i] = name[i]
    /\ \A i \in 1 .. blanks : w[A + i] \in Config!Blank \ {Config!NL}
    /\ \A i \in 1 .. V : w[A + blanks + i] = value[i]
    /\ \A i \in 1 .. E : w[A + blanks + V + i] = tail[i]

(* x is s, of length m, and t, of length n, behind it.                        *)
Joined(x, S, s, m, t, n) ==
    /\ x \in Seq(S) /\ Len(x) = m + n
    /\ \A i \in 1 .. m : x[i] = s[i]
    /\ \A i \in 1 .. n : x[m + i] = t[i]

LEMMA Behind ==
    ASSUME NEW S, NEW s \in Seq(S), NEW t \in Seq(S), NEW m \in Nat, m = Len(s), NEW n \in Nat, n = Len(t)
    PROVE  Joined(s \o t, S, s, m, t, n)
<1>1. /\ s \o t \in Seq(S) /\ Len(s \o t) = m + n
      /\ \A i \in 1 .. m + n : (s \o t)[i] = IF i <= m THEN s[i] ELSE t[i - m]
  BY ConcatProperties
<1>2. \A i \in 1 .. m : i \in 1 .. m + n /\ i <= m
  OBVIOUS
<1>3. \A i \in 1 .. n : m + i \in 1 .. m + n /\ ~(m + i <= m) /\ (m + i) - m = i
  OBVIOUS
<1> QED
  BY <1>1, <1>2, <1>3 DEF Joined

LEMMA WrittenParts ==
    ASSUME NEW name \in Seq(Config!Character), NEW value \in Seq(Config!Character),
           NEW tail \in Seq(Config!Character), NEW blanks \in Nat,
           NEW A \in Nat, A = Len(name), NEW V \in Nat, V = Len(value), NEW E \in Nat, E = Len(tail)
    PROVE  Parts(((name \o [i \in 1 .. blanks |-> " "]) \o value) \o tail,
                 name, A, blanks, value, V, tail, E)
<1> DEFINE C == Config!Character
           B == Config!Blank \ {Config!NL}
           space == [i \in 1 .. blanks |-> " "]
           u == name \o space
           v == u \o value
           w == v \o tail
<1>3. space \in Seq(C) /\ Len(space) = blanks /\ \A i \in 1 .. blanks : space[i] \in B
  <2>1. " " \in C /\ " " \in B
    BY CharacterKinds
  <2> HIDE DEF C, B
  <2>2. \A i \in 1 .. blanks : space[i] \in B
    BY <2>1
  <2>3. space \in Seq(C) /\ Len(space) = blanks
    <3>1. space \in [1 .. blanks -> C] /\ DOMAIN space = 1 .. blanks
      BY <2>1
    <3> HIDE DEF space
    <3>2. space \in Seq(C)
      BY <3>1, SeqDef, Zenon
    <3> QED
      BY <3>1, <3>2, LenProperties
  <2> QED
    BY <2>2, <2>3
<1>4. name \in Seq(C) /\ value \in Seq(C) /\ tail \in Seq(C)
  OBVIOUS
<1> HIDE DEF C, B, space
<1>5. u \in Seq(C) /\ Len(u) = A + blanks /\ (\A i \in 1 .. A : u[i] = name[i])
      /\ \A i \in 1 .. blanks : u[A + i] \in B
  <2>1. /\ u \in Seq(C) /\ Len(u) = A + blanks /\ \A i \in 1 .. A : u[i] = name[i]
        /\ \A i \in 1 .. blanks : u[A + i] = space[i]
    <3>1. blanks = Len(space) /\ space \in Seq(C)
      BY <1>3
    <3>2. Joined(u, C, name, A, space, blanks)
      BY <1>4, <3>1, Behind, Zenon
    <3> QED
      BY <3>2, Zenon DEF Joined
  <2> QED
    BY <1>3, <2>1
<1> HIDE DEF u
<1>6. v \in Seq(C) /\ Len(v) = A + blanks + V /\ (\A i \in 1 .. A : v[i] = name[i])
      /\ (\A i \in 1 .. blanks : v[A + i] \in B) /\ \A i \in 1 .. V : v[A + blanks + i] = value[i]
  <2> DEFINE m == A + blanks
  <2>1. m \in Nat /\ m = Len(u)
    BY <1>5
  <2> HIDE DEF m
  <2>2. /\ v \in Seq(C) /\ Len(v) = m + V /\ \A i \in 1 .. m : v[i] = u[i]
        /\ \A i \in 1 .. V : v[m + i] = value[i]
    <3>1. Joined(v, C, u, m, value, V)
      BY <1>4, <1>5, <2>1, Behind, Zenon
    <3> QED
      BY <3>1, Zenon DEF Joined
  <2>3. (\A i \in 1 .. A : i \in 1 .. m) /\ (\A i \in 1 .. blanks : A + i \in 1 .. m)
    BY DEF m
  <2> HIDE DEF v
  <2> QED
    BY <1>5, <2>2, <2>3 DEF m
<1> HIDE DEF v
<1>7. w \in Seq(C) /\ Len(w) = A + blanks + V + E /\ (\A i \in 1 .. A : w[i] = name[i])
      /\ (\A i \in 1 .. blanks : w[A + i] \in B) /\ (\A i \in 1 .. V : w[A + blanks + i] = value[i])
      /\ \A i \in 1 .. E : w[A + blanks + V + i] = tail[i]
  <2> DEFINE m == A + blanks + V
  <2>1. m \in Nat /\ m = Len(v)
    BY <1>6
  <2> HIDE DEF m
  <2>2. /\ w \in Seq(C) /\ Len(w) = m + E /\ \A i \in 1 .. m : w[i] = v[i]
        /\ \A i \in 1 .. E : w[m + i] = tail[i]
    <3>1. Joined(w, C, v, m, tail, E)
      BY <1>4, <1>6, <2>1, Behind, Zenon
    <3> QED
      BY <3>1, Zenon DEF Joined
  <2>3. /\ \A i \in 1 .. A : i \in 1 .. m
        /\ \A i \in 1 .. blanks : A + i \in 1 .. m
        /\ \A i \in 1 .. V : A + blanks + i \in 1 .. m
    BY DEF m
  <2> HIDE DEF w
  <2> QED
    BY <1>6, <2>2, <2>3 DEF m
<1> HIDE DEF w
<1>8. Parts(w, name, A, blanks, value, V, tail, E)
  BY <1>7, Zenon DEF Parts, C, B
<1> QED
  BY <1>8, Zenon DEF w, v, u, space

(* x is the n elements of w behind the first off.                            *)
Piece(x, w, off, n) ==
    /\ x \in Seq(Config!Character) /\ Len(x) = n
    /\ \A i \in 1 .. n : x[i] = w[off + i]

LEMMA PieceOf ==
    ASSUME NEW w, NEW off \in Nat, NEW N \in Nat, NEW x, Piece(x, w, off, N),
           NEW k \in Nat, NEW n \in Nat, k + n <= N
    PROVE  Piece(SubSeq(x, k + 1, k + n), w, off + k, n)
<1> DEFINE m == k + 1
           e == k + n
           y == SubSeq(x, m, e)
<1>1. x \in Seq(Config!Character) /\ N = Len(x)
  BY Zenon DEF Piece
<1>2. m \in Nat /\ e \in Nat /\ m # 0 /\ m <= e + 1 /\ e <= N
  OBVIOUS
<1>3. /\ y \in Seq(Config!Character) /\ Len(y) = (e + 1) - m
      /\ \A i \in 1 .. (e + 1) - m : y[i] = x[m + i - 1]
  <2> HIDE DEF m, e
  <2> QED
    BY <1>1, <1>2, PartOf
<1>4. (e + 1) - m = n
  OBVIOUS
<1>5. ASSUME NEW i \in 1 .. n PROVE y[i] = w[(off + k) + i]
  <2>1. y[i] = x[m + i - 1]
    BY <1>3, <1>4
  <2>2. m + i - 1 = k + i /\ k + i \in 1 .. N /\ off + (k + i) = (off + k) + i
    OBVIOUS
  <2>3. x[k + i] = w[off + (k + i)]
    BY <2>2 DEF Piece
  <2> QED
    BY <2>1, <2>2, <2>3
<1> HIDE DEF y
<1>6. y \in Seq(Config!Character) /\ Len(y) = n
  BY <1>3, <1>4
<1>7. Piece(y, w, off + k, n)
  BY <1>5, <1>6 DEF Piece
<1> QED
  BY <1>7, Zenon DEF y, m, e

LEMMA WholePiece ==
    ASSUME NEW w \in Seq(Config!Character), NEW N \in Nat, N = Len(w)
    PROVE  Piece(w, w, 0, N)
<1>1. \A i \in 1 .. N : w[i] = w[0 + i]
  OBVIOUS
<1> QED
  BY <1>1, Zenon DEF Piece

(* A piece of w is known by its place.                                       *)
LEMMA SamePiece ==
    ASSUME NEW w, NEW off, NEW n, NEW x, Piece(x, w, off, n), NEW y, Piece(y, w, off, n)
    PROVE  x = y
<1>1. /\ x \in Seq(Config!Character) /\ y \in Seq(Config!Character) /\ Len(x) = Len(y)
      /\ \A i \in 1 .. Len(x) : x[i] = y[i]
  BY DEF Piece
<1> QED
  BY <1>1, SeqEqual, Zenon

(* A sequence of characters is not NULL.                                     *)
LEMMA NotNull ==
    ASSUME NEW s, NEW c \in Config!Character, s[1] = c
    PROVE  s # Config!None
<1>1. c # "NULL"
  BY CharacterKinds DEF Config!Character
<1>2. Config!None[1] = "NULL"
  BY DEF Config!None
<1> QED
  BY <1>1, <1>2

(* What is written for an element, before the end of line: the first K       *)
(* characters of w.                                                          *)
Entry(w, name, A, blanks, value, V, K) ==
    /\ Piece(w, w, 0, K)
    /\ A # 0 /\ blanks # 0 /\ V # 0 /\ A + blanks + V <= K
    /\ \A i \in 1 .. A : w[i] = name[i] /\ name[i] \in Config!Text
    /\ \A i \in 1 .. blanks : w[A + i] \in Config!Blank
    /\ \A i \in 1 .. V : /\ w[A + blanks + i] = value[i]
                         /\ value[i] \in Config!Text \cup Config!Signs
    /\ A + blanks + V = K \/ w[A + blanks + V + 1] \in Config!Blank

LEMMA NameFound ==
    ASSUME NEW w, NEW A \in Nat, NEW blanks \in Nat, NEW V \in Nat, NEW K \in Nat,
           NEW name \in Seq(Config!Character), Len(name) = A, NEW value,
           Entry(w, name, A, blanks, value, V, K)
    PROVE  Config!Name(w) = name
<1> DEFINE C == Config!Character
           stop == Config!Blank \cup Config!Signs
<1>1. w \in Seq(C) /\ K = Len(w)
  BY Zenon DEF Entry, Piece
<1>2. A + 1 \in 1 .. K /\ A <= K /\ w[A + 1] \in Config!Blank
  <2>1. blanks # 0 /\ A + blanks + V <= K /\ \A i \in 1 .. blanks : w[A + i] \in Config!Blank
    BY Zenon DEF Entry
  <2> QED
    BY <2>1
<1>3. w[A + 1] \notin Config!Text /\ w[A + 1] \in stop
  BY <1>2, CharacterKinds, Zenon
<1>4. \A i \in 1 .. A : w[i] \notin stop
  <2>1. \A i \in 1 .. A : w[i] \in Config!Text
    BY Zenon DEF Entry
  <2> QED
    BY <2>1, CharacterKinds, Zenon
<1> HIDE DEF stop
<1>5. Config!Upto(w, stop) = SubSeq(w, 1, A)
  <2> HIDE DEF C
  <2> QED
    BY <1>1, <1>2, <1>3, <1>4, UptoFirst
<1>6. DOMAIN w = 1 .. K
  BY <1>1
<1>7. Config!Name(w) = Config!Upto(w, stop)
  BY <1>2, <1>3, <1>6, Zenon DEF Config!Name, stop
<1>8. SubSeq(w, 1, A) = name
  <2>1. Piece(SubSeq(w, 0 + 1, 0 + A), w, 0 + 0, A)
    <3>1. 0 \in Nat /\ 0 + A <= K /\ Piece(w, w, 0, K)
      BY <1>2 DEF Entry
    <3> QED
      BY <3>1, PieceOf, Zenon
  <2>2. Piece(name, w, 0, A)
    <3>1. \A i \in 1 .. A : name[i] = w[0 + i]
      BY DEF Entry
    <3> QED
      BY <3>1, Zenon DEF Piece
  <2>3. Piece(SubSeq(w, 1, A), w, 0, A)
    BY <2>1
  <2> QED
    BY <2>2, <2>3, SamePiece, Zenon
<1> QED
  BY <1>5, <1>7, <1>8

LEMMA ValueFound ==
    ASSUME NEW w, NEW A \in Nat, NEW blanks \in Nat, NEW V \in Nat, NEW K \in Nat,
           NEW name, NEW value \in Seq(Config!Character), Len(value) = V,
           Entry(w, name, A, blanks, value, V, K)
    PROVE  /\ Config!From(w, A + 2) # << >>
           /\ Config!Value(Config!From(w, A + 2)) = value
<1> DEFINE C == Config!Character
           R == K - (A + 1)
           rest == Config!From(w, A + 2)
           text == Config!From(rest, blanks)
           T == K - (A + blanks)
<1>0. /\ Piece(w, w, 0, K) /\ blanks # 0 /\ V # 0 /\ A + blanks + V <= K
      /\ \A i \in 1 .. blanks : w[A + i] \in Config!Blank
      /\ \A i \in 1 .. V : w[A + blanks + i] = value[i] /\ value[i] \in Config!Text \cup Config!Signs
      /\ A + blanks + V = K \/ w[A + blanks + V + 1] \in Config!Blank
  BY Zenon DEF Entry
<1>1. w \in Seq(C) /\ K = Len(w)
  BY <1>0, Zenon DEF Piece
<1>2. R \in Nat /\ T \in Nat /\ R # 0 /\ blanks <= R /\ V <= T /\ (V = T <=> A + blanks + V = K)
  BY <1>0
<1>3. Piece(rest, w, A + 1, R)
  <2> DEFINE k == A + 1
  <2>1. k \in Nat /\ k + R <= K /\ 0 \in Nat
    BY <1>2
  <2>2. Piece(SubSeq(w, k + 1, k + R), w, 0 + k, R)
    <3> HIDE DEF k, R
    <3> QED
      BY <1>0, <1>2, <2>1, PieceOf, Zenon
  <2>3. k + 1 = A + 2 /\ k + R = Len(w) /\ 0 + k = A + 1
    BY <1>1
  <2>4. rest = SubSeq(w, A + 2, Len(w))
    BY Zenon DEF Config!From
  <2> HIDE DEF rest, R, k
  <2> QED
    BY <2>2, <2>3, <2>4
<1> HIDE DEF rest
<1>4. rest \in Seq(C) /\ R = Len(rest) /\ DOMAIN rest = 1 .. R
  <2>1. rest \in Seq(C) /\ R = Len(rest)
    BY <1>3, Zenon DEF Piece
  <2> QED
    BY <2>1, LenProperties
<1>5. rest # << >>
  BY <1>2, <1>4
<1>6. \A i \in 1 .. R : rest[i] = w[A + 1 + i]
  BY <1>3, Zenon DEF Piece
<1>7. \A i \in 1 .. blanks - 1 : i \in 1 .. R /\ rest[i] \in Config!Blank
  <2>1. \A i \in 1 .. blanks - 1 : i \in 1 .. R /\ 1 + i \in 1 .. blanks /\ A + 1 + i = A + (1 + i)
    BY <1>2
  <2>2. \A i \in 1 .. blanks - 1 : w[A + 1 + i] \in Config!Blank
    BY <1>0, <2>1
  <2> HIDE DEF R
  <2> QED
    BY <1>6, <2>1, <2>2
<1>8. blanks \in 1 .. R /\ rest[blanks] = value[1] /\ value[1] \in Config!Text \cup Config!Signs
  <2>1. blanks \in 1 .. R /\ 1 \in 1 .. V /\ A + 1 + blanks = A + blanks + 1
    BY <1>0, <1>2
  <2>2. rest[blanks] = w[A + blanks + 1]
    BY <1>6, <2>1
  <2> QED
    BY <1>0, <2>1, <2>2
<1>9. \A i \in 1 .. V : value[i] \notin Config!Blank
  BY <1>0, CharacterKinds, Zenon
<1>10. rest[blanks] \notin Config!Blank
  BY <1>8, CharacterKinds, Zenon
<1>11. (CHOOSE i \in DOMAIN rest : rest[i] \notin Config!Blank /\ \A j \in 1 .. i - 1 : rest[j] \in Config!Blank)
          = blanks
  <2> DEFINE good == {i \in 1 .. R : rest[i] \notin Config!Blank}
  <2>1. blanks \in good /\ (\A m \in 1 .. blanks - 1 : m \notin good) /\ blanks # 0 /\ blanks <= R
    BY <1>2, <1>7, <1>8, <1>10
  <2>2. (CHOOSE x \in 1 .. R : x \in good /\ \A y \in 1 .. x - 1 : y \notin good) = blanks
    <3> HIDE DEF good, R
    <3> QED
      BY <1>2, <2>1, FirstPlace
  <2>3. \A i \in 1 .. R : \A j \in 1 .. i - 1 : j \in 1 .. R
    BY <1>2
  <2>4. \A i \in 1 .. R : (i \in good /\ \A j \in 1 .. i - 1 : j \notin good)
            <=> (rest[i] \notin Config!Blank /\ \A j \in 1 .. i - 1 : rest[j] \in Config!Blank)
    <3> HIDE DEF R
    <3> QED
      BY <2>3, Zenon
  <2> HIDE DEF good, R
  <2> QED
    BY <1>4, <2>2, <2>4
<1>12. Config!Value(rest) = Config!Upto(text, Config!Blank)
  <2>1. \E i \in DOMAIN rest : rest[i] \notin Config!Blank
    BY <1>4, <1>8, <1>10
  <2> QED
    BY <1>11, <2>1 DEF Config!Value
<1>13. Piece(text, w, A + blanks, T)
  <2> DEFINE k == blanks - 1
  <2>1. k \in Nat /\ k + T <= R /\ A + 1 \in Nat
    BY <1>0, <1>2
  <2>2. Piece(SubSeq(rest, k + 1, k + T), w, (A + 1) + k, T)
    <3> HIDE DEF k, R, T
    <3> QED
      BY <1>2, <1>3, <2>1, PieceOf, Zenon
  <2>3. k + 1 = blanks /\ k + T = Len(rest) /\ (A + 1) + k = A + blanks
    BY <1>4
  <2>4. text = SubSeq(rest, blanks, Len(rest))
    BY Zenon DEF Config!From
  <2> HIDE DEF text, T, k
  <2> QED
    BY <2>2, <2>3, <2>4
<1> HIDE DEF text
<1>14. text \in Seq(C) /\ T = Len(text) /\ \A i \in 1 .. T : text[i] = w[A + blanks + i]
  BY <1>13, Zenon DEF Piece
<1>15. \A i \in 1 .. V : text[i] \notin Config!Blank
  <2>1. \A i \in 1 .. V : i \in 1 .. T
    BY <1>2
  <2>2. \A i \in 1 .. V : text[i] = value[i]
    BY <1>0, <1>14, <2>1, Zenon
  <2> QED
    BY <1>9, <2>2, Zenon
<1>16. V = T \/ text[V + 1] \in Config!Blank
  <2>1. CASE V = T
    BY <2>1
  <2>2. CASE V # T
    <3>1. V + 1 \in 1 .. T /\ w[A + blanks + V + 1] \in Config!Blank
      BY <1>0, <1>2, <2>2
    <3>2. text[V + 1] = w[A + blanks + (V + 1)]
      BY <1>14, <3>1, Zenon
    <3>3. A + blanks + (V + 1) = A + blanks + V + 1
      OBVIOUS
    <3> QED
      BY <3>1, <3>2, <3>3
  <2> QED
    BY <2>1, <2>2
<1>17. Config!Upto(text, Config!Blank) = SubSeq(text, 1, V)
  <2> HIDE DEF C, T
  <2> QED
    BY <1>2, <1>14, <1>15, <1>16, UptoFirst
<1>18. SubSeq(text, 1, V) = value
  <2>1. Piece(SubSeq(text, 0 + 1, 0 + V), w, (A + blanks) + 0, V)
    <3>1. 0 \in Nat /\ 0 + V <= T /\ A + blanks \in Nat
      BY <1>2
    <3> HIDE DEF T
    <3> QED
      BY <1>2, <1>13, <3>1, PieceOf, Zenon
  <2> DEFINE off == A + blanks
             found == SubSeq(text, 1, V)
  <2>2. Piece(found, w, off, V)
    BY <2>1
  <2>3. Piece(value, w, off, V)
    BY <1>0, Zenon DEF Piece
  <2> HIDE DEF off, found
  <2>4. found = value
    BY <2>2, <2>3, SamePiece, Zenon
  <2> QED
    BY <2>4 DEF found
<1> QED
  BY <1>5, <1>12, <1>17, <1>18 DEF rest

(* k places are not good, and the next is, or there is none.                 *)
Before(k, N, good) == k <= N /\ (\A n \in 1 .. k : n \notin good) /\ (k = N \/ k + 1 \in good)

LEMMA UptoSome ==
    ASSUME NEW N \in Nat, NEW good
    PROVE  \E k \in Nat : Before(k, N, good)
<1> DEFINE U == {n \in 1 .. N : n \in good}
<1>1. CASE U = {}
  <2>1. N <= N /\ (\A n \in 1 .. N : n \notin good) /\ (N = N \/ N + 1 \in good)
    BY <1>1
  <2> QED
    BY <2>1 DEF Before
<1>2. CASE U # {}
  <2>1. U \subseteq Nat
    OBVIOUS
  <2>2. PICK x \in U : \A y \in U : x <= y
    <3> HIDE DEF U
    <3> QED
      BY <1>2, <2>1, Least
  <2>3. x \in 1 .. N /\ x \in good
    BY <2>2
  <2>4. x - 1 \in Nat /\ x - 1 <= N /\ (x - 1) + 1 = x
    BY <2>3
  <2>5. \A n \in 1 .. x - 1 : n \in 1 .. N /\ ~(x <= n)
    BY <2>3
  <2>6. \A n \in 1 .. x - 1 : n \notin good
    BY <2>2, <2>5
  <2> HIDE DEF U
  <2> QED
    BY <2>3, <2>4, <2>6 DEF Before
<1> QED
  BY <1>1, <1>2

LEMMA Cleaned ==
    ASSUME NEW w, NEW name, NEW A \in Nat, NEW blanks \in Nat, NEW value, NEW V \in Nat,
           NEW tail, NEW E \in Nat, Parts(w, name, A, blanks, value, V, tail, E),
           A # 0, blanks # 0, V # 0, \A i \in 1 .. A : name[i] \in Config!Text,
           \A i \in 1 .. V : value[i] \in Config!Text \cup Config!Signs,
           E # 0 => tail[1] \in Config!Blank
    PROVE  \E K \in Nat : Entry(Config!cleanStr(w), name, A, blanks, value, V, K)
<1> DEFINE C == Config!Character
           N == A + blanks + V + E
           M == A + blanks + V
           good == {n \in 1 .. N : w[n] \in {Config!NL}}
<1>1. /\ w \in Seq(C) /\ Len(w) = N
      /\ \A i \in 1 .. A : w[i] = name[i]
      /\ \A i \in 1 .. blanks : w[A + i] \in Config!Blank \ {Config!NL}
      /\ \A i \in 1 .. V : w[A + blanks + i] = value[i]
      /\ \A i \in 1 .. E : w[A + blanks + V + i] = tail[i]
  BY Zenon DEF Parts
<1>2. N \in Nat /\ M \in Nat /\ M <= N /\ 1 \in 1 .. A /\ 1 \in 1 .. N /\ (M # N => 1 \in 1 .. E)
  OBVIOUS
<1>3. \A n \in 1 .. M : w[n] # Config!NL
  <2> SUFFICES ASSUME NEW n \in 1 .. M PROVE w[n] # Config!NL
    OBVIOUS
  <2>1. CASE n <= A
    <3>1. n \in 1 .. A
      BY <2>1
    <3>2. w[n] \in Config!Text
      BY <1>1, <3>1
    <3> QED
      BY <3>2, CharacterKinds, Zenon
  <2>2. CASE ~(n <= A) /\ n <= A + blanks
    <3>1. n - A \in 1 .. blanks /\ A + (n - A) = n
      BY <2>2
    <3>2. w[A + (n - A)] \in Config!Blank \ {Config!NL}
      BY <1>1, <3>1
    <3> QED
      BY <3>1, <3>2
  <2>3. CASE ~(n <= A + blanks)
    <3>1. n - (A + blanks) \in 1 .. V /\ A + blanks + (n - (A + blanks)) = n
      BY <2>3
    <3> DEFINE m == n - (A + blanks)
    <3>2. w[A + blanks + m] = value[m] /\ value[m] \in Config!Text \cup Config!Signs
      <4> HIDE DEF m
      <4> QED
        BY <1>1, <3>1 DEF m
    <3>3. w[n] \in Config!Text \cup Config!Signs
      BY <3>1, <3>2
    <3> QED
      BY <3>3, CharacterKinds, Zenon
  <2> QED
    BY <2>1, <2>2, <2>3
<1> HIDE DEF C
<1> PICK K \in Nat : Before(K, N, good)
  <2> HIDE DEF good, N
  <2> QED
    BY <1>2, UptoSome, Zenon
<1>4. K <= N /\ (\A n \in 1 .. K : n \notin good) /\ (K = N \/ K + 1 \in good)
  BY Zenon DEF Before
<1>5. M <= K
  <2>1. CASE K = N
    BY <1>2, <2>1
  <2>2. CASE K + 1 \in good
    <3>1. K + 1 \notin 1 .. M
      BY <1>3, <2>2
    <3> QED
      BY <1>2, <3>1
  <2> QED
    BY <1>4, <2>1, <2>2
<1>6. (\A n \in 1 .. K : w[n] \notin {Config!NL}) /\ (K = N \/ w[K + 1] \in {Config!NL})
  <2>1. \A n \in 1 .. K : n \in 1 .. N
    BY <1>2, <1>4
  <2>2. \A n \in 1 .. K : w[n] \notin {Config!NL}
    <3> HIDE DEF N
    <3> QED
      BY <1>4, <2>1
  <2>3. K = N \/ w[K + 1] \in {Config!NL}
    <3> HIDE DEF N
    <3> QED
      BY <1>4
  <2> QED
    BY <2>2, <2>3
<1>7. Config!Upto(w, {Config!NL}) = SubSeq(w, 1, K)
  <2>1. w \in Seq(C) /\ N = Len(w)
    BY <1>1
  <2>2. K <= N
    BY <1>4
  <2> HIDE DEF N, good
  <2> QED
    BY <1>2, <1>6, <2>1, <2>2, UptoFirst
<1>8. Config!cleanStr(w) = SubSeq(w, 1, K)
  <2>1. w[1] \in Config!Text
    BY <1>1, <1>2
  <2>2. w[1] \notin Config!Blank
    BY <2>1, CharacterKinds, Zenon
  <2> QED
    BY <1>7, <2>2 DEF Config!cleanStr
<1> DEFINE c == SubSeq(w, 1, K)
<1>9. Piece(c, w, 0, K)
  <2>1. Piece(w, w, 0, N)
    <3> HIDE DEF N
    <3> QED
      BY <1>1, <1>2, WholePiece DEF C
  <2>2. 0 \in Nat /\ 0 + K <= N
    BY <1>4
  <2>3. Piece(SubSeq(w, 0 + 1, 0 + K), w, 0 + 0, K)
    <3> HIDE DEF N
    <3> QED
      BY <1>2, <2>1, <2>2, PieceOf, Zenon
  <2> QED
    BY <2>3
<1> HIDE DEF c
<1>10. c \in Seq(C) /\ Len(c) = K /\ \A i \in 1 .. K : c[i] = w[0 + i]
  BY <1>9, Zenon DEF Piece, C
<1>11. \A i \in 1 .. K : c[i] = w[i]
  BY <1>10
<1>12. /\ \A i \in 1 .. A : i \in 1 .. K
       /\ \A i \in 1 .. blanks : A + i \in 1 .. K
       /\ \A i \in 1 .. V : A + blanks + i \in 1 .. K
       /\ M # K => A + blanks + V + 1 \in 1 .. K /\ 1 \in 1 .. E
  BY <1>4, <1>5
<1>13. /\ \A i \in 1 .. A : c[i] = name[i]
       /\ \A i \in 1 .. blanks : c[A + i] \in Config!Blank
       /\ \A i \in 1 .. V : c[A + blanks + i] = value[i]
       /\ M = K \/ c[A + blanks + V + 1] \in Config!Blank
  <2>1. /\ \A i \in 1 .. A : c[i] = name[i]
        /\ \A i \in 1 .. blanks : c[A + i] \in Config!Blank
        /\ \A i \in 1 .. V : c[A + blanks + i] = value[i]
    BY <1>1, <1>11, <1>12, Zenon
  <2>2. ASSUME M # K PROVE c[A + blanks + V + 1] \in Config!Blank
    <3>1. c[A + blanks + V + 1] = w[A + blanks + V + 1]
      BY <1>11, <1>12, <2>2, Zenon
    <3>2. w[A + blanks + V + 1] = tail[1]
      BY <1>1, <1>12, <2>2, Zenon
    <3>3. E # 0
      BY <1>12, <2>2
    <3> QED
      BY <3>1, <3>2, <3>3, Zenon
  <2> QED
    BY <2>1, <2>2
<1>14. Piece(c, c, 0, K)
  <2>1. K = Len(c)
    BY <1>10
  <2> QED
    BY <1>10, <2>1, WholePiece, Zenon DEF C
<1>15. Entry(c, name, A, blanks, value, V, K)
  BY <1>5, <1>13, <1>14 DEF Entry
<1>16. Config!cleanStr(w) = c
  BY <1>8, Zenon DEF c
<1> QED
  BY <1>15, <1>16

Goes == [go |-> TRUE, value |-> Config!None]

(* A line that is no element lets the search go on.                          *)
LEMMA LineOfOther ==
    ASSUME NEW s, Config!IsOther(s), NEW elemname
    PROVE  Config!Line(s, elemname) = Goes
<1> DEFINE C == Config!Character
           N == Len(s)
           clean == Config!cleanStr(s)
           good == {n \in 1 .. N : s[n] \in {Config!NL}}
<1>1. /\ s \in Seq(C) /\ s # << >>
      /\ s[1] = "#" \/ (s[1] \in Config!Blank /\ \A i \in DOMAIN s : s[i] \notin Config!Text)
  BY Zenon DEF Config!IsOther
<1>2. N \in Nat /\ N # 0
  <2> HIDE DEF C
  <2> QED
    BY <1>1, LenProperties, EmptySeq
<1>3. CASE s[1] = "#"
  <2>1. s[1] \notin Config!Blank /\ s[1] # Config!NL
    BY <1>3, CharacterKinds, Zenon
  <2>2. clean = Config!Upto(s, {Config!NL})
    BY <2>1, Zenon DEF Config!cleanStr
  <2> PICK K \in Nat : Before(K, N, good)
    <3> HIDE DEF good, N
    <3> QED
      BY <1>2, UptoSome, Zenon
  <2>3. K <= N /\ (\A n \in 1 .. K : n \notin good) /\ (K = N \/ K + 1 \in good)
    BY Zenon DEF Before
  <2>4. (\A n \in 1 .. K : s[n] \notin {Config!NL}) /\ (K = N \/ s[K + 1] \in {Config!NL})
    <3>1. \A n \in 1 .. K : n \in 1 .. N
      BY <1>2, <2>3
    <3> HIDE DEF N
    <3> QED
      BY <2>3, <3>1
  <2>5. K # 0
    <3>1. 1 \notin good
      BY <2>1
    <3>2. 0 + 1 = 1
      OBVIOUS
    <3> HIDE DEF good, N
    <3> QED
      BY <1>2, <2>3, <3>1, <3>2
  <2> HIDE DEF clean
  <2>6. clean = SubSeq(s, 1, K)
    <3>1. N = Len(s)
      OBVIOUS
    <3> HIDE DEF N, good, C
    <3> QED
      BY <1>1, <1>2, <2>2, <2>3, <2>4, <3>1, UptoFirst
  <2>7. Piece(clean, s, 0, K)
    <3>1. Piece(s, s, 0, N)
      BY <1>1, <1>2, WholePiece
    <3>2. 0 \in Nat /\ 0 + K <= N
      BY <1>2, <2>3
    <3> HIDE DEF N
    <3>3. Piece(SubSeq(s, 0 + 1, 0 + K), s, 0 + 0, K)
      BY <1>2, <3>1, <3>2, PieceOf, Zenon
    <3> QED
      BY <2>6, <3>3
  <2>8. clean[1] = "#" /\ clean # << >>
    <3>1. clean \in Seq(C) /\ Len(clean) = K /\ \A i \in 1 .. K : clean[i] = s[0 + i]
      BY <2>7, Zenon DEF Piece
    <3>2. 1 \in 1 .. K
      BY <2>5
    <3>3. clean[1] = s[0 + 1]
      BY <3>1, <3>2
    <3> QED
      BY <1>3, <2>5, <3>1, <3>3, EmptySeq
  <2> QED
    BY <2>8, Zenon DEF Config!Line, Goes, clean
<1>4. CASE s[1] # "#"
  <2>1. s[1] \in Config!Blank /\ ~(\E i \in DOMAIN s : s[i] \in Config!Text)
    BY <1>1, <1>4
  <2>2. clean = Config!None
    BY <2>1, Zenon DEF Config!cleanStr
  <2> QED
    BY <2>2, Zenon DEF Config!Line, Goes, clean
<1> QED
  BY <1>3, <1>4

(* The line of an element ends the search for its name, with its value.      *)
LEMMA LineOfElement ==
    ASSUME NEW e, Config!IsElement(e), NEW blanks \in Nat, blanks # 0,
           NEW tail, Config!IsTail(tail), NEW elemname
    PROVE  /\ Config!Written(e, blanks, tail) \in Seq(Config!Character)
           /\ Config!Line(Config!Written(e, blanks, tail), elemname)
                 = IF e.name # elemname THEN Goes
                   ELSE [go |-> FALSE, value |-> Config!Point(e.value)]
<1> DEFINE C == Config!Character
           w == Config!Written(e, blanks, tail)
           name == e.name
           value == e.value
           A == Len(name)
           V == Len(value)
           E == Len(tail)
           clean == Config!cleanStr(w)
           rest == Config!From(clean, A + 2)
<1>1. /\ name \in Seq(Config!Text) /\ name # << >>
      /\ value \in Seq(Config!Text \cup Config!Signs) /\ value # << >>
  BY Zenon DEF Config!IsElement
<1>2. tail \in Seq(C) /\ (tail # << >> => tail[1] \in Config!Blank)
  BY Zenon DEF Config!IsTail
<1>3. w = ((name \o [i \in 1 .. blanks |-> " "]) \o value) \o tail
  BY DEF Config!Written
<1> HIDE DEF w, name, value
<1>4. /\ A \in Nat /\ A # 0 /\ V \in Nat /\ V # 0 /\ E \in Nat /\ (E # 0 => tail # << >>)
      /\ \A i \in 1 .. A : name[i] \in Config!Text
      /\ \A i \in 1 .. V : value[i] \in Config!Text \cup Config!Signs
  <2> HIDE DEF C
  <2>1. A \in Nat /\ V \in Nat /\ E \in Nat /\ A # 0 /\ V # 0
    BY <1>1, <1>2, LenProperties, EmptySeq
  <2>2. E # 0 => tail # << >>
    BY EmptySeq
  <2>3. /\ \A i \in 1 .. A : name[i] \in Config!Text
        /\ \A i \in 1 .. V : value[i] \in Config!Text \cup Config!Signs
    BY <1>1, ElementOfSeq
  <2> QED
    BY <2>1, <2>2, <2>3
<1>5. name \in Seq(C) /\ value \in Seq(C)
  <2>1. Config!Text \subseteq C /\ Config!Text \cup Config!Signs \subseteq C
    BY CharacterKinds
  <2> HIDE DEF C
  <2> QED
    BY <1>1, <2>1, SeqMonotonic, Zenon
<1>6. A = Len(name) /\ V = Len(value) /\ E = Len(tail)
  OBVIOUS
<1> HIDE DEF A, V, E
<1>7. Parts(w, name, A, blanks, value, V, tail, E)
  <2>1. Parts(((name \o [i \in 1 .. blanks |-> " "]) \o value) \o tail,
              name, A, blanks, value, V, tail, E)
    BY <1>2, <1>4, <1>5, <1>6, WrittenParts, Zenon
  <2> QED
    BY <1>3, <2>1
<1>8. w \in Seq(C)
  BY <1>7, Zenon DEF Parts
<1>9. E # 0 => tail[1] \in Config!Blank
  BY <1>2, <1>4
<1>10. PICK K \in Nat : Entry(clean, name, A, blanks, value, V, K)
  <2>1. \E K \in Nat : Entry(Config!cleanStr(w), name, A, blanks, value, V, K)
    BY <1>4, <1>7, <1>9, Cleaned, Zenon
  <2> QED
    BY <2>1, Zenon
<1>11. Config!Name(clean) = name
  <2> HIDE DEF clean
  <2> QED
    BY <1>4, <1>5, <1>6, <1>10, NameFound, Zenon
<1>12. rest # << >> /\ Config!Value(rest) = value
  <2> HIDE DEF clean
  <2> QED
    BY <1>4, <1>5, <1>6, <1>10, ValueFound, Zenon
<1>13. clean[1] \in Config!Text
  <2>1. 1 \in 1 .. A
    BY <1>4
  <2>2. clean[1] = name[1] /\ name[1] \in Config!Text
    BY <1>10, <2>1, Zenon DEF Entry
  <2> QED
    BY <2>2
<1>14. clean[1] # "#" /\ clean # Config!None
  <2>1. clean[1] # "#" /\ clean[1] \in C
    BY <1>13, CharacterKinds, Zenon
  <2> HIDE DEF clean
  <2> QED
    BY <2>1, NotNull, Zenon
<1>15. name # Config!None /\ value # Config!None
  <2>1. 1 \in 1 .. A /\ 1 \in 1 .. V
    BY <1>4
  <2>2. name[1] \in C /\ value[1] \in C
    <3>1. name[1] \in Config!Text /\ value[1] \in Config!Text \cup Config!Signs
      BY <1>4, <2>1
    <3> QED
      BY <3>1, CharacterKinds, Zenon
  <2> QED
    BY <2>2, NotNull, Zenon
<1>16. Config!From(clean, Len(Config!Name(clean)) + 2) = rest
  BY <1>6, <1>11
<1> HIDE DEF rest
<1>17. Config!Line(w, elemname) = IF name # elemname THEN Goes
                                  ELSE [go |-> FALSE, value |-> Config!Point(value)]
  <2>1. ~(Config!cleanStr(w) = Config!None
             \/ (Config!cleanStr(w) # << >> /\ Config!cleanStr(w)[1] = "#"))
    BY <1>14, Zenon
  <2>2. CASE name # elemname
    BY <1>11, <1>15, <2>1, <2>2, Zenon DEF Config!Line, Goes
  <2>3. CASE name = elemname
    BY <1>11, <1>12, <1>15, <1>16, <2>1, <2>3, Zenon DEF Config!Line
  <2> QED
    BY <2>2, <2>3
<1> QED
  BY <1>8, <1>17, Zenon DEF w, name, value

(* The lines from n on at which the search ends, and what it finds.          *)
Stops(lines, L, elemname, n) == {k \in n .. L : ~Config!Line(lines[k], elemname).go}

FirstOf(T) == CHOOSE k \in T : \A m \in T : k <= m

Found(lines, L, elemname, n) ==
    IF Stops(lines, L, elemname, n) = {} THEN Config!None
    ELSE Config!Line(lines[FirstOf(Stops(lines, L, elemname, n))], elemname).value

LEMMA FoundStep ==
    ASSUME NEW lines, NEW L \in Nat, NEW elemname, NEW n \in 1 .. L + 1
    PROVE  Found(lines, L, elemname, n) =
               IF n > L THEN Config!None
               ELSE IF Config!Line(lines[n], elemname).go THEN Found(lines, L, elemname, n + 1)
               ELSE Config!Line(lines[n], elemname).value
<1> DEFINE go(k) == Config!Line(lines[k], elemname).go
           here == Stops(lines, L, elemname, n)
           next == Stops(lines, L, elemname, n + 1)
<1>1. CASE n > L
  <2>1. here = {}
    BY <1>1 DEF Stops
  <2> QED
    BY <1>1, <2>1 DEF Found
<1>2. CASE ~(n > L) /\ go(n)
  <2>1. \A k \in n .. L : k = n \/ k \in n + 1 .. L
    OBVIOUS
  <2>2. \A k \in n + 1 .. L : k \in n .. L
    OBVIOUS
  <2>3. here = next
    BY <1>2, <2>1, <2>2, Zenon DEF Stops
  <2>4. Found(lines, L, elemname, n) = Found(lines, L, elemname, n + 1)
    BY <2>3, Zenon DEF Found
  <2> QED
    BY <1>2, <2>4
<1>3. CASE ~(n > L) /\ ~go(n)
  <2>1. n \in n .. L
    BY <1>3
  <2>2. n \in here
    BY <1>3, <2>1, Zenon DEF Stops
  <2>3. \A m \in here : n <= m /\ m \in Nat
    BY DEF Stops
  <2>4. FirstOf(here) = n
    <3> DEFINE first == CHOOSE k \in here : \A m \in here : k <= m
    <3> HIDE DEF here
    <3>1. first \in here /\ \A m \in here : first <= m
      BY <2>2, <2>3
    <3>2. first <= n /\ n <= first /\ first \in Nat
      BY <2>2, <2>3, <3>1
    <3> HIDE DEF first
    <3>3. first = n
      BY <3>2
    <3> QED
      BY <3>3, Zenon DEF FirstOf, first
  <2>5. here # {}
    BY <2>2
  <2>6. Found(lines, L, elemname, n) = Config!Line(lines[n], elemname).value
    BY <2>4, <2>5, Zenon DEF Found
  <2> QED
    BY <1>3, <2>6
<1> QED
  BY <1>1, <1>2, <1>3

(* The function the loop computes.                                           *)
IsSearch(f, lines, elemname) ==
    f = [n \in 1 .. Len(lines) + 1 |->
            IF n > Len(lines) THEN Config!None
            ELSE IF Config!Line(lines[n], elemname).go THEN f[n + 1]
            ELSE Config!Line(lines[n], elemname).value]

LEMMA Searched ==
    ASSUME NEW lines, NEW L \in Nat, L = Len(lines), NEW elemname
    PROVE  Config!getConfigElement_string(lines, elemname) = Found(lines, L, elemname, 1)
<1> DEFINE f == CHOOSE g : IsSearch(g, lines, elemname)
           h == [n \in 1 .. L + 1 |-> Found(lines, L, elemname, n)]
           stop(n) == Config!Line(lines[n], elemname)
<1>1. Config!getConfigElement_string(lines, elemname) = f[1]
  BY Zenon DEF Config!getConfigElement_string, IsSearch
<1> HIDE DEF stop
<1>2. IsSearch(h, lines, elemname)
  <2>1. h = [n \in 1 .. L + 1 |-> h[n]]
    OBVIOUS
  <2>2. ASSUME NEW n \in 1 .. L + 1
        PROVE  h[n] = IF n > L THEN Config!None
                      ELSE IF Config!Line(lines[n], elemname).go THEN h[n + 1]
                      ELSE Config!Line(lines[n], elemname).value
    <3>1. h[n] = Found(lines, L, elemname, n)
      OBVIOUS
    <3>2. ~(n > L) => h[n + 1] = Found(lines, L, elemname, n + 1)
      <4>1. ~(n > L) => n + 1 \in 1 .. L + 1
        OBVIOUS
      <4> QED
        BY <4>1
    <3> HIDE DEF h
    <3> QED
      BY <3>1, <3>2, FoundStep, Zenon
  <2> HIDE DEF h
  <2> QED
    BY <2>1, <2>2, Zenon DEF IsSearch
<1>3. IsSearch(f, lines, elemname)
  <2> HIDE DEF h
  <2> QED
    BY <1>2, Zenon
<1> HIDE DEF f, h
<1>4. \A n \in 1 .. L + 1 :
          f[n] = IF n > L THEN Config!None
                 ELSE IF Config!Line(lines[n], elemname).go THEN f[n + 1]
                 ELSE Config!Line(lines[n], elemname).value
  BY <1>3 DEF IsSearch
<1> DEFINE T == {m \in 0 .. L : f[(L + 1) - m] = Found(lines, L, elemname, (L + 1) - m)}
<1>5. 0 \in T
  <2>1. (L + 1) - 0 = L + 1 /\ L + 1 \in 1 .. L + 1 /\ L + 1 > L /\ 0 \in 0 .. L
    OBVIOUS
  <2>2. f[L + 1] = Config!None
    BY <1>4, <2>1
  <2>3. Found(lines, L, elemname, L + 1) = Config!None
    BY <2>1, FoundStep
  <2> QED
    BY <2>1, <2>2, <2>3
<1>6. ASSUME NEW m \in 1 .. L, m - 1 \in T PROVE m \in T
  <2> DEFINE n == (L + 1) - m
  <2>1. n \in 1 .. L + 1 /\ ~(n > L) /\ n + 1 = (L + 1) - (m - 1) /\ m \in 0 .. L
    OBVIOUS
  <2>2. f[n + 1] = Found(lines, L, elemname, n + 1)
    BY <1>6, <2>1
  <2> HIDE DEF n
  <2>3. f[n] = IF Config!Line(lines[n], elemname).go THEN f[n + 1]
               ELSE Config!Line(lines[n], elemname).value
    BY <1>4, <2>1, Zenon
  <2>4. Found(lines, L, elemname, n) =
            IF Config!Line(lines[n], elemname).go THEN Found(lines, L, elemname, n + 1)
            ELSE Config!Line(lines[n], elemname).value
    BY <2>1, FoundStep, Zenon
  <2>5. f[n] = Found(lines, L, elemname, n)
    BY <2>2, <2>3, <2>4, Zenon
  <2> QED
    BY <2>1, <2>5 DEF n
<1>7. L \in T
  <2>1. L \in 0 .. L
    OBVIOUS
  <2> HIDE DEF T
  <2> QED
    BY <1>5, <1>6, <2>1, Upwards
<1>8. (L + 1) - L = 1
  OBVIOUS
<1> QED
  BY <1>1, <1>7, <1>8

(* The lines of a file and what is looked for in it.                         *)
LEMMA FileSearched ==
    ASSUME NEW x \in ConfigInputs
    PROVE  LET lines == [i \in DOMAIN x.elements |->
                            IF x.elements[i] = Config!Other THEN x.other
                            ELSE Config!Written(x.elements[i], x.blanks, x.tail)]
           IN  Config!getConfigElement_string(lines, x.name)
                   = Config!FirstValue(x.elements, x.name)
<1> DEFINE elements == x.elements
           name == x.name
           L == Len(elements)
           line(k) == IF elements[k] = Config!Other THEN x.other
                      ELSE Config!Written(elements[k], x.blanks, x.tail)
           lines == [k \in DOMAIN elements |-> line(k)]
           hits == {k \in DOMAIN elements : elements[k].name = name}
<1>1. /\ elements \in Seq([name : Seq(Config!Text), value : Seq(Config!Text \cup Config!Signs)])
      /\ \A k \in DOMAIN elements : elements[k] = Config!Other \/ Config!IsElement(elements[k])
      /\ x.blanks \in Nat /\ x.blanks # 0 /\ Config!IsTail(x.tail) /\ Config!IsOther(x.other)
      /\ name # << >>
  <2>1. x.blanks \in Nat \ {0}
    BY FileInputs, Zenon
  <2> QED
    BY <2>1, FileInputs
<1>2. L \in Nat /\ DOMAIN elements = 1 .. L
  BY <1>1, LenProperties
<1>3. \A k \in 1 .. L :
          /\ line(k) \in Seq(Config!Character)
          /\ Config!Line(line(k), name) =
                 IF elements[k].name # name THEN Goes
                 ELSE [go |-> FALSE, value |-> Config!Point(elements[k].value)]
  <2> SUFFICES ASSUME NEW k \in 1 .. L
               PROVE  /\ line(k) \in Seq(Config!Character)
                      /\ Config!Line(line(k), name) =
                             IF elements[k].name # name THEN Goes
                             ELSE [go |-> FALSE, value |-> Config!Point(elements[k].value)]
    OBVIOUS
  <2>1. CASE elements[k] = Config!Other
    <3>1. elements[k].name # name
      BY <1>1, <2>1 DEF Config!Other, Config!Element
    <3>2. x.other \in Seq(Config!Character)
      BY <1>1, Zenon DEF Config!IsOther
    <3>3. Config!Line(x.other, name) = Goes
      BY <1>1, LineOfOther, Zenon
    <3> QED
      BY <2>1, <3>1, <3>2, <3>3, Zenon
  <2>2. CASE elements[k] # Config!Other
    <3>1. Config!IsElement(elements[k])
      BY <1>1, <1>2, <2>2
    <3>2. /\ Config!Written(elements[k], x.blanks, x.tail) \in Seq(Config!Character)
          /\ Config!Line(Config!Written(elements[k], x.blanks, x.tail), name)
                = IF elements[k].name # name THEN Goes
                  ELSE [go |-> FALSE, value |-> Config!Point(elements[k].value)]
      <4> DEFINE e == elements[k]
                 b == x.blanks
                 t == x.tail
      <4>1. Config!IsElement(e) /\ b \in Nat /\ b # 0 /\ Config!IsTail(t)
        BY <1>1, <3>1, Zenon
      <4> HIDE DEF elements, name, line, e, b, t
      <4>2. /\ Config!Written(e, b, t) \in Seq(Config!Character)
            /\ Config!Line(Config!Written(e, b, t), name)
                  = IF e.name # name THEN Goes
                    ELSE [go |-> FALSE, value |-> Config!Point(e.value)]
        BY <4>1, LineOfElement, Zenon
      <4> QED
        BY <4>2, Zenon DEF e, b, t
    <3> QED
      BY <2>2, <3>2, Zenon
  <2> QED
    BY <2>1, <2>2
<1> HIDE DEF elements, L, line
<1>4. L = Len(lines) /\ \A k \in 1 .. L : lines[k] = line(k)
  <2> DEFINE D == Seq(Config!Character)
  <2>1. lines \in [1 .. L -> D] /\ DOMAIN lines = 1 .. L
    BY <1>2, <1>3
  <2>2. \A k \in 1 .. L : lines[k] = line(k)
    BY <1>2
  <2> HIDE DEF lines, D
  <2>3. lines \in Seq(D)
    BY <1>2, <2>1, SeqDef, Zenon
  <2> QED
    BY <1>2, <2>1, <2>2, <2>3, LenProperties
<1> HIDE DEF lines
<1>5. Config!getConfigElement_string(lines, name) = Found(lines, L, name, 1)
  BY <1>2, <1>4, Searched, Zenon
<1>6. \A k \in 1 .. L :
          /\ ~Config!Line(lines[k], name).go <=> elements[k].name = name
          /\ elements[k].name = name =>
                 Config!Line(lines[k], name).value = Config!Point(elements[k].value)
  <2> SUFFICES ASSUME NEW k \in 1 .. L
               PROVE  /\ ~Config!Line(lines[k], name).go <=> elements[k].name = name
                      /\ elements[k].name = name =>
                             Config!Line(lines[k], name).value = Config!Point(elements[k].value)
    OBVIOUS
  <2>1. Config!Line(lines[k], name) =
            IF elements[k].name # name THEN Goes
            ELSE [go |-> FALSE, value |-> Config!Point(elements[k].value)]
    BY <1>3, <1>4
  <2> QED
    BY <2>1 DEF Goes
<1>7. Stops(lines, L, name, 1) = hits
  BY <1>2, <1>6, Zenon DEF Stops
<1>8. ASSUME hits = {}
      PROVE  Config!getConfigElement_string(lines, name) = Config!FirstValue(elements, name)
  <2>1. Config!FirstValue(elements, name) = Config!None
    BY <1>8, Zenon DEF Config!FirstValue
  <2> HIDE DEF hits, name
  <2>2. Found(lines, L, name, 1) = Config!None
    BY <1>7, <1>8, Zenon DEF Found
  <2> QED
    BY <1>5, <2>1, <2>2
<1>9. ASSUME hits # {}
      PROVE  Config!getConfigElement_string(lines, name) = Config!FirstValue(elements, name)
  <2> DEFINE first == CHOOSE k \in hits : \A m \in hits : k <= m
  <2>1. FirstOf(hits) = first
    BY Zenon DEF FirstOf
  <2>2. first \in hits
    <3>1. hits \subseteq Nat
      BY <1>2
    <3> HIDE DEF hits
    <3>2. \E k \in hits : \A m \in hits : k <= m
      BY <1>9, <3>1, Least
    <3> QED
      BY <3>2, Zenon
  <2>3. Config!FirstValue(elements, name) = Config!Point(elements[first].value)
    BY <1>9, Zenon DEF Config!FirstValue
  <2> HIDE DEF first
  <2>4. first \in 1 .. L /\ elements[first].name = name
    BY <1>2, <2>2
  <2>5. Config!Line(lines[first], name).value = Config!Point(elements[first].value)
    BY <1>6, <2>4
  <2> HIDE DEF hits
  <2>6. Found(lines, L, name, 1) = Config!Line(lines[first], name).value
    BY <1>7, <1>9, <2>1, Zenon DEF Found
  <2> QED
    BY <1>5, <2>3, <2>5, <2>6, Zenon
<1>10. Config!getConfigElement_string(lines, name) = Config!FirstValue(elements, name)
  <2> HIDE DEF hits
  <2> QED
    BY <1>8, <1>9, Zenon
<1> QED
  BY <1>10, Zenon DEF lines, line, elements

LEMMA InitInput == InitCodecs => InputKnown
  BY DEF InitCodecs, InputKnown

LEMMA NextInput == InputKnown /\ [NextCodecs]_input => InputKnown'
  BY DEF NextCodecs, InputKnown

LEMMA InputFound == InputKnown => ConfigFound
<1> SUFFICES ASSUME InputKnown, input.codec = "config"
             PROVE  LET lines == [i \in DOMAIN input.elements |->
                                     IF input.elements[i] = Config!Other THEN input.other
                                     ELSE Config!Written(input.elements[i], input.blanks, input.tail)]
                    IN  Config!getConfigElement_string(lines, input.name)
                            = Config!FirstValue(input.elements, input.name)
  BY DEF ConfigFound
<1>1. input \in ConfigInputs
  BY SocketInputs, GpsInputs, BoardInputs, FigureInputs, OtherInputs DEF InputKnown, Nothing
<1> QED
  BY <1>1, FileSearched, Zenon

(* The value of an element is found in any file that is written as the       *)
(* comment of getConfigElement_string says (km_helper.cpp).                  *)
THEOREM ConfigCorrect == SpecCodecs => []ConfigFound
<1>1. SpecCodecs => []InputKnown
  BY InitInput, NextInput, PTL DEF SpecCodecs
<1> QED
  BY <1>1, InputFound, PTL
=============================================================================
