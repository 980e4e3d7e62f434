---------------------------- MODULE TprDmaProofs ----------------------------
(***************************************************************************)
(* Proofs about TprDma, for every number of buffers and every set of        *)
(* frames: TypeOK, ReadAlone, DoneIsWhole, IrqIffOutstanding and IrqArmed   *)
(* are invariants, and the ring implements FrameFifo.                       *)
(*                                                                         *)
(* The argument: the descriptors in the FIFO are in ring order and the last  *)
(* is just before rxPend, so the buffers that hold a frame are a window of   *)
(* the ring that starts at rxPend.  On its way to a buffer there is at most  *)
(* its data and, after that, its mark; so a done bit in memory means that    *)
(* the data is there and nothing more will come. The frames of the window,   *)
(* in the order of the ring, are the abstract queue.                         *)
(***************************************************************************)
EXTENDS TprDma, TLAPS, SequenceTheorems

\* How far b is from rxPend, going round the ring.
Off(b) == IF rxPend <= b THEN b - rxPend ELSE b - rxPend + N

Taken == N - Len(freeQ) + Busy        \* buffers latched and not yet handed back

\* Between FreeBuffer and Done the FIFO may hold N+1 descriptors: the one about
\* to be popped is also the last.
RingInv ==
    /\ Len(freeQ) <= N + Busy
    /\ \A i \in 1 .. Len(freeQ) :
         \/ Off(freeQ[i]) = N - Len(freeQ) + i - 1
         \/ i = 1 /\ Len(freeQ) = N + 1
    /\ tpc \in {"read", "free"} => Taken >= 1
    /\ state # "idle" => Len(freeQ) >= 1 /\ cur = freeQ[1]

FillInv ==
    /\ \A b \in Buffers :
         fill[b] # None <=> Off(b) < Taken /\ ~(tpc = "free" /\ b = rxPend)
    /\ state \in {"data", "mark"} => fill[cur] = frame /\ frame # None

Filling(b) == state \in {"data", "mark"} /\ cur = b

PostedOf(i) ==
    LET w == posted[i]
    IN  /\ fill[w.buf] # None
        /\ 31 \notin bits[w.buf]
        /\ w.what = "data" =>
             /\ w.val = fill[w.buf]
             /\ \A k \in 1 .. (i - 1) : posted[k].buf # w.buf
        /\ w.what = "mark" =>
             /\ ~Filling(w.buf)
             /\ \A k \in (i + 1) .. Len(posted) : posted[k].buf # w.buf
             /\ \/ data[w.buf] = fill[w.buf]
                \/ \E k \in 1 .. (i - 1) :
                     posted[k].buf = w.buf /\ posted[k].what = "data"
        /\ state = "data" => cur # w.buf
        /\ tpc = "read" => w.buf # rxPend

PostedInv == \A i \in 1 .. Len(posted) : PostedOf(i)

BufferInv ==
    /\ \A b \in Buffers :
         31 \in bits[b] => fill[b] # None /\ data[b] = fill[b] /\ ~Filling(b)
    /\ state = "mark" =>
         \/ data[cur] = fill[cur]
         \/ \E k \in 1 .. Len(posted) :
              posted[k].buf = cur /\ posted[k].what = "data"
    /\ tpc = "read" => 31 \notin bits[rxPend] /\ ~Filling(rxPend)

IInv == TypeOK /\ RingInv /\ FillInv /\ PostedInv /\ BufferInv

-----------------------------------------------------------------------------
(* The ring                                                                 *)

\* lh.next goes up by one and from the last buffer to the first.
LEMMA SuccIs ==
    ASSUME NEW b \in Buffers
    PROVE  Succ(b) = IF b = N - 1 THEN 0 ELSE b + 1
<1>1. N \in Nat /\ N >= 2 /\ b \in 0 .. (N - 1)
  BY NAssumption DEF Buffers
<1> DEFINE q == (b + 1) \div N
           r == (b + 1) % N
<1>2. b + 1 = N * q + r /\ q \in Int /\ r \in 0 .. (N - 1)
  BY <1>1
<1>3. CASE q <= -1
  <2>1. N * q <= -N
    BY <1>1, <1>2, <1>3
  <2>2. QED
    BY <1>1, <1>2, <2>1
<1>4. CASE q = 0
  BY <1>1, <1>2, <1>4 DEF Succ
<1>5. CASE q = 1
  BY <1>1, <1>2, <1>5 DEF Succ
<1>6. CASE q >= 2
  <2>1. N * q >= N + N
    BY <1>1, <1>2, <1>6
  <2>2. QED
    BY <1>1, <1>2, <2>1
<1>7. QED
  BY <1>2, <1>3, <1>4, <1>5, <1>6

LEMMA SuccInRing == \A b \in Buffers : Succ(b) \in Buffers
<1> SUFFICES ASSUME NEW b \in Buffers PROVE Succ(b) \in Buffers
  OBVIOUS
<1>1. Succ(b) = IF b = N - 1 THEN 0 ELSE b + 1
  BY SuccIs
<1>2. QED
  BY <1>1, NAssumption DEF Buffers

LEMMA Offsets ==
    ASSUME rxPend \in Buffers
    PROVE  /\ \A b \in Buffers : Off(b) \in 0 .. (N - 1) /\ (Off(b) = 0 <=> b = rxPend)
           /\ \A b, c \in Buffers : Off(b) = Off(c) => b = c
  BY NAssumption DEF Off, Buffers

\* As the tasklet moves on, every buffer comes one nearer and the one it leaves
\* becomes the farthest.
LEMMA OffsetsMove ==
    ASSUME rxPend \in Buffers, rxPend' = Succ(rxPend)
    PROVE  \A b \in Buffers :
             Off(b)' = IF b = rxPend THEN N - 1 ELSE Off(b) - 1
<1>1. rxPend' = IF rxPend = N - 1 THEN 0 ELSE rxPend + 1
  BY SuccIs
<1>2. QED
  BY <1>1, NAssumption DEF Off, Buffers

-----------------------------------------------------------------------------
(* Types                                                                    *)

LEMMA TypeInit == Init => TypeOK
<1> SUFFICES ASSUME Init PROVE TypeOK
  OBVIOUS
<1>1. 0 \in Buffers
  BY NAssumption DEF Buffers
<1>2. freeQ \in Seq(Buffers)
  <2>1. freeQ = [i \in 1 .. N |-> i - 1]
    BY DEF Init
  <2>2. \A i \in 1 .. N : i - 1 \in Buffers
    BY NAssumption DEF Buffers
  <2>3. QED
    BY <2>1, <2>2, NAssumption
<1>3. (CHOOSE f \in Frames : TRUE) \in Frames
  BY FrameAssumption
<1>4. posted \in Seq(Write)
  BY DEF Init
<1>5. QED
  BY <1>1, <1>2, <1>3, <1>4 DEF Init, TypeOK

LEMMA TypeStep == TypeOK /\ RingInv /\ FillInv /\ [Next]_vars => TypeOK'
<1> SUFFICES ASSUME TypeOK, RingInv, FillInv, [Next]_vars PROVE TypeOK'
  OBVIOUS
<1> USE DEF TypeOK
<1>1. CASE Accept
  <2>1. Head(freeQ) \in Buffers
    BY <1>1 DEF Accept
  <2>2. QED
    BY <1>1, <2>1 DEF Accept, memVars, taskVars
<1>2. CASE Dump
  BY <1>2 DEF Dump, memVars, taskVars
<1>3. CASE SendData
  <2>1. state = "data" /\ frame \in Frames
    BY <1>3 DEF SendData, FillInv
  <2>2. [buf |-> cur, what |-> "data", val |-> frame] \in Write
    BY <2>1 DEF Write
  <2>3. posted' \in Seq(Write)
    <3>1. posted' = Append(posted, [buf |-> cur, what |-> "data", val |-> frame])
      BY <1>3 DEF SendData
    <3>2. QED
      BY <2>2, <3>1
  <2>4. QED
    BY <1>3, <2>3 DEF SendData, memVars, taskVars
<1>4. CASE SendMark
  <2>1. [buf |-> cur, what |-> "mark", val |-> dump] \in Write
    BY DEF Write
  <2>2. posted' \in Seq(Write)
    <3>1. posted' = Append(posted, [buf |-> cur, what |-> "mark", val |-> dump])
      BY <1>4 DEF SendMark
    <3>2. QED
      BY <2>1, <3>1
  <2>3. QED
    BY <1>4, <2>2 DEF SendMark, memVars, taskVars
<1>5. CASE Done
  <2>1. /\ freeQ' = Tail(freeQ) /\ state' = "idle" /\ frame' = None
        /\ UNCHANGED <<cur, dump, posted, memVars, irqState, irqControl, ipc,
                       taskVars, minors, fill>>
    BY <1>5 DEF Done
  <2>2. freeQ # <<>>
    BY <1>5 DEF Done, RingInv
  <2>3. freeQ' \in Seq(Buffers)
    BY <2>1, <2>2
  <2>4. QED
    BY <2>1, <2>3 DEF memVars, taskVars
<1>6. CASE Arrive
  <2> DEFINE w == Head(posted)
  <2>1. posted # <<>> /\ posted' = Tail(posted)
        /\ UNCHANGED <<hwVars, irqState, irqControl, ipc, taskVars, minors, fill>>
    BY <1>6 DEF Arrive
  <2>2. w \in Write /\ posted' \in Seq(Write)
    BY <2>1
  <2>3. w.buf \in Buffers /\ (w.what = "data" => w.val \in Frames)
    BY <2>2 DEF Write
  <2>4. HeaderBits(w.val) \subseteq {31, 30, 23} /\ MarkBits(w.val) \subseteq {31, 30, 23}
    BY DEF HeaderBits, MarkBits
  <2>5. data' \in [Buffers -> Frames] /\ bits' \in [Buffers -> SUBSET {31, 30, 23}]
    <3>1. CASE /\ w.what = "data"
               /\ data' = [data EXCEPT ![w.buf] = w.val]
               /\ bits' = [bits EXCEPT ![w.buf] = HeaderBits(w.val)]
      BY <2>3, <2>4, <3>1
    <3>2. CASE /\ w.what = "mark"
               /\ bits' = [bits EXCEPT ![w.buf] = (@ \cap {23}) \cup MarkBits(w.val)]
               /\ UNCHANGED data
      BY <2>3, <2>4, <3>2
    <3>3. QED
      BY <1>6, <3>1, <3>2 DEF Arrive
  <2>6. QED
    BY <2>1, <2>2, <2>5 DEF hwVars, taskVars
<1>7. CASE IrqStep
  BY <1>7 DEF IrqStep, hwVars, memVars, taskVars
<1>8. CASE Handler
  <2>1. CASE Intr
    BY <2>1 DEF Intr, hwVars, memVars, taskVars
  <2>2. CASE IntrMask
    BY <2>2 DEF IntrMask, hwVars, memVars, taskVars
  <2>3. CASE IntrSchedule
    BY <2>3 DEF IntrSchedule, hwVars, memVars
  <2>4. QED
    BY <1>8, <2>1, <2>2, <2>3 DEF Handler
<1>9. CASE Start
  BY <1>9 DEF Start, hwVars, memVars
<1>10. CASE TestDone
  BY <1>10 DEF TestDone, hwVars
<1>11. CASE ReadFrame
  BY <1>11 DEF ReadFrame, hwVars, memVars
<1>12. CASE FreeBuffer
  <2>1. Succ(rxPend) \in Buffers
    BY SuccInRing
  <2>2. QED
    BY <1>12, <2>1 DEF FreeBuffer, memVars
<1>13. CASE End
  BY <1>13 DEF End, hwVars, memVars
<1>14. CASE FirstOpen
  BY <1>14 DEF FirstOpen, hwVars, memVars, taskVars
<1>15. CASE LastClose
  <2>1. minors' \in BOOLEAN
    BY <1>15 DEF LastClose
  <2>2. /\ UNCHANGED <<freeQ, state, cur, frame, dump, posted, data, bits>>
        /\ UNCHANGED <<irqState, irqControl, ipc, sched, tpc, rxPend>>
        /\ UNCHANGED <<fifofull, out, fill>>
    BY <1>15 DEF LastClose, hwVars, memVars, taskVars
  <2>3. QED
    BY <2>1, <2>2
<1>16. CASE UNCHANGED vars
  BY <1>16 DEF vars, hwVars, memVars, taskVars
<1>17. QED
  BY <1>1, <1>2, <1>3, <1>4, <1>5, <1>6, <1>7, <1>8, <1>9, <1>10, <1>11, <1>12,
     <1>13, <1>14, <1>15, <1>16 DEF Next, Engine, Tasklet

-----------------------------------------------------------------------------
(* The window of latched buffers                                            *)

\* Steps that leave the ring as it is.
Aside ==
    Dump \/ Arrive \/ IrqStep \/ Handler \/ FirstOpen \/ LastClose \/ UNCHANGED vars

LEMMA AsideKeeps == Aside => UNCHANGED <<freeQ, state, cur, frame, tpc, rxPend, fill>>
  BY DEF Aside, Dump, Arrive, IrqStep, Handler, Intr, IntrMask, IntrSchedule,
         FirstOpen, LastClose, vars, hwVars, taskVars

LEMMA RingInit == Init => RingInv /\ FillInv
<1> SUFFICES ASSUME Init PROVE RingInv /\ FillInv
  OBVIOUS
<1>1. /\ freeQ = [i \in 1 .. N |-> i - 1] /\ Len(freeQ) = N
      /\ rxPend = 0 /\ state = "idle" /\ tpc = "idle"
      /\ fill = [b \in Buffers |-> None]
  BY NAssumption DEF Init
<1>2. RingInv
  BY <1>1, NAssumption DEF RingInv, Off, Busy
<1>3. FillInv
  BY <1>1, NAssumption DEF FillInv, Off, Busy, Taken, Buffers
<1>4. QED
  BY <1>2, <1>3

LEMMA RingStep == TypeOK /\ RingInv /\ FillInv /\ BufferInv /\ [Next]_vars => RingInv'
<1> SUFFICES ASSUME TypeOK, RingInv, FillInv, BufferInv, [Next]_vars PROVE RingInv'
  OBVIOUS
<1>1. /\ N \in Nat /\ N >= 2
      /\ rxPend \in Buffers /\ cur \in Buffers
      /\ freeQ \in Seq(Buffers) /\ Len(freeQ) \in Nat
      /\ \A i \in 1 .. Len(freeQ) : freeQ[i] \in Buffers
  BY NAssumption DEF TypeOK
<1>2. CASE Aside
  BY <1>2, AsideKeeps DEF RingInv, Off, Busy, Taken
<1>3. CASE Accept
  <2>1. /\ freeQ' = freeQ /\ rxPend' = rxPend /\ tpc' = tpc
        /\ state = "idle" /\ state' = "data" /\ cur' = Head(freeQ) /\ freeQ # <<>>
    BY <1>3 DEF Accept, taskVars
  <2>2. Len(freeQ) >= 1 /\ cur' = freeQ[1]
    BY <1>1, <2>1
  <2>3. QED
    BY <1>1, <2>1, <2>2 DEF RingInv, Off, Busy, Taken
<1>4. CASE SendData
  BY <1>4 DEF SendData, taskVars, RingInv, Off, Busy, Taken
<1>5. CASE SendMark
  BY <1>5 DEF SendMark, taskVars, RingInv, Off, Busy, Taken
<1>6. CASE Done
  <2>1. /\ freeQ' = Tail(freeQ) /\ rxPend' = rxPend /\ tpc' = tpc
        /\ state = "done" /\ state' = "idle"
    BY <1>6 DEF Done, taskVars
  <2>2. Len(freeQ) >= 1
    BY <2>1 DEF RingInv
  <2>3. /\ Len(freeQ') = Len(freeQ) - 1
        /\ \A i \in 1 .. Len(freeQ') : freeQ'[i] = freeQ[i + 1]
    BY <1>1, <2>1, <2>2
  <2>4. ASSUME NEW i \in 1 .. Len(freeQ')
        PROVE  Off(freeQ[i + 1]) = N - Len(freeQ') + i - 1
    BY <1>1, <2>2, <2>3, <2>4 DEF RingInv
  <2>5. \A i \in 1 .. Len(freeQ') : Off(freeQ[i])' = N - Len(freeQ') + i - 1
    <3> SUFFICES ASSUME NEW i \in 1 .. Len(freeQ')
                 PROVE  Off(freeQ[i])' = N - Len(freeQ') + i - 1
      OBVIOUS
    <3>1. freeQ'[i] = freeQ[i + 1] /\ freeQ[i + 1] \in Buffers
      BY <1>1, <2>2, <2>3
    <3>2. Off(freeQ[i + 1]) = N - Len(freeQ') + i - 1
      BY <2>4
    <3>3. Off(freeQ[i])' = Off(freeQ[i + 1])
      BY <2>1, <3>1 DEF Off
    <3>4. QED
      BY <3>2, <3>3
  <2>6. (Len(freeQ) <= N + Busy)' /\ (Taken >= 1 <=> Taken' >= 1)
    BY <1>1, <2>1, <2>3 DEF RingInv, Busy, Taken
  <2>7. (tpc \in {"read", "free"} => Taken >= 1)'
    BY <2>1, <2>6 DEF RingInv
  <2>8. QED
    BY <2>1, <2>5, <2>6, <2>7 DEF RingInv
<1>7. CASE Start \/ End
  BY <1>7 DEF Start, End, hwVars, RingInv, Off, Busy, Taken
<1>8. CASE TestDone
  <2>1. UNCHANGED <<freeQ, state, cur, rxPend>> /\ tpc = "test"
    BY <1>8 DEF TestDone, hwVars
  <2>2. tpc' \in {"read", "free"} => Taken >= 1
    <3>1. tpc' \in {"read", "free"} => 31 \in bits[rxPend]
      BY <1>8 DEF TestDone
    <3>2. 31 \in bits[rxPend] => Off(rxPend) < Taken
      BY <1>1 DEF BufferInv, FillInv
    <3>3. QED
      BY <1>1, <3>1, <3>2, Offsets DEF Taken, Busy
  <2>3. QED
    BY <2>1, <2>2 DEF RingInv, Off, Busy, Taken
<1>9. CASE ReadFrame
  BY <1>9 DEF ReadFrame, hwVars, RingInv, Off, Busy, Taken
<1>10. CASE FreeBuffer
  <2>1. /\ freeQ' = Append(freeQ, rxPend) /\ rxPend' = Succ(rxPend)
        /\ state' = state /\ cur' = cur /\ tpc = "free" /\ tpc' = "test"
    BY <1>10 DEF FreeBuffer
  <2>2. /\ Len(freeQ') = Len(freeQ) + 1
        /\ \A i \in 1 .. Len(freeQ) : freeQ'[i] = freeQ[i]
        /\ freeQ'[Len(freeQ) + 1] = rxPend
    BY <1>1, <2>1
  <2>3. Len(freeQ) + 1 <= N + Busy /\ Busy' = Busy /\ Busy \in {0, 1}
    BY <1>1, <2>1 DEF RingInv, Taken, Busy
  <2>4. \A b \in Buffers : Off(b)' = IF b = rxPend THEN N - 1 ELSE Off(b) - 1
    BY <1>1, <2>1, OffsetsMove
  <2>5. ASSUME NEW i \in 1 .. Len(freeQ')
        PROVE  \/ (Off(freeQ[i]) = N - Len(freeQ) + i - 1)'
               \/ i = 1 /\ Len(freeQ') = N + 1
    <3>1. CASE i = Len(freeQ) + 1
      BY <1>1, <2>2, <2>4, <3>1 DEF Off
    <3>2. CASE i # Len(freeQ) + 1
      <4>1. i \in 1 .. Len(freeQ) /\ freeQ'[i] = freeQ[i] /\ freeQ[i] \in Buffers
        BY <1>1, <2>2, <2>5, <3>2
      <4>2. Off(freeQ[i]) = N - Len(freeQ) + i - 1
        BY <1>1, <2>3, <4>1 DEF RingInv
      <4>3. CASE freeQ[i] = rxPend
        BY <1>1, <2>2, <2>3, <4>1, <4>2, <4>3, Offsets
      <4>4. CASE freeQ[i] # rxPend
        BY <1>1, <2>2, <2>4, <4>1, <4>2, <4>4 DEF Off
      <4>5. QED
        BY <4>3, <4>4
    <3>3. QED
      BY <3>1, <3>2
  <2>6. (state # "idle" => Len(freeQ) >= 1 /\ cur = freeQ[1])'
    BY <1>1, <2>1, <2>2 DEF RingInv
  <2>7. (Len(freeQ) <= N + Busy)' /\ (tpc \notin {"read", "free"})'
    BY <1>1, <2>1, <2>2, <2>3
  <2>8. QED
    BY <2>5, <2>6, <2>7 DEF RingInv
<1>11. QED
  BY <1>2, <1>3, <1>4, <1>5, <1>6, <1>7, <1>8, <1>9, <1>10
  DEF Next, Engine, Tasklet, Aside

\* The descriptor that an idle engine would take is of an empty buffer: the one
\* just behind the window.
LEMMA HeadFresh ==
    ASSUME TypeOK, RingInv, FillInv, state = "idle", freeQ # <<>>
    PROVE  /\ Head(freeQ) \in Buffers
           /\ Off(Head(freeQ)) = Taken
           /\ fill[Head(freeQ)] = None
<1>1. N \in Nat /\ freeQ \in Seq(Buffers) /\ Len(freeQ) \in Nat /\ rxPend \in Buffers
  BY NAssumption DEF TypeOK
<1>2. Len(freeQ) >= 1 /\ Head(freeQ) = freeQ[1] /\ freeQ[1] \in Buffers
  BY <1>1
<1>3. Len(freeQ) <= N /\ Taken = N - Len(freeQ)
  BY <1>1 DEF RingInv, Taken, Busy
<1>4. Off(freeQ[1]) = Taken
  BY <1>1, <1>2, <1>3 DEF RingInv
<1>5. QED
  BY <1>1, <1>2, <1>3, <1>4 DEF FillInv

LEMMA ReadLatched ==
    ASSUME TypeOK, RingInv, FillInv, tpc = "read"
    PROVE  fill[rxPend] # None
<1>1. rxPend \in Buffers /\ Off(rxPend) = 0 /\ Taken >= 1
  BY Offsets DEF TypeOK, RingInv
<1>2. Taken \in Int
  BY NAssumption DEF TypeOK, Taken, Busy
<1>3. QED
  BY <1>1, <1>2 DEF FillInv

LEMMA FillStep == TypeOK /\ RingInv /\ FillInv /\ BufferInv /\ [Next]_vars => FillInv'
<1> SUFFICES ASSUME TypeOK, RingInv, FillInv, BufferInv, [Next]_vars PROVE FillInv'
  OBVIOUS
<1>1. /\ N \in Nat /\ N >= 2
      /\ rxPend \in Buffers /\ cur \in Buffers
      /\ freeQ \in Seq(Buffers) /\ Len(freeQ) \in Nat
      /\ \A i \in 1 .. Len(freeQ) : freeQ[i] \in Buffers
      /\ fill \in [Buffers -> Frames \cup {None}]
  BY NAssumption DEF TypeOK
<1>2. CASE Aside
  <2>1. UNCHANGED <<freeQ, state, cur, frame, tpc, rxPend, fill>>
    BY <1>2, AsideKeeps
  <2>2. Taken' = Taken /\ \A b \in Buffers : Off(b)' = Off(b)
    BY <2>1 DEF Taken, Busy, Off
  <2>3. QED
    BY <2>1, <2>2 DEF FillInv
<1>3. CASE Accept
  <2> DEFINE h == Head(freeQ)
  <2>1. /\ UNCHANGED <<freeQ, rxPend, tpc>>
        /\ state = "idle" /\ state' = "data" /\ cur' = h /\ freeQ # <<>>
        /\ frame' \in Frames /\ fill' = [fill EXCEPT ![h] = frame']
    BY <1>3 DEF Accept, taskVars
  <2>2. h \in Buffers /\ Off(h) = Taken /\ fill[h] = None
    BY <2>1, HeadFresh
  <2>3. Taken' = Taken + 1 /\ Taken \in Int /\ \A b \in Buffers : Off(b)' = Off(b)
    BY <1>1, <2>1 DEF Taken, Busy, Off
  <2>4. frame' # None /\ fill'[h] # None
    BY <1>1, <2>1, <2>2, FrameAssumption
  <2>5. \A b \in Buffers : Off(b) < Taken + 1 <=> Off(b) < Taken \/ b = h
    BY <1>1, <2>2, <2>3, Offsets
  <2>6. tpc = "free" => h # rxPend
    BY <1>1, <2>2, Offsets DEF RingInv
  <2>7. ASSUME NEW b \in Buffers
        PROVE  fill'[b] # None <=> Off(b)' < Taken' /\ ~(tpc' = "free" /\ b = rxPend')
    <3>1. CASE b = h
      BY <2>1, <2>2, <2>3, <2>4, <2>6, <3>1
    <3>2. CASE b # h
      <4>1. fill'[b] = fill[b]
        BY <1>1, <2>1, <3>2
      <4>2. QED
        BY <2>1, <2>3, <2>5, <3>2, <4>1 DEF FillInv
    <3>3. QED
      BY <3>1, <3>2
  <2>8. (state \in {"data", "mark"} => fill[cur] = frame /\ frame # None)'
    BY <1>1, <2>1, <2>2, <2>4
  <2>9. QED
    BY <2>7, <2>8 DEF FillInv
<1>4. CASE SendData
  BY <1>4 DEF SendData, taskVars, FillInv, Off, Busy, Taken
<1>5. CASE SendMark
  BY <1>5 DEF SendMark, taskVars, FillInv, Off, Busy, Taken
<1>6. CASE Done
  <2>1. /\ freeQ' = Tail(freeQ) /\ UNCHANGED <<rxPend, tpc, fill>>
        /\ state = "done" /\ state' = "idle"
    BY <1>6 DEF Done, taskVars
  <2>2. Len(freeQ) >= 1
    BY <2>1 DEF RingInv
  <2>3. /\ Len(freeQ') = Len(freeQ) - 1
        /\ \A i \in 1 .. Len(freeQ') : freeQ'[i] = freeQ[i + 1]
    BY <1>1, <2>1, <2>2
  <2>4. Taken' = Taken /\ \A b \in Buffers : Off(b)' = Off(b)
    <3>1. Busy = 1 /\ Busy' = 0
      BY <2>1 DEF Busy
    <3>2. N \in Int /\ Len(freeQ) \in Int /\ Len(freeQ') = Len(freeQ) - 1
      BY <1>1, <2>3
    <3>3. Taken' = Taken
      BY <3>1, <3>2 DEF Taken
    <3>4. \A b \in Buffers : Off(b)' = Off(b)
      BY <2>1 DEF Off
    <3>5. QED
      BY <3>3, <3>4
  <2>5. QED
    BY <2>1, <2>4 DEF FillInv
<1>7. CASE Start \/ TestDone \/ End
  BY <1>7 DEF Start, TestDone, End, hwVars, FillInv, Off, Busy, Taken
<1>8. CASE ReadFrame
  <2>1. /\ UNCHANGED <<freeQ, state, cur, frame, rxPend>>
        /\ tpc = "read" /\ tpc' = "free" /\ fill' = [fill EXCEPT ![rxPend] = None]
    BY <1>8 DEF ReadFrame, hwVars
  <2>2. Taken' = Taken /\ \A b \in Buffers : Off(b)' = Off(b)
    BY <2>1 DEF Taken, Busy, Off
  <2>3. \A b \in Buffers :
          fill'[b] # None <=> Off(b)' < Taken' /\ ~(tpc' = "free" /\ b = rxPend')
    BY <1>1, <2>1, <2>2 DEF FillInv
  <2>4. (state \in {"data", "mark"} => fill[cur] = frame /\ frame # None)'
    <3>1. state \in {"data", "mark"} => cur # rxPend
      BY <2>1 DEF BufferInv, Filling
    <3>2. QED
      BY <1>1, <2>1, <3>1 DEF FillInv
  <2>5. QED
    BY <2>3, <2>4 DEF FillInv
<1>9. CASE FreeBuffer
  <2>1. /\ freeQ' = Append(freeQ, rxPend) /\ rxPend' = Succ(rxPend)
        /\ UNCHANGED <<state, cur, frame, fill>> /\ tpc = "free" /\ tpc' = "test"
    BY <1>9 DEF FreeBuffer
  <2>2. Taken' = Taken - 1 /\ Taken \in Int
    BY <1>1, <2>1 DEF Taken, Busy
  <2>3. Taken <= N
    BY <1>1 DEF RingInv, Taken, Busy
  <2>4. \A b \in Buffers : Off(b)' = IF b = rxPend THEN N - 1 ELSE Off(b) - 1
    BY <1>1, <2>1, OffsetsMove
  <2>5. ASSUME NEW b \in Buffers
        PROVE  fill'[b] # None <=> Off(b)' < Taken' /\ ~(tpc' = "free" /\ b = rxPend')
    <3>1. CASE b = rxPend
      BY <1>1, <2>1, <2>2, <2>3, <2>4, <3>1 DEF FillInv
    <3>2. CASE b # rxPend
      BY <1>1, <2>1, <2>2, <2>4, <3>2, Offsets DEF FillInv
    <3>3. QED
      BY <3>1, <3>2
  <2>6. QED
    BY <2>1, <2>5 DEF FillInv
<1>10. QED
  BY <1>2, <1>3, <1>4, <1>5, <1>6, <1>7, <1>8, <1>9
  DEF Next, Engine, Tasklet, Aside

-----------------------------------------------------------------------------
(* Writes on their way, and what is in memory                               *)

\* Steps that touch neither memory nor the engine nor the ring.
Elsewhere ==
    Dump \/ IrqStep \/ Handler \/ FirstOpen \/ LastClose \/ UNCHANGED vars

LEMMA ElsewhereKeeps ==
    Elsewhere => UNCHANGED <<posted, data, bits, fill, state, cur, tpc, rxPend>>
  BY DEF Elsewhere, Dump, IrqStep, Handler, Intr, IntrMask, IntrSchedule,
         FirstOpen, LastClose, vars, hwVars, memVars, taskVars

\* What the steps below need of the types.
Shape ==
    /\ posted \in Seq(Write) /\ Len(posted) \in Nat
    /\ \A i \in 1 .. Len(posted) : posted[i].buf \in Buffers
    /\ cur \in Buffers /\ rxPend \in Buffers
    /\ fill \in [Buffers -> Frames \cup {None}]
    /\ data \in [Buffers -> Frames]
    /\ bits \in [Buffers -> SUBSET {31, 30, 23}]

LEMMA ShapeOf == TypeOK => Shape
<1> SUFFICES ASSUME TypeOK PROVE Shape
  OBVIOUS
<1>1. posted \in Seq(Write) /\ Len(posted) \in Nat
  BY DEF TypeOK
<1>2. \A i \in 1 .. Len(posted) : posted[i] \in Write
  BY <1>1
<1>3. \A w \in Write : w.buf \in Buffers
  BY DEF Write
<1>4. QED
  BY <1>1, <1>2, <1>3 DEF TypeOK, Shape

LEMMA PostedInit == Init => PostedInv /\ BufferInv
  BY DEF Init, PostedInv, BufferInv

LEMMA PostedStep ==
    TypeOK /\ RingInv /\ FillInv /\ PostedInv /\ BufferInv /\ [Next]_vars => PostedInv'
<1> SUFFICES ASSUME TypeOK, RingInv, FillInv, PostedInv, BufferInv, [Next]_vars,
                    NEW i \in 1 .. Len(posted')
             PROVE  PostedOf(i)'
  BY DEF PostedInv
<1>1. Shape
  BY ShapeOf
<1> USE DEF Shape
<1>2. \A k \in 1 .. Len(posted) : PostedOf(k)
  BY DEF PostedInv
<1>3. posted' = posted => PostedOf(i) /\ posted[i].buf \in Buffers
  BY <1>1, <1>2
<1>4. CASE Elsewhere
  BY <1>3, <1>4, ElsewhereKeeps DEF PostedOf, Filling
<1>5. CASE Accept
  <2> DEFINE h == Head(freeQ)
  <2>1. /\ UNCHANGED <<posted, data, bits, tpc, rxPend>>
        /\ state = "idle" /\ freeQ # <<>> /\ state' = "data" /\ cur' = h
        /\ \E f \in Frames : fill' = [fill EXCEPT ![h] = f]
    BY <1>5 DEF Accept, memVars, taskVars
  <2>2. h \in Buffers /\ fill[h] = None
    BY <2>1, HeadFresh
  <2>3. posted[i].buf # h /\ fill'[posted[i].buf] = fill[posted[i].buf]
    BY <1>1, <1>3, <2>1, <2>2 DEF PostedOf
  <2>4. QED
    BY <1>3, <2>1, <2>3 DEF PostedOf, Filling
<1>6. CASE SendData
  <2> DEFINE w == [buf |-> cur, what |-> "data", val |-> frame]
  <2>1. /\ UNCHANGED <<data, bits, tpc, rxPend, fill, cur>>
        /\ state = "data" /\ state' = "mark" /\ posted' = Append(posted, w)
    BY <1>6 DEF SendData, memVars, taskVars
  <2>2. /\ Len(posted') = Len(posted) + 1 /\ posted'[Len(posted) + 1] = w
        /\ \A k \in 1 .. Len(posted) : posted'[k] = posted[k]
    BY <1>1, <2>1
  <2>3. \A k \in 1 .. Len(posted) : posted[k].buf # cur
    BY <1>2, <2>1 DEF PostedOf
  <2>4. CASE i = Len(posted) + 1
    <3>1. fill[cur] = frame /\ frame # None
      BY <2>1 DEF FillInv
    <3>2. 31 \notin bits[cur] /\ (tpc = "read" => cur # rxPend)
      BY <1>1, <2>1 DEF BufferInv, Filling
    <3>3. posted'[i].buf = cur /\ posted'[i].what = "data" /\ posted'[i].val = frame
      BY <2>2, <2>4
    <3>4. \A k \in 1 .. (i - 1) : posted'[k].buf # cur
      BY <1>1, <2>2, <2>3, <2>4
    <3>5. QED
      BY <2>1, <3>1, <3>2, <3>3, <3>4 DEF PostedOf
  <2>5. CASE i \in 1 .. Len(posted)
    <3>1. PostedOf(i) /\ posted'[i] = posted[i] /\ posted[i].buf # cur
      BY <1>2, <2>2, <2>3, <2>5
    <3>2. /\ \A k \in 1 .. (i - 1) : posted'[k] = posted[k]
          /\ \A k \in (i + 1) .. Len(posted') :
               \/ posted'[k] = posted[k] /\ k <= Len(posted)
               \/ posted'[k].buf = cur
      BY <1>1, <2>2, <2>5
    <3>3. QED
      BY <1>1, <2>1, <2>2, <2>5, <3>1, <3>2 DEF PostedOf, Filling
  <2>6. QED
    BY <1>1, <2>2, <2>4, <2>5
<1>7. CASE SendMark
  <2> DEFINE w == [buf |-> cur, what |-> "mark", val |-> dump]
  <2>1. /\ UNCHANGED <<data, bits, tpc, rxPend, fill, cur>>
        /\ state = "mark" /\ state' = "done" /\ posted' = Append(posted, w)
    BY <1>7 DEF SendMark, memVars, taskVars
  <2>2. /\ Len(posted') = Len(posted) + 1 /\ posted'[Len(posted) + 1] = w
        /\ \A k \in 1 .. Len(posted) : posted'[k] = posted[k]
    BY <1>1, <2>1
  <2>3. CASE i = Len(posted) + 1
    <3>1. fill[cur] # None
      BY <2>1 DEF FillInv
    <3>2. 31 \notin bits[cur] /\ (tpc = "read" => cur # rxPend)
      BY <1>1, <2>1 DEF BufferInv, Filling
    <3>3. posted'[i].buf = cur /\ posted'[i].what = "mark"
      BY <2>2, <2>3
    <3>4. \/ data[cur] = fill[cur]
          \/ \E k \in 1 .. (i - 1) : posted'[k].buf = cur /\ posted'[k].what = "data"
      BY <1>1, <2>1, <2>2, <2>3 DEF BufferInv
    <3>5. (i + 1) .. Len(posted') = {}
      BY <1>1, <2>2, <2>3
    <3>6. QED
      BY <2>1, <3>1, <3>2, <3>3, <3>4, <3>5 DEF PostedOf, Filling
  <2>4. CASE i \in 1 .. Len(posted)
    <3>1. PostedOf(i) /\ posted'[i] = posted[i]
      BY <1>2, <2>2, <2>4
    <3>2. /\ \A k \in 1 .. (i - 1) : posted'[k] = posted[k]
          /\ \A k \in (i + 1) .. Len(posted') :
               \/ posted'[k] = posted[k] /\ k <= Len(posted)
               \/ posted'[k].buf = cur
      BY <1>1, <2>2, <2>4
    <3>3. QED
      BY <1>1, <2>1, <2>2, <2>4, <3>1, <3>2 DEF PostedOf, Filling
  <2>5. QED
    BY <1>1, <2>2, <2>3, <2>4
<1>8. CASE Done
  BY <1>3, <1>8 DEF Done, memVars, taskVars, PostedOf, Filling
<1>9. CASE Arrive
  <2> DEFINE w == posted[1]
             v == posted[i + 1]
  <2>1. /\ UNCHANGED <<state, cur, tpc, rxPend, fill>>
        /\ posted # <<>> /\ posted' = Tail(posted)
    BY <1>9 DEF Arrive, hwVars, taskVars
  <2>2. /\ Len(posted) >= 1 /\ Len(posted') = Len(posted) - 1
        /\ \A k \in 1 .. Len(posted') : posted'[k] = posted[k + 1]
        /\ Head(posted) = w
    BY <1>1, <2>1
  <2>3. i + 1 \in 1 .. Len(posted) /\ posted'[i] = v /\ v.buf \in Buffers
    BY <1>1, <2>2
  <2>4. PostedOf(i + 1) /\ PostedOf(1) /\ w.buf \in Buffers
    BY <1>1, <1>2, <2>2, <2>3
  <2>5. v.what = "data" => \A k \in 1 .. (i - 1) : posted'[k].buf # v.buf
    BY <1>1, <2>2, <2>3, <2>4 DEF PostedOf
  <2>6. v.what = "mark" => \A k \in (i + 1) .. Len(posted') : posted'[k].buf # v.buf
    BY <1>1, <2>2, <2>3, <2>4 DEF PostedOf
  <2>7. CASE w.what = "data"
    <3>1. /\ data' = [data EXCEPT ![w.buf] = w.val]
          /\ bits' = [bits EXCEPT ![w.buf] = HeaderBits(w.val)]
      BY <1>9, <2>2, <2>7 DEF Arrive
    <3>2. w.val = fill[w.buf] /\ 31 \notin bits'[v.buf]
      BY <1>1, <2>3, <2>4, <2>7, <3>1 DEF PostedOf, HeaderBits
    <3>3. data[v.buf] = fill[v.buf] => data'[v.buf] = fill[v.buf]
      BY <1>1, <2>3, <2>4, <3>1, <3>2
    <3>4. ASSUME NEW k \in 1 .. i, posted[k].buf = v.buf, posted[k].what = "data"
          PROVE  \/ data'[v.buf] = fill[v.buf]
                 \/ \E j \in 1 .. (i - 1) : posted'[j].buf = v.buf /\ posted'[j].what = "data"
      <4>1. CASE k = 1
        BY <1>1, <2>3, <2>4, <3>1, <3>2, <3>4, <4>1
      <4>2. CASE k # 1
        <5>1. k - 1 \in 1 .. (i - 1) /\ posted'[k - 1] = posted[k]
          BY <1>1, <2>2, <3>4, <4>2
        <5>2. QED
          BY <3>4, <5>1
      <4>3. QED
        BY <4>1, <4>2
    <3>5. v.what = "mark" =>
            \/ data'[v.buf] = fill[v.buf]
            \/ \E j \in 1 .. (i - 1) : posted'[j].buf = v.buf /\ posted'[j].what = "data"
      BY <2>4, <3>3, <3>4 DEF PostedOf
    <3>6. QED
      BY <2>1, <2>3, <2>4, <2>5, <2>6, <3>2, <3>5 DEF PostedOf, Filling
  <2>8. CASE w.what = "mark"
    <3>1. /\ data' = data
          /\ bits' = [bits EXCEPT ![w.buf] = (@ \cap {23}) \cup MarkBits(w.val)]
      BY <1>9, <2>2, <2>8 DEF Arrive
    <3>2. w.buf # v.buf
      BY <1>1, <2>3, <2>4, <2>8 DEF PostedOf
    <3>3. bits'[v.buf] = bits[v.buf]
      BY <1>1, <2>3, <3>1, <3>2
    <3>4. ASSUME NEW k \in 1 .. i, posted[k].buf = v.buf, posted[k].what = "data"
          PROVE  \E j \in 1 .. (i - 1) : posted'[j].buf = v.buf /\ posted'[j].what = "data"
      <4>1. k # 1
        BY <2>8, <3>4
      <4>2. k - 1 \in 1 .. (i - 1) /\ posted'[k - 1] = posted[k]
        BY <1>1, <2>2, <3>4, <4>1
      <4>3. QED
        BY <3>4, <4>2
    <3>5. v.what = "mark" =>
            \/ data'[v.buf] = fill[v.buf]
            \/ \E j \in 1 .. (i - 1) : posted'[j].buf = v.buf /\ posted'[j].what = "data"
      BY <2>4, <3>1, <3>4 DEF PostedOf
    <3>6. QED
      BY <2>1, <2>3, <2>4, <2>5, <2>6, <3>3, <3>5 DEF PostedOf, Filling
  <2>9. QED
    BY <1>9, <2>2, <2>7, <2>8 DEF Arrive
<1>10. CASE Start \/ End
  BY <1>3, <1>10 DEF Start, End, hwVars, memVars, PostedOf, Filling
<1>11. CASE TestDone
  <2>1. /\ UNCHANGED <<posted, data, fill, state, cur, rxPend>>
        /\ bits' = [bits EXCEPT ![rxPend] = @ \ {31}]
        /\ tpc' = "read" => 31 \in bits[rxPend]
    BY <1>11 DEF TestDone, hwVars
  <2>2. 31 \notin bits[posted[i].buf] /\ posted[i].buf \in Buffers
    BY <1>3, <2>1 DEF PostedOf
  <2>3. 31 \notin bits'[posted[i].buf]
    BY <1>1, <2>1, <2>2
  <2>4. QED
    BY <1>3, <2>1, <2>2, <2>3 DEF PostedOf, Filling
<1>12. CASE ReadFrame
  <2>1. /\ UNCHANGED <<posted, data, bits, state, cur, rxPend>>
        /\ tpc = "read" /\ tpc' = "free" /\ fill' = [fill EXCEPT ![rxPend] = None]
    BY <1>12 DEF ReadFrame, hwVars, memVars
  <2>2. posted[i].buf # rxPend /\ fill'[posted[i].buf] = fill[posted[i].buf]
    BY <1>1, <1>3, <2>1 DEF PostedOf
  <2>3. QED
    BY <1>3, <2>1, <2>2 DEF PostedOf, Filling
<1>13. CASE FreeBuffer
  BY <1>3, <1>13 DEF FreeBuffer, memVars, PostedOf, Filling
<1>14. QED
  BY <1>4, <1>5, <1>6, <1>7, <1>8, <1>9, <1>10, <1>11, <1>12, <1>13
  DEF Next, Engine, Tasklet, Elsewhere

LEMMA BufferStep ==
    TypeOK /\ RingInv /\ FillInv /\ PostedInv /\ BufferInv /\ [Next]_vars => BufferInv'
<1> SUFFICES ASSUME TypeOK, RingInv, FillInv, PostedInv, BufferInv, [Next]_vars
             PROVE  BufferInv'
  OBVIOUS
<1>1. Shape
  BY ShapeOf
<1> USE DEF Shape
<1>2. CASE Elsewhere
  BY <1>2, ElsewhereKeeps DEF BufferInv, Filling
<1>3. CASE Accept
  <2> DEFINE h == Head(freeQ)
  <2>1. /\ UNCHANGED <<posted, data, bits, tpc, rxPend>>
        /\ state = "idle" /\ freeQ # <<>> /\ state' = "data" /\ cur' = h
        /\ \E f \in Frames : fill' = [fill EXCEPT ![h] = f]
    BY <1>3 DEF Accept, memVars, taskVars
  <2>2. h \in Buffers /\ fill[h] = None
    BY <2>1, HeadFresh
  <2>3. ASSUME NEW b \in Buffers, 31 \in bits[b]
        PROVE  fill'[b] # None /\ data[b] = fill'[b] /\ b # h
    <3>1. fill[b] # None /\ data[b] = fill[b]
      BY <2>3 DEF BufferInv
    <3>2. QED
      BY <1>1, <2>1, <2>2, <3>1
  <2>4. tpc = "read" => rxPend # h
    BY <2>2, ReadLatched
  <2>5. QED
    BY <2>1, <2>3, <2>4 DEF BufferInv, Filling
<1>4. CASE SendData
  <2> DEFINE w == [buf |-> cur, what |-> "data", val |-> frame]
  <2>1. /\ UNCHANGED <<data, bits, tpc, rxPend, fill, cur>>
        /\ state = "data" /\ state' = "mark" /\ posted' = Append(posted, w)
    BY <1>4 DEF SendData, memVars, taskVars
  <2>2. Len(posted') = Len(posted) + 1 /\ posted'[Len(posted) + 1] = w
    BY <1>1, <2>1
  <2>3. \E k \in 1 .. Len(posted') : posted'[k].buf = cur' /\ posted'[k].what = "data"
    <3>1. Len(posted) + 1 \in 1 .. Len(posted')
      BY <1>1, <2>2
    <3>2. QED
      BY <2>1, <2>2, <3>1
  <2>4. QED
    BY <2>1, <2>3 DEF BufferInv, Filling
<1>5. CASE SendMark
  BY <1>5 DEF SendMark, memVars, taskVars, BufferInv, Filling
<1>6. CASE Done
  BY <1>6 DEF Done, memVars, taskVars, BufferInv, Filling
<1>7. CASE Arrive
  <2> DEFINE w == posted[1]
  <2>1. /\ UNCHANGED <<state, cur, tpc, rxPend, fill>>
        /\ posted # <<>> /\ posted' = Tail(posted)
    BY <1>7 DEF Arrive, hwVars, taskVars
  <2>2. /\ Len(posted) >= 1 /\ Len(posted') = Len(posted) - 1
        /\ \A k \in 1 .. Len(posted') : posted'[k] = posted[k + 1]
        /\ Head(posted) = w
    BY <1>1, <2>1
  <2>3. PostedOf(1) /\ w.buf \in Buffers
    BY <1>1, <2>2 DEF PostedInv
  <2>4. ASSUME NEW k \in 1 .. Len(posted), k # 1, posted[k].buf = cur, posted[k].what = "data"
        PROVE  \E j \in 1 .. Len(posted') : posted'[j].buf = cur /\ posted'[j].what = "data"
    <3>1. k - 1 \in 1 .. Len(posted') /\ posted'[k - 1] = posted[k]
      BY <1>1, <2>2, <2>4
    <3>2. QED
      BY <2>4, <3>1
  <2>5. CASE w.what = "data"
    <3>1. /\ data' = [data EXCEPT ![w.buf] = w.val]
          /\ bits' = [bits EXCEPT ![w.buf] = HeaderBits(w.val)]
      BY <1>7, <2>2, <2>5 DEF Arrive
    <3>2. w.val = fill[w.buf] /\ 31 \notin bits'[w.buf]
      BY <1>1, <2>3, <2>5, <3>1 DEF PostedOf, HeaderBits
    <3>3. \A b \in Buffers : b # w.buf => bits'[b] = bits[b] /\ data'[b] = data[b]
      BY <1>1, <3>1
    <3>4. \A b \in Buffers :
            31 \in bits'[b] => fill[b] # None /\ data'[b] = fill[b] /\ ~Filling(b)
      BY <3>2, <3>3 DEF BufferInv
    <3>5. \A b \in Buffers : data[b] = fill[b] \/ b = w.buf => data'[b] = fill[b]
      BY <1>1, <2>3, <3>1, <3>2
    <3>6. state = "mark" =>
            \/ data'[cur] = fill[cur]
            \/ \E j \in 1 .. Len(posted') : posted'[j].buf = cur /\ posted'[j].what = "data"
      BY <1>1, <2>4, <3>5 DEF BufferInv
    <3>7. tpc = "read" => 31 \notin bits'[rxPend] /\ ~Filling(rxPend)
      BY <1>1, <3>2, <3>3 DEF BufferInv
    <3>8. QED
      BY <2>1, <3>4, <3>6, <3>7 DEF BufferInv, Filling
  <2>6. CASE w.what = "mark"
    <3>1. /\ data' = data
          /\ bits' = [bits EXCEPT ![w.buf] = (@ \cap {23}) \cup MarkBits(w.val)]
      BY <1>7, <2>2, <2>6 DEF Arrive
    <3>2. /\ fill[w.buf] # None /\ data[w.buf] = fill[w.buf] /\ ~Filling(w.buf)
          /\ tpc = "read" => w.buf # rxPend
      BY <2>3, <2>6 DEF PostedOf
    <3>3. \A b \in Buffers : b # w.buf => bits'[b] = bits[b]
      BY <1>1, <3>1
    <3>4. \A b \in Buffers :
            31 \in bits'[b] => fill[b] # None /\ data'[b] = fill[b] /\ ~Filling(b)
      BY <3>1, <3>2, <3>3 DEF BufferInv
    <3>5. state = "mark" =>
            \/ data'[cur] = fill[cur]
            \/ \E j \in 1 .. Len(posted') : posted'[j].buf = cur /\ posted'[j].what = "data"
      BY <2>4, <2>6, <3>1 DEF BufferInv
    <3>6. tpc = "read" => 31 \notin bits'[rxPend] /\ ~Filling(rxPend)
      BY <1>1, <3>2, <3>3 DEF BufferInv
    <3>7. QED
      BY <2>1, <3>4, <3>5, <3>6 DEF BufferInv, Filling
  <2>7. QED
    BY <1>7, <2>2, <2>5, <2>6 DEF Arrive
<1>8. CASE Start \/ End
  BY <1>8 DEF Start, End, hwVars, memVars, BufferInv, Filling
<1>9. CASE TestDone
  <2>1. /\ UNCHANGED <<posted, data, fill, state, cur, rxPend>>
        /\ bits' = [bits EXCEPT ![rxPend] = @ \ {31}]
        /\ tpc' = "read" => 31 \in bits[rxPend]
    BY <1>9 DEF TestDone, hwVars
  <2>2. /\ 31 \notin bits'[rxPend]
        /\ \A b \in Buffers : 31 \in bits'[b] => 31 \in bits[b]
    BY <1>1, <2>1
  <2>3. QED
    BY <1>1, <2>1, <2>2 DEF BufferInv, Filling
<1>10. CASE ReadFrame
  <2>1. /\ UNCHANGED <<posted, data, bits, state, cur, rxPend>>
        /\ tpc = "read" /\ tpc' = "free" /\ fill' = [fill EXCEPT ![rxPend] = None]
    BY <1>10 DEF ReadFrame, hwVars, memVars
  <2>2. \A b \in Buffers : b # rxPend => fill'[b] = fill[b]
    BY <1>1, <2>1
  <2>3. 31 \notin bits[rxPend] /\ (state = "mark" => cur # rxPend)
    BY <2>1 DEF BufferInv, Filling
  <2>4. QED
    BY <1>1, <2>1, <2>2, <2>3 DEF BufferInv, Filling
<1>11. CASE FreeBuffer
  BY <1>11 DEF FreeBuffer, memVars, BufferInv, Filling
<1>12. QED
  BY <1>2, <1>3, <1>4, <1>5, <1>6, <1>7, <1>8, <1>9, <1>10, <1>11
  DEF Next, Engine, Tasklet, Elsewhere

-----------------------------------------------------------------------------
(* The theorems                                                             *)

\* The ring of buffers, the card's FIFO and engine, the writes on their way and
\* the tasklet are in IInv in every state: the inductive invariant of TprDma.
THEOREM Invariant == Spec => []IInv
<1>1. Init => IInv
  BY TypeInit, RingInit, PostedInit DEF IInv
<1>2. IInv /\ [Next]_vars => IInv'
  BY TypeStep, RingStep, FillStep, PostedStep, BufferStep DEF IInv
<1>3. QED
  BY <1>1, <1>2, PTL DEF Spec

\* Registers and memory keep their types; the engine only ever sends a frame, to
\* a buffer of the ring.
THEOREM TypeCorrect == Spec => []TypeOK
<1>1. IInv => TypeOK
  BY DEF IInv
<1>2. QED
  BY Invariant, <1>1, PTL

\* A buffer whose done bit the tasklet may find holds the whole frame that the
\* engine latched it for, although the mark is a separate posted write.
THEOREM DoneWhole == Spec => []DoneIsWhole
<1>1. IInv => DoneIsWhole
  BY DEF IInv, BufferInv, DoneIsWhole
<1>2. QED
  BY Invariant, <1>1, PTL

\* Nothing in the card can reach the buffer that the tasklet is reading or
\* handing back.
THEOREM ReadsAlone == Spec => []ReadAlone
<1>1. IInv => ReadAlone
  <2> SUFFICES ASSUME IInv, tpc \in {"read", "free"}
               PROVE  /\ \A i \in DOMAIN freeQ : freeQ[i] = rxPend => i = 1 /\ state = "done"
                      /\ state \in {"data", "mark"} => cur # rxPend
                      /\ \A i \in DOMAIN posted : posted[i].buf # rxPend
    BY DEF ReadAlone
  <2>1. TypeOK /\ RingInv /\ FillInv /\ PostedInv /\ BufferInv /\ Shape
    BY ShapeOf DEF IInv
  <2>2. /\ N \in Nat /\ N >= 2 /\ freeQ \in Seq(Buffers) /\ Len(freeQ) \in Nat
        /\ rxPend \in Buffers /\ Off(rxPend) = 0
        /\ DOMAIN freeQ = 1 .. Len(freeQ)
    BY <2>1, NAssumption, Offsets DEF TypeOK
  <2>3. state \in {"data", "mark"} => cur # rxPend
    <3>1. CASE tpc = "read"
      BY <2>1, <3>1 DEF BufferInv, Filling
    <3>2. CASE tpc = "free"
      BY <2>1, <2>2, <3>2 DEF FillInv
    <3>3. QED
      BY <3>1, <3>2
  <2>4. ASSUME NEW i \in 1 .. Len(freeQ), freeQ[i] = rxPend
        PROVE  i = 1 /\ state = "done"
    <3>1. Busy \in {0, 1} /\ (Busy = 1 => state # "idle")
      BY DEF Busy
    <3>2. Len(freeQ) <= N + Busy /\ N - Len(freeQ) + Busy >= 1
      BY <2>1 DEF RingInv, Taken
    <3>3. \/ Off(freeQ[i]) = N - Len(freeQ) + i - 1
          \/ i = 1 /\ Len(freeQ) = N + 1
      BY <2>1, <2>4 DEF RingInv
    <3>4. Off(freeQ[i]) = 0
      BY <2>2, <2>4
    <3>5. i = 1 /\ Busy = 1
      <4>1. N \in Nat /\ Len(freeQ) \in Nat /\ i \in Nat /\ i >= 1
        BY <2>2, <2>4
      <4>2. QED
        BY <3>1, <3>2, <3>3, <3>4, <4>1
    <3>6. state # "idle" /\ cur = freeQ[1]
      BY <2>1, <3>1, <3>5 DEF RingInv
    <3>7. QED
      BY <2>1, <2>3, <2>4, <3>5, <3>6 DEF TypeOK
  <2>5. ASSUME NEW i \in 1 .. Len(posted)
        PROVE  posted[i].buf # rxPend
    <3>1. PostedOf(i)
      BY <2>1 DEF PostedInv
    <3>2. CASE tpc = "read"
      BY <3>1, <3>2 DEF PostedOf
    <3>3. CASE tpc = "free"
      BY <2>1, <2>2, <3>1, <3>3 DEF PostedOf, FillInv
    <3>4. QED
      BY <3>2, <3>3
  <2>6. DOMAIN posted = 1 .. Len(posted)
    BY <2>1 DEF Shape
  <2>7. QED
    BY <2>2, <2>3, <2>4, <2>5, <2>6
<1>2. QED
  BY Invariant, <1>1, PTL

\* The level from which the card makes its interrupt request, a comparison of a
\* FIFO's count with a register, says exactly that a buffer is outstanding.
THEOREM RequestCorrect == Spec => []IrqIffOutstanding
<1>1. IInv => IrqIffOutstanding
  <2> SUFFICES ASSUME IInv PROVE IrqIffOutstanding
    OBVIOUS
  <2>1. TypeOK /\ RingInv
    BY DEF IInv
  <2>2. /\ N \in Nat /\ N >= 2 /\ freeQ \in Seq(Buffers) /\ Len(freeQ) \in Nat
        /\ rxPend \in Buffers /\ DOMAIN freeQ = 1 .. Len(freeQ)
        /\ \A i \in 1 .. Len(freeQ) : freeQ[i] \in Buffers
        /\ \A b \in Buffers : Off(b) \in 0 .. (N - 1)
        /\ Off(rxPend) = 0
    BY <2>1, NAssumption, Offsets DEF TypeOK
  <2>3. irqReq <=> Len(freeQ) < N
    <3>1. freeQ = <<>> <=> Len(freeQ) = 0
      BY <2>2
    <3>2. QED
      BY <2>2, <3>1 DEF irqReq, dFifoCnt, rxFifoSize
  <2>4. CASE Len(freeQ) < N
    <3>1. ASSUME NEW i \in 1 .. Len(freeQ) PROVE Off(freeQ[i]) > 0
      <4>1. \/ Off(freeQ[i]) = N - Len(freeQ) + i - 1
            \/ i = 1 /\ Len(freeQ) = N + 1
        BY <2>1 DEF RingInv
      <4>2. N \in Nat /\ Len(freeQ) \in Nat /\ i \in Nat /\ i >= 1
        BY <2>2
      <4>3. QED
        BY <2>4, <4>1, <4>2
    <3>2. \A i \in DOMAIN freeQ : freeQ[i] # rxPend
      BY <2>2, <3>1
    <3>3. QED
      BY <2>2, <2>3, <2>4, <3>2 DEF IrqIffOutstanding
  <2>5. CASE Len(freeQ) >= N
    <3>1. ASSUME NEW b \in Buffers PROVE \E i \in DOMAIN freeQ : freeQ[i] = b
      <4> DEFINE i == Off(b) + 1 + Len(freeQ) - N
      <4>1. Busy \in {0, 1}
        BY DEF Busy
      <4>2. Len(freeQ) <= N + Busy /\ Off(b) \in 0 .. (N - 1)
        BY <2>1, <2>2 DEF RingInv
      <4>3. i \in 1 .. Len(freeQ) /\ (Len(freeQ) = N + 1 => i # 1)
        <5>1. N \in Nat /\ Len(freeQ) \in Nat
          BY <2>2
        <5>2. QED
          BY <2>5, <4>1, <4>2, <5>1
      <4>4. \/ Off(freeQ[i]) = N - Len(freeQ) + i - 1
            \/ i = 1 /\ Len(freeQ) = N + 1
        BY <2>1, <4>3 DEF RingInv
      <4>5. Off(freeQ[i]) = Off(b)
        <5>1. N \in Nat /\ Len(freeQ) \in Nat
          BY <2>2
        <5>2. QED
          BY <4>2, <4>3, <4>4, <5>1
      <4>6. freeQ[i] \in Buffers
        BY <2>2, <4>3
      <4>7. freeQ[i] = b
        BY <2>2, <4>5, <4>6, Offsets
      <4>8. QED
        BY <2>2, <4>3, <4>7
    <3>2. ~irqReq
      BY <2>2, <2>3, <2>5
    <3>3. QED
      BY <3>1, <3>2 DEF IrqIffOutstanding
  <2>6. QED
    BY <2>2, <2>4, <2>5
<1>2. QED
  BY Invariant, <1>1, PTL

\* The handler, the tasklet and the opens never leave the interrupt disabled for
\* good while a channel is open.
THEOREM Armed == Spec => []IrqArmed
<1>1. Init => IrqArmed
  BY DEF Init, IrqArmed
<1>2. IrqArmed /\ [Next]_vars => IrqArmed'
  <2> SUFFICES ASSUME IrqArmed, [Next]_vars PROVE IrqArmed'
    OBVIOUS
  <2> USE DEF IrqArmed
  <2>1. CASE Accept \/ Dump \/ Arrive \/ IrqStep \/ Engine
    BY <2>1 DEF Accept, Dump, Arrive, IrqStep, Engine, SendData, SendMark, Done, taskVars
  <2>2. CASE Handler
    BY <2>2 DEF Handler, Intr, IntrMask, IntrSchedule, taskVars
  <2>3. CASE Start \/ TestDone \/ ReadFrame \/ FreeBuffer
    BY <2>3 DEF Start, TestDone, ReadFrame, FreeBuffer
  <2>4. CASE End
    BY <2>4 DEF End
  <2>5. CASE FirstOpen \/ LastClose
    BY <2>5 DEF FirstOpen, LastClose
  <2>6. CASE UNCHANGED vars
    BY <2>6 DEF vars, taskVars
  <2>7. QED
    BY <2>1, <2>2, <2>3, <2>4, <2>5, <2>6 DEF Next, Tasklet
<1>3. QED
  BY <1>1, <1>2, PTL DEF Spec

-----------------------------------------------------------------------------
(* The ring is a FIFO of frames                                             *)

\* The buffer that the tasklet has found done and not yet read holds its frame.
ReadWhole == tpc = "read" => data[rxPend] = fill[rxPend]

LEMMA ReadWholeStep == IInv /\ ReadWhole /\ [Next]_vars => ReadWhole'
<1> SUFFICES ASSUME IInv, ReadWhole, [Next]_vars, tpc' = "read"
             PROVE  data'[rxPend'] = fill'[rxPend']
  BY DEF ReadWhole
<1>1. TypeOK /\ RingInv /\ FillInv /\ PostedInv /\ BufferInv /\ Shape
  BY ShapeOf DEF IInv
<1> USE DEF Shape
<1>2. CASE Elsewhere
  BY <1>2, ElsewhereKeeps DEF ReadWhole
<1>3. CASE Accept
  <2>1. /\ UNCHANGED <<data, tpc, rxPend>> /\ state = "idle" /\ freeQ # <<>>
        /\ \E f \in Frames : fill' = [fill EXCEPT ![Head(freeQ)] = f]
    BY <1>3 DEF Accept, memVars, taskVars
  <2>2. Head(freeQ) # rxPend
    BY <1>1, <2>1, HeadFresh, ReadLatched
  <2>3. QED
    BY <1>1, <2>1, <2>2 DEF ReadWhole
<1>4. CASE Engine
  BY <1>4 DEF Engine, SendData, SendMark, Done, memVars, taskVars, ReadWhole
<1>5. CASE Arrive
  <2>1. /\ UNCHANGED <<tpc, rxPend, fill>>
        /\ posted # <<>>
        /\ data' = data \/ data' = [data EXCEPT ![Head(posted).buf] = Head(posted).val]
    BY <1>5 DEF Arrive, taskVars
  <2>2. Len(posted) >= 1 /\ Head(posted) = posted[1]
    BY <1>1, <2>1
  <2>3. posted[1].buf # rxPend
    BY <1>1, <2>1, <2>2 DEF PostedInv, PostedOf
  <2>4. QED
    BY <1>1, <2>1, <2>2, <2>3 DEF ReadWhole
<1>6. CASE Start \/ ReadFrame \/ FreeBuffer \/ End
  BY <1>6 DEF Start, ReadFrame, FreeBuffer, End
<1>7. CASE TestDone
  BY <1>1, <1>7 DEF TestDone, BufferInv
<1>8. QED
  BY <1>2, <1>3, <1>4, <1>5, <1>6, <1>7 DEF Next, Tasklet, Elsewhere

\* Going round the ring by addition.
LEMMA RoundTheRing ==
    ASSUME NEW b \in Buffers, NEW n \in 0 .. N
    PROVE  (b + n) % N = IF b + n < N THEN b + n ELSE b + n - N
<1>1. N \in Nat /\ N >= 2 /\ b \in 0 .. (N - 1) /\ b + n \in Nat /\ b + n < N + N
  BY NAssumption DEF Buffers
<1> DEFINE q == (b + n) \div N
           r == (b + n) % N
<1>2. b + n = N * q + r /\ q \in Int /\ r \in 0 .. (N - 1)
  BY <1>1
<1>3. CASE q <= -1
  <2>1. N * q <= -N
    BY <1>1, <1>2, <1>3
  <2>2. QED
    BY <1>1, <1>2, <2>1
<1>4. CASE q = 0
  BY <1>1, <1>2, <1>4
<1>5. CASE q = 1
  BY <1>1, <1>2, <1>5
<1>6. CASE q >= 2
  <2>1. N * q >= N + N
    BY <1>1, <1>2, <1>6
  <2>2. QED
    BY <1>1, <1>2, <2>1
<1>7. QED
  BY <1>2, <1>3, <1>4, <1>5, <1>6

\* Where the i-th frame of the queue is.
Place(i) == (rxPend + HandedBack + i - 1) % N

\* The queue's places are distinct buffers with frames, in ring order.
LEMMA Queue ==
    ASSUME TypeOK, RingInv, FillInv
    PROVE  /\ Latched \in 0 .. N
           /\ Latched = Taken - HandedBack
           /\ \A i \in 1 .. Latched :
                Place(i) \in Buffers /\ Off(Place(i)) = HandedBack + i - 1
           /\ InFlight \in Seq(Frames)
           /\ Len(InFlight) = Latched
           /\ \A i \in 1 .. Latched : InFlight[i] = fill[Place(i)]
<1>1. /\ N \in Nat /\ N >= 2 /\ Len(freeQ) \in Nat /\ rxPend \in Buffers
      /\ fill \in [Buffers -> Frames \cup {None}]
  BY NAssumption DEF TypeOK
<1>2. Busy \in {0, 1} /\ HandedBack \in {0, 1} /\ (HandedBack = 1 <=> tpc = "free")
  BY DEF Busy, HandedBack
<1>3. Latched \in 0 .. N /\ Latched = Taken - HandedBack /\ Taken \in 0 .. N
  <2>1. Len(freeQ) <= N + Busy /\ Len(freeQ) >= Busy
    BY <1>1, <1>2 DEF RingInv, Busy
  <2>2. HandedBack = 1 => N - Len(freeQ) + Busy >= 1
    BY <1>2 DEF RingInv, Taken
  <2>3. QED
    BY <1>1, <1>2, <2>1, <2>2 DEF Latched, Taken
<1>4. ASSUME NEW i \in 1 .. Latched
      PROVE  Place(i) \in Buffers /\ Off(Place(i)) = HandedBack + i - 1
  <2> DEFINE n == HandedBack + i - 1
  <2>1. n \in 0 .. N /\ n < N
    BY <1>1, <1>2, <1>3
  <2>2. (rxPend + n) % N = IF rxPend + n < N THEN rxPend + n ELSE rxPend + n - N
    BY <1>1, <2>1, RoundTheRing
  <2>3. rxPend + HandedBack + i - 1 = rxPend + n
    BY <1>1, <1>2 DEF Buffers
  <2>4. Place(i) = IF rxPend + n < N THEN rxPend + n ELSE rxPend + n - N
    BY <2>2, <2>3 DEF Place
  <2>5. QED
    BY <1>1, <2>1, <2>4 DEF Off, Buffers
<1>5. ASSUME NEW i \in 1 .. Latched PROVE fill[Place(i)] \in Frames
  <2>1. Off(Place(i)) < Taken
    BY <1>2, <1>3, <1>4
  <2>2. tpc = "free" => Off(Place(i)) # 0
    BY <1>2, <1>3, <1>4
  <2>3. Place(i) # rxPend \/ tpc # "free"
    BY <1>1, <1>4, <2>2, Offsets
  <2>4. QED
    BY <1>1, <1>4, <2>1, <2>3 DEF FillInv
<1>6. InFlight = [i \in 1 .. Latched |-> fill[Place(i)]]
  BY DEF InFlight, Latched, Place
<1>7. QED
  BY <1>3, <1>4, <1>5, <1>6

LEMMA QueueInit == Init => Fifo!Init
<1> SUFFICES ASSUME Init PROVE Fifo!Init
  OBVIOUS
<1>1. N \in Nat /\ Len(freeQ) = N /\ Busy = 0 /\ HandedBack = 0
  BY NAssumption DEF Init, Busy, HandedBack
<1>2. Latched = 0
  BY <1>1 DEF Latched
<1>3. InFlight = <<>>
  <2>1. TypeOK /\ RingInv /\ FillInv
    BY TypeInit, RingInit
  <2>2. InFlight \in Seq(Frames) /\ Len(InFlight) = 0
    BY <1>2, <2>1, Queue
  <2>3. QED
    BY <2>2
<1>4. out \in Frames
  BY FrameAssumption DEF Init
<1>5. QED
  BY <1>3, <1>4 DEF Fifo!Init

\* Every step of card and driver is a Put, a Get or none of the FIFO's.
LEMMA QueueStep ==
    IInv /\ IInv' /\ ReadWhole /\ [Next]_vars => [Fifo!Next]_<<InFlight, out>>
<1> SUFFICES ASSUME IInv, IInv', ReadWhole, [Next]_vars
             PROVE  [Fifo!Next]_<<InFlight, out>>
  OBVIOUS
<1>1. /\ TypeOK /\ RingInv /\ FillInv /\ BufferInv
      /\ TypeOK' /\ RingInv' /\ FillInv'
  BY DEF IInv
<1>2. /\ N \in Nat /\ N >= 2 /\ rxPend \in Buffers /\ rxPend' \in Buffers
      /\ freeQ \in Seq(Buffers) /\ Len(freeQ) \in Nat
      /\ fill \in [Buffers -> Frames \cup {None}]
  BY <1>1, NAssumption DEF TypeOK
<1>3. /\ Latched \in 0 .. N /\ Latched = Taken - HandedBack
      /\ InFlight \in Seq(Frames) /\ Len(InFlight) = Latched
      /\ \A i \in 1 .. Latched : /\ Place(i) \in Buffers
                                 /\ Off(Place(i)) = HandedBack + i - 1
                                 /\ InFlight[i] = fill[Place(i)]
  BY <1>1, Queue
<1>4. /\ Latched' \in 0 .. N
      /\ InFlight' \in Seq(Frames) /\ Len(InFlight') = Latched'
      /\ \A i \in 1 .. Latched' : InFlight'[i] = fill'[Place(i)']
  <2>1. (/\ Latched \in 0 .. N
         /\ InFlight \in Seq(Frames) /\ Len(InFlight) = Latched
         /\ \A i \in 1 .. Latched : InFlight[i] = fill[Place(i)])'
    BY <1>1, Queue, PTL
  <2>2. QED
    BY <2>1
<1>5. ASSUME Latched' = Latched, out' = out,
             \A i \in 1 .. Latched : fill'[Place(i)'] = fill[Place(i)]
      PROVE  UNCHANGED <<InFlight, out>>
  <2>1. \A i \in 1 .. Len(InFlight) : InFlight'[i] = InFlight[i]
    BY <1>3, <1>4, <1>5
  <2>2. InFlight' = InFlight
    BY <1>3, <1>4, <1>5, <2>1, SeqEqual
  <2>3. QED
    BY <1>5, <2>2
<1>6. CASE Aside \/ SendData \/ SendMark \/ Start \/ TestDone \/ End
  <2>1. UNCHANGED <<freeQ, rxPend, fill, out>> /\ Busy' = Busy /\ HandedBack' = HandedBack
    <3>1. CASE Aside
      <4>1. UNCHANGED out
        BY <3>1 DEF Aside, Dump, Arrive, IrqStep, Handler, Intr, IntrMask, IntrSchedule,
                    FirstOpen, LastClose, vars, taskVars
      <4>2. QED
        BY <3>1, <4>1, AsideKeeps DEF Busy, HandedBack
    <3>2. CASE SendData \/ SendMark
      BY <3>2 DEF SendData, SendMark, taskVars, Busy, HandedBack
    <3>3. CASE Start \/ TestDone \/ End
      BY <3>3 DEF Start, TestDone, End, hwVars, Busy, HandedBack
    <3>4. QED
      BY <1>6, <3>1, <3>2, <3>3
  <2>2. QED
    BY <1>5, <2>1 DEF Latched, Place
<1>7. CASE Done
  <2>1. /\ freeQ' = Tail(freeQ) /\ UNCHANGED <<rxPend, tpc, fill, out>>
        /\ state = "done" /\ state' = "idle"
    BY <1>7 DEF Done, taskVars
  <2>2. Len(freeQ) >= 1
    BY <1>1, <2>1 DEF RingInv
  <2>3. Len(freeQ') = Len(freeQ) - 1 /\ Busy = 1 /\ Busy' = 0 /\ HandedBack' = HandedBack
    BY <1>2, <2>1, <2>2 DEF Busy, HandedBack
  <2>4. HandedBack \in {0, 1}
    BY DEF HandedBack
  <2>5. Latched' = Latched
    BY <1>2, <2>3, <2>4 DEF Latched
  <2>6. \A i \in 1 .. Latched : fill'[Place(i)'] = fill[Place(i)]
    BY <2>1, <2>3 DEF Place
  <2>7. QED
    BY <1>5, <2>1, <2>5, <2>6
<1>8. CASE FreeBuffer
  <2>1. /\ freeQ' = Append(freeQ, rxPend) /\ rxPend' = Succ(rxPend)
        /\ UNCHANGED <<state, fill, out>> /\ HandedBack = 1 /\ HandedBack' = 0
    BY <1>8 DEF FreeBuffer, HandedBack
  <2>2. Len(freeQ') = Len(freeQ) + 1 /\ Busy' = Busy /\ Busy \in {0, 1}
    BY <1>2, <2>1 DEF Busy
  <2>3. Latched' = Latched
    BY <1>2, <2>1, <2>2 DEF Latched
  <2>4. ASSUME NEW i \in 1 .. Latched PROVE Place(i)' = Place(i)
    <3>1. rxPend' = IF rxPend = N - 1 THEN 0 ELSE rxPend + 1
      BY <1>2, <2>1, SuccIs
    <3>2. i \in 0 .. N /\ i - 1 \in 0 .. N /\ i <= N
      BY <1>2, <1>3
    <3>3. (rxPend + i) % N = IF rxPend + i < N THEN rxPend + i ELSE rxPend + i - N
      BY <1>2, <3>2, RoundTheRing
    <3>4. (rxPend' + (i - 1)) % N
            = IF rxPend' + (i - 1) < N THEN rxPend' + (i - 1) ELSE rxPend' + (i - 1) - N
      BY <1>2, <3>2, RoundTheRing
    <3>5. (rxPend' + (i - 1)) % N = (rxPend + i) % N
      BY <1>2, <3>1, <3>2, <3>3, <3>4 DEF Buffers
    <3>6. /\ rxPend + HandedBack + i - 1 = rxPend + i
          /\ rxPend' + HandedBack' + i - 1 = rxPend' + (i - 1)
      BY <1>2, <2>1, <3>2 DEF Buffers
    <3>7. QED
      BY <3>5, <3>6 DEF Place
  <2>5. QED
    BY <1>5, <2>1, <2>3, <2>4
<1>9. CASE Accept
  <2> DEFINE h == Head(freeQ)
  <2>1. /\ UNCHANGED <<freeQ, rxPend, tpc, out>> /\ state = "idle" /\ state' = "data"
        /\ freeQ # <<>> /\ frame' \in Frames /\ fill' = [fill EXCEPT ![h] = frame']
    BY <1>9 DEF Accept, taskVars
  <2>2. h \in Buffers /\ Off(h) = Taken /\ Taken < N
    BY <1>1, <1>2, <2>1, HeadFresh, Offsets
  <2>3. HandedBack' = HandedBack /\ HandedBack \in {0, 1} /\ Busy = 0 /\ Busy' = 1
    BY <2>1 DEF Busy, HandedBack
  <2>4. Latched' = Latched + 1
    BY <1>2, <2>1, <2>3 DEF Latched
  <2>5. \A i \in 1 .. Latched' : Place(i)' = Place(i)
    BY <2>1, <2>3 DEF Place
  <2>6. ASSUME NEW i \in 1 .. Latched PROVE InFlight'[i] = InFlight[i]
    <3>1. Off(Place(i)) # Off(h)
      BY <1>3, <2>2, <2>3
    <3>2. fill'[Place(i)] = fill[Place(i)]
      BY <1>2, <1>3, <2>1, <2>2, <3>1
    <3>3. QED
      BY <1>3, <1>4, <2>4, <2>5, <3>2
  <2>7. InFlight'[Latched + 1] = frame'
    <3> DEFINE n == HandedBack + Latched
    <3>1. n = Taken /\ n \in 0 .. N /\ Latched + 1 \in 1 .. Latched'
      <4>1. Taken \in Int /\ HandedBack \in Int /\ Latched \in Int /\ Latched >= 0
        BY <1>2, <1>3, <2>3 DEF Taken
      <4>2. n = Taken /\ n >= 0
        BY <1>3, <2>3, <4>1
      <4>3. QED
        BY <1>2, <2>2, <2>4, <4>1, <4>2
    <3>2. (rxPend + n) % N = IF rxPend + n < N THEN rxPend + n ELSE rxPend + n - N
      BY <1>2, <3>1, RoundTheRing
    <3>3. rxPend + HandedBack + (Latched + 1) - 1 = rxPend + n
      BY <1>2, <1>3, <2>3 DEF Buffers
    <3>4. Place(Latched + 1) = IF rxPend + n < N THEN rxPend + n ELSE rxPend + n - N
      BY <3>2, <3>3 DEF Place
    <3>5. Place(Latched + 1) \in Buffers /\ Off(Place(Latched + 1)) = n
      <4>1. n \in 0 .. N /\ n < N /\ N \in Nat /\ rxPend \in 0 .. (N - 1)
        BY <1>2, <2>2, <3>1 DEF Buffers
      <4> HIDE DEF n
      <4>2. QED
        BY <3>4, <4>1 DEF Off, Buffers
    <3>6. Place(Latched + 1) = h
      BY <1>2, <2>2, <3>1, <3>5, Offsets
    <3>7. InFlight'[Latched + 1] = fill'[h]
      BY <1>4, <2>5, <3>1, <3>6
    <3>8. QED
      BY <1>2, <2>1, <2>2, <3>7
  <2>8. InFlight' = Append(InFlight, frame')
    <3>1. /\ Append(InFlight, frame') \in Seq(Frames)
          /\ Len(Append(InFlight, frame')) = Latched + 1
          /\ \A i \in 1 .. Latched : Append(InFlight, frame')[i] = InFlight[i]
          /\ Append(InFlight, frame')[Latched + 1] = frame'
      BY <1>3, <2>1, AppendProperties
    <3>2. \A i \in 1 .. (Latched + 1) : InFlight'[i] = Append(InFlight, frame')[i]
      BY <1>3, <2>6, <2>7, <3>1
    <3>3. QED
      BY <1>4, <2>4, <3>1, <3>2, SeqEqual
  <2>9. Len(InFlight) < N
    BY <1>2, <1>3, <1>4, <2>4
  <2>10. QED
    BY <2>1, <2>8, <2>9 DEF Fifo!Next, Fifo!Put
<1>10. CASE ReadFrame
  <2>1. /\ UNCHANGED <<freeQ, state, rxPend>> /\ tpc = "read" /\ tpc' = "free"
        /\ out' = data[rxPend] /\ fill' = [fill EXCEPT ![rxPend] = None]
    BY <1>10 DEF ReadFrame, hwVars
  <2>2. HandedBack = 0 /\ HandedBack' = 1 /\ Busy' = Busy /\ Busy \in {0, 1}
    BY <2>1 DEF HandedBack, Busy
  <2>3. Latched' = Latched - 1 /\ Latched >= 1
    <3>1. Latched' = Latched - 1
      BY <1>2, <2>1, <2>2 DEF Latched
    <3>2. Taken >= 1
      BY <1>1, <2>1 DEF RingInv
    <3>3. Taken \in Int /\ Latched \in Int
      BY <1>2, <1>3, <2>2 DEF Taken
    <3>4. QED
      BY <1>3, <2>2, <3>1, <3>2, <3>3
  <2>4. Place(1) = rxPend
    BY <1>2, <1>3, <2>2, <2>3, Offsets
  <2>5. InFlight # <<>> /\ Head(InFlight) = fill[rxPend] /\ out' = Head(InFlight)
    BY <1>3, <2>1, <2>3, <2>4 DEF ReadWhole
  <2>6. ASSUME NEW i \in 1 .. Latched' PROVE InFlight'[i] = InFlight[i + 1]
    <3>1. i + 1 \in 1 .. Latched /\ i \in Int
      BY <1>3, <1>4, <2>3
    <3>2. Place(i)' = Place(i + 1)
      <4>1. rxPend + HandedBack' + i - 1 = rxPend + HandedBack + (i + 1) - 1
        BY <1>2, <2>2, <3>1 DEF Buffers
      <4>2. QED
        BY <2>1, <4>1 DEF Place
    <3>3. Off(Place(i + 1)) # 0
      BY <1>3, <2>2, <3>1
    <3>4. Place(i + 1) # rxPend /\ Place(i + 1) \in Buffers
      BY <1>2, <1>3, <3>1, <3>3, Offsets
    <3>5. fill'[Place(i + 1)] = fill[Place(i + 1)]
      BY <1>2, <2>1, <3>4
    <3>6. QED
      BY <1>3, <1>4, <3>1, <3>2, <3>5
  <2>7. InFlight' = Tail(InFlight)
    <3>1. /\ Tail(InFlight) \in Seq(Frames)
          /\ Len(Tail(InFlight)) = Latched - 1
          /\ \A i \in 1 .. (Latched - 1) : Tail(InFlight)[i] = InFlight[i + 1]
      BY <1>3, <2>5, HeadTailProperties
    <3>2. \A i \in 1 .. Len(InFlight') : InFlight'[i] = Tail(InFlight)[i]
      BY <1>4, <2>3, <2>6, <3>1
    <3>3. QED
      BY <1>4, <2>3, <3>1, <3>2, SeqEqual
  <2>8. QED
    BY <2>5, <2>7 DEF Fifo!Next, Fifo!Get
<1>11. QED
  BY <1>6, <1>7, <1>8, <1>9, <1>10 DEF Next, Engine, Tasklet, Aside

\* The buffers, the card's FIFO and engine, the posted writes and the tasklet
\* together are a FIFO of whole frames with a place for each buffer.
THEOREM Refines == Spec => FrameFifo
<1>1. Init => Fifo!Init /\ ReadWhole
  BY QueueInit DEF Init, ReadWhole
<1>2. IInv /\ ReadWhole /\ [Next]_vars => ReadWhole'
  BY ReadWholeStep
<1>3. IInv /\ IInv' /\ ReadWhole /\ [Next]_vars => [Fifo!Next]_<<InFlight, out>>
  BY QueueStep
<1>4. QED
  BY <1>1, <1>2, <1>3, Invariant, PTL DEF Spec, FrameFifo
=============================================================================
