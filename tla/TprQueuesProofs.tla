--------------------------- MODULE TprQueuesProofs ---------------------------
(***************************************************************************)
(* Proofs about TprQueues, for every number of channels and readers and      *)
(* every size of the queues: TypeOK, WindowKept and ReadCorrect are           *)
(* invariants.                                                              *)
(*                                                                         *)
(* The argument: two counters less than a queue's length apart have          *)
(* different slots, so a write disturbs no message of the window behind the  *)
(* write pointer; and a write pointer only grows, so a reader that is within *)
(* the window when it has loaded an entry was within it at each load before. *)
(***************************************************************************)
EXTENDS TprQueues, TLAPS

Writing == wpc \in {"index", "count"}     \* allq[gwp] is complete

LogInv ==
    /\ \A c \in Chans : Len(log[c]) = allwp[c]
    /\ Len(log[BSA]) = bsawp
    /\ \A c \in Chans : \A k \in 1 .. allwp[c] :
         log[c][k] < gwp \/ (log[c][k] = gwp /\ Writing)
    /\ \A k \in 1 .. bsawp : log[BSA][k] = k - 1

AllqInv ==
    /\ \A i \in 0 .. (gwp - 1) :
         gwp - i < MAX_TPR_ALLQ => allq[AllSlot(i)] = [lo |-> i, hi |-> i]
    /\ wpc = "event_hi" => allq[AllSlot(gwp)].lo = gwp
    /\ Writing => allq[AllSlot(gwp)] = [lo |-> gwp, hi |-> gwp]

AllrpInv ==
    \A c \in Chans :
        /\ \A k \in 0 .. (allwp[c] - 1) :
             allwp[c] - k < MAX_TPR_ALLQ => allrp[c][AllSlot(k)] = log[c][k + 1]
        /\ wpc = "count" /\ First(c) => allrp[c][AllSlot(allwp[c])] = gwp

BsaqInv ==
    /\ \A k \in 0 .. (bsawp - 1) :
         bsawp - k < MAX_TPR_BSAQ => bsaq[BsaSlot(k)] = [lo |-> k, hi |-> k]
    /\ wpc = "bsa_hi" => bsaq[BsaSlot(bsawp)].lo = bsawp
    /\ wpc = "bsa_count" => bsaq[BsaSlot(bsawp)] = [lo |-> bsawp, hi |-> bsawp]

\* The index a reader has loaded is right while its read pointer is in the window.
Near(r) == rque[r] = BSA \/ allwp[rque[r]] - rp[r] < MAX_TPR_ALLQ

ReadOf(r) ==
    /\ rpc[r] \in {"index", "lo", "hi", "use"} => rp[r] < WritePointer(rque[r])
    /\ rpc[r] \in {"lo", "hi", "use"} /\ Near(r) => idx[r] = Pointed(r)
    /\ rpc[r] \in {"hi", "use"} /\ NotLapped(r) => lo[r] = Pointed(r)
    /\ rpc[r] = "use" /\ NotLapped(r) => hi[r] = Pointed(r)

ReadInv == \A r \in Readers : ReadOf(r)

IInv == TypeOK /\ LogInv /\ AllqInv /\ AllrpInv /\ BsaqInv /\ ReadInv

-----------------------------------------------------------------------------
(* Slots                                                                    *)

\* Numbers less than q apart have different remainders modulo q.
LEMMA RemaindersApart ==
    ASSUME NEW q \in Nat \ {0}, NEW a \in Nat, NEW b \in Nat, a < b, b - a < q
    PROVE  a % q # b % q
<1>1. /\ a = q * (a \div q) + (a % q) /\ b = q * (b \div q) + (b % q)
      /\ a \div q \in Int /\ b \div q \in Int
      /\ a % q \in 0 .. (q - 1) /\ b % q \in 0 .. (q - 1)
  OBVIOUS
<1> DEFINE x == a \div q
           y == b \div q
<1> SUFFICES ASSUME a % q = b % q PROVE FALSE
  OBVIOUS
<1>2. q * (y - x) = b - a
  BY <1>1
<1>3. CASE y - x <= 0
  BY <1>1, <1>2, <1>3
<1>4. CASE y - x >= 1
  BY <1>1, <1>2, <1>4
<1>5. QED
  BY <1>1, <1>3, <1>4

\* A slot of allq, allrp or bsaq is one of theirs, and two counters less than
\* the queue's length apart do not share one (the masking in tpr_handle_dma).
LEMMA AllSlots ==
    /\ \A i \in Int : AllSlot(i) \in 0 .. (MAX_TPR_ALLQ - 1)
    /\ \A i, j \in Nat : i < j /\ j - i < MAX_TPR_ALLQ => AllSlot(i) # AllSlot(j)
<1>1. \A i \in Int : AllSlot(i) \in 0 .. (MAX_TPR_ALLQ - 1)
  BY SizesAssumption DEF AllSlot
<1>2. \A i, j \in Nat : i < j /\ j - i < MAX_TPR_ALLQ => AllSlot(i) # AllSlot(j)
  BY RemaindersApart, SizesAssumption DEF AllSlot
<1>3. QED
  BY <1>1, <1>2

LEMMA BsaSlots ==
    /\ \A i \in Int : BsaSlot(i) \in 0 .. (MAX_TPR_BSAQ - 1)
    /\ \A i, j \in Nat : i < j /\ j - i < MAX_TPR_BSAQ => BsaSlot(i) # BsaSlot(j)
<1>1. \A i \in Int : BsaSlot(i) \in 0 .. (MAX_TPR_BSAQ - 1)
  BY SizesAssumption DEF BsaSlot
<1>2. \A i, j \in Nat : i < j /\ j - i < MAX_TPR_BSAQ => BsaSlot(i) # BsaSlot(j)
  BY RemaindersApart, SizesAssumption DEF BsaSlot
<1>3. QED
  BY <1>1, <1>2

LEMMA BsaIsNoChannel == BSA \in Queues /\ BSA \notin Chans /\ Chans \subseteq Queues
  BY SizesAssumption DEF BSA, Chans, Queues

-----------------------------------------------------------------------------
(* Types                                                                    *)

LEMMA TypeInit == Init => TypeOK
  BY SizesAssumption, BsaIsNoChannel
  DEF Init, TypeOK, Halves, Empty, NoMsg, Chans

LEMMA TypeStep == TypeOK /\ [Next]_vars => TypeOK'
<1> SUFFICES ASSUME TypeOK, [Next]_vars PROVE TypeOK'
  OBVIOUS
<1> USE DEF TypeOK
<1>1. ASSUME NEW mch \in SUBSET Chans, EventLo(mch) PROVE TypeOK'
  BY <1>1, AllSlots DEF EventLo, readerVars, Halves
<1>2. CASE EventHi
  BY <1>2, AllSlots DEF EventHi, readerVars, Halves
<1>3. ASSUME NEW c \in Chans, Index(c) PROVE TypeOK'
  BY <1>3, AllSlots DEF Index, readerVars
<1>4. ASSUME NEW c \in Chans, Count(c) PROVE TypeOK'
  BY <1>4, BsaIsNoChannel DEF Count, readerVars
<1>5. CASE EventEnd
  BY <1>5 DEF EventEnd, readerVars
<1>6. CASE BsaLo
  BY <1>6, BsaSlots DEF BsaLo, readerVars, Halves
<1>7. CASE BsaHi
  BY <1>7, BsaSlots DEF BsaHi, readerVars, Halves
<1>8. CASE BsaCount
  BY <1>8, BsaIsNoChannel DEF BsaCount, readerVars
<1>9. ASSUME NEW r \in Readers, Reader(r) PROVE TypeOK'
  <2>1. ASSUME NEW q \in Queues, Attach(r, q) PROVE TypeOK'
    BY <2>1, BsaIsNoChannel DEF Attach, writerVars, WritePointer, Queues
  <2>2. CASE Test(r)
    BY <2>2 DEF Test, writerVars
  <2>3. /\ rque[r] = BSA \/ rque[r] \in Chans
        /\ rp[r] \in Nat
        /\ idx[r] \in Int
        /\ AllSlot(rp[r]) \in 0 .. (MAX_TPR_ALLQ - 1)
        /\ AllSlot(idx[r]) \in 0 .. (MAX_TPR_ALLQ - 1)
        /\ BsaSlot(idx[r]) \in 0 .. (MAX_TPR_BSAQ - 1)
    <3>1. rque[r] \in Queues /\ rp[r] \in Nat /\ idx[r] \in Nat \cup {NoMsg}
      BY <1>9
    <3>2. idx[r] \in Int
      BY <3>1 DEF NoMsg
    <3>3. /\ AllSlot(rp[r]) \in 0 .. (MAX_TPR_ALLQ - 1)
          /\ AllSlot(idx[r]) \in 0 .. (MAX_TPR_ALLQ - 1)
      BY <3>1, <3>2, SizesAssumption DEF AllSlot
    <3>4. BsaSlot(idx[r]) \in 0 .. (MAX_TPR_BSAQ - 1)
      BY <3>1, <3>2, SizesAssumption DEF BsaSlot
    <3>5. QED
      BY <3>1, <3>2, <3>3, <3>4 DEF Queues
  <2>4. CASE LoadIndex(r)
    <3>1. CASE rque[r] = BSA
      BY <1>9, <2>3, <2>4, <3>1 DEF LoadIndex, writerVars
    <3>2. CASE rque[r] \in Chans
      <4>1. allrp[rque[r]][AllSlot(rp[r])] \in Nat \cup {NoMsg}
        BY <2>3, <3>2
      <4>2. idx' = [idx EXCEPT ![r] = allrp[rque[r]][AllSlot(rp[r])]]
        BY <2>4, <3>2, BsaIsNoChannel DEF LoadIndex
      <4>3. QED
        BY <1>9, <2>4, <4>1, <4>2 DEF LoadIndex, writerVars
    <3>3. QED
      BY <2>3, <3>1, <3>2
  <2>5. Entry(r) \in Halves
    BY <2>3 DEF Entry
  <2>6. CASE LoadLo(r)
    BY <2>5, <2>6 DEF LoadLo, writerVars, Halves
  <2>7. CASE LoadHi(r)
    BY <2>5, <2>7 DEF LoadHi, writerVars, Halves
  <2>8. CASE Advance(r)
    BY <1>9, <2>8 DEF Advance, writerVars
  <2>9. QED
    BY <1>9, <2>1, <2>2, <2>4, <2>6, <2>7, <2>8 DEF Reader
<1>10. CASE UNCHANGED vars
  BY <1>10 DEF vars, writerVars, readerVars
<1>11. QED
  BY <1>1, <1>2, <1>3, <1>4, <1>5, <1>6, <1>7, <1>8, <1>9, <1>10
  DEF Next, Tasklet

\* TypeOK holds in every state.
THEOREM TypeCorrect == Spec => []TypeOK
<1>1. QED
  BY TypeInit, TypeStep, PTL DEF Spec

-----------------------------------------------------------------------------
(* The invariant holds initially                                            *)

LEMMA InvInit == Init => IInv
<1> SUFFICES ASSUME Init PROVE IInv
  OBVIOUS
<1>1. TypeOK
  BY TypeInit
<1>2. LogInv
  BY BsaIsNoChannel DEF Init, LogInv
<1>3. AllqInv
  BY DEF Init, AllqInv, Writing
<1>4. AllrpInv
  BY DEF Init, AllrpInv
<1>5. BsaqInv
  BY DEF Init, BsaqInv
<1>6. ReadInv
  BY DEF Init, ReadInv, ReadOf
<1>7. QED
  BY <1>1, <1>2, <1>3, <1>4, <1>5, <1>6 DEF IInv

-----------------------------------------------------------------------------
(* The writer's steps                                                       *)

LEMMA ReaderReads == ASSUME NEW r \in Readers, Reader(r) PROVE UNCHANGED writerVars
  BY DEF Reader, Attach, Test, LoadIndex, LoadLo, LoadHi, Advance

\* The history follows the counters, and no channel is told of a message that
\* is not complete.
LEMMA LogStep == TypeOK /\ LogInv /\ [Next]_vars => LogInv'
<1> SUFFICES ASSUME TypeOK, LogInv, [Next]_vars PROVE LogInv'
  OBVIOUS
<1> USE DEF TypeOK, LogInv, Writing
<1>1. ASSUME NEW mch \in SUBSET Chans, EventLo(mch) PROVE LogInv'
  BY <1>1 DEF EventLo
<1>2. CASE EventHi
  BY <1>2 DEF EventHi
<1>3. ASSUME NEW c \in Chans, Index(c) PROVE LogInv'
  BY <1>3 DEF Index
<1>4. ASSUME NEW c \in Chans, Count(c) PROVE LogInv'
  BY <1>4, BsaIsNoChannel DEF Count
<1>5. CASE EventEnd
  <2>1. ASSUME NEW c \in Chans, NEW k \in 1 .. allwp[c] PROVE log[c][k] < gwp + 1
    <3>1. log[c] \in Seq(Nat) /\ k \in 1 .. Len(log[c])
      BY BsaIsNoChannel
    <3>2. log[c][k] \in Nat
      BY <3>1
    <3>3. QED
      BY <3>2
  <2>2. QED
    BY <1>5, <2>1 DEF EventEnd
<1>6. CASE BsaLo
  BY <1>6 DEF BsaLo
<1>7. CASE BsaHi
  BY <1>7 DEF BsaHi
<1>8. CASE BsaCount
  BY <1>8, BsaIsNoChannel DEF BsaCount
<1>9. CASE UNCHANGED writerVars
  BY <1>9 DEF writerVars
<1>10. QED
  BY <1>1, <1>2, <1>3, <1>4, <1>5, <1>6, <1>7, <1>8, <1>9, ReaderReads
  DEF Next, Tasklet, vars

\* Writing a slot of allq leaves the window behind gwp alone.
LEMMA AllqStep == TypeOK /\ AllqInv /\ [Next]_vars => AllqInv'
<1> SUFFICES ASSUME TypeOK, AllqInv, [Next]_vars PROVE AllqInv'
  OBVIOUS
<1> USE DEF TypeOK, Halves, AllqInv, Writing
<1>1. ASSUME NEW mch \in SUBSET Chans, EventLo(mch) PROVE AllqInv'
  BY <1>1, AllSlots DEF EventLo
<1>2. CASE EventHi
  BY <1>2, AllSlots DEF EventHi
<1>3. ASSUME NEW c \in Chans, Index(c) PROVE AllqInv'
  BY <1>3 DEF Index
<1>4. ASSUME NEW c \in Chans, Count(c) PROVE AllqInv'
  BY <1>4 DEF Count
<1>5. CASE EventEnd
  <2>1. gwp' = gwp + 1 /\ allq' = allq /\ wpc' = "idle" /\ wpc = "index"
    BY <1>5 DEF EventEnd
  <2>2. ASSUME NEW i \in 0 .. gwp, gwp + 1 - i < MAX_TPR_ALLQ
        PROVE  allq[AllSlot(i)] = [lo |-> i, hi |-> i]
    <3>1. CASE i = gwp
      BY <2>1, <3>1
    <3>2. CASE i # gwp
      <4>1. i \in 0 .. (gwp - 1) /\ gwp - i < MAX_TPR_ALLQ
        BY <2>2, <3>2, SizesAssumption
      <4>2. QED
        BY <4>1
    <3>3. QED
      BY <3>1, <3>2
  <2>3. QED
    BY <2>1, <2>2
<1>6. CASE BsaLo
  BY <1>6 DEF BsaLo
<1>7. CASE BsaHi
  BY <1>7 DEF BsaHi
<1>8. CASE BsaCount
  BY <1>8 DEF BsaCount
<1>9. CASE UNCHANGED writerVars
  BY <1>9 DEF writerVars
<1>10. QED
  BY <1>1, <1>2, <1>3, <1>4, <1>5, <1>6, <1>7, <1>8, <1>9, ReaderReads
  DEF Next, Tasklet, vars

\* Writing a slot of an index leaves the window behind its counter alone.
LEMMA AllrpStep == TypeOK /\ LogInv /\ AllrpInv /\ [Next]_vars => AllrpInv'
<1> SUFFICES ASSUME TypeOK, LogInv, AllrpInv, [Next]_vars PROVE AllrpInv'
  OBVIOUS
<1> USE DEF TypeOK, LogInv, AllrpInv, First
<1>1. ASSUME NEW mch \in SUBSET Chans, EventLo(mch) PROVE AllrpInv'
  BY <1>1 DEF EventLo
<1>2. CASE EventHi
  BY <1>2 DEF EventHi
<1>3. ASSUME NEW c \in Chans, Index(c) PROVE AllrpInv'
  <2>1. /\ allrp' = [allrp EXCEPT ![c][AllSlot(allwp[c])] = gwp]
        /\ UNCHANGED <<allwp, gwp, todo, log>>
        /\ First(c)
    BY <1>3 DEF Index
  <2>2. ASSUME NEW d \in Chans, NEW k \in 0 .. (allwp[d] - 1),
               allwp[d] - k < MAX_TPR_ALLQ
        PROVE  allrp'[d][AllSlot(k)] = allrp[d][AllSlot(k)]
    <3>1. allwp[d] \in Nat /\ k \in Nat /\ k < allwp[d]
      OBVIOUS
    <3>2. AllSlot(k) # AllSlot(allwp[d]) /\ AllSlot(k) \in 0 .. (MAX_TPR_ALLQ - 1)
      BY <2>2, <3>1, AllSlots
    <3>3. QED
      BY <2>1, <3>2
  <2>3. ASSUME NEW d \in Chans, First(d) PROVE d = c
    BY <2>1, <2>3, SizesAssumption DEF Chans
  <2>4. allrp'[c][AllSlot(allwp[c])] = gwp
    <3>1. AllSlot(allwp[c]) \in 0 .. (MAX_TPR_ALLQ - 1)
      BY AllSlots
    <3>2. QED
      BY <2>1, <3>1
  <2>5. QED
    BY <2>1, <2>2, <2>3, <2>4
<1>4. ASSUME NEW c \in Chans, Count(c) PROVE AllrpInv'
  <2>1. /\ wpc = "count" /\ wpc' = "index" /\ First(c)
        /\ allwp' = [allwp EXCEPT ![c] = @ + 1]
        /\ log' = [log EXCEPT ![c] = Append(@, gwp)]
        /\ UNCHANGED <<allrp, gwp>>
    BY <1>4 DEF Count
  <2>2. ASSUME NEW d \in Chans, NEW k \in 0 .. (allwp'[d] - 1),
               allwp'[d] - k < MAX_TPR_ALLQ
        PROVE  allrp[d][AllSlot(k)] = log'[d][k + 1]
    <3>1. log[d] \in Seq(Nat) /\ Len(log[d]) = allwp[d] /\ k \in Nat
      BY BsaIsNoChannel
    <3>2. CASE d = c /\ k = allwp[c]
      <4>1. log'[c][k + 1] = gwp
        BY <2>1, <3>1, <3>2, BsaIsNoChannel
      <4>2. QED
        BY <2>1, <3>2, <4>1
    <3>3. CASE ~(d = c /\ k = allwp[c])
      <4>1. k \in 0 .. (allwp[d] - 1) /\ allwp[d] - k < MAX_TPR_ALLQ
        BY <2>1, <2>2, <3>3, SizesAssumption
      <4>2. log'[d][k + 1] = log[d][k + 1]
        BY <2>1, <3>1, <4>1, BsaIsNoChannel
      <4>3. QED
        BY <4>1, <4>2
    <3>4. QED
      BY <3>2, <3>3
  <2>3. QED
    BY <2>1, <2>2
<1>5. CASE EventEnd
  BY <1>5 DEF EventEnd
<1>6. CASE BsaLo
  BY <1>6 DEF BsaLo
<1>7. CASE BsaHi
  BY <1>7 DEF BsaHi
<1>8. CASE BsaCount
  BY <1>8, BsaIsNoChannel DEF BsaCount
<1>9. CASE UNCHANGED writerVars
  BY <1>9 DEF writerVars
<1>10. QED
  BY <1>1, <1>2, <1>3, <1>4, <1>5, <1>6, <1>7, <1>8, <1>9, ReaderReads
  DEF Next, Tasklet, vars

\* Writing a slot of bsaq leaves the window behind bsawp alone.
LEMMA BsaqStep == TypeOK /\ BsaqInv /\ [Next]_vars => BsaqInv'
<1> SUFFICES ASSUME TypeOK, BsaqInv, [Next]_vars PROVE BsaqInv'
  OBVIOUS
<1> USE DEF TypeOK, Halves, BsaqInv
<1>1. ASSUME NEW mch \in SUBSET Chans, EventLo(mch) PROVE BsaqInv'
  BY <1>1 DEF EventLo
<1>2. CASE EventHi
  BY <1>2 DEF EventHi
<1>3. ASSUME NEW c \in Chans, Index(c) PROVE BsaqInv'
  BY <1>3 DEF Index
<1>4. ASSUME NEW c \in Chans, Count(c) PROVE BsaqInv'
  BY <1>4 DEF Count
<1>5. CASE EventEnd
  BY <1>5 DEF EventEnd
<1>6. CASE BsaLo
  BY <1>6, BsaSlots DEF BsaLo
<1>7. CASE BsaHi
  BY <1>7, BsaSlots DEF BsaHi
<1>8. CASE BsaCount
  <2>1. bsawp' = bsawp + 1 /\ bsaq' = bsaq /\ wpc' = "idle" /\ wpc = "bsa_count"
    BY <1>8 DEF BsaCount
  <2>2. ASSUME NEW k \in 0 .. bsawp, bsawp + 1 - k < MAX_TPR_BSAQ
        PROVE  bsaq[BsaSlot(k)] = [lo |-> k, hi |-> k]
    <3>1. CASE k = bsawp
      BY <2>1, <3>1
    <3>2. CASE k # bsawp
      <4>1. k \in 0 .. (bsawp - 1) /\ bsawp - k < MAX_TPR_BSAQ
        BY <2>2, <3>2, SizesAssumption
      <4>2. QED
        BY <4>1
    <3>3. QED
      BY <3>1, <3>2
  <2>3. QED
    BY <2>1, <2>2
<1>9. CASE UNCHANGED writerVars
  BY <1>9 DEF writerVars
<1>10. QED
  BY <1>1, <1>2, <1>3, <1>4, <1>5, <1>6, <1>7, <1>8, <1>9, ReaderReads
  DEF Next, Tasklet, vars

-----------------------------------------------------------------------------
(* The readers                                                              *)

\* Counters only grow, and what has been written to a queue stays so.
LEMMA WriterGrows ==
    ASSUME TypeOK, LogInv, Tasklet, NEW q \in Queues
    PROVE  /\ WritePointer(q) \in Nat /\ WritePointer(q)' \in Nat
           /\ WritePointer(q) <= WritePointer(q)'
           /\ gwp \in Nat /\ gwp' \in Nat /\ gwp <= gwp'
           /\ \A k \in 1 .. WritePointer(q) : log'[q][k] = log[q][k]
<1> USE DEF TypeOK, LogInv, WritePointer
<1>1. WritePointer(q) \in Nat /\ Len(log[q]) = WritePointer(q) /\ log[q] \in Seq(Nat)
  BY BsaIsNoChannel DEF Queues
<1>2. CASE UNCHANGED <<allwp, bsawp, log>> /\ gwp' \in {gwp, gwp + 1}
  BY <1>1, <1>2
<1>3. ASSUME NEW c \in Chans, Count(c)
      PROVE  /\ WritePointer(q)' \in Nat
             /\ WritePointer(q) <= WritePointer(q)' /\ gwp' = gwp
             /\ \A k \in 1 .. WritePointer(q) : log'[q][k] = log[q][k]
  BY <1>1, <1>3, BsaIsNoChannel DEF Count
<1>4. CASE BsaCount
  BY <1>1, <1>4, BsaIsNoChannel DEF BsaCount
<1>5. QED
  BY <1>1, <1>2, <1>3, <1>4
  DEF Tasklet, EventLo, EventHi, Index, EventEnd, BsaLo, BsaHi

LEMMA TaskletWrites == Tasklet => UNCHANGED readerVars
  BY DEF Tasklet, EventLo, EventHi, Index, Count, EventEnd, BsaLo, BsaHi, BsaCount

\* A step of the writer leaves what a reader has in hand right, as long as the
\* reader is in the window after it.
LEMMA ReadKept ==
    ASSUME TypeOK, LogInv, Tasklet, NEW r \in Readers, ReadOf(r)
    PROVE  ReadOf(r)'
<1>1. rque[r] \in Queues /\ rp[r] \in Nat
  BY DEF TypeOK
<1>2. UNCHANGED <<rpc, rque, rp, idx, lo, hi>>
  BY TaskletWrites DEF readerVars
<1> DEFINE q == rque[r]
<1>3. /\ WritePointer(q) \in Nat /\ WritePointer(q)' \in Nat
      /\ WritePointer(q) <= WritePointer(q)'
      /\ gwp \in Nat /\ gwp' \in Nat /\ gwp <= gwp'
      /\ \A k \in 1 .. WritePointer(q) : log'[q][k] = log[q][k]
  BY <1>1, <1>2, WriterGrows
<1>4. CASE rpc[r] \notin {"index", "lo", "hi", "use"}
  BY <1>2, <1>4 DEF ReadOf
<1>5. CASE rpc[r] \in {"index", "lo", "hi", "use"}
  <2>1. rp[r] < WritePointer(q)
    BY <1>5 DEF ReadOf
  <2>2. Pointed(r)' = Pointed(r)
    BY <1>1, <1>2, <1>3, <2>1 DEF Pointed
  <2>3. Pointed(r) \in Nat
    <3>1. log[q] \in Seq(Nat) /\ Len(log[q]) = WritePointer(q)
      BY <1>1 DEF TypeOK, LogInv, WritePointer, Queues
    <3>2. QED
      BY <1>1, <1>3, <2>1, <3>1 DEF Pointed
  <2>4. /\ Near(r)' => Near(r)
        /\ NotLapped(r)' => NotLapped(r)
    <3>1. CASE q = BSA
      BY <1>1, <1>2, <1>3, <3>1, SizesAssumption DEF Near, NotLapped, WritePointer
    <3>2. CASE q # BSA
      <4>1. /\ WritePointer(q) = allwp[q] /\ WritePointer(q)' = allwp'[q]
        BY <1>2, <3>2 DEF WritePointer
      <4>2. QED
        BY <1>1, <1>2, <1>3, <2>2, <2>3, <3>2, <4>1, SizesAssumption
        DEF Near, NotLapped
    <3>3. QED
      BY <3>1, <3>2
  <2>5. (rp[r] < WritePointer(q))'
    BY <1>1, <1>2, <1>3, <2>1
  <2>6. QED
    BY <1>2, <2>2, <2>4, <2>5 DEF ReadOf
<1>6. QED
  BY <1>4, <1>5

\* A reader's own step, one load at a time.
LEMMA ReadOwn ==
    ASSUME TypeOK, LogInv, AllqInv, AllrpInv, BsaqInv,
           NEW r \in Readers, Reader(r), ReadOf(r)
    PROVE  ReadOf(r)'
<1> DEFINE q == rque[r]
<1>1. /\ q \in Queues /\ rp[r] \in Nat /\ WritePointer(q) \in Nat
      /\ log[q] \in Seq(Nat) /\ Len(log[q]) = WritePointer(q)
  BY DEF TypeOK, LogInv, WritePointer, Queues
<1>2. UNCHANGED writerVars
  BY ReaderReads
<1>3. \A x \in Queues : WritePointer(x)' = WritePointer(x)
  BY <1>2 DEF writerVars, WritePointer
<1>4. ASSUME NEW x \in Queues, Attach(r, x) PROVE ReadOf(r)'
  BY <1>4 DEF Attach, ReadOf, TypeOK
<1>5. CASE Test(r)
  BY <1>1, <1>2, <1>3, <1>5 DEF Test, ReadOf, TypeOK
<1>6. CASE Advance(r)
  BY <1>6 DEF Advance, ReadOf, TypeOK
<1>7. rpc[r] \in {"index", "lo", "hi"} =>
        /\ rp[r] \in 0 .. (WritePointer(q) - 1)
        /\ rp[r] + 1 \in 1 .. WritePointer(q)
        /\ Pointed(r) \in Nat
  BY <1>1 DEF ReadOf, Pointed
<1>8. UNCHANGED <<rque, rp>> => /\ Pointed(r)' = Pointed(r)
                                /\ Near(r)' = Near(r)
                                /\ NotLapped(r)' = NotLapped(r)
  BY <1>2 DEF writerVars, Pointed, Near, NotLapped
<1>9. CASE LoadIndex(r)
  <2>1. CASE q = BSA
    <3>1. Pointed(r) = rp[r]
      BY <1>1, <1>7, <1>9, <2>1 DEF LoadIndex, Pointed, LogInv, WritePointer
    <3>2. QED
      BY <1>2, <1>3, <1>7, <1>8, <1>9, <2>1, <3>1 DEF LoadIndex, ReadOf, TypeOK
  <2>2. CASE q \in Chans
    <3>1. WritePointer(q) = allwp[q]
      BY <2>2, BsaIsNoChannel DEF WritePointer
    <3>2. Near(r) => allrp[q][AllSlot(rp[r])] = Pointed(r)
      BY <1>7, <1>9, <2>2, <3>1, BsaIsNoChannel
      DEF LoadIndex, Near, AllrpInv, Pointed
    <3>3. idx'[r] = allrp[q][AllSlot(rp[r])]
      BY <1>9, <2>2, BsaIsNoChannel DEF LoadIndex, TypeOK
    <3>4. QED
      BY <1>1, <1>2, <1>3, <1>7, <1>8, <1>9, <3>2, <3>3
      DEF LoadIndex, ReadOf, TypeOK
  <2>3. QED
    BY <1>1, <2>1, <2>2 DEF Queues
<1>10. rpc[r] \in {"lo", "hi"} /\ NotLapped(r) =>
         /\ idx[r] = Pointed(r)
         /\ Entry(r) = [lo |-> Pointed(r), hi |-> Pointed(r)]
  <2> SUFFICES ASSUME rpc[r] \in {"lo", "hi"}, NotLapped(r)
               PROVE  /\ idx[r] = Pointed(r)
                      /\ Entry(r) = [lo |-> Pointed(r), hi |-> Pointed(r)]
    OBVIOUS
  <2>1. idx[r] = Pointed(r)
    BY DEF ReadOf, NotLapped, Near
  <2>2. CASE q = BSA
    <3>1. Pointed(r) = rp[r]
      BY <1>1, <1>7, <2>2 DEF Pointed, LogInv, WritePointer
    <3>2. rp[r] \in 0 .. (bsawp - 1) /\ bsawp - rp[r] < MAX_TPR_BSAQ
      BY <1>7, <2>2 DEF NotLapped, WritePointer
    <3>3. bsaq[BsaSlot(rp[r])] = [lo |-> rp[r], hi |-> rp[r]]
      BY <3>2 DEF BsaqInv
    <3>4. QED
      BY <2>1, <2>2, <3>1, <3>3 DEF Entry
  <2>3. CASE q \in Chans
    <3>1. q # BSA /\ WritePointer(q) = allwp[q]
      BY <2>3, BsaIsNoChannel DEF WritePointer
    <3>2. Pointed(r) < gwp \/ (Pointed(r) = gwp /\ Writing)
      BY <1>7, <2>3, <3>1 DEF LogInv, Pointed
    <3>3. gwp - Pointed(r) < MAX_TPR_ALLQ
      BY <3>1 DEF NotLapped
    <3>4. allq[AllSlot(Pointed(r))] = [lo |-> Pointed(r), hi |-> Pointed(r)]
      <4>1. CASE Pointed(r) < gwp
        <5>1. Pointed(r) \in 0 .. (gwp - 1)
          BY <1>7, <4>1 DEF TypeOK
        <5>2. QED
          BY <3>3, <5>1 DEF AllqInv
      <4>2. CASE Pointed(r) = gwp /\ Writing
        BY <4>2 DEF AllqInv
      <4>3. QED
        BY <3>2, <4>1, <4>2
    <3>5. QED
      BY <2>1, <3>1, <3>4 DEF Entry
  <2>4. QED
    BY <1>1, <2>2, <2>3 DEF Queues
<1>11. CASE LoadLo(r)
  BY <1>1, <1>2, <1>3, <1>8, <1>10, <1>11 DEF LoadLo, ReadOf, TypeOK
<1>12. CASE LoadHi(r)
  BY <1>1, <1>2, <1>3, <1>8, <1>10, <1>12 DEF LoadHi, ReadOf, TypeOK
<1>13. QED
  BY <1>4, <1>5, <1>6, <1>9, <1>11, <1>12 DEF Reader

\* Another reader's step, or none, changes nothing of this reader.
LEMMA ReadAside ==
    ASSUME TypeOK, NEW r \in Readers, ReadOf(r), UNCHANGED writerVars,
           rpc'[r] = rpc[r], rque'[r] = rque[r], rp'[r] = rp[r],
           idx'[r] = idx[r], lo'[r] = lo[r], hi'[r] = hi[r]
    PROVE  ReadOf(r)'
  BY DEF writerVars, ReadOf, WritePointer, Near, NotLapped, Pointed

LEMMA ReadStep ==
    TypeOK /\ LogInv /\ AllqInv /\ AllrpInv /\ BsaqInv /\ ReadInv /\ [Next]_vars
      => ReadInv'
<1> SUFFICES ASSUME TypeOK, LogInv, AllqInv, AllrpInv, BsaqInv, ReadInv, [Next]_vars,
                    NEW r \in Readers
             PROVE  ReadOf(r)'
  BY DEF ReadInv
<1>1. ReadOf(r)
  BY DEF ReadInv
<1>2. CASE Tasklet
  BY <1>1, <1>2, ReadKept
<1>3. CASE Reader(r)
  BY <1>1, <1>3, ReadOwn
<1>4. ASSUME NEW s \in Readers, s # r, Reader(s) PROVE ReadOf(r)'
  <2>1. /\ rpc'[r] = rpc[r] /\ rque'[r] = rque[r] /\ rp'[r] = rp[r]
        /\ idx'[r] = idx[r] /\ lo'[r] = lo[r] /\ hi'[r] = hi[r]
    BY <1>4 DEF Reader, Attach, Test, LoadIndex, LoadLo, LoadHi, Advance, TypeOK
  <2>2. UNCHANGED writerVars
    BY <1>4, ReaderReads
  <2>3. QED
    BY <1>1, <2>1, <2>2, ReadAside
<1>5. CASE UNCHANGED vars
  BY <1>1, <1>5, ReadAside DEF vars, readerVars
<1>6. QED
  BY <1>2, <1>3, <1>4, <1>5 DEF Next

-----------------------------------------------------------------------------
(* The theorems                                                             *)

\* The slots, counters and readers of tpr.c's queues are in IInv in every state:
\* the inductive invariant from which the two theorems below follow.
THEOREM Invariant == Spec => []IInv
<1>1. IInv /\ [Next]_vars => IInv'
  BY TypeStep, LogStep, AllqStep, AllrpStep, BsaqStep, ReadStep DEF IInv
<1>2. QED
  BY InvInit, <1>1, PTL DEF Spec

\* Whatever is being written, the last messages of allq, of each channel's index
\* and of bsaq are whole and in their slots.
THEOREM WindowCorrect == Spec => []WindowKept
<1>1. IInv => WindowKept
  BY DEF IInv, AllqInv, AllrpInv, BsaqInv, WindowKept
<1>2. QED
  BY Invariant, <1>1, PTL

\* A reader that is still within a queue's length of the tasklet when it has
\* loaded an entry has the whole next message of its queue in hand, however the
\* two interleave.
THEOREM ReadsCorrect == Spec => []ReadCorrect
<1>1. IInv => ReadCorrect
  BY DEF IInv, ReadInv, ReadOf, ReadCorrect
<1>2. QED
  BY Invariant, <1>1, PTL
=============================================================================
