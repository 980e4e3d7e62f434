-------------------------- MODULE SsiPcieProofs ---------------------------
(***************************************************************************)
(* Proofs about the older driver, for every number of buffers and lanes: no  *)
(* buffer is lost or in two places (RxOnce, Conserved), each receive buffer  *)
(* keeps to its lane (LaneKept), IOCTL_Dump_Debug reports the right buffers  *)
(* (MissingAreOut), and the receive side implements SsiFifo.                 *)
(*                                                                         *)
(* On the receive side only the handler's writes could lose one: rxWrite must  *)
(* not catch up with rxRead. The slots of the ring other than the one at     *)
(* rxRead hold different buffers, the handler's included (RingInv, PlaceInv); *)
(* were the ring full there would be RxCnt + 1 of them (NotFull). It is the   *)
(* second spare slot of the ring that makes up for the one whose buffer the   *)
(* reader has given back but not yet passed.                                 *)
(*                                                                         *)
(* The argument for the transmit side is the same, with the writer in the    *)
(* place of the reader; but a transmit buffer has no lane of its own, so it  *)
(* must be shown not to be in two lanes' descriptor FIFOs.                   *)
(*                                                                         *)
(* For the refinement, ring, handler, done FIFO and reader together are two  *)
(* queues of frames, read off the code's variables (Pending, Ready). Their   *)
(* frames sit in buffers that are in the ring, in the handler's hand or done, *)
(* and the card writes only to free ones (PlaceInv), so a frame stays what it *)
(* is until it is read; and the ring's two ends move by one slot at a time.  *)
(***************************************************************************)
EXTENDS SsiPcie, FiniteSetTheorems, SequenceTheorems, TLAPS

Has(s, x)  == \E i \in 1 .. Len(s) : s[i] = x
NoTwice(s) == \A i, j \in 1 .. Len(s) : s[i] = s[j] => i = j

\* The buffers SsiPcie_Probe gives to a lane, and what the card reports of them.
OfLane(l)   == {b \in RxBuffers : b % DmaSize = l}
Report(b)   == [buf |-> b, lane |-> b % DmaSize]
Completions == {Report(b) : b \in RxBuffers}

CardInv ==
    /\ rxFree \in [Lanes -> Seq(RxBuffers)]
    /\ \A l \in Lanes : rxFree[l] \in Seq(OfLane(l)) /\ NoTwice(rxFree[l])
    /\ engine \in [Lanes -> RxBuffers \cup {None}]
    /\ \A l \in Lanes : engine[l] # None => engine[l] \in OfLane(l)
    /\ rxDone \in Seq(Completions) /\ NoTwice(rxDone)

LaneInv == lane = [b \in RxBuffers |-> b % DmaSize]

RingInv ==
    /\ rxQueue \in [Slots(RxCnt) -> RxBuffers \cup {None}]
    /\ rxRead \in Slots(RxCnt) /\ rxWrite \in Slots(RxCnt)
    /\ \A s \in Slots(RxCnt) : RxLive(s) => rxQueue[s] \in RxBuffers
    /\ \A s, t \in Slots(RxCnt) : RxLive(s) /\ RxLive(t) /\ rxQueue[s] = rxQueue[t] => s = t
    /\ rpc \in {"copy", "give", "advance"} => rxRead # rxWrite
    /\ ipc \in {"rxstore", "rxadvance"} => got \in RxBuffers
    /\ ipc = "rxadvance" => rxQueue[rxWrite] = got

\* Where a receive buffer can be.
Queued(b)  == \E s \in Slots(RxCnt) : RxLive(s) /\ rxQueue[s] = b
InHand(b)  == ipc \in {"rxstore", "rxadvance"} /\ got = b
Done(b)    == Has(rxDone, Report(b))
Free(b)    == Has(rxFree[b % DmaSize], b)
Filling(b) == engine[b % DmaSize] = b

Somewhere(b) == Queued(b) \/ InHand(b) \/ Done(b) \/ Free(b) \/ Filling(b)
Once(b) ==
    /\ Queued(b) => ~ InHand(b) /\ ~ Done(b) /\ ~ Free(b) /\ ~ Filling(b)
    /\ InHand(b) => ~ Done(b) /\ ~ Free(b) /\ ~ Filling(b)
    /\ Done(b)   => ~ Free(b) /\ ~ Filling(b)
    /\ Free(b)   => ~ Filling(b)

PlaceInv == \A b \in RxBuffers : Somewhere(b) /\ Once(b)

IInv == CardInv /\ LaneInv /\ RingInv /\ PlaceInv

-----------------------------------------------------------------------------
(* Arithmetic and sequences                                                 *)

LEMMA Dealt ==
    ASSUME NEW D \in 1 .. 16, NEW R \in Nat \ {0}, NEW l \in 0 .. (D - 1),
           NEW i \in 1 .. ((R - 1 - l) \div D + 1)
    PROVE  l + (i - 1) * D \in 0 .. (R - 1) /\ (l + (i - 1) * D) % D = l
<1>1. l + (i - 1) * D \in 0 .. (R - 1)
  BY SMTT(60)
<1>2. ASSUME NEW k \in Nat PROVE (l + k * D) % D = l
  BY SMTT(60)
<1> QED
  BY <1>1, <1>2

\* The other way about: a buffer is the k-th of its lane.
LEMMA DealtAll ==
    ASSUME NEW D \in 1 .. 16, NEW R \in Nat \ {0}, NEW b \in 0 .. (R - 1),
           NEW l \in 0 .. (D - 1), b % D = l
    PROVE  \E i \in 1 .. ((R - 1 - l) \div D + 1) : l + (i - 1) * D = b
<1> DEFINE k == b \div D
<1>1. b = D * k + l /\ k \in Nat
  BY SMTT(60)
<1> HIDE DEF k
<1>2. k + 1 \in 1 .. ((R - 1 - l) \div D + 1)
  BY <1>1, SMTT(60)
<1>3. l + ((k + 1) - 1) * D = b
  BY <1>1, SMTT(60)
<1> QED
  BY <1>2, <1>3

LEMMA Lane == ASSUME NEW b \in RxBuffers PROVE b % DmaSize \in Lanes
  BY CountAssumption DEF RxBuffers, Lanes

LEMMA Turn ==
    ASSUME NEW cnt \in Nat \ {0}, NEW p \in Slots(cnt)
    PROVE  /\ Advance(p, cnt) \in Slots(cnt)
           /\ Advance(p, cnt) = IF p = cnt + 1 THEN 0 ELSE p + 1
<1> DEFINE N == cnt + 2
<1>1. N \in Nat /\ N > 2 /\ p \in 0 .. (N - 1)
  BY DEF Slots, RingSize
<1> HIDE DEF N
<1>2. (p + 1) % N = IF p = N - 1 THEN 0 ELSE p + 1
  BY <1>1, SMTT(30)
<1>3. (p + 1) % (cnt + 2) = IF p = cnt + 1 THEN 0 ELSE p + 1
  BY <1>2 DEF N
<1> QED
  BY <1>3 DEF Advance, Slots, RingSize

\* What moving a pointer does to the slots between them.
LEMMA WindowMoves ==
    ASSUME NEW cnt \in Nat \ {0}, NEW rd \in Slots(cnt), NEW wr \in Slots(cnt)
    PROVE  /\ ~ Window(wr, rd, wr)
           /\ rd # wr => Window(rd, rd, wr)
           /\ rd # wr => \A s \in Slots(cnt) : Window(s, Advance(rd, cnt), wr) <=> Window(s, rd, wr) /\ s # rd
           /\ Advance(wr, cnt) # rd =>
                \A s \in Slots(cnt) : Window(s, rd, Advance(wr, cnt)) <=> Window(s, rd, wr) \/ s = wr
           /\ Advance(wr, cnt) = rd => rd # wr /\ \A s \in Slots(cnt) : s = wr \/ Window(s, rd, wr)
<1>1. /\ Advance(rd, cnt) = IF rd = cnt + 1 THEN 0 ELSE rd + 1
      /\ Advance(wr, cnt) = IF wr = cnt + 1 THEN 0 ELSE wr + 1
  BY Turn
<1> QED
  BY <1>1 DEF Window, Slots, RingSize

\* A ring with two slots more than there are buffers is never full: beside a
\* slot that does not count there is a spare one.
LEMMA Spare ==
    ASSUME NEW cnt \in Nat \ {0}, NEW rd \in Slots(cnt), NEW queue,
           \A s \in Slots(cnt) \ {rd} : queue[s] \in 0 .. (cnt - 1),
           \A s, t \in Slots(cnt) \ {rd} : queue[s] = queue[t] => s = t
    PROVE  FALSE
<1> DEFINE T == Slots(cnt) \ {rd}
           B == 0 .. (cnt - 1)
           g == [s \in T |-> queue[s]]
<1>0. g \in [T -> B]
  OBVIOUS
<1>1. \A s, t \in T : s # t => g[s] # g[t]
  OBVIOUS
<1>2. IsFiniteSet(B) /\ Cardinality(B) = cnt
  BY FS_Interval
<1>3. IsFiniteSet(Slots(cnt)) /\ Cardinality(Slots(cnt)) = cnt + 2
  BY FS_Interval DEF Slots, RingSize
<1>4. IsFiniteSet(T) /\ Cardinality(T) = cnt + 1
  BY <1>3, FS_RemoveElement
<1> HIDE DEF T, B, g
<1>5. Cardinality(B) < Cardinality(T)
  BY <1>2, <1>4
<1>6. \E s, t \in T : s # t /\ g[s] = g[t]
  BY <1>0, <1>2, <1>4, <1>5, FS_PigeonHole, SMT
<1> QED
  BY <1>1, <1>6

LEMMA NoneApart == None \notin RxBuffers
  BY NoneAssumption, CountAssumption DEF RxBuffers

LEMMA AppendHas ==
    ASSUME NEW S, NEW s \in Seq(S), NEW x \in S
    PROVE  /\ \A y : Has(Append(s, x), y) <=> Has(s, y) \/ y = x
           /\ NoTwice(s) /\ ~ Has(s, x) => NoTwice(Append(s, x))
<1>1. /\ Len(s) \in Nat /\ Len(Append(s, x)) = Len(s) + 1
      /\ \A i \in 1 .. Len(s) : Append(s, x)[i] = s[i]
      /\ Append(s, x)[Len(s) + 1] = x
  OBVIOUS
<1>2. ASSUME NEW y PROVE Has(Append(s, x), y) <=> Has(s, y) \/ y = x
  BY <1>1 DEF Has
<1>3. ASSUME NoTwice(s), ~ Has(s, x) PROVE NoTwice(Append(s, x))
  BY <1>1, <1>3 DEF NoTwice, Has
<1> QED
  BY <1>2, <1>3

LEMMA TailHas ==
    ASSUME NEW S, NEW s \in Seq(S), s # <<>>, NoTwice(s)
    PROVE  /\ Head(s) \in S /\ Tail(s) \in Seq(S) /\ NoTwice(Tail(s))
           /\ Has(s, Head(s))
           /\ \A y : Has(Tail(s), y) <=> Has(s, y) /\ y # Head(s)
<1>1. /\ Len(s) \in Nat /\ Len(s) > 0 /\ Len(Tail(s)) = Len(s) - 1
      /\ \A i \in 1 .. (Len(s) - 1) : Tail(s)[i] = s[i + 1]
      /\ Head(s) = s[1] /\ Head(s) \in S /\ Tail(s) \in Seq(S)
  OBVIOUS
<1>2. NoTwice(Tail(s))
  BY <1>1 DEF NoTwice
<1>3. ASSUME NEW y, Has(Tail(s), y) PROVE Has(s, y) /\ y # Head(s)
  <2>1. PICK i \in 1 .. (Len(s) - 1) : s[i + 1] = y
    BY <1>1, <1>3 DEF Has
  <2>2. i + 1 \in 1 .. Len(s) /\ i + 1 # 1 /\ 1 \in 1 .. Len(s)
    BY <1>1
  <2> QED
    BY <1>1, <2>1, <2>2 DEF Has, NoTwice
<1>4. ASSUME NEW y, Has(s, y), y # Head(s) PROVE Has(Tail(s), y)
  <2>1. PICK i \in 1 .. Len(s) : s[i] = y
    BY <1>4 DEF Has
  <2>2. i # 1 /\ i - 1 \in 1 .. (Len(s) - 1) /\ (i - 1) + 1 = i
    BY <1>1, <1>4, <2>1
  <2> QED
    BY <1>1, <2>1, <2>2 DEF Has
<1> QED
  BY <1>1, <1>2, <1>3, <1>4 DEF Has

-----------------------------------------------------------------------------
(* Receive side: the initial states                                         *)

LEMMA CardInit == Init => CardInv /\ \A b \in RxBuffers : Free(b)
<1> SUFFICES ASSUME Init PROVE CardInv /\ \A b \in RxBuffers : Free(b)
  OBVIOUS
<1> DEFINE Hand(l) == [i \in 1 .. ((RxCnt - 1 - l) \div DmaSize + 1) |-> l + (i - 1) * DmaSize]
<1>1. ASSUME NEW l \in Lanes
      PROVE  /\ Hand(l) \in Seq(OfLane(l)) /\ Hand(l) \in Seq(RxBuffers) /\ NoTwice(Hand(l))
             /\ \A b \in OfLane(l) : Has(Hand(l), b)
  <2> DEFINE n    == (RxCnt - 1 - l) \div DmaSize + 1
             h(i) == l + (i - 1) * DmaSize
  <2>1. n \in Nat
    BY CountAssumption, SMTT(30) DEF Lanes
  <2>2. \A i \in 1 .. n : h(i) \in OfLane(l) /\ h(i) \in RxBuffers
    BY Dealt, CountAssumption DEF Lanes, RxBuffers, OfLane
  <2>3. \A i, j \in 1 .. n : h(i) = h(j) => i = j
    <3>1. ASSUME NEW i \in 1 .. n, NEW j \in 1 .. n, h(i) = h(j) PROVE i = j
      <4>1. (i - j) * DmaSize = 0 /\ i - j \in Int /\ DmaSize \in Nat \ {0}
        BY <2>1, <3>1, CountAssumption, SMTT(30) DEF Lanes
      <4>2. i - j = 0
        BY <4>1, SMTT(30)
      <4> QED
        BY <4>2, <2>1
    <3> QED
      BY <3>1
  <2>4. \A b \in OfLane(l) : \E i \in 1 .. n : h(i) = b
    BY DealtAll, CountAssumption DEF OfLane, RxBuffers, Lanes
  <2> HIDE DEF n, h
  <2>5. /\ [i \in 1 .. n |-> h(i)] \in Seq(OfLane(l)) /\ [i \in 1 .. n |-> h(i)] \in Seq(RxBuffers)
        /\ Len([i \in 1 .. n |-> h(i)]) = n
    BY <2>1, <2>2
  <2>6. NoTwice([i \in 1 .. n |-> h(i)]) /\ \A b \in OfLane(l) : Has([i \in 1 .. n |-> h(i)], b)
    BY <2>3, <2>4, <2>5 DEF NoTwice, Has
  <2> QED
    BY <2>5, <2>6 DEF n, h
<1>2. rxFree = [l \in Lanes |-> Hand(l)]
  BY DEF Init
<1> HIDE DEF Hand
<1>3. CardInv
  <2>1. /\ rxFree \in [Lanes -> Seq(RxBuffers)]
        /\ \A l \in Lanes : rxFree[l] \in Seq(OfLane(l)) /\ NoTwice(rxFree[l])
    BY <1>1, <1>2
  <2>2. /\ engine \in [Lanes -> RxBuffers \cup {None}]
        /\ \A l \in Lanes : engine[l] # None => engine[l] \in OfLane(l)
    BY DEF Init
  <2>3. rxDone \in Seq(Completions) /\ NoTwice(rxDone)
    BY DEF Init, NoTwice
  <2> QED
    BY <2>1, <2>2, <2>3 DEF CardInv
<1>4. ASSUME NEW b \in RxBuffers PROVE Free(b)
  BY <1>1, <1>2, Lane DEF Free, OfLane
<1> QED
  BY <1>3, <1>4

LEMMA InvInit == Init => IInv
<1> SUFFICES ASSUME Init PROVE IInv
  OBVIOUS
<1>1. LaneInv
  BY DEF Init, LaneInv
<1>2. RingInv /\ \A s \in Slots(RxCnt) : ~ RxLive(s)
  BY CountAssumption DEF Init, RingInv, Slots, RingSize, Window, RxLive
<1>3. PlaceInv
  <2> SUFFICES ASSUME NEW b \in RxBuffers PROVE Somewhere(b) /\ Once(b)
    BY DEF PlaceInv
  <2>1. ~ Queued(b)
    BY <1>2 DEF Queued
  <2>2. ~ InHand(b) /\ ~ Done(b)
    BY DEF Init, InHand, Done, Has
  <2>3. ~ Filling(b)
    BY Lane, NoneApart DEF Init, Filling
  <2>4. Free(b)
    BY CardInit
  <2> QED
    BY <2>1, <2>2, <2>3, <2>4 DEF Somewhere, Once
<1> QED
  BY <1>1, <1>2, <1>3, CardInit DEF IInv

-----------------------------------------------------------------------------
(* Receive side: the ring                                                   *)

\* The handler never catches up with the reader.
LEMMA NotFull ==
    ASSUME IInv, ipc = "rxadvance"
    PROVE  Advance(rxWrite, RxCnt) # rxRead
<1> SUFFICES ASSUME Advance(rxWrite, RxCnt) = rxRead PROVE FALSE
  OBVIOUS
<1>1. rxWrite \in Slots(RxCnt) /\ rxRead \in Slots(RxCnt)
  BY DEF IInv, RingInv
<1>2. \A s \in Slots(RxCnt) \ {rxRead} : s = rxWrite \/ RxLive(s)
  BY <1>1, WindowMoves, CountAssumption DEF RxLive
<1>3. got \in RxBuffers /\ rxQueue[rxWrite] = got /\ InHand(got)
  BY DEF IInv, RingInv, InHand
<1>4. \A s \in Slots(RxCnt) : RxLive(s) => rxQueue[s] \in RxBuffers /\ rxQueue[s] # got
  BY <1>3 DEF IInv, RingInv, PlaceInv, Once, Queued
<1>5. \A s \in Slots(RxCnt) \ {rxRead} : rxQueue[s] \in 0 .. (RxCnt - 1)
  BY <1>2, <1>3, <1>4 DEF RxBuffers
<1>6. \A s, t \in Slots(RxCnt) \ {rxRead} : rxQueue[s] = rxQueue[t] => s = t
  BY <1>2, <1>3, <1>4 DEF IInv, RingInv
<1> QED
  BY <1>1, <1>5, <1>6, Spare, CountAssumption

-----------------------------------------------------------------------------
(* Receive side: the steps                                                  *)

\* The memory, the transmit side and the files do not matter here.
receive == <<rxFree, engine, rxDone, lane, rxQueue, rxRead, rxWrite>>

LEMMA Aside ==
    ASSUME IInv, UNCHANGED receive,
           \/ rpc' = rpc
           \/ /\ rpc # "advance" /\ rpc' # "advance"
              /\ rpc' \in {"copy", "give"} => rxRead # rxWrite,
           \/ ipc' = ipc /\ got' = got
           \/ ipc \notin {"rxstore", "rxadvance"} /\ ipc' \notin {"rxstore", "rxadvance"}
    PROVE  IInv'
<1>1. CardInv' /\ LaneInv'
  BY DEF IInv, CardInv, LaneInv, receive
<1>2. \A s : RxLive(s)' <=> RxLive(s)
  BY DEF RxLive, receive
<1>3. RingInv'
  BY <1>2 DEF IInv, RingInv, receive
<1>4. \A b : /\ Queued(b)' <=> Queued(b)
             /\ InHand(b)' <=> InHand(b)
             /\ Done(b)' <=> Done(b)
             /\ Free(b)' <=> Free(b)
             /\ Filling(b)' <=> Filling(b)
  BY <1>2 DEF Queued, InHand, Done, Free, Filling, receive
<1>5. PlaceInv'
  BY <1>4 DEF IInv, PlaceInv, Somewhere, Once
<1> QED
  BY <1>1, <1>3, <1>5 DEF IInv

\* One buffer goes from one place to another, and no other buffer goes anywhere.
LEMMA Moved ==
    ASSUME PlaceInv, NEW x \in RxBuffers,
           \A b \in RxBuffers : b # x =>
             /\ Queued(b)' <=> Queued(b)
             /\ InHand(b)' <=> InHand(b)
             /\ Done(b)' <=> Done(b)
             /\ Free(b)' <=> Free(b)
             /\ Filling(b)' <=> Filling(b),
           Somewhere(x)' /\ Once(x)'
    PROVE  PlaceInv'
  BY DEF PlaceInv, Somewhere, Once

\* A buffer added to the free FIFO of its lane.
LEMMA Given ==
    ASSUME CardInv, NEW x \in RxBuffers, ~ Free(x),
           rxFree' = [rxFree EXCEPT ![x % DmaSize] = Append(@, x)]
    PROVE  /\ rxFree' \in [Lanes -> Seq(RxBuffers)]
           /\ \A l \in Lanes : rxFree'[l] \in Seq(OfLane(l)) /\ NoTwice(rxFree'[l])
           /\ \A b \in RxBuffers : Free(b)' <=> Free(b) \/ b = x
<1> DEFINE h == x % DmaSize
<1>1. h \in Lanes /\ \A b \in RxBuffers : b % DmaSize \in Lanes
  BY Lane
<1>2. x \in OfLane(h)
  BY DEF OfLane
<1>3. ~ Has(rxFree[h], x)
  BY DEF Free
<1>4. rxFree' = [rxFree EXCEPT ![h] = Append(@, x)]
  OBVIOUS
<1> HIDE DEF h
<1>5. rxFree[h] \in Seq(OfLane(h)) /\ rxFree[h] \in Seq(RxBuffers) /\ NoTwice(rxFree[h])
  BY <1>1 DEF CardInv
<1>6. /\ Append(rxFree[h], x) \in Seq(RxBuffers) /\ Append(rxFree[h], x) \in Seq(OfLane(h))
      /\ NoTwice(Append(rxFree[h], x))
      /\ \A y : Has(Append(rxFree[h], x), y) <=> Has(rxFree[h], y) \/ y = x
  BY <1>2, <1>3, <1>5, AppendHas
<1>7. \A l \in Lanes : rxFree'[l] = IF l = h THEN Append(rxFree[h], x) ELSE rxFree[l]
  BY <1>4 DEF CardInv
<1>8. rxFree' \in [Lanes -> Seq(RxBuffers)]
  BY <1>1, <1>4, <1>6 DEF CardInv
<1>9. \A l \in Lanes : rxFree'[l] \in Seq(OfLane(l)) /\ NoTwice(rxFree'[l])
  BY <1>6, <1>7 DEF CardInv
<1>10. \A b \in RxBuffers : Free(b)' <=> Free(b) \/ b = x
  BY <1>1, <1>6, <1>7 DEF Free, h
<1> QED
  BY <1>8, <1>9, <1>10

\* A buffer taken from the head of the free FIFO of a lane.
LEMMA Taken ==
    ASSUME IInv, NEW l \in Lanes, NEW y, Fill(l, y), rxDone' = rxDone,
           UNCHANGED <<lane, rxQueue, rxRead, rxWrite, rpc, ipc, got>>
    PROVE  IInv'
<1> DEFINE x == Head(rxFree[l])
<1>1. /\ rxFree[l] # <<>> /\ engine[l] = None
      /\ engine' = [engine EXCEPT ![l] = x]
      /\ rxFree' = [rxFree EXCEPT ![l] = Tail(rxFree[l])]
  BY DEF Fill
<1>2. rxFree[l] \in Seq(OfLane(l)) /\ rxFree[l] \in Seq(RxBuffers) /\ NoTwice(rxFree[l])
  BY DEF IInv, CardInv
<1>3. /\ x \in OfLane(l) /\ x \in RxBuffers /\ Has(rxFree[l], x)
      /\ Tail(rxFree[l]) \in Seq(OfLane(l)) /\ Tail(rxFree[l]) \in Seq(RxBuffers)
      /\ NoTwice(Tail(rxFree[l]))
      /\ \A z : Has(Tail(rxFree[l]), z) <=> Has(rxFree[l], z) /\ z # x
  BY <1>1, <1>2, TailHas
<1>4. x % DmaSize = l /\ x # None
  BY <1>3, NoneApart DEF OfLane
<1> HIDE DEF x
<1>5. /\ \A k \in Lanes : rxFree'[k] = IF k = l THEN Tail(rxFree[l]) ELSE rxFree[k]
      /\ \A k \in Lanes : engine'[k] = IF k = l THEN x ELSE engine[k]
  BY <1>1 DEF IInv, CardInv
<1>6. CardInv'
  <2>1. rxFree' \in [Lanes -> Seq(RxBuffers)]
    BY <1>1, <1>3 DEF IInv, CardInv
  <2>2. \A k \in Lanes : rxFree'[k] \in Seq(OfLane(k)) /\ NoTwice(rxFree'[k])
    BY <1>3, <1>5 DEF IInv, CardInv
  <2>3. engine' \in [Lanes -> RxBuffers \cup {None}]
    BY <1>1, <1>3 DEF IInv, CardInv
  <2>4. \A k \in Lanes : engine'[k] # None => engine'[k] \in OfLane(k)
    BY <1>3, <1>5 DEF IInv, CardInv
  <2> QED
    BY <2>1, <2>2, <2>3, <2>4 DEF IInv, CardInv
<1>7. \A s : RxLive(s)' <=> RxLive(s)
  BY DEF RxLive
<1>8. LaneInv' /\ RingInv'
  BY <1>7 DEF IInv, LaneInv, RingInv
<1>9. \A b \in RxBuffers : /\ Queued(b)' <=> Queued(b)
                           /\ InHand(b)' <=> InHand(b)
                           /\ Done(b)' <=> Done(b)
  BY <1>7 DEF Queued, InHand, Done
<1>10. \A b \in RxBuffers : Free(b)' <=> Free(b) /\ b # x
  BY <1>3, <1>4, <1>5, Lane DEF Free
<1>11. \A b \in RxBuffers : Filling(b)' <=> Filling(b) \/ b = x
  BY <1>1, <1>4, <1>5, Lane, NoneApart DEF Filling
<1>12. Free(x)
  BY <1>3, <1>4 DEF Free
<1>13. PlaceInv'
  BY <1>3, <1>9, <1>10, <1>11, <1>12 DEF IInv, PlaceInv, Somewhere, Once
<1> QED
  BY <1>6, <1>8, <1>13 DEF IInv

LEMMA CompleteStep == ASSUME IInv, NEW l \in Lanes, Complete(l) PROVE IInv'
<1> DEFINE x == engine[l]
<1>1. /\ x # None
      /\ rxDone' = Append(rxDone, [buf |-> x, lane |-> l])
      /\ engine' = [engine EXCEPT ![l] = None]
      /\ UNCHANGED <<rxFree, lane, rxQueue, rxRead, rxWrite, rpc, ipc, got>>
  BY DEF Complete, rxVars, readVars, intVars
<1>2. x \in OfLane(l) /\ x \in RxBuffers /\ x % DmaSize = l
  BY <1>1 DEF IInv, CardInv, OfLane
<1>3. Filling(x) /\ Report(x) = [buf |-> x, lane |-> l] /\ Report(x) \in Completions
  BY <1>2 DEF Filling, Report, Completions
<1> HIDE DEF x
<1>4. ~ Has(rxDone, Report(x))
  BY <1>2, <1>3 DEF IInv, PlaceInv, Once, Done
<1>5. /\ rxDone' \in Seq(Completions) /\ NoTwice(rxDone')
      /\ \A z : Has(rxDone', z) <=> Has(rxDone, z) \/ z = Report(x)
  <2>1. rxDone \in Seq(Completions) /\ NoTwice(rxDone)
    BY DEF IInv, CardInv
  <2>2. rxDone' = Append(rxDone, Report(x))
    BY <1>1, <1>3
  <2> QED
    BY <1>3, <1>4, <2>1, <2>2, AppendHas
<1>6. \A k \in Lanes : engine'[k] = IF k = l THEN None ELSE engine[k]
  BY <1>1 DEF IInv, CardInv
<1>7. CardInv'
  <2>1. engine' \in [Lanes -> RxBuffers \cup {None}]
    BY <1>1 DEF IInv, CardInv
  <2>2. \A k \in Lanes : engine'[k] # None => engine'[k] \in OfLane(k)
    BY <1>6 DEF IInv, CardInv
  <2> QED
    BY <1>1, <1>5, <2>1, <2>2 DEF IInv, CardInv
<1>8. \A s : RxLive(s)' <=> RxLive(s)
  BY <1>1 DEF RxLive
<1>9. LaneInv' /\ RingInv'
  BY <1>1, <1>8 DEF IInv, LaneInv, RingInv
<1>10. \A b \in RxBuffers : /\ Queued(b)' <=> Queued(b)
                            /\ InHand(b)' <=> InHand(b)
                            /\ Free(b)' <=> Free(b)
  BY <1>1, <1>8 DEF Queued, InHand, Free
<1>11. \A b \in RxBuffers : Done(b)' <=> Done(b) \/ b = x
  BY <1>5 DEF Done, Report
<1>12. \A b \in RxBuffers : Filling(b)' <=> Filling(b) /\ b # x
  <2> SUFFICES ASSUME NEW b \in RxBuffers PROVE Filling(b)' <=> Filling(b) /\ b # x
    OBVIOUS
  <2>1. b % DmaSize \in Lanes
    BY Lane
  <2>2. CASE b % DmaSize = l
    BY <1>6, <2>1, <2>2, NoneApart DEF Filling, x
  <2>3. CASE b % DmaSize # l
    BY <1>2, <1>6, <2>1, <2>3 DEF Filling
  <2> QED
    BY <2>2, <2>3
<1>13. PlaceInv'
  BY <1>2, <1>3, <1>10, <1>11, <1>12 DEF IInv, PlaceInv, Somewhere, Once
<1> QED
  BY <1>7, <1>9, <1>13 DEF IInv

\* The reader gives the buffer at the head of the ring back to its lane.
LEMMA ReadGiveStep == ASSUME IInv, ReadGive PROVE IInv'
<1> DEFINE x == rxQueue[rxRead]
<1>1. /\ rxRead \in Slots(RxCnt) /\ RxLive(rxRead)
      /\ \A s : RxLive(s)' <=> RxLive(s) /\ s # rxRead
  BY WindowMoves, CountAssumption DEF IInv, RingInv, ReadGive, RxLive, rxVars
<1>2. x \in RxBuffers /\ Queued(x)
  BY <1>1 DEF IInv, RingInv, Queued
<1>3. /\ rxFree' = [rxFree EXCEPT ![x % DmaSize] = Append(@, x)]
      /\ UNCHANGED <<engine, rxDone, lane, rxQueue, rxRead, rxWrite, ipc, got>>
  BY <1>2 DEF ReadGive, Home, IInv, LaneInv, rxVars, intVars
<1>4. ~ Free(x)
  BY <1>2 DEF IInv, PlaceInv, Once
<1>5. \A b \in RxBuffers : Queued(b)' <=> Queued(b) /\ b # x
  BY <1>1, <1>3 DEF IInv, RingInv, Queued
<1> HIDE DEF x
<1>6. /\ rxFree' \in [Lanes -> Seq(RxBuffers)]
      /\ \A l \in Lanes : rxFree'[l] \in Seq(OfLane(l)) /\ NoTwice(rxFree'[l])
      /\ \A b \in RxBuffers : Free(b)' <=> Free(b) \/ b = x
  BY <1>2, <1>3, <1>4, Given DEF IInv
<1>7. CardInv'
  BY <1>3, <1>6 DEF IInv, CardInv
<1>8. LaneInv' /\ RingInv'
  BY <1>1, <1>3 DEF IInv, LaneInv, RingInv, ReadGive
<1>9. \A b \in RxBuffers : /\ InHand(b)' <=> InHand(b)
                           /\ Done(b)' <=> Done(b)
                           /\ Filling(b)' <=> Filling(b)
  BY <1>3 DEF InHand, Done, Filling
<1>10. PlaceInv'
  BY <1>2, <1>5, <1>6, <1>9 DEF IInv, PlaceInv, Somewhere, Once
<1> QED
  BY <1>7, <1>8, <1>10 DEF IInv

\* The reader moves on from a slot that no longer counts.
LEMMA ReadAdvanceStep == ASSUME IInv, ReadAdvance PROVE IInv'
<1>1. /\ rxRead \in Slots(RxCnt) /\ rxWrite \in Slots(RxCnt) /\ rxRead # rxWrite
      /\ rxRead' \in Slots(RxCnt)
      /\ rxRead' = Advance(rxRead, RxCnt)
      /\ rxQueue' = [rxQueue EXCEPT ![rxRead] = None]
      /\ rpc = "advance" /\ rpc' = "idle"
      /\ UNCHANGED <<rxFree, engine, rxDone, lane, rxWrite, ipc, got>>
  BY Turn, CountAssumption DEF IInv, RingInv, ReadAdvance, rxCard, intVars
<1>2. ~ RxLive(rxRead) /\ \A s \in Slots(RxCnt) : RxLive(s)' <=> RxLive(s)
  BY <1>1, WindowMoves, CountAssumption DEF RxLive
<1>3. \A s \in Slots(RxCnt) : s # rxRead => rxQueue'[s] = rxQueue[s]
  BY <1>1 DEF IInv, RingInv
<1>4. CardInv' /\ LaneInv'
  BY <1>1 DEF IInv, CardInv, LaneInv
<1>5. RingInv'
  <2>1. rxQueue' \in [Slots(RxCnt) -> RxBuffers \cup {None}]
    BY <1>1 DEF IInv, RingInv
  <2> QED
    BY <1>1, <1>2, <1>3, <2>1 DEF IInv, RingInv
<1>6. \A b \in RxBuffers : /\ Queued(b)' <=> Queued(b)
                           /\ InHand(b)' <=> InHand(b)
                           /\ Done(b)' <=> Done(b)
                           /\ Free(b)' <=> Free(b)
                           /\ Filling(b)' <=> Filling(b)
  BY <1>1, <1>2, <1>3 DEF Queued, InHand, Done, Free, Filling
<1>7. PlaceInv'
  BY <1>6 DEF IInv, PlaceInv, Somewhere, Once
<1> QED
  BY <1>4, <1>5, <1>7 DEF IInv

\* The handler takes a completed buffer: to the ring, or back to its lane.
LEMMA IrqRxStep == ASSUME IInv, IrqRx, rxDone # <<>> PROVE IInv'
<1> DEFINE d == Head(rxDone)
<1>1. /\ UNCHANGED <<engine, rxQueue, rxRead, rxWrite, rpc>>
      /\ rxDone' = Tail(rxDone)
      /\ ipc = "rx"
  BY DEF IrqRx, readVars
<1>2. /\ d \in Completions /\ rxDone' \in Seq(Completions) /\ NoTwice(rxDone')
      /\ Has(rxDone, d)
      /\ \A z : Has(rxDone', z) <=> Has(rxDone, z) /\ z # d
  BY <1>1, TailHas DEF IInv, CardInv
<1>3. PICK x \in RxBuffers : d = Report(x)
  BY <1>2 DEF Completions
<1>4. d.buf = x /\ d.lane = x % DmaSize /\ x % DmaSize \in Lanes
  BY <1>3, Lane DEF Report
<1>5. Done(x) /\ ~ Free(x)
  BY <1>2, <1>3 DEF Done, IInv, PlaceInv, Once
<1>6. \A b \in RxBuffers : Done(b)' <=> Done(b) /\ b # x
  BY <1>2, <1>3 DEF Done, Report
<1>7. \A s : RxLive(s)' <=> RxLive(s)
  BY <1>1 DEF RxLive
<1>8. \A b \in RxBuffers : /\ Queued(b)' <=> Queued(b)
                           /\ Filling(b)' <=> Filling(b)
                           /\ ~ InHand(b)
  BY <1>1, <1>7 DEF Queued, Filling, InHand
<1>9. CASE isOpen
  <2>1. got' = x /\ lane' = [lane EXCEPT ![x] = x % DmaSize] /\ ipc' = "rxstore" /\ rxFree' = rxFree
    BY <1>4, <1>9 DEF IrqRx
  <2>2. LaneInv'
    BY <2>1 DEF IInv, LaneInv
  <2>3. CardInv'
    BY <1>1, <1>2, <2>1 DEF IInv, CardInv
  <2>4. RingInv'
    BY <1>1, <1>7, <2>1 DEF IInv, RingInv
  <2>5. \A b \in RxBuffers : (InHand(b)' <=> b = x) /\ (Free(b)' <=> Free(b))
    BY <2>1 DEF InHand, Free
  <2>6. PlaceInv'
    BY <1>5, <1>6, <1>8, <2>5 DEF IInv, PlaceInv, Somewhere, Once
  <2> QED
    BY <2>2, <2>3, <2>4, <2>6 DEF IInv
<1>10. CASE ~ isOpen
  <2>1. /\ rxFree' = [rxFree EXCEPT ![x % DmaSize] = Append(@, x)]
        /\ UNCHANGED <<got, lane, ipc>>
    BY <1>4, <1>10 DEF IrqRx
  <2>2. /\ rxFree' \in [Lanes -> Seq(RxBuffers)]
        /\ \A l \in Lanes : rxFree'[l] \in Seq(OfLane(l)) /\ NoTwice(rxFree'[l])
        /\ \A b \in RxBuffers : Free(b)' <=> Free(b) \/ b = x
    BY <1>5, <2>1, Given DEF IInv
  <2>3. CardInv'
    BY <1>1, <1>2, <2>2 DEF IInv, CardInv
  <2>4. LaneInv' /\ RingInv'
    BY <1>1, <1>7, <2>1 DEF IInv, LaneInv, RingInv
  <2>5. \A b \in RxBuffers : ~ InHand(b)'
    BY <1>1, <2>1 DEF InHand
  <2>6. PlaceInv'
    BY <1>5, <1>6, <1>8, <2>2, <2>5 DEF IInv, PlaceInv, Somewhere, Once
  <2> QED
    BY <2>3, <2>4, <2>6 DEF IInv
<1> QED
  BY <1>9, <1>10

\* The handler stores the buffer in the slot at rxWrite.
LEMMA IrqRxStoreStep == ASSUME IInv, IrqRxStore PROVE IInv'
<1>1. /\ rxWrite \in Slots(RxCnt) /\ got \in RxBuffers
      /\ rxQueue' = [rxQueue EXCEPT ![rxWrite] = got]
      /\ ipc = "rxstore" /\ ipc' = "rxadvance"
      /\ UNCHANGED <<rxFree, engine, rxDone, lane, rxRead, rxWrite, rpc, got>>
  BY DEF IInv, RingInv, IrqRxStore, rxCard, readVars
<1>2. ~ RxLive(rxWrite) /\ \A s \in Slots(RxCnt) : RxLive(s)' <=> RxLive(s)
  BY <1>1, WindowMoves, CountAssumption DEF IInv, RingInv, RxLive
<1>3. /\ \A s \in Slots(RxCnt) : s # rxWrite => rxQueue'[s] = rxQueue[s]
      /\ rxQueue'[rxWrite] = got
  BY <1>1 DEF IInv, RingInv
<1>4. CardInv' /\ LaneInv'
  BY <1>1 DEF IInv, CardInv, LaneInv
<1>5. RingInv'
  <2>1. rxQueue' \in [Slots(RxCnt) -> RxBuffers \cup {None}]
    BY <1>1 DEF IInv, RingInv
  <2> QED
    BY <1>1, <1>2, <1>3, <2>1 DEF IInv, RingInv
<1>6. \A b \in RxBuffers : /\ Queued(b)' <=> Queued(b)
                           /\ InHand(b)' <=> InHand(b)
                           /\ Done(b)' <=> Done(b)
                           /\ Free(b)' <=> Free(b)
                           /\ Filling(b)' <=> Filling(b)
  BY <1>1, <1>2, <1>3 DEF Queued, InHand, Done, Free, Filling
<1>7. PlaceInv'
  BY <1>6 DEF IInv, PlaceInv, Somewhere, Once
<1> QED
  BY <1>4, <1>5, <1>7 DEF IInv

\* The handler moves rxWrite on: the buffer is in the ring.
LEMMA IrqRxAdvanceStep == ASSUME IInv, IrqRxAdvance PROVE IInv'
<1>1. /\ rxWrite \in Slots(RxCnt) /\ rxRead \in Slots(RxCnt)
      /\ rxWrite' \in Slots(RxCnt) /\ rxWrite' # rxRead
      /\ rxWrite' = Advance(rxWrite, RxCnt)
      /\ ipc = "rxadvance" /\ ipc' = "rx"
      /\ UNCHANGED <<rxFree, engine, rxDone, lane, rxQueue, rxRead>>
  BY Turn, NotFull, CountAssumption DEF IInv, RingInv, IrqRxAdvance, rxCard
<1>2. got \in RxBuffers /\ rxQueue[rxWrite] = got /\ InHand(got)
  BY <1>1 DEF IInv, RingInv, InHand
<1>3. rpc' = rpc \/ (rpc = "asleep" /\ rpc' = "woken")
  BY DEF IrqRxAdvance, WakeReader
<1>4. rpc = "advance" => rxRead # rxWrite
  BY DEF IInv, RingInv
<1>5. \A s \in Slots(RxCnt) : RxLive(s)' <=> RxLive(s) \/ s = rxWrite
  BY <1>1, <1>3, <1>4, WindowMoves, CountAssumption DEF RxLive
<1>6. ~ Queued(got)
  BY <1>2 DEF IInv, PlaceInv, Once
<1>7. CardInv' /\ LaneInv'
  BY <1>1 DEF IInv, CardInv, LaneInv
<1>8. RingInv'
  <2>1. \A s \in Slots(RxCnt) : RxLive(s)' => rxQueue'[s] \in RxBuffers
    BY <1>1, <1>2, <1>5 DEF IInv, RingInv
  <2>2. ASSUME NEW s \in Slots(RxCnt), NEW t \in Slots(RxCnt),
               RxLive(s)', RxLive(t)', rxQueue'[s] = rxQueue'[t]
        PROVE  s = t
    BY <1>1, <1>2, <1>5, <1>6, <2>2 DEF IInv, RingInv, Queued
  <2> QED
    BY <1>1, <1>3, <2>1, <2>2 DEF IInv, RingInv
<1>9. \A b \in RxBuffers : Queued(b)' <=> Queued(b) \/ b = got
  BY <1>1, <1>2, <1>5 DEF Queued
<1>10. \A b \in RxBuffers : (InHand(b) <=> b = got) /\ ~ InHand(b)'
  BY <1>1 DEF InHand
<1>11. \A b \in RxBuffers : /\ Done(b)' <=> Done(b)
                            /\ Free(b)' <=> Free(b)
                            /\ Filling(b)' <=> Filling(b)
  BY <1>1 DEF Done, Free, Filling
<1>12. PlaceInv'
  BY <1>2, <1>9, <1>10, <1>11 DEF IInv, PlaceInv, Somewhere, Once
<1> QED
  BY <1>7, <1>8, <1>12 DEF IInv

LEMMA InvStep == IInv /\ [Next]_vars => IInv'
<1> SUFFICES ASSUME IInv, [Next]_vars PROVE IInv'
  OBVIOUS
<1> USE DEF receive, rxVars, rxCard, readVars, intVars
<1>1. ASSUME NEW f \in Files,
             Open(f) \/ OpenSet(f) \/ Release(f) \/ WriteCall(f) \/ Loopback(f)
      PROVE  IInv'
  BY <1>1, Aside DEF Open, OpenSet, Release, WriteCall, Loopback
<1>2. ASSUME NEW f \in Files, ReadCall(f) PROVE IInv'
  BY <1>2, Aside DEF ReadCall
<1>3. CASE ReadWoken
  BY <1>3, Aside DEF ReadWoken
<1>4. CASE ReadSignal
  BY <1>4, Aside DEF ReadSignal
<1>5. CASE ReadCopy
  BY <1>5, Aside DEF ReadCopy, IInv, RingInv
<1>6. CASE ReadGive
  BY <1>6, ReadGiveStep
<1>7. CASE ReadAdvance
  BY <1>7, ReadAdvanceStep
<1>8. CASE WriteWoken \/ WriteCopy \/ WritePost \/ WriteAdvance \/ WriteSignal
  BY <1>8, Aside DEF WriteWoken, WriteCopy, WritePost, WriteAdvance, WriteSignal
<1>9. CASE IrqEnter \/ IrqTx \/ IrqTxStore \/ IrqTxAdvance \/ IrqEnd
  BY <1>9, Aside DEF IrqEnter, IrqTx, IrqTxStore, IrqTxAdvance, IrqEnd
<1>10. CASE IrqRx
  <2>1. CASE rxDone = <<>>
    BY <1>10, <2>1, Aside DEF IrqRx
  <2>2. CASE rxDone # <<>>
    BY <1>10, <2>2, IrqRxStep
  <2> QED
    BY <2>1, <2>2
<1>11. CASE IrqRxStore
  BY <1>11, IrqRxStoreStep
<1>12. CASE IrqRxAdvance
  BY <1>12, IrqRxAdvanceStep
<1>13. ASSUME NEW l \in Lanes, Receive(l) PROVE IInv'
  <2>1. PICK x \in Frames : Fill(l, x)
    BY <1>13 DEF Receive
  <2> QED
    BY <1>13, <2>1, Taken DEF Receive
<1>14. ASSUME NEW l \in Lanes, Complete(l) PROVE IInv'
  BY <1>14, CompleteStep
<1>15. ASSUME NEW l \in Lanes, Send(l) PROVE IInv'
  <2>1. CASE l \in dmaLoopback
    BY <1>15, <2>1, Taken DEF Send
  <2>2. CASE l \notin dmaLoopback
    BY <1>15, <2>2, Aside DEF Send
  <2> QED
    BY <2>1, <2>2
<1>16. CASE UNCHANGED vars
  BY <1>16, Aside DEF vars
<1> QED
  BY <1>1, <1>2, <1>3, <1>4, <1>5, <1>6, <1>7, <1>8, <1>9, <1>10, <1>11, <1>12, <1>13, <1>14,
     <1>15, <1>16 DEF Next, Reader, Writer, Handler

-----------------------------------------------------------------------------
(* Receive side: the theorems                                               *)

LEMMA Inductive == Spec => []IInv
  BY InvInit, InvStep, PTL DEF Spec

\* The receive side of Conserved for every size: each receive buffer is in one
\* place and in one only, whatever opens, reads, signals and frames come.
THEOREM RxOnce == Spec => []PlaceInv
  BY Inductive, PTL DEF IInv

\* The reader finds a buffer whenever it has found rxRead and rxWrite apart, and the handler
\* never fills the ring so far that the two look equal.
RingSound ==
    /\ rpc \in {"copy", "give"} => rxQueue[rxRead] \in RxBuffers
    /\ ipc = "rxadvance" => Advance(rxWrite, RxCnt) # rxRead

\* The two slots that the ring has more than there are buffers are enough for the
\* handler and the reader, which share no lock (SsiPcie.c:298-308, 625-640).
THEOREM RingHolds == Spec => []RingSound
<1>1. IInv => RingSound
  <2> SUFFICES ASSUME IInv PROVE RingSound
    OBVIOUS
  <2>1. ipc = "rxadvance" => Advance(rxWrite, RxCnt) # rxRead
    BY NotFull
  <2>2. rpc \in {"copy", "give"} => RxLive(rxRead)
    BY WindowMoves, CountAssumption DEF IInv, RingInv, RxLive
  <2> QED
    BY <2>1, <2>2 DEF IInv, RingInv, RingSound
<1> QED
  BY <1>1, Inductive, PTL

\* Every receive buffer keeps to its lane (ReadGive, IrqRx), for every number of
\* buffers and lanes.
THEOREM KeepsLane == Spec => []LaneKept
<1>1. IInv => LaneKept
  <2> SUFFICES ASSUME IInv, NEW l \in Lanes
               PROVE  /\ \A i \in 1 .. Len(rxFree[l]) : rxFree[l][i] % DmaSize = l
                      /\ engine[l] # None => engine[l] % DmaSize = l
    BY DEF LaneKept
  <2>1. rxFree[l] \in Seq(OfLane(l))
    BY DEF IInv, CardInv
  <2>2. \A i \in 1 .. Len(rxFree[l]) : rxFree[l][i] \in OfLane(l)
    BY <2>1
  <2>3. engine[l] # None => engine[l] \in OfLane(l)
    BY DEF IInv, CardInv
  <2> QED
    BY <2>2, <2>3 DEF OfLane
<1> QED
  BY <1>1, Inductive, PTL

-----------------------------------------------------------------------------
(* The transmit side                                                        *)

TxCardInv ==
    /\ txFifo \in [Lanes -> Seq(TxBuffers)]
    /\ \A l \in Lanes : NoTwice(txFifo[l])
    /\ \A l, m \in Lanes, b \in TxBuffers : Has(txFifo[l], b) /\ Has(txFifo[m], b) => l = m
    /\ txDone \in Seq(TxBuffers) /\ NoTwice(txDone)

TxRingInv ==
    /\ txQueue \in [Slots(TxCnt) -> TxBuffers \cup {None}]
    /\ txRead \in Slots(TxCnt) /\ txWrite \in Slots(TxCnt)
    /\ \A s \in Slots(TxCnt) : TxLive(s) => txQueue[s] \in TxBuffers
    /\ \A s, t \in Slots(TxCnt) : TxLive(s) /\ TxLive(t) /\ txQueue[s] = txQueue[t] => s = t
    /\ wpc \in {"copy", "post", "advance"} => txRead # txWrite
    /\ ipc \in {"txstore", "txadvance"} => got \in TxBuffers
    /\ ipc = "txadvance" => txQueue[txWrite] = got

\* Where a transmit buffer can be.
TxQueued(b) == \E s \in Slots(TxCnt) : TxLive(s) /\ txQueue[s] = b
TxInHand(b) == ipc \in {"txstore", "txadvance"} /\ got = b
TxIsDone(b) == Has(txDone, b)
Posted(b)   == \E l \in Lanes : Has(txFifo[l], b)

TxSomewhere(b) == TxQueued(b) \/ TxInHand(b) \/ TxIsDone(b) \/ Posted(b)
TxOne(b) ==
    /\ TxQueued(b) => ~ TxInHand(b) /\ ~ TxIsDone(b) /\ ~ Posted(b)
    /\ TxInHand(b) => ~ TxIsDone(b) /\ ~ Posted(b)
    /\ TxIsDone(b) => ~ Posted(b)

TxPlaceInv == \A b \in TxBuffers : TxSomewhere(b) /\ TxOne(b)

TxInv == TxCardInv /\ TxRingInv /\ TxPlaceInv

-----------------------------------------------------------------------------
(* Transmit side: the initial states and the ring                           *)

LEMMA TxInit == Init => TxInv
<1> SUFFICES ASSUME Init PROVE TxInv
  OBVIOUS
<1>1. TxCardInv /\ \A b : ~ Posted(b) /\ ~ TxIsDone(b) /\ ~ TxInHand(b)
  BY DEF Init, TxCardInv, NoTwice, Has, Posted, TxIsDone, TxInHand
<1>2. \A s \in Slots(TxCnt) : TxLive(s) <=> s \in TxBuffers
  BY CountAssumption DEF Init, TxLive, Window, Slots, RingSize, TxBuffers
<1>3. TxBuffers \subseteq Slots(TxCnt) /\ \A s \in TxBuffers : txQueue[s] = s
  BY CountAssumption DEF Init, Slots, RingSize, TxBuffers
<1>4. TxRingInv
  <2>1. txQueue \in [Slots(TxCnt) -> TxBuffers \cup {None}]
    BY CountAssumption DEF Init, Slots, RingSize, TxBuffers
  <2>2. txRead \in Slots(TxCnt) /\ txWrite \in Slots(TxCnt) /\ wpc = "idle" /\ ipc = "idle"
    BY CountAssumption DEF Init, Slots, RingSize
  <2> QED
    BY <1>2, <1>3, <2>1, <2>2 DEF TxRingInv
<1>5. TxPlaceInv
  BY <1>1, <1>2, <1>3 DEF TxPlaceInv, TxSomewhere, TxOne, TxQueued
<1> QED
  BY <1>1, <1>4, <1>5 DEF TxInv

\* The handler never catches up with the writer.
LEMMA TxNotFull ==
    ASSUME TxInv, ipc = "txadvance"
    PROVE  Advance(txWrite, TxCnt) # txRead
<1> SUFFICES ASSUME Advance(txWrite, TxCnt) = txRead PROVE FALSE
  OBVIOUS
<1>1. txWrite \in Slots(TxCnt) /\ txRead \in Slots(TxCnt)
  BY DEF TxInv, TxRingInv
<1>2. \A s \in Slots(TxCnt) \ {txRead} : s = txWrite \/ TxLive(s)
  BY <1>1, WindowMoves, CountAssumption DEF TxLive
<1>3. got \in TxBuffers /\ txQueue[txWrite] = got /\ TxInHand(got)
  BY DEF TxInv, TxRingInv, TxInHand
<1>4. \A s \in Slots(TxCnt) : TxLive(s) => txQueue[s] \in TxBuffers /\ txQueue[s] # got
  BY <1>3 DEF TxInv, TxRingInv, TxPlaceInv, TxOne, TxQueued
<1>5. \A s \in Slots(TxCnt) \ {txRead} : txQueue[s] \in 0 .. (TxCnt - 1)
  BY <1>2, <1>3, <1>4 DEF TxBuffers
<1>6. \A s, t \in Slots(TxCnt) \ {txRead} : txQueue[s] = txQueue[t] => s = t
  BY <1>2, <1>3, <1>4 DEF TxInv, TxRingInv
<1> QED
  BY <1>1, <1>5, <1>6, Spare, CountAssumption

-----------------------------------------------------------------------------
(* Transmit side: the steps                                                 *)

transmit == <<txFifo, txDone, txQueue, txRead, txWrite>>

LEMMA TxAside ==
    ASSUME TxInv, UNCHANGED transmit,
           \/ wpc' = wpc
           \/ /\ wpc # "advance" /\ wpc' # "advance"
              /\ wpc' \in {"copy", "post"} => txRead # txWrite,
           \/ ipc' = ipc /\ got' = got
           \/ ipc \notin {"txstore", "txadvance"} /\ ipc' \notin {"txstore", "txadvance"}
    PROVE  TxInv'
<1>1. TxCardInv'
  BY DEF TxInv, TxCardInv, transmit
<1>2. \A s : TxLive(s)' <=> TxLive(s)
  BY DEF TxLive, transmit
<1>3. TxRingInv'
  BY <1>2 DEF TxInv, TxRingInv, transmit
<1>4. \A b : /\ TxQueued(b)' <=> TxQueued(b)
             /\ TxInHand(b)' <=> TxInHand(b)
             /\ TxIsDone(b)' <=> TxIsDone(b)
             /\ Posted(b)' <=> Posted(b)
  BY <1>2 DEF TxQueued, TxInHand, TxIsDone, Posted, transmit
<1>5. TxPlaceInv'
  BY <1>4 DEF TxInv, TxPlaceInv, TxSomewhere, TxOne
<1> QED
  BY <1>1, <1>3, <1>5 DEF TxInv

\* The writer posts the buffer at the head of the ring to a lane.
LEMMA WritePostStep == ASSUME TxInv, WritePost PROVE TxInv'
<1> DEFINE x == txQueue[txRead]
<1>1. /\ txRead \in Slots(TxCnt) /\ TxLive(txRead)
      /\ \A s : TxLive(s)' <=> TxLive(s) /\ s # txRead
  BY WindowMoves, CountAssumption DEF TxInv, TxRingInv, WritePost, TxLive, txVars
<1>2. x \in TxBuffers /\ TxQueued(x)
  BY <1>1 DEF TxInv, TxRingInv, TxQueued
<1>3. UNCHANGED <<txDone, txQueue, txRead, txWrite, ipc, got>>
  BY DEF WritePost, txVars, intVars
<1>4. PICK l \in Lanes : txFifo' = [txFifo EXCEPT ![l] = Append(@, x)]
  BY DEF WritePost
<1>5. ~ Posted(x)
  BY <1>2 DEF TxInv, TxPlaceInv, TxOne
<1>6. \A b \in TxBuffers : TxQueued(b)' <=> TxQueued(b) /\ b # x
  BY <1>1, <1>3 DEF TxInv, TxRingInv, TxQueued
<1> HIDE DEF x
<1>7. /\ Append(txFifo[l], x) \in Seq(TxBuffers) /\ NoTwice(Append(txFifo[l], x))
      /\ \A y : Has(Append(txFifo[l], x), y) <=> Has(txFifo[l], y) \/ y = x
  BY <1>2, <1>4, <1>5, AppendHas DEF TxInv, TxCardInv, Posted
<1>8. \A k \in Lanes : txFifo'[k] = IF k = l THEN Append(txFifo[l], x) ELSE txFifo[k]
  BY <1>4 DEF TxInv, TxCardInv
<1>9. TxCardInv'
  <2>1. txFifo' \in [Lanes -> Seq(TxBuffers)]
    BY <1>4, <1>7 DEF TxInv, TxCardInv
  <2>2. \A k \in Lanes : NoTwice(txFifo'[k])
    BY <1>7, <1>8 DEF TxInv, TxCardInv
  <2>3. \A k, m \in Lanes, b \in TxBuffers : Has(txFifo'[k], b) /\ Has(txFifo'[m], b) => k = m
    BY <1>5, <1>7, <1>8 DEF TxInv, TxCardInv, Posted
  <2> QED
    BY <1>3, <2>1, <2>2, <2>3 DEF TxInv, TxCardInv
<1>10. TxRingInv'
  BY <1>1, <1>3 DEF TxInv, TxRingInv, WritePost
<1>11. \A b \in TxBuffers : Posted(b)' <=> Posted(b) \/ b = x
  BY <1>4, <1>7, <1>8 DEF Posted
<1>12. \A b \in TxBuffers : (TxInHand(b)' <=> TxInHand(b)) /\ (TxIsDone(b)' <=> TxIsDone(b))
  BY <1>3 DEF TxInHand, TxIsDone
<1>13. TxPlaceInv'
  BY <1>2, <1>6, <1>11, <1>12 DEF TxInv, TxPlaceInv, TxSomewhere, TxOne
<1> QED
  BY <1>9, <1>10, <1>13 DEF TxInv

\* The writer moves on from a slot that no longer counts.
LEMMA WriteAdvanceStep == ASSUME TxInv, WriteAdvance PROVE TxInv'
<1>1. /\ txRead \in Slots(TxCnt) /\ txWrite \in Slots(TxCnt) /\ txRead # txWrite
      /\ txRead' \in Slots(TxCnt)
      /\ txRead' = Advance(txRead, TxCnt)
      /\ txQueue' = [txQueue EXCEPT ![txRead] = None]
      /\ wpc = "advance" /\ wpc' = "idle"
      /\ UNCHANGED <<txFifo, txDone, txWrite, ipc, got>>
  BY Turn, CountAssumption DEF TxInv, TxRingInv, WriteAdvance, txCard, intVars
<1>2. ~ TxLive(txRead) /\ \A s \in Slots(TxCnt) : TxLive(s)' <=> TxLive(s)
  BY <1>1, WindowMoves, CountAssumption DEF TxLive
<1>3. \A s \in Slots(TxCnt) : s # txRead => txQueue'[s] = txQueue[s]
  BY <1>1 DEF TxInv, TxRingInv
<1>4. TxCardInv'
  BY <1>1 DEF TxInv, TxCardInv
<1>5. TxRingInv'
  <2>1. txQueue' \in [Slots(TxCnt) -> TxBuffers \cup {None}]
    BY <1>1 DEF TxInv, TxRingInv
  <2> QED
    BY <1>1, <1>2, <1>3, <2>1 DEF TxInv, TxRingInv
<1>6. \A b \in TxBuffers : /\ TxQueued(b)' <=> TxQueued(b)
                           /\ TxInHand(b)' <=> TxInHand(b)
                           /\ TxIsDone(b)' <=> TxIsDone(b)
                           /\ Posted(b)' <=> Posted(b)
  BY <1>1, <1>2, <1>3 DEF TxQueued, TxInHand, TxIsDone, Posted
<1>7. TxPlaceInv'
  BY <1>6 DEF TxInv, TxPlaceInv, TxSomewhere, TxOne
<1> QED
  BY <1>4, <1>5, <1>7 DEF TxInv

\* The card carries out a descriptor.
LEMMA SendStep ==
    ASSUME TxInv, NEW l \in Lanes, Send(l)
    PROVE  TxInv' /\ Head(txFifo[l]) \in TxBuffers
<1> DEFINE x == Head(txFifo[l])
<1>1. /\ txFifo[l] # <<>>
      /\ txDone' = Append(txDone, x)
      /\ txFifo' = [txFifo EXCEPT ![l] = Tail(txFifo[l])]
      /\ UNCHANGED <<txQueue, txRead, txWrite, wpc, ipc, got>>
  BY DEF Send, txVars, writVars, intVars
<1>2. txFifo[l] \in Seq(TxBuffers) /\ NoTwice(txFifo[l])
  BY DEF TxInv, TxCardInv
<1>3. /\ x \in TxBuffers /\ Has(txFifo[l], x)
      /\ Tail(txFifo[l]) \in Seq(TxBuffers) /\ NoTwice(Tail(txFifo[l]))
      /\ \A z : Has(Tail(txFifo[l]), z) <=> Has(txFifo[l], z) /\ z # x
  BY <1>1, <1>2, TailHas
<1> HIDE DEF x
<1>4. Posted(x) /\ ~ TxIsDone(x)
  BY <1>3 DEF TxInv, TxPlaceInv, TxOne, Posted
<1>5. /\ txDone' \in Seq(TxBuffers) /\ NoTwice(txDone')
      /\ \A z : Has(txDone', z) <=> Has(txDone, z) \/ z = x
  BY <1>1, <1>3, <1>4, AppendHas DEF TxInv, TxCardInv, TxIsDone
<1>6. \A k \in Lanes : txFifo'[k] = IF k = l THEN Tail(txFifo[l]) ELSE txFifo[k]
  BY <1>1 DEF TxInv, TxCardInv
<1>7. TxCardInv'
  <2>1. txFifo' \in [Lanes -> Seq(TxBuffers)]
    BY <1>1, <1>3 DEF TxInv, TxCardInv
  <2>2. \A k \in Lanes : NoTwice(txFifo'[k])
    BY <1>3, <1>6 DEF TxInv, TxCardInv
  <2>3. \A k, m \in Lanes, b \in TxBuffers : Has(txFifo'[k], b) /\ Has(txFifo'[m], b) => k = m
    BY <1>3, <1>6 DEF TxInv, TxCardInv
  <2> QED
    BY <1>5, <2>1, <2>2, <2>3 DEF TxCardInv
<1>8. \A s : TxLive(s)' <=> TxLive(s)
  BY <1>1 DEF TxLive
<1>9. TxRingInv'
  BY <1>1, <1>8 DEF TxInv, TxRingInv
<1>10. \A b \in TxBuffers : (TxQueued(b)' <=> TxQueued(b)) /\ (TxInHand(b)' <=> TxInHand(b))
  BY <1>1, <1>8 DEF TxQueued, TxInHand
<1>11. \A b \in TxBuffers : TxIsDone(b)' <=> TxIsDone(b) \/ b = x
  BY <1>5 DEF TxIsDone
<1>12. \A b \in TxBuffers : Posted(b)' <=> Posted(b) /\ b # x
  BY <1>3, <1>6 DEF TxInv, TxCardInv, Posted
<1>13. TxPlaceInv'
  BY <1>3, <1>4, <1>10, <1>11, <1>12 DEF TxInv, TxPlaceInv, TxSomewhere, TxOne
<1> QED
  BY <1>3, <1>7, <1>9, <1>13 DEF TxInv, x

\* The handler takes a buffer that has been sent.
LEMMA IrqTxStep == ASSUME TxInv, IrqTx, txDone # <<>> PROVE TxInv'
<1> DEFINE x == Head(txDone)
<1>1. /\ UNCHANGED <<txFifo, txQueue, txRead, txWrite, wpc>>
      /\ txDone' = Tail(txDone) /\ got' = x
      /\ ipc = "tx" /\ ipc' = "txstore"
  BY DEF IrqTx, txVars, writVars
<1>2. /\ x \in TxBuffers /\ Has(txDone, x)
      /\ txDone' \in Seq(TxBuffers) /\ NoTwice(txDone')
      /\ \A z : Has(txDone', z) <=> Has(txDone, z) /\ z # x
  BY <1>1, TailHas DEF TxInv, TxCardInv
<1> HIDE DEF x
<1>3. TxCardInv'
  BY <1>1, <1>2 DEF TxInv, TxCardInv
<1>4. \A s : TxLive(s)' <=> TxLive(s)
  BY <1>1 DEF TxLive
<1>5. TxRingInv'
  BY <1>1, <1>2, <1>4 DEF TxInv, TxRingInv
<1>6. \A b \in TxBuffers : /\ TxQueued(b)' <=> TxQueued(b)
                           /\ Posted(b)' <=> Posted(b)
                           /\ TxIsDone(b)' <=> TxIsDone(b) /\ b # x
                           /\ ~ TxInHand(b)
                           /\ TxInHand(b)' <=> b = x
  BY <1>1, <1>2, <1>4 DEF TxQueued, Posted, TxIsDone, TxInHand
<1>7. TxPlaceInv'
  BY <1>2, <1>6 DEF TxInv, TxPlaceInv, TxSomewhere, TxOne, TxIsDone
<1> QED
  BY <1>3, <1>5, <1>7 DEF TxInv

LEMMA IrqTxStoreStep == ASSUME TxInv, IrqTxStore PROVE TxInv'
<1>1. /\ txWrite \in Slots(TxCnt) /\ txRead \in Slots(TxCnt) /\ got \in TxBuffers
      /\ txQueue' = [txQueue EXCEPT ![txWrite] = got]
      /\ ipc = "txstore" /\ ipc' = "txadvance"
      /\ UNCHANGED <<txFifo, txDone, txRead, txWrite, wpc, got>>
  BY DEF TxInv, TxRingInv, IrqTxStore, txCard, writVars
<1>2. ~ TxLive(txWrite) /\ \A s \in Slots(TxCnt) : TxLive(s)' <=> TxLive(s)
  BY <1>1, WindowMoves, CountAssumption DEF TxLive
<1>3. /\ \A s \in Slots(TxCnt) : s # txWrite => txQueue'[s] = txQueue[s]
      /\ txQueue'[txWrite] = got
  BY <1>1 DEF TxInv, TxRingInv
<1>4. TxCardInv'
  BY <1>1 DEF TxInv, TxCardInv
<1>5. TxRingInv'
  <2>1. txQueue' \in [Slots(TxCnt) -> TxBuffers \cup {None}]
    BY <1>1 DEF TxInv, TxRingInv
  <2> QED
    BY <1>1, <1>2, <1>3, <2>1 DEF TxInv, TxRingInv
<1>6. \A b \in TxBuffers : /\ TxQueued(b)' <=> TxQueued(b)
                           /\ TxInHand(b)' <=> TxInHand(b)
                           /\ TxIsDone(b)' <=> TxIsDone(b)
                           /\ Posted(b)' <=> Posted(b)
  BY <1>1, <1>2, <1>3 DEF TxQueued, TxInHand, TxIsDone, Posted
<1>7. TxPlaceInv'
  BY <1>6 DEF TxInv, TxPlaceInv, TxSomewhere, TxOne
<1> QED
  BY <1>4, <1>5, <1>7 DEF TxInv

LEMMA IrqTxAdvanceStep == ASSUME TxInv, IrqTxAdvance PROVE TxInv'
<1>1. /\ txWrite \in Slots(TxCnt) /\ txRead \in Slots(TxCnt)
      /\ txWrite' \in Slots(TxCnt) /\ txWrite' # txRead
      /\ txWrite' = Advance(txWrite, TxCnt)
      /\ ipc = "txadvance" /\ ipc' = "tx"
      /\ UNCHANGED <<txFifo, txDone, txQueue, txRead>>
  BY Turn, TxNotFull, CountAssumption DEF TxInv, TxRingInv, IrqTxAdvance, txCard
<1>2. got \in TxBuffers /\ txQueue[txWrite] = got /\ TxInHand(got)
  BY <1>1 DEF TxInv, TxRingInv, TxInHand
<1>3. wpc' = wpc \/ (wpc = "asleep" /\ wpc' = "woken")
  BY DEF IrqTxAdvance, WakeWriter
<1>4. wpc = "advance" => txRead # txWrite
  BY DEF TxInv, TxRingInv
<1>5. \A s \in Slots(TxCnt) : TxLive(s)' <=> TxLive(s) \/ s = txWrite
  BY <1>1, <1>3, <1>4, WindowMoves, CountAssumption DEF TxLive
<1>6. ~ TxQueued(got)
  BY <1>2 DEF TxInv, TxPlaceInv, TxOne
<1>7. TxCardInv'
  BY <1>1 DEF TxInv, TxCardInv
<1>8. TxRingInv'
  <2>1. \A s \in Slots(TxCnt) : TxLive(s)' => txQueue'[s] \in TxBuffers
    BY <1>1, <1>2, <1>5 DEF TxInv, TxRingInv
  <2>2. ASSUME NEW s \in Slots(TxCnt), NEW t \in Slots(TxCnt),
               TxLive(s)', TxLive(t)', txQueue'[s] = txQueue'[t]
        PROVE  s = t
    BY <1>1, <1>2, <1>5, <1>6, <2>2 DEF TxInv, TxRingInv, TxQueued
  <2> QED
    BY <1>1, <1>3, <2>1, <2>2 DEF TxInv, TxRingInv
<1>9. \A b \in TxBuffers : /\ TxQueued(b)' <=> TxQueued(b) \/ b = got
                           /\ TxInHand(b) <=> b = got
                           /\ ~ TxInHand(b)'
                           /\ TxIsDone(b)' <=> TxIsDone(b)
                           /\ Posted(b)' <=> Posted(b)
  BY <1>1, <1>2, <1>5 DEF TxQueued, TxInHand, TxIsDone, Posted
<1>10. TxPlaceInv'
  BY <1>2, <1>9 DEF TxInv, TxPlaceInv, TxSomewhere, TxOne
<1> QED
  BY <1>7, <1>8, <1>10 DEF TxInv

LEMMA TxStep == TxInv /\ [Next]_vars => TxInv'
<1> SUFFICES ASSUME TxInv, [Next]_vars PROVE TxInv'
  OBVIOUS
<1> USE DEF transmit, txVars, txCard, writVars, intVars
<1>1. ASSUME NEW f \in Files,
             Open(f) \/ OpenSet(f) \/ Release(f) \/ ReadCall(f) \/ Loopback(f)
      PROVE  TxInv'
  BY <1>1, TxAside DEF Open, OpenSet, Release, ReadCall, Loopback
<1>2. ASSUME NEW f \in Files, WriteCall(f) PROVE TxInv'
  BY <1>2, TxAside DEF WriteCall
<1>3. CASE ReadWoken \/ ReadCopy \/ ReadGive \/ ReadAdvance \/ ReadSignal
  BY <1>3, TxAside DEF ReadWoken, ReadCopy, ReadGive, ReadAdvance, ReadSignal
<1>4. CASE WriteWoken
  BY <1>4, TxAside DEF WriteWoken
<1>5. CASE WriteSignal
  BY <1>5, TxAside DEF WriteSignal
<1>6. CASE WriteCopy
  BY <1>6, TxAside DEF WriteCopy, TxInv, TxRingInv
<1>7. CASE WritePost
  BY <1>7, WritePostStep
<1>8. CASE WriteAdvance
  BY <1>8, WriteAdvanceStep
<1>9. CASE IrqEnter \/ IrqRx \/ IrqRxStore \/ IrqRxAdvance \/ IrqEnd
  BY <1>9, TxAside DEF IrqEnter, IrqRx, IrqRxStore, IrqRxAdvance, IrqEnd
<1>10. CASE IrqTx
  <2>1. CASE txDone = <<>>
    BY <1>10, <2>1, TxAside DEF IrqTx
  <2>2. CASE txDone # <<>>
    BY <1>10, <2>2, IrqTxStep
  <2> QED
    BY <2>1, <2>2
<1>11. CASE IrqTxStore
  BY <1>11, IrqTxStoreStep
<1>12. CASE IrqTxAdvance
  BY <1>12, IrqTxAdvanceStep
<1>13. ASSUME NEW l \in Lanes, Receive(l) \/ Complete(l) PROVE TxInv'
  BY <1>13, TxAside DEF Receive, Complete
<1>14. ASSUME NEW l \in Lanes, Send(l) PROVE TxInv'
  BY <1>14, SendStep
<1>15. CASE UNCHANGED vars
  BY <1>15, TxAside DEF vars
<1> QED
  BY <1>1, <1>2, <1>3, <1>4, <1>5, <1>6, <1>7, <1>8, <1>9, <1>10, <1>11, <1>12, <1>13, <1>14,
     <1>15 DEF Next, Reader, Writer, Handler

-----------------------------------------------------------------------------
(* Types                                                                    *)

\* The types that the two invariants do not give.
OtherTypes ==
    /\ isOpen \in BOOLEAN /\ irq \in BOOLEAN /\ dmaLoopback \subseteq Lanes
    /\ fpc \in [Files -> {"closed", "opening", "open"}]
    /\ rxMem \in [RxBuffers -> Frames] /\ txMem \in [TxBuffers -> Frames]
    /\ rpc \in {"idle", "woken", "asleep", "copy", "give", "advance"}
    /\ wpc \in {"idle", "woken", "asleep", "copy", "post", "advance"}
    /\ rfile \in Files \cup {None} /\ wfile \in Files \cup {None}

LEMMA OtherInit == Init => OtherTypes
<1> SUFFICES ASSUME Init PROVE OtherTypes
  OBVIOUS
<1>1. (CHOOSE y \in Frames : TRUE) \in Frames
  BY LoopAssumption
<1>2. rxMem \in [RxBuffers -> Frames] /\ txMem \in [TxBuffers -> Frames]
  BY <1>1 DEF Init
<1> QED
  BY <1>2 DEF Init, OtherTypes

LEMMA OtherStep == OtherTypes /\ TxInv /\ [Next]_vars => OtherTypes'
<1> SUFFICES ASSUME OtherTypes, TxInv, [Next]_vars PROVE OtherTypes'
  OBVIOUS
<1> USE DEF fileVars, rxVars, txVars, readVars, writVars, rxCard, txCard, intVars
<1>1. ASSUME NEW f \in Files, Open(f) \/ OpenSet(f) \/ Release(f) PROVE OtherTypes'
  BY <1>1 DEF OtherTypes, Open, OpenSet, Release
<1>2. ASSUME NEW f \in Files, ReadCall(f) \/ WriteCall(f) PROVE OtherTypes'
  BY <1>2 DEF OtherTypes, ReadCall, WriteCall
<1>3. ASSUME NEW f \in Files, Loopback(f) PROVE OtherTypes'
  BY <1>3, LoopAssumption DEF OtherTypes, Loopback, Lanes
<1>4. CASE ReadWoken \/ ReadCopy \/ ReadGive \/ ReadAdvance \/ ReadSignal
  BY <1>4 DEF OtherTypes, ReadWoken, ReadCopy, ReadGive, ReadAdvance, ReadSignal
<1>5. CASE WriteWoken \/ WriteCopy
  BY <1>5 DEF OtherTypes, WriteWoken, WriteCopy
<1>6. CASE WritePost \/ WriteAdvance \/ WriteSignal
  BY <1>6 DEF OtherTypes, WritePost, WriteAdvance, WriteSignal
<1>7. CASE IrqEnter \/ IrqTx \/ IrqTxStore \/ IrqRx \/ IrqRxStore \/ IrqEnd
  BY <1>7 DEF OtherTypes, IrqEnter, IrqTx, IrqTxStore, IrqRx, IrqRxStore, IrqEnd
<1>8. CASE IrqTxAdvance \/ IrqRxAdvance
  BY <1>8 DEF OtherTypes, IrqTxAdvance, IrqRxAdvance, WakeReader, WakeWriter
<1>9. ASSUME NEW l \in Lanes, Receive(l) PROVE OtherTypes'
  BY <1>9 DEF OtherTypes, Receive, Fill
<1>10. ASSUME NEW l \in Lanes, Complete(l) PROVE OtherTypes'
  BY <1>10 DEF OtherTypes, Complete
<1>11. ASSUME NEW l \in Lanes, Send(l) PROVE OtherTypes'
  <2>1. txMem[Head(txFifo[l])] \in Frames
    BY <1>11, SendStep DEF OtherTypes
  <2>2. rxMem' \in [RxBuffers -> Frames]
    BY <1>11, <2>1 DEF OtherTypes, Send, Fill
  <2> QED
    BY <1>11, <2>2 DEF OtherTypes, Send
<1>12. CASE UNCHANGED vars
  BY <1>12 DEF OtherTypes, vars
<1> QED
  BY <1>1, <1>2, <1>3, <1>4, <1>5, <1>6, <1>7, <1>8, <1>9, <1>10, <1>11, <1>12
     DEF Next, Reader, Writer, Handler

FullInv == IInv /\ TxInv /\ OtherTypes

LEMMA Full == Spec => []FullInv
<1>1. Init => FullInv
  BY InvInit, TxInit, OtherInit DEF FullInv
<1>2. FullInv /\ [Next]_vars => FullInv'
  BY InvStep, TxStep, OtherStep DEF FullInv
<1> QED
  BY <1>1, <1>2, PTL DEF Spec

LEMMA Types == FullInv => TypeOK
<1> SUFFICES ASSUME FullInv PROVE TypeOK
  OBVIOUS
<1>1. lane \in [RxBuffers -> Lanes]
  BY Lane DEF FullInv, IInv, LaneInv
<1>2. /\ rxQueue \in [Slots(RxCnt) -> RxBuffers \cup {None}] /\ {rxRead, rxWrite} \subseteq Slots(RxCnt)
      /\ engine \in [Lanes -> RxBuffers \cup {None}]
  BY DEF FullInv, IInv, CardInv, RingInv
<1>3. txQueue \in [Slots(TxCnt) -> TxBuffers \cup {None}] /\ {txRead, txWrite} \subseteq Slots(TxCnt)
  BY DEF FullInv, TxInv, TxRingInv
<1> QED
  BY <1>1, <1>2, <1>3 DEF FullInv, OtherTypes, TypeOK

-----------------------------------------------------------------------------
(* One place for each buffer                                                *)

LEMMA Tagged ==
    ASSUME NEW t, NEW S, \A x, y \in S : x = y
    PROVE  /\ \A x \in S : Single({t} \X S)
           /\ (\A x \in S : FALSE) => {t} \X S = {}
<1>1. ASSUME NEW x \in S PROVE Single({t} \X S)
  <2>1. <<t, x>> \in {t} \X S /\ \A q \in {t} \X S : q = <<t, x>>
    BY <1>1
  <2> QED
    BY <2>1 DEF Single
<1> QED
  BY <1>1

LEMMA OneRxSpot == ASSUME IInv, NEW b \in RxBuffers PROVE Single(RxSpots(b))
<1> DEFINE ring    == {s \in Slots(RxCnt) : RxLive(s) /\ rxQueue[s] = b}
           hand    == {x \in {got} : ipc \in {"rxstore", "rxadvance"} /\ x = b}
           done    == {i \in 1 .. Len(rxDone) : rxDone[i].buf = b}
           free    == UNION {{l} \X {i \in 1 .. Len(rxFree[l]) : rxFree[l][i] = b} : l \in Lanes}
           filling == {l \in Lanes : engine[l] = b}
<1>1. /\ \A x, y \in ring : x = y
      /\ Queued(b) <=> \E x \in ring : TRUE
  BY DEF IInv, RingInv, Queued
<1>2. /\ \A x, y \in hand : x = y
      /\ InHand(b) <=> \E x \in hand : TRUE
  BY DEF InHand
<1>3. /\ \A x, y \in done : x = y
      /\ Done(b) <=> \E x \in done : TRUE
  <2>1. rxDone \in Seq(Completions) /\ NoTwice(rxDone)
    BY DEF IInv, CardInv
  <2>2. \A d \in Completions : d.buf = b <=> d = Report(b)
    BY DEF Completions, Report
  <2>3. \A i \in 1 .. Len(rxDone) : rxDone[i].buf = b <=> rxDone[i] = Report(b)
    BY <2>1, <2>2
  <2> QED
    BY <2>1, <2>3 DEF Done, Has, NoTwice
<1>4. /\ \A x, y \in free : x = y
      /\ Free(b) <=> \E x \in free : TRUE
  <2> DEFINE h == b % DmaSize
  <2>1. h \in Lanes
    BY Lane
  <2>2. \A l \in Lanes : \A i \in 1 .. Len(rxFree[l]) : rxFree[l][i] = b => l = h
    <3>1. \A l \in Lanes : rxFree[l] \in Seq(OfLane(l))
      BY DEF IInv, CardInv
    <3>2. \A l \in Lanes : \A i \in 1 .. Len(rxFree[l]) : rxFree[l][i] \in OfLane(l)
      BY <3>1
    <3> QED
      BY <3>2 DEF OfLane
  <2>3. \A i, j \in 1 .. Len(rxFree[h]) : rxFree[h][i] = b /\ rxFree[h][j] = b => i = j
    BY <2>1 DEF IInv, CardInv, NoTwice
  <2>4. Free(b) <=> \E i \in 1 .. Len(rxFree[h]) : rxFree[h][i] = b
    BY DEF Free, Has
  <2> HIDE DEF h
  <2>5. \A x \in free : \E i \in 1 .. Len(rxFree[h]) : rxFree[h][i] = b /\ x = <<h, i>>
    BY <2>2
  <2>6. \A i \in 1 .. Len(rxFree[h]) : rxFree[h][i] = b => <<h, i>> \in free
    BY <2>1
  <2> HIDE DEF free
  <2> QED
    BY <2>3, <2>4, <2>5, <2>6
<1>5. /\ \A x, y \in filling : x = y
      /\ Filling(b) <=> \E x \in filling : TRUE
  <2>1. \A l \in Lanes : engine[l] = b <=> l = b % DmaSize /\ Filling(b)
    BY NoneApart DEF IInv, CardInv, OfLane, Filling
  <2> QED
    BY <2>1, Lane
<1>6. RxSpots(b) = {"ring"} \X ring \cup {"hand"} \X hand \cup {"done"} \X done
                   \cup {"free"} \X free \cup {"filling"} \X filling
  BY DEF RxSpots
<1>7. Somewhere(b) /\ Once(b)
  BY DEF IInv, PlaceInv
<1> HIDE DEF ring, hand, done, free, filling
<1>8. /\ IF Queued(b) THEN Single({"ring"} \X ring) ELSE {"ring"} \X ring = {}
      /\ IF InHand(b) THEN Single({"hand"} \X hand) ELSE {"hand"} \X hand = {}
      /\ IF Done(b) THEN Single({"done"} \X done) ELSE {"done"} \X done = {}
      /\ IF Free(b) THEN Single({"free"} \X free) ELSE {"free"} \X free = {}
      /\ IF Filling(b) THEN Single({"filling"} \X filling) ELSE {"filling"} \X filling = {}
  BY <1>1, <1>2, <1>3, <1>4, <1>5, Tagged
<1>9. \E t \in {{"ring"} \X ring, {"hand"} \X hand, {"done"} \X done, {"free"} \X free,
                {"filling"} \X filling} : RxSpots(b) = t /\ Single(t)
  BY <1>6, <1>7, <1>8 DEF Somewhere, Once
<1> QED
  BY <1>9

LEMMA OneTxSpot == ASSUME TxInv, NEW b \in TxBuffers PROVE Single(TxSpots(b))
<1> DEFINE ring == {s \in Slots(TxCnt) : TxLive(s) /\ txQueue[s] = b}
           hand == {x \in {got} : ipc \in {"txstore", "txadvance"} /\ x = b}
           done == {i \in 1 .. Len(txDone) : txDone[i] = b}
           fifo == UNION {{l} \X {i \in 1 .. Len(txFifo[l]) : txFifo[l][i] = b} : l \in Lanes}
<1>1. /\ \A x, y \in ring : x = y
      /\ TxQueued(b) <=> \E x \in ring : TRUE
  BY DEF TxInv, TxRingInv, TxQueued
<1>2. /\ \A x, y \in hand : x = y
      /\ TxInHand(b) <=> \E x \in hand : TRUE
  BY DEF TxInHand
<1>3. /\ \A x, y \in done : x = y
      /\ TxIsDone(b) <=> \E x \in done : TRUE
  BY DEF TxInv, TxCardInv, NoTwice, TxIsDone, Has
<1>4. /\ \A x, y \in fifo : x = y
      /\ Posted(b) <=> \E x \in fifo : TRUE
  <2>1. \A l, m \in Lanes : \A i \in 1 .. Len(txFifo[l]) : \A j \in 1 .. Len(txFifo[m]) :
          txFifo[l][i] = b /\ txFifo[m][j] = b => l = m /\ i = j
    <3>1. ASSUME NEW l \in Lanes, NEW m \in Lanes, NEW i \in 1 .. Len(txFifo[l]),
                 NEW j \in 1 .. Len(txFifo[m]), txFifo[l][i] = b, txFifo[m][j] = b
          PROVE  l = m /\ i = j
      <4>1. Has(txFifo[l], b) /\ Has(txFifo[m], b)
        BY <3>1 DEF Has
      <4>2. l = m
        BY <4>1 DEF TxInv, TxCardInv
      <4> QED
        BY <3>1, <4>2 DEF TxInv, TxCardInv, NoTwice
    <3> QED
      BY <3>1
  <2>2. \A x \in fifo : \E l \in Lanes : \E i \in 1 .. Len(txFifo[l]) :
          txFifo[l][i] = b /\ x = <<l, i>>
    OBVIOUS
  <2>3. \A l \in Lanes : \A i \in 1 .. Len(txFifo[l]) : txFifo[l][i] = b => <<l, i>> \in fifo
    OBVIOUS
  <2> HIDE DEF fifo
  <2>4. ASSUME NEW x \in fifo, NEW y \in fifo PROVE x = y
    BY <2>1, <2>2
  <2>5. Posted(b) <=> \E l \in Lanes : \E i \in 1 .. Len(txFifo[l]) : txFifo[l][i] = b
    BY DEF Posted, Has
  <2>6. Posted(b) <=> \E x \in fifo : TRUE
    BY <2>2, <2>3, <2>5
  <2> QED
    BY <2>4, <2>6
<1>5. TxSpots(b) = {"ring"} \X ring \cup {"hand"} \X hand \cup {"done"} \X done \cup {"fifo"} \X fifo
  BY DEF TxSpots
<1>6. TxSomewhere(b) /\ TxOne(b)
  BY DEF TxInv, TxPlaceInv
<1> HIDE DEF ring, hand, done, fifo
<1>7. /\ IF TxQueued(b) THEN Single({"ring"} \X ring) ELSE {"ring"} \X ring = {}
      /\ IF TxInHand(b) THEN Single({"hand"} \X hand) ELSE {"hand"} \X hand = {}
      /\ IF TxIsDone(b) THEN Single({"done"} \X done) ELSE {"done"} \X done = {}
      /\ IF Posted(b) THEN Single({"fifo"} \X fifo) ELSE {"fifo"} \X fifo = {}
  BY <1>1, <1>2, <1>3, <1>4, Tagged
<1>8. \E t \in {{"ring"} \X ring, {"hand"} \X hand, {"done"} \X done, {"fifo"} \X fifo} :
        TxSpots(b) = t /\ Single(t)
  BY <1>5, <1>6, <1>7 DEF TxSomewhere, TxOne
<1> QED
  BY <1>8

\* No buffer of either ring is ever lost or in two places, whatever opens,
\* calls, signals, failed copies and frames come in whatever order
\* (SsiPcie.c:180, 298-308, 575-589, 625-640).
THEOREM Conserves == Spec => []Conserved
<1>1. FullInv => Conserved
  BY Types, OneRxSpot, OneTxSpot DEF FullInv, Conserved
<1> QED
  BY <1>1, Full, PTL

-----------------------------------------------------------------------------
(* What IOCTL_Dump_Debug reports                                            *)

\* Counting InRing slots from the read pointer goes over the ring's slots.
LEMMA Counted ==
    ASSUME NEW cnt \in Nat \ {0}, NEW rd \in Slots(cnt), NEW wr \in Slots(cnt)
    PROVE  {(rd + y) % (cnt + 2) : y \in 0 .. (InRing(rd, wr, cnt) - 1)}
             = {s \in Slots(cnt) : Window(s, rd, wr)}
<1> DEFINE N == cnt + 2
           n == InRing(rd, wr, cnt)
<1>1. /\ N \in Nat /\ N > 2 /\ rd \in 0 .. (N - 1) /\ wr \in 0 .. (N - 1) /\ Slots(cnt) = 0 .. (N - 1)
      /\ n = IF rd > wr THEN wr - rd + N ELSE wr - rd
  BY DEF Slots, RingSize, InRing
<1> HIDE DEF N, n
<1>2. ASSUME NEW y \in 0 .. (N - 1)
      PROVE  (rd + y) % N = IF rd + y < N THEN rd + y ELSE rd + y - N
  BY <1>1, SMTT(60)
<1>3. ASSUME NEW y \in 0 .. (n - 1) PROVE (rd + y) % N \in Slots(cnt) /\ Window((rd + y) % N, rd, wr)
  <2>1. y \in 0 .. (N - 1)
    BY <1>1
  <2> QED
    BY <1>1, <1>2, <2>1 DEF Window
<1>4. ASSUME NEW s \in Slots(cnt), Window(s, rd, wr) PROVE \E y \in 0 .. (n - 1) : (rd + y) % N = s
  <2> DEFINE y == IF s >= rd THEN s - rd ELSE s - rd + N
  <2>1. y \in 0 .. (n - 1) /\ y \in 0 .. (N - 1)
    BY <1>1, <1>4 DEF Window
  <2>2. (IF rd + y < N THEN rd + y ELSE rd + y - N) = s
    BY <1>1
  <2> HIDE DEF y
  <2> QED
    BY <1>2, <2>1, <2>2
<1>5. {(rd + y) % N : y \in 0 .. (n - 1)} = {s \in Slots(cnt) : Window(s, rd, wr)}
  BY <1>3, <1>4
<1> QED
  BY <1>5 DEF N, n

LEMMA OutSpots ==
    ASSUME NEW b
    PROVE  (\E p \in TxSpots(b) : p[1] \in {"hand", "fifo", "done"})
             <=> TxInHand(b) \/ Posted(b) \/ TxIsDone(b)
<1> DEFINE ring == {s \in Slots(TxCnt) : TxLive(s) /\ txQueue[s] = b}
           hand == {x \in {got} : ipc \in {"txstore", "txadvance"} /\ x = b}
           done == {i \in 1 .. Len(txDone) : txDone[i] = b}
           fifo == UNION {{l} \X {i \in 1 .. Len(txFifo[l]) : txFifo[l][i] = b} : l \in Lanes}
<1>1. TxSpots(b) = {"ring"} \X ring \cup {"hand"} \X hand \cup {"done"} \X done \cup {"fifo"} \X fifo
  BY DEF TxSpots
<1>2. /\ TxInHand(b) <=> \E x \in hand : TRUE
      /\ TxIsDone(b) <=> \E x \in done : TRUE
  BY DEF TxInHand, TxIsDone, Has
<1>3. Posted(b) <=> \E x \in fifo : TRUE
  <2>1. Posted(b) <=> \E l \in Lanes : \E i \in 1 .. Len(txFifo[l]) : txFifo[l][i] = b
    BY DEF Posted, Has
  <2>2. ASSUME NEW x \in fifo PROVE Posted(b)
    BY <2>1
  <2>3. ASSUME NEW l \in Lanes, NEW i \in 1 .. Len(txFifo[l]), txFifo[l][i] = b
        PROVE  <<l, i>> \in fifo
    BY <2>3
  <2> HIDE DEF fifo
  <2> QED
    BY <2>1, <2>2, <2>3
<1> HIDE DEF ring, hand, done, fifo
<1>4. /\ \A p \in {"ring"} \X ring : p[1] = "ring"
      /\ \A p \in {"hand"} \X hand : p[1] = "hand"
      /\ \A p \in {"done"} \X done : p[1] = "done"
      /\ \A p \in {"fifo"} \X fifo : p[1] = "fifo"
  OBVIOUS
<1>5. /\ (\E p \in {"hand"} \X hand : TRUE) <=> \E x \in hand : TRUE
      /\ (\E p \in {"done"} \X done : TRUE) <=> \E x \in done : TRUE
      /\ (\E p \in {"fifo"} \X fifo : TRUE) <=> \E x \in fifo : TRUE
  <2>1. ASSUME NEW t, NEW S PROVE (\E p \in {t} \X S : TRUE) <=> \E x \in S : TRUE
    <3>1. \A x \in S : <<t, x>> \in {t} \X S
      OBVIOUS
    <3> QED
      BY <3>1
  <2> QED
    BY <2>1
<1> QED
  BY <1>1, <1>2, <1>3, <1>4, <1>5

\* The missing buffers that the ioctl prints are those the card or the handler
\* holds, but for the one a write has posted and not yet moved txRead past.
THEOREM MissingRight == Spec => []MissingAreOut
<1>1. TxInv => MissingAreOut
  <2> SUFFICES ASSUME TxInv, NEW b \in TxBuffers
               PROVE  b \in Missing <=> /\ \E p \in TxSpots(b) : p[1] \in {"hand", "fifo", "done"}
                                        /\ ~ (wpc = "advance" /\ txQueue[txRead] = b)
    BY DEF MissingAreOut, Missing
  <2>1. txRead \in Slots(TxCnt) /\ txWrite \in Slots(TxCnt)
    BY DEF TxInv, TxRingInv
  <2> DEFINE index == {(txRead + y) % (TxCnt + 2) : y \in 0 .. (InRing(txRead, txWrite, TxCnt) - 1)}
  <2>2. index = {s \in Slots(TxCnt) : Window(s, txRead, txWrite)}
    BY <2>1, Counted, CountAssumption
  <2>3. b \in Missing <=> \A s \in index : txQueue[s] # b
    BY DEF Missing
  <2> HIDE DEF index
  <2>4. b \in Missing <=> \A s \in Slots(TxCnt) : Window(s, txRead, txWrite) => txQueue[s] # b
    BY <2>2, <2>3
  <2>5. wpc = "advance" => Window(txRead, txRead, txWrite)
    BY <2>1, WindowMoves, CountAssumption DEF TxInv, TxRingInv
  <2>6. (\E s \in Slots(TxCnt) : Window(s, txRead, txWrite) /\ txQueue[s] = b)
          <=> TxQueued(b) \/ (wpc = "advance" /\ txQueue[txRead] = b)
    BY <2>1, <2>5 DEF TxQueued, TxLive
  <2>7. (\E p \in TxSpots(b) : p[1] \in {"hand", "fifo", "done"})
          <=> TxInHand(b) \/ Posted(b) \/ TxIsDone(b)
    BY OutSpots
  <2>8. TxSomewhere(b) /\ TxOne(b)
    BY DEF TxInv, TxPlaceInv
  <2> QED
    BY <2>4, <2>6, <2>7, <2>8 DEF TxSomewhere, TxOne
<1> QED
  BY <1>1, Full, PTL DEF FullInv

-----------------------------------------------------------------------------
(* The receive side as two queues                                           *)

Items == Frames \X Lanes
N     == RingSize(RxCnt)
Count == ((rxWrite - rxRead) % N) - Passed
At(i) == (rxRead + Passed + i - 1) % N
Hand  == IF ipc \in {"rxstore", "rxadvance"} THEN 1 ELSE 0

LEMMA Around ==
    ASSUME NEW rd \in Slots(RxCnt), NEW n \in 0 .. N
    PROVE  (rd + n) % N = IF rd + n < N THEN rd + n ELSE rd + n - N
<1>1. N \in Nat /\ N > 2 /\ rd \in 0 .. (N - 1)
  BY CountAssumption DEF N, Slots, RingSize
<1> HIDE DEF N
<1> QED
  BY <1>1, SMTT(60)

LEMMA Apart ==
    ASSUME NEW rd \in Slots(RxCnt), NEW wr \in Slots(RxCnt)
    PROVE  (wr - rd) % N = IF rd <= wr THEN wr - rd ELSE wr - rd + N
<1>1. N \in Nat /\ N > 2 /\ rd \in 0 .. (N - 1) /\ wr \in 0 .. (N - 1)
  BY CountAssumption DEF N, Slots, RingSize
<1> HIDE DEF N
<1> QED
  BY <1>1, SMTT(60)

\* The places of the queue's frames in the ring.
PlaceFacts ==
    /\ Count \in Nat /\ Passed \in {0, 1} /\ N \in Nat
    /\ rxRead \in 0 .. (N - 1) /\ rxWrite \in 0 .. (N - 1)
    /\ Count = (IF rxRead <= rxWrite THEN rxWrite - rxRead ELSE rxWrite - rxRead + N) - Passed
    /\ \A i \in 1 .. Count :
         /\ At(i) = IF rxRead + Passed + i - 1 < N THEN rxRead + Passed + i - 1
                                                   ELSE rxRead + Passed + i - 1 - N
         /\ At(i) \in Slots(RxCnt) /\ RxLive(At(i)) /\ rxQueue[At(i)] \in RxBuffers
         /\ Unread(i) = rxQueue[At(i)]

\* The two queues, from the variables.
QueueFacts ==
    /\ Ready \in Seq(Items) /\ Len(Ready) = Count
    /\ \A i \in 1 .. Count : Ready[i] = Item(rxQueue[At(i)], lane[rxQueue[At(i)]])
    /\ Pending \in Seq(Items) /\ Len(Pending) = Hand + Len(rxDone)
    /\ Hand = 1 => Pending[1] = Item(got, lane[got])
    /\ \A i \in 1 .. Len(rxDone) : Pending[Hand + i] = Item(rxDone[i].buf, rxDone[i].lane)

LEMMA Places == IInv => PlaceFacts
<1> SUFFICES ASSUME IInv PROVE PlaceFacts
  OBVIOUS
<1>1. /\ N \in Nat /\ N > 2 /\ Slots(RxCnt) = 0 .. (N - 1)
      /\ rxRead \in Slots(RxCnt) /\ rxWrite \in Slots(RxCnt)
      /\ Passed \in {0, 1}
  BY CountAssumption DEF N, Slots, RingSize, IInv, RingInv, Passed
<1>2. Passed = 1 => rxRead # rxWrite
  BY DEF IInv, RingInv, Passed
<1> DEFINE D == (rxWrite - rxRead) % N
<1>3. D = IF rxRead <= rxWrite THEN rxWrite - rxRead ELSE rxWrite - rxRead + N
  BY <1>1, Apart
<1>4. Count = D - Passed
  BY DEF Count
<1> HIDE DEF D
<1>5. D \in 0 .. (N - 1) /\ (D = 0 => rxRead = rxWrite)
  BY <1>1, <1>3
<1>6. Count \in Nat
  BY <1>1, <1>2, <1>4, <1>5
<1>7. ASSUME NEW i \in 1 .. Count
      PROVE  /\ At(i) = IF rxRead + Passed + i - 1 < N THEN rxRead + Passed + i - 1
                                                       ELSE rxRead + Passed + i - 1 - N
             /\ At(i) \in Slots(RxCnt) /\ RxLive(At(i))
  <2> DEFINE n == Passed + i - 1
  <2>1. n \in 0 .. N /\ n < D /\ rxRead + Passed + i - 1 = rxRead + n
    BY <1>1, <1>4, <1>5, <1>6
  <2>2. n >= Passed
    BY <1>1, <1>6
  <2> HIDE DEF n
  <2>3. (rxRead + n) % N = IF rxRead + n < N THEN rxRead + n ELSE rxRead + n - N
    BY <1>1, <2>1, Around
  <2>4. At(i) = IF rxRead + n < N THEN rxRead + n ELSE rxRead + n - N
    BY <2>1, <2>3 DEF At
  <2>5. At(i) \in Slots(RxCnt) /\ Window(At(i), rxRead, rxWrite)
    <3>1. /\ N \in Nat /\ rxRead \in 0 .. (N - 1) /\ rxWrite \in 0 .. (N - 1)
          /\ n \in 0 .. N /\ n < IF rxRead <= rxWrite THEN rxWrite - rxRead ELSE rxWrite - rxRead + N
      BY <1>1, <1>3, <2>1
    <3>2. CASE rxRead + n < N
      BY <1>1, <2>4, <3>1, <3>2 DEF Window
    <3>3. CASE ~ rxRead + n < N
      BY <1>1, <2>4, <3>1, <3>3 DEF Window
    <3> QED
      BY <3>2, <3>3
  <2>6. Passed = 1 => At(i) # rxRead
    BY <1>1, <1>5, <2>1, <2>2, <2>4
  <2>7. RxLive(At(i))
    BY <2>5, <2>6 DEF RxLive, Passed
  <2>8. At(i) = IF rxRead + Passed + i - 1 < N THEN rxRead + Passed + i - 1
                                               ELSE rxRead + Passed + i - 1 - N
    BY <1>1, <1>6, <2>1, <2>4
  <2> QED
    BY <2>5, <2>7, <2>8
<1>8. \A i \in 1 .. Count : rxQueue[At(i)] \in RxBuffers /\ Unread(i) = rxQueue[At(i)]
  BY <1>7 DEF IInv, RingInv, Unread, At, N
<1> QED
  BY <1>1, <1>3, <1>4, <1>6, <1>7, <1>8 DEF PlaceFacts

LEMMA Queues == FullInv => QueueFacts
<1> SUFFICES ASSUME FullInv PROVE QueueFacts
  OBVIOUS
<1>1. \A b \in RxBuffers : lane[b] \in Lanes /\ \A l \in Lanes : Item(b, l) \in Items
  BY Lane DEF FullInv, IInv, LaneInv, OtherTypes, Item, Items
<1>2. Ready = [i \in 1 .. Count |-> Item(rxQueue[At(i)], lane[rxQueue[At(i)]])]
  BY DEF Ready, Count, At, Unread, N
<1>3. \A i \in 1 .. Count : Item(rxQueue[At(i)], lane[rxQueue[At(i)]]) \in Items
  BY <1>1, Places DEF FullInv, PlaceFacts
<1>4. Count \in Nat
  BY Places DEF FullInv, PlaceFacts
<1>5. /\ Ready \in Seq(Items) /\ Len(Ready) = Count
      /\ \A i \in 1 .. Count : Ready[i] = Item(rxQueue[At(i)], lane[rxQueue[At(i)]])
  BY <1>2, <1>3, <1>4
<1> DEFINE h == IF ipc \in {"rxstore", "rxadvance"} THEN <<Item(got, lane[got])>> ELSE <<>>
           d == [i \in 1 .. Len(rxDone) |-> Item(rxDone[i].buf, rxDone[i].lane)]
<1>6. h \in Seq(Items) /\ Len(h) = Hand /\ (Hand = 1 => h[1] = Item(got, lane[got]))
  BY <1>1 DEF Hand, FullInv, IInv, RingInv
<1>7. rxDone \in Seq(Completions) /\ Len(rxDone) \in Nat
  BY DEF FullInv, IInv, CardInv
<1>8. \A i \in 1 .. Len(rxDone) : Item(rxDone[i].buf, rxDone[i].lane) \in Items
  <2>1. \A c \in Completions : c.buf \in RxBuffers /\ c.lane \in Lanes
    BY Lane DEF Completions, Report
  <2>2. \A i \in 1 .. Len(rxDone) : rxDone[i] \in Completions
    BY <1>7
  <2> QED
    BY <1>1, <2>1, <2>2
<1>9. d \in Seq(Items) /\ Len(d) = Len(rxDone)
  BY <1>7, <1>8
<1>10. Pending = h \o d
  BY DEF Pending
<1>11. \A i \in 1 .. Len(rxDone) : d[i] = Item(rxDone[i].buf, rxDone[i].lane)
  OBVIOUS
<1> HIDE DEF h, d
<1>12. /\ Pending \in Seq(Items) /\ Len(Pending) = Hand + Len(rxDone)
       /\ Hand = 1 => Pending[1] = h[1]
       /\ \A i \in 1 .. Len(rxDone) : Pending[Hand + i] = d[i]
  BY <1>6, <1>7, <1>9, <1>10, ConcatProperties DEF Hand
<1> QED
  BY <1>5, <1>6, <1>11, <1>12 DEF QueueFacts

LEMMA Facts ==
    FullInv /\ FullInv' => /\ PlaceFacts /\ PlaceFacts' /\ QueueFacts /\ QueueFacts'
                           /\ lane' = lane
<1>1. FullInv => PlaceFacts /\ QueueFacts
  BY Places, Queues DEF FullInv
<1>2. FullInv' => PlaceFacts' /\ QueueFacts'
  BY <1>1, PTL
<1>3. FullInv /\ FullInv' => lane' = lane
  BY DEF FullInv, IInv, LaneInv
<1> QED
  BY <1>1, <1>2, <1>3

-----------------------------------------------------------------------------
(* What leaves a queue as it is                                             *)

LEMMA ReadyStays ==
    ASSUME FullInv, FullInv', Count' = Count,
           \A i \in 1 .. Count : /\ rxQueue'[At(i)'] = rxQueue[At(i)]
                                 /\ rxMem'[rxQueue[At(i)]] = rxMem[rxQueue[At(i)]]
    PROVE  Ready' = Ready
<1>1. QueueFacts /\ QueueFacts' /\ lane' = lane /\ Count \in Nat
  BY Facts DEF PlaceFacts
<1>2. ASSUME NEW i \in 1 .. Count PROVE Ready'[i] = Ready[i]
  <2>1. Ready[i] = <<rxMem[rxQueue[At(i)]], lane[rxQueue[At(i)]]>>
    BY <1>1 DEF QueueFacts, Item
  <2>2. Ready'[i] = <<rxMem'[rxQueue'[At(i)']], lane'[rxQueue'[At(i)']]>>
    BY <1>1 DEF QueueFacts, Item
  <2> QED
    BY <1>1, <2>1, <2>2
<1> QED
  BY <1>1, <1>2, SeqEqual DEF QueueFacts

LEMMA PendingStays ==
    ASSUME FullInv, FullInv', rxDone' = rxDone, Hand' = Hand, Hand = 1 => got' = got,
           Hand = 1 => rxMem'[got] = rxMem[got],
           \A i \in 1 .. Len(rxDone) : rxMem'[rxDone[i].buf] = rxMem[rxDone[i].buf]
    PROVE  Pending' = Pending
<1>1. QueueFacts /\ QueueFacts' /\ lane' = lane /\ Hand \in {0, 1} /\ Len(rxDone) \in Nat
  BY Facts DEF Hand, FullInv, IInv, CardInv
<1>2. ASSUME NEW i \in 1 .. Len(Pending) PROVE Pending'[i] = Pending[i]
  <2>1. CASE Hand = 1 /\ i = 1
    BY <1>1, <2>1 DEF QueueFacts, Item
  <2>2. CASE ~ (Hand = 1 /\ i = 1)
    <3>1. i - Hand \in 1 .. Len(rxDone) /\ Hand + (i - Hand) = i
      BY <1>1, <2>2 DEF QueueFacts
    <3> QED
      BY <1>1, <3>1 DEF QueueFacts, Item
  <2> QED
    BY <2>1, <2>2
<1> QED
  BY <1>1, <1>2, SeqEqual DEF QueueFacts

\* Steps that touch neither queue.
ring == <<rxQueue, rxRead, rxWrite, rxMem>>

LEMMA ReadyAside ==
    ASSUME FullInv, FullInv', UNCHANGED ring, Passed' = Passed
    PROVE  Ready' = Ready
<1>1. Count' = Count /\ \A i \in 1 .. Count : At(i)' = At(i)
  BY DEF Count, At, ring
<1> QED
  BY <1>1, ReadyStays DEF ring

LEMMA PendingAside ==
    ASSUME FullInv, FullInv', UNCHANGED <<rxDone, rxMem>>,
           Hand' = Hand, Hand = 1 => got' = got
    PROVE  Pending' = Pending
  BY PendingStays

\* The card fills a free buffer.
LEMMA FillAside ==
    ASSUME FullInv, FullInv', NEW l \in Lanes, NEW y, Fill(l, y),
           UNCHANGED <<rxQueue, rxRead, rxWrite, rxDone, rpc, ipc, got>>
    PROVE  Ready' = Ready /\ Pending' = Pending
<1> DEFINE x == Head(rxFree[l])
<1>1. rxMem' = [rxMem EXCEPT ![x] = y] /\ rxFree[l] # <<>>
  BY DEF Fill
<1>2. /\ x \in OfLane(l) /\ x \in RxBuffers /\ Has(rxFree[l], x)
  BY <1>1, TailHas DEF FullInv, IInv, CardInv
<1>3. Free(x)
  BY <1>2 DEF Free, OfLane
<1>4. ~ Queued(x) /\ ~ InHand(x) /\ ~ Done(x)
  BY <1>2, <1>3 DEF FullInv, IInv, PlaceInv, Once
<1> HIDE DEF x
<1>5. \A b \in RxBuffers : b # x => rxMem'[b] = rxMem[b]
  BY <1>1 DEF FullInv, OtherTypes
<1>6. PlaceFacts
  BY Facts
<1>7. Passed' = Passed /\ Hand' = Hand
  BY DEF Passed, Hand
<1>8. Ready' = Ready
  <2>1. Count' = Count /\ \A i \in 1 .. Count : At(i)' = At(i)
    BY <1>7 DEF Count, At
  <2>2. \A i \in 1 .. Count : rxQueue[At(i)] \in RxBuffers /\ rxQueue[At(i)] # x
    BY <1>4, <1>6 DEF PlaceFacts, Queued
  <2> QED
    BY <1>5, <2>1, <2>2, ReadyStays
<1>9. Pending' = Pending
  <2>1. Hand = 1 => got \in RxBuffers /\ got # x
    BY <1>4 DEF Hand, InHand, FullInv, IInv, RingInv
  <2>2. \A i \in 1 .. Len(rxDone) : rxDone[i].buf \in RxBuffers /\ rxDone[i].buf # x
    <3>1. \A c \in Completions : c.buf \in RxBuffers /\ c = Report(c.buf)
      BY DEF Completions, Report
    <3>2. rxDone \in Seq(Completions)
      BY DEF FullInv, IInv, CardInv
    <3>3. \A i \in 1 .. Len(rxDone) : rxDone[i] \in Completions
      BY <3>2
    <3> QED
      BY <1>4, <3>1, <3>3 DEF Done, Has
  <2> QED
    BY <1>5, <1>7, <2>1, <2>2, PendingStays
<1> QED
  BY <1>8, <1>9

-----------------------------------------------------------------------------
(* Steps of the queues                                                      *)

\* The reader has its frame when the last copy succeeds.
LEMMA ReadCopyIs ==
    ASSUME FullInv, FullInv', ReadCopy
    PROVE  Pending' = Pending /\ (Ready' = Ready \/ (Ready # <<>> /\ Ready' = Tail(Ready)))
<1>1. /\ UNCHANGED ring /\ UNCHANGED <<lane, rxDone, ipc, got>>
      /\ rpc = "copy" /\ rpc' \in {"give", "idle"}
  BY DEF ReadCopy, ring, rxVars, rxCard, intVars
<1>2. Pending' = Pending
  BY <1>1, PendingAside DEF Hand, ring
<1>3. CASE rpc' = "idle"
  <2>1. Ready' = Ready
    BY <1>1, <1>3, ReadyAside DEF Passed
  <2> QED
    BY <1>2, <2>1
<1>4. CASE rpc' = "give"
  <2>1. PlaceFacts /\ PlaceFacts' /\ QueueFacts /\ QueueFacts' /\ lane' = lane
    BY Facts
  <2>2. Passed = 0 /\ Passed' = 1
    BY <1>1, <1>4 DEF Passed
  <2>3. Count' = Count - 1 /\ Count \in Nat /\ Count' \in Nat
    BY <1>1, <2>1, <2>2 DEF PlaceFacts, ring
  <2>4. ASSUME NEW i \in 1 .. Count' PROVE Ready'[i] = Ready[i + 1]
    <3>1. i + 1 \in 1 .. Count /\ i \in Int
      BY <2>3
    <3>2. At(i)' = At(i + 1)
      <4>1. /\ At(i)' = IF rxRead + i < N THEN rxRead + i ELSE rxRead + i - N
            /\ At(i + 1) = IF rxRead + i < N THEN rxRead + i ELSE rxRead + i - N
        <5>1. /\ rxRead' = rxRead /\ rxRead \in Int /\ N \in Nat
              /\ rxRead' + Passed' + i - 1 = rxRead + i
              /\ rxRead + Passed + (i + 1) - 1 = rxRead + i
          BY <1>1, <2>1, <2>2, <3>1 DEF PlaceFacts, ring
        <5>2. At(i)' = IF rxRead' + Passed' + i - 1 < N THEN rxRead' + Passed' + i - 1
                                                         ELSE rxRead' + Passed' + i - 1 - N
          BY <2>1 DEF PlaceFacts
        <5>3. At(i + 1) = IF rxRead + Passed + (i + 1) - 1 < N THEN rxRead + Passed + (i + 1) - 1
                                                         ELSE rxRead + Passed + (i + 1) - 1 - N
          BY <2>1, <3>1 DEF PlaceFacts
        <5>4. At(i)' = IF rxRead + i < N THEN rxRead + i ELSE rxRead + i - N
          BY <2>2, <3>1, <5>1, <5>2
        <5>5. At(i + 1) = IF rxRead + i < N THEN rxRead + i ELSE rxRead + i - N
          BY <2>2, <3>1, <5>1, <5>3
        <5> QED
          BY <5>4, <5>5
      <4> QED
        BY <4>1
    <3>3. Ready[i + 1] = <<rxMem[rxQueue[At(i + 1)]], lane[rxQueue[At(i + 1)]]>>
      BY <2>1, <3>1 DEF QueueFacts, Item
    <3>4. Ready'[i] = <<rxMem'[rxQueue'[At(i)']], lane'[rxQueue'[At(i)']]>>
      BY <2>1 DEF QueueFacts, Item
    <3> QED
      BY <1>1, <2>1, <3>2, <3>3, <3>4 DEF ring
  <2>5. Ready # <<>> /\ Ready \in Seq(Items) /\ Len(Ready) = Count
    BY <2>1, <2>3 DEF QueueFacts
  <2>6. /\ Tail(Ready) \in Seq(Items) /\ Len(Tail(Ready)) = Count - 1
        /\ \A i \in 1 .. (Count - 1) : Tail(Ready)[i] = Ready[i + 1]
    BY <2>5, HeadTailProperties
  <2>7. Ready' \in Seq(Items) /\ Len(Ready') = Count'
    BY <2>1 DEF QueueFacts
  <2>8. Ready' = Tail(Ready)
    BY <2>3, <2>4, <2>6, <2>7, SeqEqual
  <2> QED
    BY <1>2, <2>5, <2>8
<1> QED
  BY <1>1, <1>3, <1>4

\* The reader moves on from a frame it has read.
LEMMA ReadAdvanceIs ==
    ASSUME FullInv, FullInv', ReadAdvance
    PROVE  Pending' = Pending /\ Ready' = Ready
<1>1. /\ rxRead \in Slots(RxCnt) /\ rxWrite \in Slots(RxCnt) /\ rxRead # rxWrite
      /\ rxRead' = Advance(rxRead, RxCnt)
      /\ rxQueue' = [rxQueue EXCEPT ![rxRead] = None]
      /\ rpc = "advance" /\ rpc' = "idle"
      /\ UNCHANGED <<rxDone, rxMem, lane, rxWrite, ipc, got>>
  BY DEF FullInv, IInv, RingInv, ReadAdvance, rxCard, intVars
<1>2. Pending' = Pending
  BY <1>1, PendingAside DEF Hand
<1>3. PlaceFacts /\ PlaceFacts' /\ Passed = 1 /\ Passed' = 0
  BY <1>1, Facts DEF Passed
<1>4. N = RxCnt + 2 /\ RxCnt \in Nat
  BY CountAssumption DEF N, RingSize
<1>5. rxRead' = IF rxRead = N - 1 THEN 0 ELSE rxRead + 1
  BY <1>1, <1>4, Turn, CountAssumption
<1>6. Count' = Count /\ Count \in Nat
  BY <1>1, <1>3, <1>5 DEF PlaceFacts
<1>7. ASSUME NEW i \in 1 .. Count PROVE At(i)' = At(i) /\ At(i) # rxRead
  <2>1. At(i)' = IF rxRead' + Passed' + i - 1 < N THEN rxRead' + Passed' + i - 1
                                                  ELSE rxRead' + Passed' + i - 1 - N
    BY <1>3, <1>6 DEF PlaceFacts
  <2>2. At(i) = IF rxRead + Passed + i - 1 < N THEN rxRead + Passed + i - 1
                                               ELSE rxRead + Passed + i - 1 - N
    BY <1>3 DEF PlaceFacts
  <2>3. At(i)' \in 0 .. (N - 1)
    BY <1>3, <1>6, <1>4 DEF PlaceFacts, Slots, N
  <2>4. At(i)' = At(i)
    BY <1>3, <1>5, <1>6, <2>1, <2>2, <2>3 DEF PlaceFacts
  <2>5. RxLive(At(i))
    BY <1>3 DEF PlaceFacts
  <2> QED
    BY <1>1, <2>4, <2>5 DEF RxLive
<1>8. \A i \in 1 .. Count : rxQueue'[At(i)'] = rxQueue[At(i)]
  BY <1>1, <1>3, <1>7 DEF PlaceFacts, FullInv, IInv, RingInv
<1>9. Ready' = Ready
  BY <1>1, <1>6, <1>8, ReadyStays
<1> QED
  BY <1>2, <1>9

\* The card completes a buffer.
LEMMA CompleteIs ==
    ASSUME FullInv, FullInv', NEW l \in Lanes, Complete(l)
    PROVE  Ready' = Ready /\ \E x \in Items : Pending' = Append(Pending, x)
<1> DEFINE b == engine[l]
           x == Item(b, l)
<1>1. /\ UNCHANGED ring /\ UNCHANGED <<rpc, ipc, got>>
      /\ rxDone' = Append(rxDone, [buf |-> b, lane |-> l]) /\ b # None
  BY DEF Complete, ring, rxVars, readVars, intVars
<1>2. b \in RxBuffers
  BY <1>1 DEF FullInv, IInv, CardInv
<1> HIDE DEF b
<1>3. x \in Items
  BY <1>2 DEF Item, Items, FullInv, OtherTypes
<1>4. Ready' = Ready
  BY <1>1, ReadyAside DEF Passed
<1>5. /\ QueueFacts /\ QueueFacts' /\ lane' = lane /\ Hand' = Hand /\ Hand \in {0, 1}
  BY <1>1, Facts DEF Hand
<1>6. /\ Len(rxDone) \in Nat /\ Len(rxDone') = Len(rxDone) + 1
      /\ \A i \in 1 .. Len(rxDone) : rxDone'[i] = rxDone[i]
      /\ rxDone'[Len(rxDone) + 1] = [buf |-> b, lane |-> l]
  BY <1>1 DEF FullInv, IInv, CardInv
<1> DEFINE n == Len(rxDone)
<1>7. Pending \in Seq(Items) /\ Len(Pending) = Hand + n /\ Pending' \in Seq(Items) /\ Len(Pending') = Hand + n + 1
  BY <1>5, <1>6 DEF QueueFacts
<1>8. /\ Append(Pending, x) \in Seq(Items) /\ Len(Append(Pending, x)) = Hand + n + 1
      /\ \A i \in 1 .. (Hand + n) : Append(Pending, x)[i] = Pending[i]
      /\ Append(Pending, x)[Hand + n + 1] = x
  BY <1>3, <1>7, AppendProperties
<1>9. ASSUME NEW i \in 1 .. (Hand + n) PROVE Pending'[i] = Pending[i]
  <2>1. CASE Hand = 1 /\ i = 1
    BY <1>1, <1>5, <2>1 DEF QueueFacts, Item, ring
  <2>2. CASE ~ (Hand = 1 /\ i = 1)
    <3> DEFINE j == i - Hand
    <3>1. j \in 1 .. n /\ j \in 1 .. Len(rxDone') /\ Hand + j = i
      BY <1>5, <1>6, <2>2
    <3> HIDE DEF j
    <3>2. Pending'[i] = <<rxMem'[rxDone'[j].buf], rxDone'[j].lane>>
      BY <1>5, <3>1 DEF QueueFacts, Item
    <3>3. Pending[i] = Item(rxDone[j].buf, rxDone[j].lane)
      BY <1>5, <3>1 DEF QueueFacts
    <3> QED
      BY <1>1, <1>6, <3>1, <3>2, <3>3 DEF Item, ring
  <2> QED
    BY <2>1, <2>2
<1>10. Pending'[Hand + n + 1] = x
  <2>1. n + 1 \in 1 .. Len(rxDone') /\ Hand + (n + 1) = Hand + n + 1
    BY <1>5, <1>6
  <2>2. Pending'[Hand + (n + 1)] = <<rxMem'[rxDone'[n + 1].buf], rxDone'[n + 1].lane>>
    BY <1>5, <2>1 DEF QueueFacts, Item
  <2> QED
    BY <1>1, <1>6, <2>1, <2>2 DEF Item, ring
<1>11. \A i \in 1 .. (Hand + n + 1) : Pending'[i] = Append(Pending, x)[i]
  BY <1>5, <1>6, <1>8, <1>9, <1>10
<1> HIDE DEF x, n
<1>12. Pending' = Append(Pending, x)
  BY <1>7, <1>8, <1>11, SeqEqual
<1> QED
  BY <1>3, <1>4, <1>12

\* The handler takes a completed buffer, or sends it back to its lane.
LEMMA IrqRxIs ==
    ASSUME FullInv, FullInv', IrqRx
    PROVE  /\ Ready' = Ready
           /\ Pending' = Pending \/ (~ isOpen /\ Pending # <<>> /\ Pending' = Tail(Pending))
<1>1. UNCHANGED ring /\ UNCHANGED rpc /\ ipc = "rx" /\ Hand = 0
  BY DEF IrqRx, ring, readVars, Hand
<1>2. Ready' = Ready
  BY <1>1, ReadyAside DEF Passed
<1>3. CASE rxDone = <<>>
  <2>1. rxDone' = rxDone /\ Hand' = Hand
    BY <1>1, <1>3 DEF IrqRx, Hand
  <2> QED
    BY <1>1, <1>2, <2>1, PendingAside DEF ring
<1>4. CASE rxDone # <<>>
  <2> DEFINE d == Head(rxDone)
  <2>1. QueueFacts /\ QueueFacts' /\ lane' = lane
    BY Facts
  <2>2. rxDone \in Seq(Completions) /\ rxDone' = Tail(rxDone)
    BY <1>4 DEF IrqRx, FullInv, IInv, CardInv
  <2>3. /\ Len(rxDone) \in Nat /\ Len(rxDone) >= 1 /\ Len(rxDone') = Len(rxDone) - 1
        /\ d = rxDone[1] /\ \A i \in 1 .. Len(rxDone') : rxDone'[i] = rxDone[i + 1]
    BY <1>4, <2>2
  <2>4. /\ Pending \in Seq(Items) /\ Len(Pending) = Len(rxDone)
        /\ \A i \in 1 .. Len(rxDone) : Pending[i] = Item(rxDone[i].buf, rxDone[i].lane)
    BY <1>1, <2>1, <2>3 DEF QueueFacts
  <2>5. CASE isOpen
    <3>1. Hand' = 1 /\ got' = d.buf
      BY <1>4, <2>5 DEF IrqRx, Hand
    <3>2. d \in Completions
      BY <1>4, <2>2
    <3>3. d.buf \in RxBuffers /\ d.lane = lane[d.buf]
      <4> HIDE DEF d
      <4>1. \A c \in Completions : c.buf \in RxBuffers /\ c.lane = c.buf % DmaSize
        BY DEF Completions, Report
      <4>2. \A b \in RxBuffers : lane[b] = b % DmaSize
        BY DEF FullInv, IInv, LaneInv
      <4> QED
        BY <3>2, <4>1, <4>2
    <3>4. Pending' \in Seq(Items) /\ Len(Pending') = Len(rxDone)
      BY <2>1, <2>3, <3>1 DEF QueueFacts
    <3>5. Pending'[1] = Pending[1]
      <4>1. Pending'[1] = <<rxMem'[got'], lane'[got']>>
        BY <2>1, <3>1 DEF QueueFacts, Item
      <4>2. Pending[1] = <<rxMem[d.buf], d.lane>>
        BY <2>3, <2>4 DEF Item
      <4> QED
        BY <1>1, <2>1, <3>1, <3>3, <4>1, <4>2 DEF ring
    <3>6. ASSUME NEW i \in 2 .. Len(rxDone) PROVE Pending'[i] = Pending[i]
      <4> DEFINE j == i - 1
      <4>1. j \in 1 .. Len(rxDone') /\ 1 + j = i /\ j + 1 = i /\ i \in 1 .. Len(rxDone)
        BY <2>3
      <4> HIDE DEF j
      <4>2. Pending'[i] = <<rxMem'[rxDone'[j].buf], rxDone'[j].lane>>
        BY <2>1, <3>1, <4>1 DEF QueueFacts, Item
      <4>3. Pending[i] = <<rxMem[rxDone[i].buf], rxDone[i].lane>>
        BY <2>4, <4>1 DEF Item
      <4> QED
        BY <1>1, <2>3, <4>1, <4>2, <4>3 DEF ring
    <3>7. \A i \in 1 .. Len(rxDone) : Pending'[i] = Pending[i]
      BY <2>3, <3>5, <3>6
    <3>8. Pending' = Pending
      BY <2>4, <3>4, <3>7, SeqEqual
    <3> QED
      BY <1>2, <3>8
  <2>6. CASE ~ isOpen
    <3>1. Hand' = 0
      BY <1>4, <2>6 DEF IrqRx, Hand
    <3>2. Pending' \in Seq(Items) /\ Len(Pending') = Len(rxDone')
      BY <2>1, <2>2, <2>3, <3>1 DEF QueueFacts
    <3>3. ASSUME NEW i \in 1 .. Len(rxDone') PROVE Pending'[i] = Pending[i + 1]
      <4>1. i + 1 \in 1 .. Len(rxDone) /\ 0 + i = i
        BY <2>3
      <4>2. Pending'[i] = <<rxMem'[rxDone'[i].buf], rxDone'[i].lane>>
        BY <2>1, <3>1, <4>1 DEF QueueFacts, Item
      <4>3. Pending[i + 1] = <<rxMem[rxDone[i + 1].buf], rxDone[i + 1].lane>>
        BY <2>4, <4>1 DEF Item
      <4> QED
        BY <1>1, <2>3, <4>2, <4>3 DEF ring
    <3>4. /\ Pending # <<>> /\ Tail(Pending) \in Seq(Items) /\ Len(Tail(Pending)) = Len(rxDone')
          /\ \A i \in 1 .. Len(rxDone') : Tail(Pending)[i] = Pending[i + 1]
      BY <2>3, <2>4, HeadTailProperties
    <3>5. Pending' = Tail(Pending)
      BY <3>2, <3>3, <3>4, SeqEqual
    <3> QED
      BY <1>2, <2>6, <3>4, <3>5
  <2> QED
    BY <2>5, <2>6
<1> QED
  BY <1>3, <1>4

LEMMA IrqRxStoreIs ==
    ASSUME FullInv, FullInv', IrqRxStore
    PROVE  Pending' = Pending /\ Ready' = Ready
<1>1. /\ rxWrite \in Slots(RxCnt) /\ rxRead \in Slots(RxCnt)
      /\ rxQueue' = [rxQueue EXCEPT ![rxWrite] = got]
      /\ ipc = "rxstore" /\ ipc' = "rxadvance"
      /\ UNCHANGED <<rxDone, rxMem, rxRead, rxWrite, rpc, got>>
  BY DEF FullInv, IInv, RingInv, IrqRxStore, rxCard, readVars
<1>2. Pending' = Pending
  BY <1>1, PendingAside DEF Hand
<1>3. PlaceFacts /\ Passed' = Passed
  BY <1>1, Facts DEF Passed
<1>4. ~ RxLive(rxWrite)
  BY <1>1, WindowMoves, CountAssumption DEF RxLive
<1>5. Count' = Count /\ \A i \in 1 .. Count : At(i)' = At(i)
  BY <1>1, <1>3 DEF Count, At
<1>6. \A i \in 1 .. Count : rxQueue'[At(i)] = rxQueue[At(i)]
  BY <1>1, <1>3, <1>4 DEF PlaceFacts, FullInv, IInv, RingInv
<1>7. Ready' = Ready
  BY <1>1, <1>5, <1>6, ReadyStays
<1> QED
  BY <1>2, <1>7

\* The handler's pointer passes the frame.
LEMMA IrqRxAdvanceIs ==
    ASSUME FullInv, FullInv', IrqRxAdvance
    PROVE  Pending # <<>> /\ Pending' = Tail(Pending) /\ Ready' = Append(Ready, Head(Pending))
<1>1. /\ rxWrite \in Slots(RxCnt) /\ rxRead \in Slots(RxCnt)
      /\ rxWrite' = Advance(rxWrite, RxCnt) /\ rxWrite' # rxRead
      /\ ipc = "rxadvance" /\ ipc' = "rx"
      /\ rxQueue[rxWrite] = got
      /\ UNCHANGED <<rxDone, rxMem, rxRead, rxQueue>>
  BY NotFull DEF FullInv, IInv, RingInv, IrqRxAdvance, rxCard
<1>2. /\ PlaceFacts /\ PlaceFacts' /\ QueueFacts /\ QueueFacts' /\ lane' = lane
      /\ Hand = 1 /\ Hand' = 0
  BY <1>1, Facts DEF Hand
<1>3. Passed' = Passed
  BY DEF IrqRxAdvance, WakeReader, Passed
<1>4. N = RxCnt + 2 /\ RxCnt \in Nat
  BY CountAssumption DEF N, RingSize
<1>5. rxWrite' = IF rxWrite = N - 1 THEN 0 ELSE rxWrite + 1
  BY <1>1, <1>4, Turn, CountAssumption
<1>6. /\ Count = (IF rxRead <= rxWrite THEN rxWrite - rxRead ELSE rxWrite - rxRead + N) - Passed
      /\ Count \in Nat /\ Passed \in {0, 1} /\ N \in Nat
      /\ rxRead \in 0 .. (N - 1) /\ rxWrite \in 0 .. (N - 1)
  BY <1>2 DEF PlaceFacts
<1>7. Count' = Count + 1
  <2>1. Count' = (IF rxRead <= rxWrite' THEN rxWrite' - rxRead ELSE rxWrite' - rxRead + N) - Passed
    BY <1>1, <1>2, <1>3 DEF PlaceFacts
  <2> QED
    BY <1>1, <1>5, <1>6, <2>1
<1>8. PICK k \in Nat : k = Count + 1
  BY <1>6
<1>9. \A i \in 1 .. Count : At(i)' = At(i)
  BY <1>1, <1>3 DEF At
<1>10. At(k)' = rxWrite
  <2>1. k \in 1 .. Count' /\ k \in Int
    BY <1>6, <1>7, <1>8
  <2>2. At(k)' = IF rxRead + Passed + k - 1 < N THEN rxRead + Passed + k - 1
                                                ELSE rxRead + Passed + k - 1 - N
    BY <1>1, <1>2, <1>3, <2>1 DEF PlaceFacts
  <2>3. rxRead + Passed + k - 1 = IF rxRead <= rxWrite THEN rxWrite ELSE rxWrite + N
    BY <1>6, <1>8
  <2> QED
    BY <1>6, <2>2, <2>3
<1>11. Pending # <<>> /\ Pending' = Tail(Pending)
  <2>1. /\ Len(rxDone) \in Nat /\ Pending \in Seq(Items) /\ Len(Pending) = Len(rxDone) + 1
        /\ Pending' \in Seq(Items) /\ Len(Pending') = Len(rxDone)
    BY <1>1, <1>2 DEF QueueFacts, FullInv, IInv, CardInv
  <2>2. /\ Pending # <<>> /\ Tail(Pending) \in Seq(Items) /\ Len(Tail(Pending)) = Len(rxDone)
        /\ \A i \in 1 .. Len(rxDone) : Tail(Pending)[i] = Pending[i + 1]
    BY <2>1, HeadTailProperties
  <2>3. ASSUME NEW i \in 1 .. Len(rxDone) PROVE Pending'[i] = Pending[i + 1]
    <3>1. Pending[1 + i] = <<rxMem[rxDone[i].buf], rxDone[i].lane>> /\ 1 + i = i + 1
      BY <1>2, <2>1 DEF QueueFacts, Item
    <3>2. Pending'[0 + i] = <<rxMem'[rxDone'[i].buf], rxDone'[i].lane>> /\ 0 + i = i
      BY <1>1, <1>2, <2>1 DEF QueueFacts, Item
    <3> QED
      BY <1>1, <3>1, <3>2
  <2> QED
    BY <2>1, <2>2, <2>3, SeqEqual
<1>12. Head(Pending) \in Items /\ Head(Pending) = <<rxMem[got], lane[got]>>
  BY <1>2, <1>11, HeadTailProperties DEF QueueFacts, Item
<1>13. Ready' = Append(Ready, Head(Pending))
  <2> DEFINE x == Head(Pending)
  <2>1. Ready \in Seq(Items) /\ Len(Ready) = Count /\ Ready' \in Seq(Items) /\ Len(Ready') = k
    BY <1>2, <1>7, <1>8 DEF QueueFacts
  <2>2. /\ Append(Ready, x) \in Seq(Items) /\ Len(Append(Ready, x)) = k
        /\ \A i \in 1 .. Count : Append(Ready, x)[i] = Ready[i]
        /\ Append(Ready, x)[k] = x
    BY <1>8, <1>12, <2>1, AppendProperties
  <2>3. ASSUME NEW i \in 1 .. Count PROVE Ready'[i] = Ready[i]
    <3>1. i \in 1 .. Count'
      BY <1>6, <1>7
    <3>2. Ready'[i] = <<rxMem'[rxQueue'[At(i)']], lane'[rxQueue'[At(i)']]>>
      BY <1>2, <3>1 DEF QueueFacts, Item
    <3>3. Ready[i] = <<rxMem[rxQueue[At(i)]], lane[rxQueue[At(i)]]>>
      BY <1>2 DEF QueueFacts, Item
    <3> QED
      BY <1>1, <1>2, <1>9, <3>2, <3>3
  <2>4. Ready'[k] = x
    <3>1. k \in 1 .. Count'
      BY <1>6, <1>7, <1>8
    <3>2. Ready'[k] = <<rxMem'[rxQueue'[At(k)']], lane'[rxQueue'[At(k)']]>>
      BY <1>2, <3>1 DEF QueueFacts, Item
    <3> QED
      BY <1>1, <1>2, <1>10, <1>12, <3>2
  <2> HIDE DEF x
  <2>5. \A i \in 1 .. k : Ready'[i] = Append(Ready, x)[i]
    BY <1>6, <1>8, <2>2, <2>3, <2>4
  <2>6. Ready' = Append(Ready, x)
    BY <2>1, <2>2, <2>5, SeqEqual
  <2> QED
    BY <2>6 DEF x
<1> QED
  BY <1>11, <1>13

-----------------------------------------------------------------------------
(* The refinement                                                           *)

LEMMA FifoInit == Init => Fifo!Init
<1> SUFFICES ASSUME Init PROVE Fifo!Init
  OBVIOUS
<1>1. rxRead = 0 /\ rxWrite = 0 /\ rpc = "idle" /\ ipc = "idle" /\ rxDone = <<>> /\ isOpen = FALSE
  BY DEF Init
<1>2. (rxWrite - rxRead) % RingSize(RxCnt) = 0
  BY <1>1, Apart, CountAssumption DEF N, Slots, RingSize
<1>3. Ready = <<>>
  <2>1. Ready = [i \in 1 .. 0 |-> Item(Unread(i), lane[Unread(i)])]
    BY <1>1, <1>2 DEF Ready, Passed
  <2>2. 1 .. 0 = {}
    OBVIOUS
  <2> QED
    BY <2>1, <2>2
<1>4. Pending = <<>>
  <2>1. Pending = <<>> \o [i \in 1 .. 0 |-> Item(rxDone[i].buf, rxDone[i].lane)]
    BY <1>1 DEF Pending
  <2>2. [i \in 1 .. 0 |-> Item(rxDone[i].buf, rxDone[i].lane)] = <<>>
    OBVIOUS
  <2> QED
    BY <2>1, <2>2
<1> QED
  BY <1>1, <1>3, <1>4 DEF Fifo!Init

\* A step that neither queue sees.
LEMMA BothAside ==
    ASSUME FullInv, FullInv', UNCHANGED <<ring, rxDone>>, Passed' = Passed,
           Hand' = Hand, Hand = 1 => got' = got
    PROVE  Ready' = Ready /\ Pending' = Pending
  BY ReadyAside, PendingAside DEF ring

LEMMA FifoStep == FullInv /\ FullInv' /\ [Next]_vars => [Fifo!Next]_<<Pending, Ready, isOpen>>
<1> SUFFICES ASSUME FullInv, FullInv', [Next]_vars
             PROVE  [Fifo!Next]_<<Pending, Ready, isOpen>>
  OBVIOUS
<1> USE DEF ring, Passed, Hand, fileVars, rxVars, rxCard, readVars, intVars
<1>1. ASSUME NEW f \in Files, OpenSet(f) \/ Release(f) PROVE [Fifo!Next]_<<Pending, Ready, isOpen>>
  <2>1. Ready' = Ready /\ Pending' = Pending
    BY <1>1, BothAside DEF OpenSet, Release
  <2>2. isOpen' = isOpen \/ isOpen' = ~ isOpen
    BY <1>1 DEF OpenSet, Release, FullInv, OtherTypes
  <2> QED
    BY <2>1, <2>2 DEF Fifo!Next, Fifo!OpenClose
<1>2. ASSUME NEW f \in Files, Open(f) \/ ReadCall(f) \/ WriteCall(f) \/ Loopback(f)
      PROVE  UNCHANGED <<Pending, Ready, isOpen>>
  BY <1>2, BothAside DEF Open, ReadCall, WriteCall, Loopback
<1>3. CASE ReadWoken \/ ReadGive \/ ReadSignal
  <2>1. UNCHANGED <<Pending, Ready, isOpen>>
    BY <1>3, BothAside DEF ReadWoken, ReadGive, ReadSignal
  <2> QED
    BY <2>1
<1>4. CASE ReadCopy
  BY <1>4, ReadCopyIs DEF ReadCopy, Fifo!Next, Fifo!Read
<1>5. CASE ReadAdvance
  BY <1>5, ReadAdvanceIs DEF ReadAdvance
<1>6. CASE WriteWoken \/ WriteCopy \/ WritePost \/ WriteAdvance \/ WriteSignal
  <2>1. UNCHANGED <<Pending, Ready, isOpen>>
    BY <1>6, BothAside DEF WriteWoken, WriteCopy, WritePost, WriteAdvance, WriteSignal
  <2> QED
    BY <2>1
<1>7. CASE IrqEnter \/ IrqTx \/ IrqTxStore \/ IrqTxAdvance \/ IrqEnd
  <2>1. UNCHANGED <<Pending, Ready, isOpen>>
    BY <1>7, BothAside DEF IrqEnter, IrqTx, IrqTxStore, IrqTxAdvance, IrqEnd
  <2> QED
    BY <2>1
<1>8. CASE IrqRx
  BY <1>8, IrqRxIs DEF IrqRx, Fifo!Next, Fifo!Drop
<1>9. CASE IrqRxStore
  BY <1>9, IrqRxStoreIs DEF IrqRxStore
<1>10. CASE IrqRxAdvance
  BY <1>10, IrqRxAdvanceIs DEF IrqRxAdvance, Fifo!Next, Fifo!Queue
<1>11. ASSUME NEW l \in Lanes, Receive(l) PROVE UNCHANGED <<Pending, Ready, isOpen>>
  BY <1>11, FillAside DEF Receive
<1>12. ASSUME NEW l \in Lanes, Complete(l) PROVE [Fifo!Next]_<<Pending, Ready, isOpen>>
  BY <1>12, CompleteIs DEF Complete, Fifo!Next, Fifo!Complete, Items
<1>13. ASSUME NEW l \in Lanes, Send(l) PROVE UNCHANGED <<Pending, Ready, isOpen>>
  <2>1. CASE l \in dmaLoopback
    BY <1>13, <2>1, FillAside DEF Send
  <2>2. CASE l \notin dmaLoopback
    BY <1>13, <2>2, BothAside DEF Send
  <2> QED
    BY <2>1, <2>2
<1>14. CASE UNCHANGED vars
  BY <1>14, BothAside DEF vars
<1> QED
  BY <1>1, <1>2, <1>3, <1>4, <1>5, <1>6, <1>7, <1>8, <1>9, <1>10, <1>11, <1>12, <1>13, <1>14
     DEF Next, Reader, Writer, Handler

\* Frames reach the reader in the order in which the card completed them, each
\* with its lane, none twice, and none is lost but those that the handler meets
\* while the device is not open (SsiPcie.c:291-308, 600-640).
THEOREM Implements == Spec => SsiFifo
<1>1. Init => Fifo!Init
  BY FifoInit
<1>2. FullInv /\ FullInv' /\ [Next]_vars => [Fifo!Next]_<<Pending, Ready, isOpen>>
  BY FifoStep
<1> QED
  BY <1>1, <1>2, Full, PTL DEF Spec, SsiFifo, Fifo!Spec, Fifo!vars
=============================================================================
