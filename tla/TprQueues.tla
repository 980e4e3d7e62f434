------------------------------ MODULE TprQueues ------------------------------
(***************************************************************************)
(* The message queues that the tasklet of software/kernel/tpr.c fills and   *)
(* that applications read through a shared mapping, without a lock: allq    *)
(* holds the event messages of all channels, allrp[ch] the indices of those  *)
(* for channel ch, bsaq the BSA messages.  The counters allwp, gwp and bsawp *)
(* only grow; a slot is a counter modulo the queue's size.                   *)
(*                                                                         *)
(* A message is the value gwp (bsawp) has when it is written; it has two    *)
(* halves, written one after the other.  Stores and loads take effect in    *)
(* program order, as they do on the x86 machines the driver runs on.         *)
(*                                                                         *)
(* A definition whose name ends in a capital X is a plausible slip in the    *)
(* definition after it, kept to show that a property can tell the two       *)
(* apart; nothing else uses it.                                             *)
(***************************************************************************)
EXTENDS Integers, Sequences

CONSTANTS
    MOD_SHARED,      \* channels 0 .. MOD_SHARED-1
    MAX_TPR_ALLQ,    \* slots of allq and of each allrp
    MAX_TPR_BSAQ,    \* slots of bsaq
    Readers,         \* applications following a queue
    MaxMsgs          \* bound: messages written

Chans  == 0 .. (MOD_SHARED - 1)
BSA    == MOD_SHARED + 1
Queues == Chans \cup {BSA}

ASSUME SizesAssumption ==
    /\ MOD_SHARED \in Nat
    /\ MAX_TPR_ALLQ \in Nat \ {0}
    /\ MAX_TPR_BSAQ \in Nat \ {0}
    /\ MaxMsgs \in Nat

VARIABLES
    allq,    \* slot -> the halves of the message in it
    allrp,   \* channel -> slot -> index into allq
    allwp,   \* channel -> entries written to allrp
    gwp,     \* messages written to allq
    bsaq,    \* slot -> the halves of the message in it
    bsawp,   \* messages written to bsaq
    wpc,     \* where the tasklet stands
    todo,    \* the channels of its message it has yet to index
    rpc,     \* where each reader stands
    rque,    \* the queue it follows
    rp,      \* its read pointer
    idx,     \* the index it has loaded
    lo, hi,  \* the halves it has loaded
    log      \* history: the messages of each queue, in the order of writing

writerVars == <<allq, allrp, allwp, gwp, bsaq, bsawp, wpc, todo, log>>
readerVars == <<rpc, rque, rp, idx, lo, hi>>
vars == <<writerVars, readerVars>>

NoMsg == -1
Empty == [lo |-> NoMsg, hi |-> NoMsg]

AllSlotX(i) == i % (MAX_TPR_ALLQ - 1)
AllSlot(i)  == i % MAX_TPR_ALLQ      \* i & (MAX_TPR_ALLQ-1)
BsaSlot(i)  == i % MAX_TPR_BSAQ

Init ==
    /\ allq = [k \in 0 .. (MAX_TPR_ALLQ - 1) |-> Empty]
    /\ allrp = [c \in Chans |-> [k \in 0 .. (MAX_TPR_ALLQ - 1) |-> NoMsg]]
    /\ allwp = [c \in Chans |-> 0]
    /\ gwp = 0
    /\ bsaq = [k \in 0 .. (MAX_TPR_BSAQ - 1) |-> Empty]
    /\ bsawp = 0
    /\ wpc = "idle"
    /\ todo = {}
    /\ log = [q \in Queues |-> <<>>]
    /\ rpc = [r \in Readers |-> "detached"]
    /\ rque = [r \in Readers |-> BSA]
    /\ rp = [r \in Readers |-> 0]
    /\ idx = [r \in Readers |-> NoMsg]
    /\ lo = [r \in Readers |-> NoMsg]
    /\ hi = [r \in Readers |-> NoMsg]

-----------------------------------------------------------------------------
(* tpr_handle_dma: an event message for the channels mch                    *)

EventLo(mch) ==
    /\ wpc = "idle"
    /\ gwp < MaxMsgs
    /\ allq' = [allq EXCEPT ![AllSlot(gwp)].lo = gwp]
    /\ todo' = mch
    /\ wpc' = "event_hi"
    /\ UNCHANGED <<allrp, allwp, gwp, bsaq, bsawp, log, readerVars>>

EventHi ==
    /\ wpc = "event_hi"
    /\ allq' = [allq EXCEPT ![AllSlot(gwp)].hi = gwp]
    /\ wpc' = "index"
    /\ UNCHANGED <<allrp, allwp, gwp, bsaq, bsawp, todo, log, readerVars>>

First(c) == c \in todo /\ \A d \in todo : c <= d

\* Slip: the counter is taken one too high.
IndexX(c) ==
    /\ wpc = "index"
    /\ First(c)
    /\ allrp' = [allrp EXCEPT ![c][AllSlot(allwp[c] + 1)] = gwp]
    /\ wpc' = "count"
    /\ UNCHANGED <<allq, allwp, gwp, bsaq, bsawp, todo, log, readerVars>>

Index(c) ==
    /\ wpc = "index"
    /\ First(c)
    /\ allrp' = [allrp EXCEPT ![c][AllSlot(allwp[c])] = gwp]
    /\ wpc' = "count"
    /\ UNCHANGED <<allq, allwp, gwp, bsaq, bsawp, todo, log, readerVars>>

Count(c) ==
    /\ wpc = "count"
    /\ First(c)
    /\ allwp' = [allwp EXCEPT ![c] = @ + 1]
    /\ log' = [log EXCEPT ![c] = Append(@, gwp)]
    /\ todo' = todo \ {c}
    /\ wpc' = "index"
    /\ UNCHANGED <<allq, allrp, gwp, bsaq, bsawp, readerVars>>

EventEnd ==
    /\ wpc = "index"
    /\ todo = {}
    /\ gwp' = gwp + 1
    /\ wpc' = "idle"
    /\ UNCHANGED <<allq, allrp, allwp, bsaq, bsawp, todo, log, readerVars>>

(* A BSA control or BSA event message                                       *)

BsaLo ==
    /\ wpc = "idle"
    /\ bsawp < MaxMsgs
    /\ bsaq' = [bsaq EXCEPT ![BsaSlot(bsawp)].lo = bsawp]
    /\ wpc' = "bsa_hi"
    /\ UNCHANGED <<allq, allrp, allwp, gwp, bsawp, todo, log, readerVars>>

BsaHi ==
    /\ wpc = "bsa_hi"
    /\ bsaq' = [bsaq EXCEPT ![BsaSlot(bsawp)].hi = bsawp]
    /\ wpc' = "bsa_count"
    /\ UNCHANGED <<allq, allrp, allwp, gwp, bsawp, todo, log, readerVars>>

BsaCount ==
    /\ wpc = "bsa_count"
    /\ bsawp' = bsawp + 1
    /\ log' = [log EXCEPT ![BSA] = Append(@, bsawp)]
    /\ wpc' = "idle"
    /\ UNCHANGED <<allq, allrp, allwp, gwp, bsaq, todo, readerVars>>

-----------------------------------------------------------------------------
(* An application, as tprdump and tprtest: start at the write pointer, then  *)
(* follow it                                                                *)

WritePointer(q) == IF q = BSA THEN bsawp ELSE allwp[q]

Attach(r, q) ==
    /\ rpc[r] = "detached"
    /\ rque' = [rque EXCEPT ![r] = q]
    /\ rp' = [rp EXCEPT ![r] = WritePointer(q)]
    /\ rpc' = [rpc EXCEPT ![r] = "test"]
    /\ UNCHANGED <<idx, lo, hi, writerVars>>

\* while (allrp < q.allwp[idx])
Test(r) ==
    /\ rpc[r] = "test"
    /\ rp[r] < WritePointer(rque[r])
    /\ rpc' = [rpc EXCEPT ![r] = "index"]
    /\ UNCHANGED <<rque, rp, idx, lo, hi, writerVars>>

\* bsaq has no index list: the read pointer is the index.
LoadIndex(r) ==
    /\ rpc[r] = "index"
    /\ idx' = [idx EXCEPT ![r] = IF rque[r] = BSA THEN rp[r]
                                 ELSE allrp[rque[r]][AllSlot(rp[r])]]
    /\ rpc' = [rpc EXCEPT ![r] = "lo"]
    /\ UNCHANGED <<rque, rp, lo, hi, writerVars>>

Entry(r) == IF rque[r] = BSA THEN bsaq[BsaSlot(idx[r])] ELSE allq[AllSlot(idx[r])]

LoadLo(r) ==
    /\ rpc[r] = "lo"
    /\ lo' = [lo EXCEPT ![r] = Entry(r).lo]
    /\ rpc' = [rpc EXCEPT ![r] = "hi"]
    /\ UNCHANGED <<rque, rp, idx, hi, writerVars>>

LoadHi(r) ==
    /\ rpc[r] = "hi"
    /\ hi' = [hi EXCEPT ![r] = Entry(r).hi]
    /\ rpc' = [rpc EXCEPT ![r] = "use"]
    /\ UNCHANGED <<rque, rp, idx, lo, writerVars>>

\* The message is printed; allrp++.
Advance(r) ==
    /\ rpc[r] = "use"
    /\ rp' = [rp EXCEPT ![r] = @ + 1]
    /\ rpc' = [rpc EXCEPT ![r] = "test"]
    /\ UNCHANGED <<rque, idx, lo, hi, writerVars>>

-----------------------------------------------------------------------------
Tasklet ==
    \/ \E mch \in SUBSET Chans : EventLo(mch)
    \/ EventHi
    \/ \E c \in Chans : Index(c) \/ Count(c)
    \/ EventEnd
    \/ BsaLo \/ BsaHi \/ BsaCount

Reader(r) ==
    \/ \E q \in Queues : Attach(r, q)
    \/ Test(r) \/ LoadIndex(r) \/ LoadLo(r) \/ LoadHi(r) \/ Advance(r)

Next == Tasklet \/ \E r \in Readers : Reader(r)

Spec == Init /\ [][Next]_vars

-----------------------------------------------------------------------------
(* Properties                                                               *)

Halves == [lo : Nat \cup {NoMsg}, hi : Nat \cup {NoMsg}]

\* Counters count, slots hold message numbers or nothing.
TypeOK ==
    /\ allq \in [0 .. (MAX_TPR_ALLQ - 1) -> Halves]
    /\ allrp \in [Chans -> [0 .. (MAX_TPR_ALLQ - 1) -> Nat \cup {NoMsg}]]
    /\ allwp \in [Chans -> Nat]
    /\ gwp \in Nat
    /\ bsaq \in [0 .. (MAX_TPR_BSAQ - 1) -> Halves]
    /\ bsawp \in Nat
    /\ wpc \in {"idle", "event_hi", "index", "count", "bsa_hi", "bsa_count"}
    /\ todo \in SUBSET Chans
    /\ log \in [Queues -> Seq(Nat)]
    /\ rpc \in [Readers -> {"detached", "test", "index", "lo", "hi", "use"}]
    /\ rque \in [Readers -> Queues]
    /\ rp \in [Readers -> Nat]
    /\ idx \in [Readers -> Nat \cup {NoMsg}]
    /\ lo \in [Readers -> Nat \cup {NoMsg}]
    /\ hi \in [Readers -> Nat \cup {NoMsg}]

Pointed(r) == log[rque[r]][rp[r] + 1]     \* the message a reader should get

\* The writer has not come round to the slots the reader is using.
NotLapped(r) ==
    IF rque[r] = BSA THEN bsawp - rp[r] < MAX_TPR_BSAQ
    ELSE /\ allwp[rque[r]] - rp[r] < MAX_TPR_ALLQ
         /\ gwp - Pointed(r) < MAX_TPR_ALLQ

\* What a reader has in hand when it has loaded an entry is, whole, the next
\* message of its queue, provided that the writer is even then less than a
\* queue's length ahead: no interleaving of the two shows a reader a torn or
\* another channel's message as long as it keeps up.
ReadCorrect ==
    \A r \in Readers :
        rpc[r] = "use" /\ NotLapped(r) => lo[r] = Pointed(r) /\ hi[r] = Pointed(r)

\* The last MAX_TPR_ALLQ-1 messages written are in allq, and the last
\* MAX_TPR_ALLQ-1 of each channel are in its index, whatever is being written.
WindowKept ==
    /\ \A i \in 0 .. (gwp - 1) :
         gwp - i < MAX_TPR_ALLQ => allq[AllSlot(i)] = [lo |-> i, hi |-> i]
    /\ \A c \in Chans : \A k \in 0 .. (allwp[c] - 1) :
         allwp[c] - k < MAX_TPR_ALLQ => allrp[c][AllSlot(k)] = log[c][k + 1]
    /\ \A k \in 0 .. (bsawp - 1) :
         bsawp - k < MAX_TPR_BSAQ => bsaq[BsaSlot(k)] = [lo |-> k, hi |-> k]
=============================================================================
