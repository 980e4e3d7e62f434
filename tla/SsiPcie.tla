------------------------------ MODULE SsiPcie ------------------------------
(***************************************************************************)
(* The SSI PCIe driver (SsiPcie.c) beside its card: two rings of buffer      *)
(* pointers, each filled by the interrupt handler and emptied by a system   *)
(* call without a lock, and the card's free, transmit and done FIFOs.       *)
(* At most one thread reads and one writes at a time (the driver needs      *)
(* that: see the README); opens and closes may overlap in any way.          *)
(*                                                                         *)
(* A definition whose name ends in a capital X is a plausible slip in the    *)
(* definition after it; nothing else uses it.                               *)
(***************************************************************************)
EXTENDS Integers, Sequences

CONSTANTS
    RxCnt,    \* DEF_RX_BUF_CNT
    TxCnt,    \* DEF_TX_BUF_CNT
    DmaSize,  \* number of lanes
    Files,    \* open files of user programs
    Frames,   \* what a frame may hold
    Looped,   \* lanes a program may loop back
    None      \* no buffer, no frame, no file

ASSUME CountAssumption == RxCnt \in Nat \ {0} /\ TxCnt \in Nat \ {0} /\ DmaSize \in 1 .. 16
ASSUME LoopAssumption  == Looped \subseteq 0 .. (DmaSize - 1) /\ Frames # {}
ASSUME NoneAssumption  == None \notin Frames \cup Files \cup Nat

RxBuffers == 0 .. (RxCnt - 1)
TxBuffers == 0 .. (TxCnt - 1)
Lanes     == 0 .. (DmaSize - 1)

RingSizeX(cnt) == cnt + 1
RingSize(cnt)  == cnt + 2
Slots(cnt)     == 0 .. (RingSize(cnt) - 1)
Advance(p, cnt)  == (p + 1) % RingSize(cnt)

VARIABLES
    isOpen, fpc,             \* the device's flag; where each file stands
    rxQueue, rxRead, rxWrite,\* ring of received buffers
    txQueue, txRead, txWrite,\* ring of free transmit buffers
    lane, rxMem, txMem,      \* lane of each receive buffer; memory
    rpc, rfile, wpc, wfile,  \* the reading and the writing thread
    ipc, got,                \* the interrupt handler and the buffer it holds
    rxFree, engine, rxDone,  \* card: free FIFO and engine per lane, done FIFO
    txFifo, txDone,          \* card: descriptors per lane, done FIFO
    dmaLoopback, irq         \* card: lanes looped back, interrupt enable

fileVars == <<isOpen, fpc>>
rxVars   == <<rxQueue, rxRead, rxWrite, lane>>
txVars   == <<txQueue, txRead, txWrite>>
readVars == <<rpc, rfile>>
writVars == <<wpc, wfile, txMem>>
rxCard   == <<rxFree, engine, rxDone, rxMem>>
txCard   == <<txFifo, txDone>>
intVars  == <<ipc, got, irq>>
vars == <<fileVars, rxVars, txVars, readVars, writVars, rxCard, txCard, dmaLoopback, intVars>>

\* What SsiPcie_Probe leaves: every transmit buffer in the ring, the receive
\* buffers dealt out to the lanes' free FIFOs. A slot not yet written,
\* or passed by the call that empties the ring, is dead and holds None; of the
\* lanes and the memory that kmalloc leaves unset one value stands for all.
Init ==
    /\ isOpen = FALSE
    /\ fpc = [f \in Files |-> "closed"]
    /\ rxQueue = [s \in Slots(RxCnt) |-> None] /\ rxRead = 0 /\ rxWrite = 0
    /\ txQueue = [s \in Slots(TxCnt) |-> IF s < TxCnt THEN s ELSE None]
    /\ txRead = 0 /\ txWrite = TxCnt
    /\ lane = [b \in RxBuffers |-> b % DmaSize]
    /\ LET x == CHOOSE y \in Frames : TRUE
       IN rxMem = [b \in RxBuffers |-> x] /\ txMem = [b \in TxBuffers |-> x]
    /\ rpc = "idle" /\ rfile = None /\ wpc = "idle" /\ wfile = None
    /\ ipc = "idle" /\ got = None
    /\ rxFree = [l \in Lanes |->
                   [i \in 1 .. ((RxCnt - 1 - l) \div DmaSize + 1) |-> l + (i - 1) * DmaSize]]
    /\ engine = [l \in Lanes |-> None] /\ rxDone = <<>>
    /\ txFifo = [l \in Lanes |-> <<>>] /\ txDone = <<>>
    /\ dmaLoopback = {} /\ irq = TRUE

-----------------------------------------------------------------------------
(* Open and release: the test of isOpen and its setting are two steps.      *)

Open(f) ==
    /\ fpc[f] = "closed" /\ ~isOpen
    /\ fpc' = [fpc EXCEPT ![f] = "opening"]
    /\ UNCHANGED <<isOpen, rxVars, txVars, readVars, writVars, rxCard, txCard, dmaLoopback, intVars>>

OpenSet(f) ==
    /\ fpc[f] = "opening"
    /\ isOpen' = TRUE
    /\ fpc' = [fpc EXCEPT ![f] = "open"]
    /\ UNCHANGED <<rxVars, txVars, readVars, writVars, rxCard, txCard, dmaLoopback, intVars>>

\* The kernel calls it when no call on the file is under way.
Release(f) ==
    /\ fpc[f] = "open" /\ f \notin {rfile, wfile}
    /\ isOpen' = FALSE
    /\ fpc' = [fpc EXCEPT ![f] = "closed"]
    /\ UNCHANGED <<rxVars, txVars, readVars, writVars, rxCard, txCard, dmaLoopback, intVars>>

-----------------------------------------------------------------------------
(* SsiPcie_Read                                                             *)

\* The loop and wait_event_interruptible test the same condition. With
\* O_NONBLOCK a call that would sleep has no effect; a signal ends the sleep.
ReadCall(f) ==
    /\ rpc = "idle" /\ fpc[f] = "open"
    /\ rpc' = IF rxRead = rxWrite THEN "asleep" ELSE "copy"
    /\ rfile' = f
    /\ UNCHANGED <<fileVars, rxVars, txVars, writVars, rxCard, txCard, dmaLoopback, intVars>>

ReadWoken ==
    /\ rpc = "woken"
    /\ rpc' = IF rxRead = rxWrite THEN "asleep" ELSE "copy"
    /\ UNCHANGED <<rfile, fileVars, rxVars, txVars, writVars, rxCard, txCard, dmaLoopback, intVars>>

ReadSignal ==
    /\ rpc = "asleep"
    /\ rpc' = "idle" /\ rfile' = None
    /\ UNCHANGED <<fileVars, rxVars, txVars, writVars, rxCard, txCard, dmaLoopback, intVars>>

\* The copies to the user. When the last one fails the frame stays at the
\* head of the ring, and its buffer with it.
ReadCopy ==
    /\ rpc = "copy"
    /\ \/ rpc' = "give" /\ rfile' = rfile
       \/ rpc' = "idle" /\ rfile' = None
    /\ UNCHANGED <<fileVars, rxVars, txVars, writVars, rxCard, txCard, dmaLoopback, intVars>>

HomeX(b) == 0
Home(b)  == lane[b]

ReadGive ==
    /\ rpc = "give"
    /\ LET b == rxQueue[rxRead] IN rxFree' = [rxFree EXCEPT ![Home(b)] = Append(@, b)]
    /\ rpc' = "advance"
    /\ UNCHANGED <<rfile, engine, rxDone, rxMem, fileVars, rxVars, txVars, writVars, txCard,
                   dmaLoopback, intVars>>

ReadAdvance ==
    /\ rpc = "advance"
    /\ rxQueue' = [rxQueue EXCEPT ![rxRead] = None]
    /\ rxRead' = Advance(rxRead, RxCnt)
    /\ rpc' = "idle" /\ rfile' = None
    /\ UNCHANGED <<rxWrite, lane, fileVars, txVars, writVars, rxCard, txCard,
                   dmaLoopback, intVars>>

-----------------------------------------------------------------------------
(* SsiPcie_Write, and the ioctl commands it carries                         *)

WriteCall(f) ==
    /\ wpc = "idle" /\ fpc[f] = "open"
    /\ wpc' = IF txRead = txWrite THEN "asleep" ELSE "copy"
    /\ wfile' = f
    /\ UNCHANGED <<txMem, fileVars, rxVars, txVars, readVars, rxCard, txCard, dmaLoopback, intVars>>

WriteWoken ==
    /\ wpc = "woken"
    /\ wpc' = IF txRead = txWrite THEN "asleep" ELSE "copy"
    /\ UNCHANGED <<wfile, txMem, fileVars, rxVars, txVars, readVars, rxCard, txCard, dmaLoopback, intVars>>

WriteSignal ==
    /\ wpc = "asleep"
    /\ wpc' = "idle" /\ wfile' = None
    /\ UNCHANGED <<txMem, fileVars, rxVars, txVars, readVars, rxCard, txCard, dmaLoopback, intVars>>

\* The copy from the user, which may fail, as may the test of the lane.
WriteCopy ==
    /\ wpc = "copy"
    /\ \E x \in Frames : txMem' = [txMem EXCEPT ![txQueue[txRead]] = x]
    /\ \/ wpc' = "post" /\ wfile' = wfile
       \/ wpc' = "idle" /\ wfile' = None
    /\ UNCHANGED <<fileVars, rxVars, txVars, readVars, rxCard, txCard, dmaLoopback, intVars>>

\* txWrA and txWrB: the descriptor enters the lane's FIFO.
WritePost ==
    /\ wpc = "post"
    /\ \E l \in Lanes : txFifo' = [txFifo EXCEPT ![l] = Append(@, txQueue[txRead])]
    /\ wpc' = "advance"
    /\ UNCHANGED <<wfile, txMem, txDone, fileVars, rxVars, txVars, readVars, rxCard, dmaLoopback, intVars>>

WriteAdvance ==
    /\ wpc = "advance"
    /\ txQueue' = [txQueue EXCEPT ![txRead] = None]
    /\ txRead' = Advance(txRead, TxCnt)
    /\ wpc' = "idle" /\ wfile' = None
    /\ UNCHANGED <<txMem, txWrite, fileVars, rxVars, readVars, rxCard, txCard, dmaLoopback, intVars>>

\* IOCTL_Set_Loop and IOCTL_Clr_Loop, the only commands that change what the
\* model keeps.
Loopback(f) ==
    /\ wpc = "idle" /\ fpc[f] = "open"
    /\ \E l \in Looped : dmaLoopback' \in {dmaLoopback \cup {l}, dmaLoopback \ {l}}
    /\ UNCHANGED <<writVars, fileVars, rxVars, txVars, readVars, rxCard, txCard, intVars>>

\* IOCTL_Dump_Debug: the number of buffers in a ring, and the transmit
\* buffers it does not find there.
InRing(rd, wr, cnt)  == IF rd > wr THEN (wr - rd) + cnt + 2 ELSE wr - rd
MissingX ==
    TxBuffers \ {txQueue[(txRead + y) % (TxCnt + 2)] : y \in 0 .. (InRing(txRead, txWrite, TxCnt) - 2)}
Missing ==
    TxBuffers \ {txQueue[(txRead + y) % (TxCnt + 2)] : y \in 0 .. (InRing(txRead, txWrite, TxCnt) - 1)}

-----------------------------------------------------------------------------
(* SsiPcie_IRQHandler                                                       *)

WakeReader == IF rpc = "asleep" THEN "woken" ELSE rpc
WakeWriter == IF wpc = "asleep" THEN "woken" ELSE wpc

\* The request is a level: a done FIFO is not empty.
IrqEnter ==
    /\ ipc = "idle" /\ irq
    /\ rxDone # <<>> \/ txDone # <<>>
    /\ irq' = FALSE /\ ipc' = "tx"
    /\ UNCHANGED <<got, fileVars, rxVars, txVars, readVars, writVars, rxCard, txCard, dmaLoopback>>

IrqTx ==
    /\ ipc = "tx"
    /\ \/ txDone = <<>> /\ ipc' = "rx" /\ UNCHANGED <<got, txDone>>
       \/ txDone # <<>> /\ got' = Head(txDone) /\ txDone' = Tail(txDone) /\ ipc' = "txstore"
    /\ UNCHANGED <<irq, txFifo, fileVars, rxVars, txVars, readVars, writVars, rxCard, dmaLoopback>>

IrqTxStore ==
    /\ ipc = "txstore"
    /\ txQueue' = [txQueue EXCEPT ![txWrite] = got]
    /\ ipc' = "txadvance"
    /\ UNCHANGED <<got, irq, txRead, txWrite, fileVars, rxVars, readVars, writVars, rxCard, txCard, dmaLoopback>>

IrqTxAdvanceX ==
    /\ ipc = "txadvance"
    /\ txWrite' = Advance(txWrite, TxCnt)
    /\ got' = None /\ ipc' = "tx"
    /\ UNCHANGED <<irq, txQueue, txRead, fileVars, rxVars, readVars, writVars, rxCard, txCard, dmaLoopback>>

IrqTxAdvance ==
    /\ ipc = "txadvance"
    /\ txWrite' = Advance(txWrite, TxCnt)
    /\ wpc' = WakeWriter
    /\ got' = None /\ ipc' = "tx"
    /\ UNCHANGED <<irq, txQueue, txRead, wfile, txMem, fileVars, rxVars, readVars, rxCard, txCard, dmaLoopback>>

\* Slip: frames are dropped unless a read is under way.
IrqRxX ==
    /\ ipc = "rx"
    /\ \/ rxDone = <<>> /\ ipc' = "end" /\ UNCHANGED <<got, rxDone, lane, rxFree>>
       \/ /\ rxDone # <<>> /\ rpc # "idle"
          /\ got' = Head(rxDone).buf /\ rxDone' = Tail(rxDone)
          /\ lane' = [lane EXCEPT ![Head(rxDone).buf] = Head(rxDone).lane]
          /\ ipc' = "rxstore" /\ UNCHANGED rxFree
       \/ /\ rxDone # <<>> /\ rpc = "idle"
          /\ rxFree' = [rxFree EXCEPT ![Head(rxDone).lane] = Append(@, Head(rxDone).buf)]
          /\ rxDone' = Tail(rxDone) /\ UNCHANGED <<got, lane, ipc>>
    /\ UNCHANGED <<irq, rxQueue, rxRead, rxWrite, engine, rxMem, fileVars, txVars, readVars, writVars,
                   txCard, dmaLoopback>>

\* A buffer for which the device is not open goes straight back to its lane.
IrqRx ==
    /\ ipc = "rx"
    /\ \/ rxDone = <<>> /\ ipc' = "end" /\ UNCHANGED <<got, rxDone, lane, rxFree>>
       \/ /\ rxDone # <<>> /\ isOpen
          /\ got' = Head(rxDone).buf /\ rxDone' = Tail(rxDone)
          /\ lane' = [lane EXCEPT ![Head(rxDone).buf] = Head(rxDone).lane]
          /\ ipc' = "rxstore" /\ UNCHANGED rxFree
       \/ /\ rxDone # <<>> /\ ~isOpen
          /\ rxFree' = [rxFree EXCEPT ![Head(rxDone).lane] = Append(@, Head(rxDone).buf)]
          /\ rxDone' = Tail(rxDone) /\ UNCHANGED <<got, lane, ipc>>
    /\ UNCHANGED <<irq, rxQueue, rxRead, rxWrite, engine, rxMem, fileVars, txVars, readVars, writVars,
                   txCard, dmaLoopback>>

IrqRxStore ==
    /\ ipc = "rxstore"
    /\ rxQueue' = [rxQueue EXCEPT ![rxWrite] = got]
    /\ ipc' = "rxadvance"
    /\ UNCHANGED <<got, irq, rxRead, rxWrite, lane, fileVars, txVars, readVars, writVars, rxCard, txCard, dmaLoopback>>

IrqRxAdvance ==
    /\ ipc = "rxadvance"
    /\ rxWrite' = Advance(rxWrite, RxCnt)
    /\ rpc' = WakeReader
    /\ got' = None /\ ipc' = "rx"
    /\ UNCHANGED <<irq, rxQueue, rxRead, lane, rfile, fileVars, txVars, writVars, rxCard, txCard, dmaLoopback>>

IrqEndX ==
    /\ ipc = "end"
    /\ irq' = isOpen /\ ipc' = "idle"
    /\ UNCHANGED <<got, fileVars, rxVars, txVars, readVars, writVars, rxCard, txCard, dmaLoopback>>

IrqEnd ==
    /\ ipc = "end"
    /\ irq' = TRUE /\ ipc' = "idle"
    /\ UNCHANGED <<got, fileVars, rxVars, txVars, readVars, writVars, rxCard, txCard, dmaLoopback>>

-----------------------------------------------------------------------------
(* The card                                                                 *)

\* A frame arrives on lane l: the engine takes a free buffer and fills it.
Fill(l, x) ==
    /\ engine[l] = None /\ rxFree[l] # <<>>
    /\ engine' = [engine EXCEPT ![l] = Head(rxFree[l])]
    /\ rxFree' = [rxFree EXCEPT ![l] = Tail(@)]
    /\ rxMem' = [rxMem EXCEPT ![Head(rxFree[l])] = x]

Receive(l) ==
    /\ l \notin dmaLoopback
    /\ \E x \in Frames : Fill(l, x)
    /\ UNCHANGED <<rxDone, fileVars, rxVars, txVars, readVars, writVars, txCard, dmaLoopback, intVars>>

\* The done descriptor, with the lane it came from.
Complete(l) ==
    /\ engine[l] # None
    /\ rxDone' = Append(rxDone, [buf |-> engine[l], lane |-> l])
    /\ engine' = [engine EXCEPT ![l] = None]
    /\ UNCHANGED <<rxFree, rxMem, fileVars, rxVars, txVars, readVars, writVars, txCard, dmaLoopback, intVars>>

\* A descriptor is carried out; a looped lane feeds the receiver of its lane.
Send(l) ==
    /\ txFifo[l] # <<>>
    /\ IF l \in dmaLoopback THEN Fill(l, txMem[Head(txFifo[l])]) ELSE UNCHANGED <<rxFree, engine, rxMem>>
    /\ txDone' = Append(txDone, Head(txFifo[l]))
    /\ txFifo' = [txFifo EXCEPT ![l] = Tail(@)]
    /\ UNCHANGED <<rxDone, fileVars, rxVars, txVars, readVars, writVars, dmaLoopback, intVars>>

Reader  == ReadWoken \/ ReadCopy \/ ReadGive \/ ReadAdvance
Writer  == WriteWoken \/ WriteCopy \/ WritePost \/ WriteAdvance
Handler == IrqEnter \/ IrqTx \/ IrqTxStore \/ IrqTxAdvance
           \/ IrqRx \/ IrqRxStore \/ IrqRxAdvance \/ IrqEnd

Next ==
    \/ \E f \in Files : Open(f) \/ OpenSet(f) \/ Release(f) \/ ReadCall(f) \/ WriteCall(f) \/ Loopback(f)
    \/ Reader \/ ReadSignal \/ Writer \/ WriteSignal
    \/ Handler
    \/ \E l \in Lanes : Receive(l) \/ Complete(l) \/ Send(l)

Spec == Init /\ [][Next]_vars

\* A call that can go on does, interrupts are handled, and the card carries
\* out descriptors and reports completions; no frame need ever arrive.
Fairness ==
    /\ WF_vars(Reader) /\ WF_vars(Writer) /\ WF_vars(Handler)
    /\ \A l \in Lanes : WF_vars(Complete(l)) /\ WF_vars(Send(l))

FairSpec == Spec /\ Fairness

-----------------------------------------------------------------------------
(* Properties                                                               *)

\* The slots of a ring from its read to its write pointer; the slot a call has
\* given away but not yet passed does not count.
Window(s, rd, wr) == IF rd <= wr THEN rd <= s /\ s < wr ELSE rd <= s \/ s < wr
RxLive(s) == Window(s, rxRead, rxWrite) /\ ~ (rpc = "advance" /\ s = rxRead)
TxLive(s) == Window(s, txRead, txWrite) /\ ~ (wpc = "advance" /\ s = txRead)

\* Every place where a buffer is: ring, handler's hand, card.
RxSpots(b) ==
    {"ring"} \X {s \in Slots(RxCnt) : RxLive(s) /\ rxQueue[s] = b}
    \cup {"hand"} \X {x \in {got} : ipc \in {"rxstore", "rxadvance"} /\ x = b}
    \cup {"done"} \X {i \in 1 .. Len(rxDone) : rxDone[i].buf = b}
    \cup {"free"} \X (UNION {{l} \X {i \in 1 .. Len(rxFree[l]) : rxFree[l][i] = b} : l \in Lanes})
    \cup {"filling"} \X {l \in Lanes : engine[l] = b}

TxSpots(b) ==
    {"ring"} \X {s \in Slots(TxCnt) : TxLive(s) /\ txQueue[s] = b}
    \cup {"hand"} \X {x \in {got} : ipc \in {"txstore", "txadvance"} /\ x = b}
    \cup {"done"} \X {i \in 1 .. Len(txDone) : txDone[i] = b}
    \cup {"fifo"} \X (UNION {{l} \X {i \in 1 .. Len(txFifo[l]) : txFifo[l][i] = b} : l \in Lanes})

TypeOK ==
    /\ isOpen \in BOOLEAN /\ irq \in BOOLEAN /\ dmaLoopback \subseteq Lanes
    /\ fpc \in [Files -> {"closed", "opening", "open"}]
    /\ rxQueue \in [Slots(RxCnt) -> RxBuffers \cup {None}] /\ {rxRead, rxWrite} \subseteq Slots(RxCnt)
    /\ txQueue \in [Slots(TxCnt) -> TxBuffers \cup {None}] /\ {txRead, txWrite} \subseteq Slots(TxCnt)
    /\ lane \in [RxBuffers -> Lanes]
    /\ rxMem \in [RxBuffers -> Frames] /\ txMem \in [TxBuffers -> Frames]
    /\ rpc \in {"idle", "woken", "asleep", "copy", "give", "advance"}
    /\ wpc \in {"idle", "woken", "asleep", "copy", "post", "advance"}
    /\ rfile \in Files \cup {None} /\ wfile \in Files \cup {None}
    /\ engine \in [Lanes -> RxBuffers \cup {None}]

Single(S) == \E p \in S : \A q \in S : q = p

\* Every receive buffer and every transmit buffer is in exactly one place:
\* a ring, the handler's hand or the card. A ring a slot too short loses one
\* when the handler catches up with a call that has given its buffer away but
\* not yet moved its pointer (SsiPcie.c:299-305, 580, 634).
Conserved ==
    /\ TypeOK
    /\ \A b \in RxBuffers : Single(RxSpots(b))
    /\ \A b \in TxBuffers : Single(TxSpots(b))

\* A receive buffer always goes back to the lane SsiPcie_Probe gave it to:
\* no lane ends up with the buffers of another.
LaneKept ==
    \A l \in Lanes :
      /\ \A i \in 1 .. Len(rxFree[l]) : rxFree[l][i] % DmaSize = l
      /\ engine[l] # None => engine[l] % DmaSize = l

\* The transmit buffers that IOCTL_Dump_Debug reports as missing are those the
\* card or the handler holds, but for one that a write has posted and not yet
\* moved txRead past.
MissingAreOut ==
    Missing = {b \in TxBuffers : /\ \E p \in TxSpots(b) : p[1] \in {"hand", "fifo", "done"}
                                /\ ~ (wpc = "advance" /\ txQueue[txRead] = b)}

\* A writer asleep is woken, unless a looped lane waits for a reader to make
\* room, or completions arrive so fast that the handler's loops never end.
LoopBlocked  == \E l \in dmaLoopback : txFifo[l] # <<>> /\ rxFree[l] = <<>>
HandlerEnds  == []<>(ipc = "idle")
WriterServed == HandlerEnds => (wpc = "asleep" ~> (wpc # "asleep" \/ LoopBlocked))

\* Nor does a reader sleep while a frame is queued, or one that the card has
\* completed is not even met.
ReaderServed == HandlerEnds => (rpc = "asleep" /\ (rxRead # rxWrite \/ rxDone # <<>>)
                                  ~> (rpc # "asleep" \/ ~isOpen))

\* The receive side implements SsiFifo: a frame is pending until rxWrite has
\* passed it, and read when its last copy succeeds.
Item(b, l) == <<rxMem[b], l>>
Passed     == IF rpc \in {"give", "advance"} THEN 1 ELSE 0
Unread(i)  == rxQueue[(rxRead + Passed + i - 1) % RingSize(RxCnt)]
Ready      == [i \in 1 .. (((rxWrite - rxRead) % RingSize(RxCnt)) - Passed) |->
                 Item(Unread(i), lane[Unread(i)])]
Pending    == (IF ipc \in {"rxstore", "rxadvance"} THEN <<Item(got, lane[got])>> ELSE <<>>)
              \o [i \in 1 .. Len(rxDone) |-> Item(rxDone[i].buf, rxDone[i].lane)]
Fifo == INSTANCE SsiFifo WITH Items <- Frames \X Lanes, pending <- Pending, ready <- Ready
SsiFifo == Fifo!Spec
=============================================================================
