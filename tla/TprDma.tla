------------------------------- MODULE TprDma -------------------------------
(***************************************************************************)
(* The receive path of a TPR card: the ring of DMA buffers that tpr_probe   *)
(* builds and the tasklet goes round, the free descriptor FIFO and the      *)
(* interrupt request of EvrV2PcieRxDesc, the engine of EvrV2PcieRxDma that  *)
(* fills a buffer and then writes its done bit, the interrupt controller    *)
(* of SsiPcieIrqCtrl, and the interrupt handler.                             *)
(*                                                                         *)
(* What the engine writes is posted: it reaches memory later, in order, and *)
(* neither a register access nor the interrupt waits for it.                *)
(*                                                                         *)
(* A definition whose name ends in a capital X is a plausible slip in the    *)
(* definition after it, kept to show that a property can tell the two       *)
(* apart; nothing else uses it.                                             *)
(***************************************************************************)
EXTENDS Integers, Sequences

CONSTANTS
    N,        \* NUMBER_OF_RX_BUFFERS
    Frames,   \* what a frame may hold
    Tagged,   \* those whose first word has the drop tag that EvrV2Dma sets
    PauseEn,  \* some pause threshold is below its maximum: the stream is held
              \* up when no buffer is free; else frames are dumped
    None      \* no frame

Buffers == 0 .. (N - 1)
Succ(b) == (b + 1) % N      \* lh.next in the ring

ASSUME NAssumption     == N \in Nat \ {0, 1}
ASSUME FrameAssumption == Frames # {} /\ None \notin Frames /\ Tagged \subseteq Frames
ASSUME PauseAssumption == PauseEn \in BOOLEAN

VARIABLES
    freeQ,      \* the free descriptor FIFO
    state,      \* state of the engine
    cur,        \* the descriptor it latched
    frame,      \* the frame it is writing
    dump,       \* it has dumped frames since it last latched a header
    posted,     \* writes on their way to memory
    data,       \* memory: the frame in each buffer
    bits,       \* memory: bits 31 (done), 30 (frames were dumped before) and 23
                \* (the drop tag) of the first word
    irqState,   \* state of the interrupt controller
    irqControl, \* the interrupt enable register
    ipc,        \* where the interrupt handler stands
    sched,      \* the tasklet is scheduled
    tpc,        \* where the tasklet stands
    rxPend,     \* the buffer it looks at next
    minors,     \* some channel is open
    fifofull,   \* TprQueues.fifofull was set to 1
    out,        \* the frame the tasklet read last
    fill        \* history: the frame each buffer was last latched for, until
                \* the tasklet has read it

hwVars    == <<freeQ, state, cur, frame, dump>>
memVars   == <<data, bits>>
taskVars  == <<sched, tpc, rxPend, fifofull, out>>
vars == <<hwVars, posted, memVars, irqState, irqControl, ipc, taskVars, minors, fill>>

Init ==
    /\ freeQ = [i \in 1 .. N |-> i - 1]
    /\ state = "idle"
    /\ cur = 0
    /\ frame = None
    /\ dump = FALSE
    /\ posted = <<>>
    /\ data \in [Buffers -> {CHOOSE f \in Frames : TRUE}]
    /\ bits = [b \in Buffers |-> {}]
    /\ irqState = "idle"
    /\ irqControl = 0
    /\ ipc = "idle"
    /\ sched = FALSE
    /\ tpc = "idle"
    /\ rxPend = 0
    /\ minors = FALSE
    /\ fifofull = FALSE
    /\ out = CHOOSE f \in Frames : TRUE
    /\ fill = [b \in Buffers |-> None]

-----------------------------------------------------------------------------
(* EvrV2PcieRxDma                                                           *)

\* IDLE_S with a start of frame and a free descriptor, then ACK_WAIT_S.
Accept ==
    /\ state = "idle"
    /\ freeQ # <<>>
    /\ \E f \in Frames :
         /\ frame' = f
         /\ fill' = [fill EXCEPT ![Head(freeQ)] = f]
    /\ cur' = Head(freeQ)
    /\ state' = "data"
    /\ UNCHANGED <<freeQ, dump, posted, memVars, irqState, irqControl, ipc,
                   taskVars, minors>>

\* IDLE_S with a frame and no descriptor, then DATA_DUMP_S.
Dump ==
    /\ state = "idle"
    /\ freeQ = <<>>
    /\ ~PauseEn
    /\ dump' = TRUE
    /\ UNCHANGED <<freeQ, state, cur, frame, posted, memVars, irqState,
                   irqControl, ipc, taskVars, minors, fill>>

\* READ_TRANS_S .. COLLECT_S: the frame.
SendData ==
    /\ state = "data"
    /\ posted' = Append(posted, [buf |-> cur, what |-> "data", val |-> frame])
    /\ state' = "mark"
    /\ UNCHANGED <<freeQ, cur, frame, dump, memVars, irqState, irqControl, ipc,
                   taskVars, minors, fill>>

\* Slip: the mark does not wait for the data.
SendMarkX ==
    /\ state = "data"
    /\ posted' = Append(posted, [buf |-> cur, what |-> "mark", val |-> dump])
    /\ dump' = FALSE
    /\ state' = "done"
    /\ UNCHANGED <<freeQ, cur, frame, memVars, irqState, irqControl, ipc,
                   taskVars, minors, fill>>

\* TR_DONE_S and the completion transaction: the first word again, with its
\* top byte x"80", or x"C0" after a dump.
SendMark ==
    /\ state = "mark"
    /\ posted' = Append(posted, [buf |-> cur, what |-> "mark", val |-> dump])
    /\ dump' = FALSE
    /\ state' = "done"
    /\ UNCHANGED <<freeQ, cur, frame, memVars, irqState, irqControl, ipc,
                   taskVars, minors, fill>>

\* doneReq and doneAck: EvrV2PcieRxDesc pops the descriptor.
Done ==
    /\ state = "done"
    /\ freeQ' = Tail(freeQ)
    /\ state' = "idle"
    /\ frame' = None
    /\ UNCHANGED <<cur, dump, posted, memVars, irqState, irqControl, ipc,
                   taskVars, minors, fill>>

HeaderBits(f)  == IF f \in Tagged THEN {23} ELSE {}
MarkBits(dumped) == IF dumped THEN {31, 30} ELSE {31}

\* The oldest posted write reaches memory.  The mark repeats the low bytes of
\* the first word.
Arrive ==
    /\ posted # <<>>
    /\ LET w == Head(posted)
       IN  \/ /\ w.what = "data"
              /\ data' = [data EXCEPT ![w.buf] = w.val]
              /\ bits' = [bits EXCEPT ![w.buf] = HeaderBits(w.val)]
           \/ /\ w.what = "mark"
              /\ bits' = [bits EXCEPT ![w.buf] = (@ \cap {23}) \cup MarkBits(w.val)]
              /\ UNCHANGED data
    /\ posted' = Tail(posted)
    /\ UNCHANGED <<hwVars, irqState, irqControl, ipc, taskVars, minors, fill>>

-----------------------------------------------------------------------------
(* Interrupts                                                               *)

\* The FIFO shows its first word at its output and counts the others.
dFifoCntX == Len(freeQ)
dFifoCnt  == IF freeQ = <<>> THEN 0 ELSE Len(freeQ) - 1

rxFifoSizeX == N - 2
rxFifoSize  == N - 1       \* as tpr_probe sets it

irqReq == dFifoCnt < rxFifoSize

\* SsiPcieIrqCtrl.  The line is up from the acknowledge of SET_S to that of
\* CLR_S.
IrqStep ==
    /\ \/ irqState = "idle" /\ irqControl = 1 /\ irqReq /\ irqState' = "set"
       \/ irqState = "set" /\ irqState' = "serv"
       \/ irqState = "serv" /\ (irqControl = 0 \/ ~irqReq) /\ irqState' = "clr"
       \/ irqState = "clr" /\ irqState' = "idle"
    /\ UNCHANGED <<hwVars, posted, memVars, irqControl, ipc, taskVars, minors, fill>>

irqLine   == irqState \in {"serv", "clr"}
irqStatus == irqReq          \* the register shows the request, not the line

\* tpr_intr: irqStatus is read (and IRQ_NONE returned if it is clear), ...
Intr ==
    /\ ipc = "idle"
    /\ irqLine
    /\ irqStatus
    /\ ipc' = "mask"
    /\ UNCHANGED <<hwVars, posted, memVars, irqState, irqControl, taskVars, minors, fill>>

\* ... the interrupt is disabled ...
IntrMask ==
    /\ ipc = "mask"
    /\ irqControl' = 0
    /\ ipc' = "schedule"
    /\ UNCHANGED <<hwVars, posted, memVars, irqState, taskVars, minors, fill>>

\* Slip: the tasklet is not scheduled.
IntrScheduleX ==
    /\ ipc = "schedule"
    /\ ipc' = "idle"
    /\ UNCHANGED <<hwVars, posted, memVars, irqState, irqControl, taskVars,
                   minors, fill>>

\* ... and the tasklet is scheduled.
IntrSchedule ==
    /\ ipc = "schedule"
    /\ sched' = TRUE
    /\ ipc' = "idle"
    /\ UNCHANGED <<hwVars, posted, memVars, irqState, irqControl, tpc, rxPend,
                   fifofull, out, minors, fill>>

-----------------------------------------------------------------------------
(* tpr_handle_dma.  The kernel runs one instance of a tasklet at a time.     *)

Start ==
    /\ tpc = "idle"
    /\ sched
    /\ sched' = FALSE
    /\ tpc' = "test"
    /\ UNCHANGED <<hwVars, posted, memVars, irqState, irqControl, ipc, rxPend,
                   fifofull, out, minors, fill>>

\* Slip: the bit is not cleared.
TestDoneX ==
    /\ tpc = "test"
    /\ IF 31 \in bits[rxPend] THEN tpc' = "read" ELSE tpc' = "end"
    /\ UNCHANGED <<hwVars, posted, memVars, irqState, irqControl, ipc, sched,
                   rxPend, fifofull, out, minors, fill>>

\* while (test_and_clear_bit(31, next->buffer))
TestDone ==
    /\ tpc = "test"
    /\ IF 31 \in bits[rxPend] THEN tpc' = "read" ELSE tpc' = "end"
    /\ bits' = [bits EXCEPT ![rxPend] = @ \ {31}]
    /\ UNCHANGED <<hwVars, posted, data, irqState, irqControl, ipc,
                   sched, rxPend, fifofull, out, minors, fill>>

\* The messages of the frame are copied to the queues; dptr[0] & (0x808<<20)
\* looks at bits 31 and 23.
ReadFrame ==
    /\ tpc = "read"
    /\ out' = data[rxPend]
    /\ fifofull' = (fifofull \/ bits[rxPend] \cap {31, 23} # {})
    /\ fill' = [fill EXCEPT ![rxPend] = None]
    /\ tpc' = "free"
    /\ UNCHANGED <<hwVars, posted, memVars, irqState, irqControl, ipc, sched,
                   rxPend, minors>>

\* Slip: the buffer after the one read is handed back.
FreeBufferX ==
    /\ tpc = "free"
    /\ freeQ' = Append(freeQ, Succ(rxPend))
    /\ rxPend' = Succ(rxPend)
    /\ tpc' = "test"
    /\ UNCHANGED <<state, cur, frame, dump, posted, memVars, irqState,
                   irqControl, ipc, sched, fifofull, out, minors, fill>>

\* rxFree[0] = next->dma; next = next->lh.next
FreeBuffer ==
    /\ tpc = "free"
    /\ freeQ' = Append(freeQ, rxPend)
    /\ rxPend' = Succ(rxPend)
    /\ tpc' = "test"
    /\ UNCHANGED <<state, cur, frame, dump, posted, memVars, irqState,
                   irqControl, ipc, sched, fifofull, out, minors, fill>>

\* if (dev->minors) irqControl = 1
End ==
    /\ tpc = "end"
    /\ irqControl' = IF minors THEN 1 ELSE irqControl
    /\ tpc' = "idle"
    /\ UNCHANGED <<hwVars, posted, memVars, irqState, ipc, sched, rxPend,
                   fifofull, out, minors, fill>>

\* The first open of a channel and the last close, as far as the ring sees
\* them (TprClients has their steps).
FirstOpen ==
    /\ ~minors
    /\ minors' = TRUE
    /\ irqControl' = 1
    /\ UNCHANGED <<hwVars, posted, memVars, irqState, ipc, taskVars, fill>>

LastClose ==
    /\ minors
    /\ minors' = FALSE
    /\ UNCHANGED <<hwVars, posted, memVars, irqState, irqControl, ipc, taskVars, fill>>

-----------------------------------------------------------------------------
Engine  == SendData \/ SendMark \/ Done
Handler == Intr \/ IntrMask \/ IntrSchedule
Tasklet == Start \/ TestDone \/ ReadFrame \/ FreeBuffer \/ End

Next ==
    \/ Accept \/ Dump \/ Engine \/ Arrive
    \/ IrqStep \/ Handler \/ Tasklet
    \/ FirstOpen \/ LastClose

Spec == Init /\ [][Next]_vars

\* The card's clocked logic and the PCIe link go on, the kernel runs handlers
\* and tasklets.  Frames need not come, nobody needs to open or close.
FairSpec ==
    Spec /\ WF_vars(Engine) /\ WF_vars(Arrive) /\ WF_vars(IrqStep)
         /\ WF_vars(Handler) /\ WF_vars(Tasklet)

-----------------------------------------------------------------------------
(* Properties                                                               *)

Write == [buf : Buffers, what : {"data"}, val : Frames]
           \cup [buf : Buffers, what : {"mark"}, val : BOOLEAN]

\* Every register and every word of memory holds a value of its type; the
\* descriptor FIFO holds addresses of buffers.
TypeOK ==
    /\ freeQ \in Seq(Buffers)
    /\ state \in {"idle", "data", "mark", "done"}
    /\ cur \in Buffers
    /\ frame \in Frames \cup {None}
    /\ dump \in BOOLEAN
    /\ posted \in Seq(Write)
    /\ data \in [Buffers -> Frames]
    /\ bits \in [Buffers -> SUBSET {31, 30, 23}]
    /\ irqState \in {"idle", "set", "serv", "clr"}
    /\ irqControl \in {0, 1}
    /\ ipc \in {"idle", "mask", "schedule"}
    /\ sched \in BOOLEAN
    /\ tpc \in {"idle", "test", "read", "free", "end"}
    /\ rxPend \in Buffers
    /\ minors \in BOOLEAN
    /\ fifofull \in BOOLEAN
    /\ out \in Frames
    /\ fill \in [Buffers -> Frames \cup {None}]

\* The tasklet never works on a buffer that the card may write: while it reads
\* a frame or hands the buffer back, no posted write is on its way to it, the
\* engine is not filling it, and its descriptor is not in the FIFO, unless it is
\* the one the engine is about to pop.
ReadAlone ==
    tpc \in {"read", "free"} =>
        /\ \A i \in DOMAIN freeQ : freeQ[i] = rxPend => i = 1 /\ state = "done"
        /\ state \in {"data", "mark"} => cur # rxPend
        /\ \A i \in DOMAIN posted : posted[i].buf # rxPend

\* A buffer with its done bit set holds the whole frame it was latched for.
DoneIsWhole == \A b \in Buffers : 31 \in bits[b] => data[b] = fill[b]

\* The card asks for an interrupt exactly while a buffer is out of its FIFO:
\* neither is a lone frame left waiting for the next, nor does the request
\* stay up when the driver has returned everything.
IrqIffOutstanding ==
    irqReq <=> \E b \in Buffers : \A i \in DOMAIN freeQ : freeQ[i] # b

\* While a channel is open the interrupt is enabled, or the handler or the
\* tasklet is on its way and will enable it.
IrqArmed ==
    minors => irqControl = 1 \/ ipc = "schedule" \/ sched \/ tpc # "idle"

\* A buffer that the card has latched is read in the end, as long as some
\* channel stays open: no frame waits for an interrupt that does not come.
Drained == <>[]minors => \A b \in Buffers : fill[b] # None ~> fill[b] = None

\* tpr.c:445: "Check if a drop preceded us".  A frame that follows dumped ones
\* and has been read has set fifofull.
DropSeen == (tpc = "free" /\ 30 \in bits[rxPend]) => fifofull

\* The frames between the engine's latch and the tasklet: those of the buffers
\* that are out of the FIFO, or at its head and latched, from rxPend on; the one
\* being handed back has been read.
Busy       == IF state = "idle" THEN 0 ELSE 1
HandedBack == IF tpc = "free" THEN 1 ELSE 0
Latched    == N - Len(freeQ) + Busy - HandedBack
InFlight   == [i \in 1 .. Latched |-> fill[(rxPend + HandedBack + i - 1) % N]]

\* The ring, the FIFO, the engine and the tasklet together are a FIFO of frames.
Fifo == INSTANCE FrameFifo WITH Capacity <- N, q <- InFlight
FrameFifo == Fifo!Init /\ [][Fifo!Next]_<<InFlight, out>>
=============================================================================
