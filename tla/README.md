# A verification model of the TPR card and its driver

TLA+ modules for the timing pattern receiver (TPR) of `evr-card-g2`: a PCIe card
whose firmware selects timing events for a number of channels and writes them by
DMA into memory, a Linux driver that sorts them into queues, and applications
that follow the queues through a shared mapping. Around that core: the older driver of
the same card (`SsiPcie.c`), the probe and removal of both drivers, the programs that
load the card's boot PROM, and the programs that set the receiver up; and, before it,
the firmware that makes the messages and the frames. Paths are relative to the
repository; `tpr.c` and `tpr.h` are in `software/kernel/`, `EvrV2*.vhd` in
`firmware/common/EvrCardG2/general/rtl/`.

## 1. Inventory

| component | where | state | operations | hard part |
|---|---|---|---|---|
| driver: clients | `tpr.c`, `tpr.h` | `all_shares[]`, the freelist, one list of shares per channel and one for BSA, `minors`, `pendingirq`, `master`, the channels' control registers, `irqControl` | `tpr_open`, `tpr_release`, `tpr_read`, `tpr_intr`, the wake loop of `tpr_handle_dma` | calls overlap; the tasklet takes no lock; some accesses are under `dev->lock` and some to the same data are not |
| driver and card: receive ring | `tpr.c`, `EvrV2PcieRxDesc.vhd`, `EvrV2PcieRxDma.vhd`, `SsiPcieIrqCtrl.vhd`, `EvrV2Reg.vhd` | ring of buffers, free descriptor FIFO, engine state, posted writes, done bits, interrupt state | accept or dump a frame, write it, mark it, pop the descriptor; interrupt; drain, hand back, re-enable | nothing tells the driver which buffer completed; writes are posted; the interrupt is a level computed from a FIFO's count |
| shared queues | `tpr.c` 454-516, `tpr.h` 130-138, `app/tprdump.cc`, `app/tprtest.cc` | `allq`, `allrp[]`, `allwp[]`, `gwp`, `bsaq`, `bsawp`; each reader's pointer | append an event and its index entries; append a BSA message; follow a queue | no lock between kernel and applications; slots are reused |
| drivers: probe and remove | `tpr.c` 600-860, `SsiPcie.c` 640-925 | the table of device structures, per structure the resources it holds, the card's interrupt enable | acquire one by one, give up half way, find the structure again, release one by one | error paths leave parts behind; the search; what runs beside a removal |
| firmware event path | `EvrV2Core`, `EvrV2Dma`, `EvrV2DmaModule`, `EvrV2EventDma`, `EvrV2BsaControl`, `EvrV2BsaChannel*`, `XpmMessageAligner` | per-producer state machines, `idle`, `paused`, `dropped` | one frame per strobe from the producers that have something to say | nothing arbitrates between producers; pause, drops and the frame's end are decided in different clocks |
| legacy SSI PCIe driver | `firmware/common/SsiPcieCore/software/driver/SsiPcie.c` | `isOpen`, `txQueue`, `rxQueue`, their pointers, the lane of each buffer | open, release, write, read, ioctl, interrupt; probe, remove | no lock at all between reader, writer and the interrupt |
| SSI PCIe core firmware | `firmware/common/SsiPcieCore/rtl/` | descriptor FIFOs, transmit and receive engines, TLP arbitration | as named | credit and completion order |
| flash programming | `software/PromLoader/`, `BpiPromCore.vhd`, `BpiPromReg.vhd` | a cursor in the file, the programming buffer, the PROM's cells, locks and status | erase, buffered program, verify, show the version | polling, retry, partial blocks, a file read twice |
| registers, triggers, locks | `EvrV2Reg`, `EvrCardG2Trig*`, `EvrLock*`, `PhaseDetector`, `IntervalCheck`, `DaqControlTx`, ... | registers and counters | per pulse | overflow of counters |
| applications | `software/app/` | registers shared by programs, a channel set up, a read pointer | set up, tune, follow, print | read-modify-writes between programs; a slow reader; a killed program |
| virtual cable server | `app/tprxvc.cc`, `app/evgasync.cc` | a request buffer | one request after another over a socket | partial reads |
| legacy card, clocks, LEDs, benches, targets | the rest of `firmware/` | - | - | wiring and vendor primitives |

How the parts meet. The firmware hands frames of messages to the receive engine
(stream). The engine takes buffer addresses from a FIFO that the driver fills
by register writes, writes the frame, then writes the frame's first word again
with bit 31 set. The descriptor FIFO's count makes the interrupt request;
`tpr_intr` disables the interrupt and schedules the tasklet; the tasklet goes
round its ring while it finds bit 31, copies messages into the queues, hands
buffers back, wakes the clients of the channels it saw, and enables the
interrupt again if `dev->minors` is not empty. `tpr_open` and `tpr_release`
maintain that set, the lists the tasklet walks, and the DMA enable bit of each
channel. Applications sleep in `tpr_read` and then read the queues through the
mapping.

What makes each part correct: a share belongs to one open file, lists and
freelist partition the shares, a channel with a client is enabled, the
interrupt is never off for good, every client is woken; a frame is read once,
whole, in order, and no buffer is written while it is read; a reader that keeps
up gets exactly its queue's messages; a buffer of the older driver is in one place at
a time and goes back to the lane it belongs to; a structure belongs to one card, what
runs finds what it uses, and a removed card is quiet; a loader that reports success
has written the file and nothing else; every frame holds exactly the messages its
pulse's producers said, as the driver's parser cuts it up; a receiver ends up as its last program asked.

## 2. Modules

| module | models | EXTENDS or uses |
|---|---|---|
| `TprClients` | open, release, read, interrupt, wake loop | - |
| `MCTprClients` | its instances for TLC | `TprClients` |
| `TprClientsProofs` | theorems about `TprClients` | `TprClients` |
| `FrameFifo` | abstract: a bounded FIFO of frames | - |
| `TprDma` | receive ring, engine, interrupt, tasklet's buffer loop | instantiates `FrameFifo` |
| `TprDmaProofs` | theorems about `TprDma` | `TprDma` |
| `TprQueues` | tasklet as writer, applications as readers | - |
| `TprQueuesProofs` | theorems about `TprQueues` | `TprQueues` |
| `SsiFifo` | abstract: the older driver's receive side, frames completed and frames ready to read | - |
| `SsiPcie` | the older driver's calls, its handler and its card | instantiates `SsiFifo` |
| `SsiPcieProofs` | theorems about `SsiPcie`, and that its receive side implements `SsiFifo` | `SsiPcie` |
| `CardProbe` | probe and removal in either driver, and what runs beside them | - |
| `CardProbeProofs` | theorems about `CardProbe` | `CardProbe` |
| `PromLoader`, `MCPromLoader` | the three PROM programs on a PROM that may fail; files for TLC | - |
| `PromLoaderProofs` | theorems about `PromLoader` | `PromLoader` |
| `EvrFrames` | producers, frames, pause, the driver's parser | - |
| `EvrFramesProofs` | theorems about `EvrFrames` | `EvrFrames` |
| `TprPrograms`, `MCTprPrograms` | the set-up programs on one card's registers; command lines for TLC | - |
| `TprProgramsProofs` | theorems about `TprPrograms` | `TprPrograms` |

The three components of the event path are separate because they share only small interfaces: a
set of lists with messages between ring and clients (`ready` in `TprClients`),
`minors` between clients and ring, and the fact that the tasklet is one writer
between ring and queues. `EvrFrames` leaves the ring out: a frame that the engine has moved is
read at once, and `TprDma` shows that the ring keeps frames whole and in order. `TprClients` has the steps by which `minors` and
`irqControl` change; `TprDma` has `FirstOpen` and `LastClose` only; `TprPrograms` has
open and close of a channel as one step each.

A definition whose name ends in a capital `X` is the definition after it with a
plausible mistake. Nothing uses it; `PROJECT.json` pairs each property with the
mistake that breaks it.

### TprClients

One variable per field of `struct tpr_dev` and `struct shared_tpr` that these
calls touch: `head`, `next`, `prev`, `freelist`, `parent`, `minor`, `pending`,
`masterSet`, `minors`; `ctl` and `irqControl` are registers. `pc[f]` is where the
call on file `f` stands, `sh[f]` is `filp->private_data`. `place` and `owed` are
history variables for the properties.

Granularity: an action is the stretch between two accesses to something that
another call or the tasklet may be using. Sections under `dev->lock` are one
action (`Pop`, `Link`, `Push`) unless they touch `minors` or a control register,
which `tpr_open` writes without the lock: `tpr_release`'s last-close part is
therefore five actions with `lock` held across them. `|=`, `&=` are a read and a
write. Following a NULL parent is a label of its own, `oops`, from which nothing
follows.

`tpr_release` returns ERROR when it finds no parent ("Already closed"); the file
structure is gone all the same, so `CheckParent` ends in `closed` with the share
still on its list.

### TprDma

`freeQ` is the descriptor FIFO, `state` the engine: `Accept` (IDLE_S and
ACK_WAIT_S with a start of frame), `SendData`, `SendMark` (the completion
transaction with x"80" or, after a dump, x"C0"), `Done` (doneReq and doneAck,
which pops the FIFO). Writes go through `posted` and arrive in order. `dFifoCnt`
is the count of a first-word-fall-through FIFO: the word at the output is not in
it. `irqLine` is up from the acknowledgement of the set message to that of the
clear; the register `tpr_intr` reads shows the request instead. The tasklet's loop
is `TestDone`, `ReadFrame`, `FreeBuffer`, `End`. `fill` is history: the frame each
buffer was latched for and that has not been read.

Frames are values; the bits of the first word that the engine and the driver
share (31, 30, 23) are kept, because one finding is about them.

### TprQueues

A message is its number (`gwp` or `bsawp` when it is written) in two halves, so
that a torn copy is visible. The order of stores is the program's. A reader is
`tprdump`'s and `tprtest`'s loop: start at the write pointer, test, load the index,
load the entry, advance. `log` is history: each queue's messages in order.

### SsiPcie

`rxQueue` and `txQueue` are the driver's rings with their two pointers each; the card has
a free FIFO, a transmit FIFO and an engine per lane, and two done FIFOs.
The handler (`IrqEnter`, `IrqTx...`, `IrqRx...`, `IrqEnd`) empties the done FIFOs entry by entry; it may
run between the parts of a read (`ReadCall`, `ReadCopy`, `ReadGive`, `ReadAdvance`) and of
a write, with copies that fail, signals, and calls that would block. Opens test
`isOpen` and set it in two steps. Of the ioctls, those that loop a lane back change
state, and the ring dump reports what `MissingAreOut` is about. `SsiFifo` is what a reader is
promised: frames in the order in which the card completed them, each once and with its lane,
none lost but those met while the device is closed.

The driver takes no lock in a read or a write, so two threads that read (or write) the same
file at once would take one buffer twice. The module therefore has at most one of each at a time; this is
a precondition of the driver and not something it ensures.

### CardProbe

`TprAcquire`, `SsiAcquire` and their `Release` counterparts are the calls in program order,
with what the code does when each is refused: return with everything held, or go on.
`ProbeStep`, `ProbeFail` and `RemoveStep` walk down them; `Free` and `Matching` are what the
searches through the table of structures look for. `handler`, `task`, `clients` and `vmas` are what runs beside.
`Busy` FALSE is the assumption that nobody opens a card that is not bound or removes one that
is open; the drivers do not ensure it.

### PromLoader

One step per call of `EvrCardG2Prom` or `McsRead` and per status poll. A byte is erased or not and
programming only clears, so a block that was not erased, a word of stale data and a
swapped pair of bytes can all be told from what was meant. The file is a sequence of records,
among them ones that `McsRead::next` refuses, as it does data without a byte (`McsRead.cpp:242`); it may be gone when it is opened for the
second time. The legacy PROM is polled by its status register and retried; the new one is only waited for.

### TprPrograms

A program is a sequence of steps (`Script`), each one access to a register or an open or a
close of a channel; programs are interleaved step by step and may be killed at any of
them. `Tuners` run `tprtest`, `tprtool` or `tprtrig` one after another, `Readers` run `tprdump`.
A register of flags is the set of flags that are on. A trigger has four registers (control, delay, width and the
delay's tap), each written by a step of its own in the code's order; a value is the setting it is a part of, so a trigger made of
two settings can be told from a whole one.

### EvrFrames

An action `Tick` is a clock of the card, `Move` a transaction of the engine and, with
the last one of a frame, the tasklet's reading of it. `clock` counts from `strobe_o`; the shift register
of `EvrV2DmaModule` is the test `Strobe(tap)`, since with a period above 199 clocks one strobe is in it
at a time. `ctl`, `sum` and `evt` are the state machines of the three producers that are
instantiated, each counting its words, and `ctlOut`, `sumOut`, `evtOut` their registers.
`Assemble` is `EvrV2Dma`, which takes whichever producer is valid and puts the END word
in at the last tap. A word is which of which message it is, the channels of a first word, and
the two bits that `EvrV2Dma` adds. The FIFO is counted in beats of four
words: the card's stream has 32 bits and the engine's 128. `Pause` is the FIFO's threshold, sampled
at the end of a frame. `Parse` is the loop of `tpr_handle_dma` over the words of a buffer, with
the sizes of `tpr.h`, which nothing in the firmware shares.

`said`, `lost` and `due` are history: what the producers set out to say in this pulse, whether
messages were lost since the last frame, and the frames that have not been read.

What the summary's mask says is `evtSelect` of its TAG state. It goes on collecting selections
after it was cleared, so the mask can name a channel of the pulse before; the model has that,
and `FramesRead` asks only that the driver gets the mask the firmware sent.

## 3. What is checked

All runs use small instances; the bounds are the constants of each `.cfg`.

| run | shows | bounds, and why they are enough |
|---|---|---|
| `clients_serial` | `EnabledWhileOpen`, `ParentWhileLinked`, `NoOops`, `AllReturned` while calls do not overlap | three files over two shares, so an open also fails for want of a share; two channels, so `minors` has two bits and the last close of one is not that of the other; BSA and control devices; the tasklet runs beside |
| `clients_overlap` | `ShareExclusive`, `ListsExact`, `IrqArmed`, `TypeOK` with two calls overlapping everywhere | two files on a channel and BSA: every pair of sections meets, and removal at head and tail occurs. Deadlock is not checked: a call that follows a NULL parent holds `dev->lock` for good |
| `clients_served` | `Served`, liveness: clients of channels and of BSA are woken | one channel, which selects events or does not, and BSA; two files, one call at a time (the overlap's faults are known, see section 5) |
| `dma_ring` | `ReadAlone`, `DoneIsWhole`, `IrqIffOutstanding`, `IrqArmed`, and that the ring implements `FrameFifo` | three buffers: one being read, one being written, one free; two kinds of frame tell a swapped order |
| `dma_drained` | `Drained`, with dumping | two buffers: the FIFO is empty, has one, is full |
| `queues_read` | `ReadCorrect`, `WindowKept` | two channels, queues of two slots, four messages: every slot is reused while a reader may be in it. Deadlock is not checked: the bound on messages stops the writer |
| `ssi_frames` | `Conserved`, `LaneKept`, `MissingAreOut`, that the driver with its card implements `SsiFifo`, and the liveness of both sleepers | two lanes with a receive buffer each, one transmit buffer: a writer has to wait, a ring is full and empty; lane 0 may be looped back, so a frame that is sent comes back. One file; `ssi_two_files.cfg`, by hand, has two without the liveness. Deadlock is not checked: a reader may wait for a frame that nobody sends |
| `card_probe` | `OwnStructure`, `RemovesOwn`, `UseSafe`, `Quiet`, `Released`, `TypeOK` of `tpr.c` | three cards on two structures, so the table fills, and a slot is used again for another card; every refusal up to the card's address |
| `probe_remove_finds` | that `SsiPcie_Remove` finds no device (section 5) | one card |
| `prom_load` | `Loaded`, `NoStray`, `Locked`, `Ends` | six files (whole buffers, a part of one, an odd byte, less than one, a bad record, no end record); buffers of two words, blocks of two buffers, a PROM of two blocks, of which the programs mean to write five words: the last block is partial. Deadlock is not checked: a program ends |
| `programs` | `Tuned`, `TriggerWhole`, `DmaWhileOpen`, `LossReported` | one tuner that starts two programs from six command lines, so the second finds what a killed first left; one reader; two channels, one trigger |
| `evr_frames` | `FramesRead`, `OneSpeaker`, `NoWordLost` | the taps of the card itself (twelve readout channels, period 200, the shortest that `PeriodAssumption` allows): the event's last word is at clock 198 and END at 199, so an extra clock anywhere shows. Two channels, one without BSA; every pulse any selection, with BSA or not. The FIFO is as small as the theorem allows (14 beats, threshold 1), so a pause and a full FIFO are a frame away. The engine moves at clock 199 or not at all; the proof has it move at any clock |

`TypeOK` is an invariant of its own (that of `TprDma`, `TprQueues` and `EvrFrames` is
proved, section 4) or, in `SsiPcie`, `PromLoader` and `TprPrograms` (proved too), a conjunct of `Conserved`, `Loaded` and `Tuned`.

Files are a symmetry set in the safety runs of `TprClients`: no action or
invariant names one. Liveness runs use none.

Fairness. A system call that has begun runs to its end; a pending interrupt is
taken; a scheduled tasklet runs; clocked logic and the PCIe link go on; a
channel that is enabled and selects events sees them again. Nobody has to open,
close or read. Weak fairness is enough because each of these steps stays enabled
until taken (`dev->lock` is held over a bounded section). In `SsiPcie` calls, handler and
card go on; `WriterServed` and `ReaderServed` have the proviso that the handler ends
(`HandlerEnds`), since one that always finds another done entry never returns to its
wakeups. In `PromLoader` the program goes on (weak), and a PROM that is given a command it
can carry out again and again does so in the end (strong, `PromSucceeds`): the
program retries without a limit, so nothing less lets it end. `Ends` leaves out a PROM that
refuses a buffer which leaves its page, when the last buffer of the file is partial: the
stale addresses in it are such a buffer, and the retry then has no end.

`NoStray` is about files of at least one buffer; a shorter one sends elements of an
array that was never written. `Loaded` has the proviso that the file stays.

## 4. What is proved

For every value of the constants that the ASSUMEs allow, by TLAPS.

`TprQueuesProofs`: `TypeCorrect`, `WindowCorrect` (the window of the last
MAX_TPR_ALLQ-1 messages and indices is intact) and `ReadsCorrect` (a reader that
is not lapped has the whole message its queue owes it). The argument: what each
slot holds is determined by the counters (`AllqInv`, `AllrpInv`, `BsaqInv`, with
the slot being written excepted), the log agrees with the counters (`LogInv`),
and what a reader has loaded is right unless the writer is by now a queue's length
ahead (`ReadInv`, an implication from `NotLapped`, which once false stays false).
The modular fact it rests on, two counters less than a queue apart have
different slots, is `RemaindersApart`. `ReadCorrect` alone is not inductive: it
says nothing of a reader half-way.

`TprDmaProofs`: `TypeCorrect`, `ReadsAlone`, `DoneWhole`, `RequestCorrect`
(`IrqIffOutstanding`), `Armed`, and `Refines`: the ring implements `FrameFifo`. The argument: descriptors
are in the FIFO in ring order and end just before `rxPend` (`RingInv`), so the
buffers with a frame are a window that starts at `rxPend`, and a buffer's posted
writes are at most its data followed by its mark (`PostedInv`), so a done bit in
memory means that nothing more is on its way (`BufferInv`). The abstract queue is the
window's frames in ring order (`InFlight`); `Accept` puts, `ReadFrame` gets, and `Done` and `FreeBuffer`, which
move the window's two ends in the code's variables, leave it alone (`QueueStep`). That what the tasklet reads is the
frame and not what the buffer held before needs `ReadWhole` beside the invariant.

`TprClientsProofs`, for any number of files, channels and shares. However calls overlap:
`TypeCorrect`, `Exclusive` (`ShareExclusive`), `Armed` (`IrqArmed`) and `ListsCorrect` (`ListsExact`).
`ShareExclusive` alone is not inductive: an open takes the share that
`freelist` points at, so that share must have no owner. Owned shares are held or
linked (`OwnInv`) and the freelist is a chain of free shares on which no two
pointers meet (`FreeInv`); an unlink writes `next` of the share before it, which
must not be a free one, so the lists have to be doubly linked and closed
(`ListInv`). For `Armed`, a last close writes back a value of `dev->minors` that
may be stale, but `dev->lock` keeps other closes out meanwhile and opens only
add to it (`LockInv`, `MinorsInv`). `ListsExact` speaks of what chains of any length reach,
which those conjuncts, being about one pointer at a time, do not bound: two shares that point at
each other satisfy them. So shares also have ranks that fall along the pointers (`RankInv`; a step
makes the new ranks out of the old ones), and only a list's first has nobody pointing at it (`TopInv`).
A share of a list that the chain from its head misses would then, at the highest such rank, have to be the
head itself; and a chain of falling ranks is at most `OPEN_SHARES` long.

If calls do not overlap (`MaxInFlight <= 1`: one at a time may be under way, with the handler and the tasklet beside it),
also `ParentsKept` (`ParentWhileLinked`), `NeverOops` (`NoOops`), `ReturnsAll` (`AllReturned`) and `EnabledKept`
(`EnabledWhileOpen`). The proviso is needed (section 5). Whatever a call sets and unsets has
a call to account for it (`SerialInv`): a share that is out an owner, a parent an owner that is past the assignment of
`tpr_open`, a bit of `dev->minors` a client or the first open or last close under way; when all files are closed nobody is left.
`EnabledKept` assumes besides that applications write the control register with the DMA on, as `SetupRate` does.
One assumption on the constants beyond sizes and distinct names: NULL is no file.

`EvrFramesProofs`, for every period from 200 clocks, up to twelve readout channels, any channels
and selections, any clocks at which the engine moves, and any threshold that leaves 13 beats of the FIFO free:
`TypeCorrect`, `Apart` (`OneSpeaker`), `NothingLost` (`NoWordLost`) and `ReadsWhole` (`FramesRead`). The argument: each
producer's next word is fixed by the clock between its tap and its last word, and it is idle
elsewhere, so the three windows are disjoint and end before the last tap. From the windows
the words that are still to come before the end of a frame are bounded by the clock,
and a balance of beats held, the beat being packed and what is still owed stays under
the threshold plus a frame: a frame started below the threshold fits, and one that is paused adds nothing.
`NoWordLost` is not inductive: it says nothing of how much of a frame is still to come.
For `FramesRead`, which speaks only of the step in which a frame is read, the whole path is in the invariant
(`FramesInv`): at which word of which of the pulse's messages a clock finds each producer (`SpeechInv`; the windows
follow one another, so the messages of a pulse are in the order of the taps, and one is over when the next is set out on);
what `idle` and `dropped` remember of them (`HeardInv`), which gives the first word its two bits; and `StreamInv`: the beats of
`buf` and `fifo` and the one being packed, read as words, divide at the END words into the frames of `due` in their order, each whole
(`Cuts`), and behind them the words told so far of the frame under way (`Open`, `Told`). A clock appends a word or
nothing (`StreamTick`), a transaction moves the border between `buf` and `fifo` and, with an END, drops the first frame (`StreamMove`). That the
parser finds in a whole frame what was said (`ParseWhole`) needs the sizes of `tpr.h` to be the
producers' counts of words; an event's, which is the longer, comes last. `NoneAssumption` only says that no word or frame is `None`.
The default threshold that `setupDma` writes, 1010 of 1023 beats, leaves exactly the 13 beats the
theorem needs; the thresholds at reset and in `tprloopb` leave many more.

`CardProbeProofs`, for any number of cards and structures: `TypeCorrect` and `Structures`
(`OwnStructure`) for either driver and every refusal, whatever clients do; and of
`tpr.c` `ReleasesAll` (`Released`), `RemovesRight` (`RemovesOwn`, if nothing is refused
after the card's address is set), and `UsesSafe` and `QuietAfter` (`UseSafe`, `Quiet`, if
besides the buffers are not refused and clients use a card only while it is bound). The
argument: a bound card's structure holds its address (`BoundInv`), so a probe, which
starts from a free structure, has it to itself until the address is there
(`ProbeInv`); without late refusals every address in the table belongs to a card that
is bound or being probed (`NoStale`), so a search finds the right one; a removal has given
back what its steps so far name (`HeldInv`); a structure with the interrupt, which a
probe acquires last and a removal gives back first, has everything else (`WholeInv`);
handler and tasklet run only where there is the interrupt, the tasklet up to the step that
waits for it (`RunInv`). `UseSafe` and `RemovesOwn` are not inductive: neither
says how far a probe or a removal has come. The provisos are needed (section 5).

`SsiPcieProofs`, for any number of buffers of either
kind, one to sixteen lanes and any number of files: `RingHolds`, `KeepsLane` (`LaneKept`),
`Conserves` (`Conserved`), `MissingRight` (`MissingAreOut`) and `Implements` (the receive side
implements `SsiFifo`). The argument: `PlaceInv` says that a buffer is in one of five places and in one only,
and each step moves one buffer from one place to the next. That the handler's store does not
overwrite a slot, nor its pointer meet the reader's, is a count: the slots between the pointers hold
different buffers and the ring has two slots more than there are buffers, one for the slot being
written and one for the slot that the reader has given away but not passed (`Spare`, by the injection
of those slots into the buffers). A transmit buffer has no lane of its own, so there `TxCardInv` says besides that
it is in one lane's FIFO only. For the refinement the two queues are read off ring, hand and done FIFO
(`Ready`, `Pending`); a frame keeps its place and, since the card writes only to free buffers, its
content until it is read (`FillAside`), and each handler or reader step moves one end of one queue by one frame.
`Conserved` alone is not inductive: it does not say that a call under way has found the ring not empty, nor
what the handler has stored and not yet passed.

`PromLoaderProofs`, for every .mcs file, every size of buffer, block and PROM (blocks of whole buffers, PROMs of whole blocks)
and all three programs and PROMs: `LoadsRight` (`Loaded`), `NothingStray` (`NoStray`) and `LocksAgain` (`Locked`).
`FileAssumption` has the file fit the PROM, which nobody checks: `PromLoad` ignores the size that `getPromSize`
works out. `NoneAssumption` only says that nothing is no byte, address or word. The argument: the bytes taken and those
still to be read are together the file, whatever extended addresses lie between (`ReadInv`, from `ScanIs` and
`ReadNext`), so a verification at the end of the file has compared every byte. What it compared stays: a legacy PROM has
nothing under way then (`PhaseInv`), and a new one that were still busy would have answered with its status
(`VerifyInv`). For `NoStray`, the blocks below `address` are erased and `address` starts a block (`EraseInv`, and
`WholeErased` for the partial last block); a buffer that is sent has no entry that was never written once the file fills
one, since padding keeps what an earlier buffer left there, and its entries are words of the file (`FullInv`, `Entries`).
None of the three is inductive: `Loaded` and `NoStray` speak of programs that have returned, `Locked` of a PROM without a command.

`TprProgramsProofs`, for any processes, channels and triggers, any command lines of the three programs and any number of
starts: `LeavesTuned` (`Tuned`), `TriggersWhole` (`TriggerWhole`), `DmaOnlyOpen` (`DmaWhileOpen`) and `ReportsLoss`
(`LossReported`). `RunAssumption` says what the options can be: a mode of `TimingMode` or, in `tprtool`, none, flags
given or not, outputs that are triggers of the card. The properties say nothing of a program half-way, so the argument
is about the programs' text. A list of steps has an outline, an assertion for each place that the next step
leads on (`Outline`): from each, the step does no harm (`Safe`) and leads to the next assertion, the loss of the link cannot spoil one
(`Stable`), and a failed open skips to a place where the assertion still holds. Outlines of lists that meet are put together (`Then`, and `Flat`
for `Each`), so those of single accesses give the library calls' (`RmwTurns`, `PulseTurns`, `SetTriggerBrings`, `CaptureBrings`) and these
the programs' (`ScriptBrings`): whatever values a program finds, with the resets a killed one left on, it ends in `Done`. After a read of
CSR the assertion is that a loss of the link which was not read came later (`Read`), which gives `ReportsLoss`. The invariant has each
tuner at a place of such an outline (`Place`). Others do not disturb it, since there is one tuner at a time and
readers and the driver write only the controls of channels, of which no assertion speaks; that `frame_capture` puts back a control
with the DMA on only while it has channel 0 open is part of `Safe`. For the triggers, each write keeps every trigger whole
(`StaysWhole`), also the tap written last, since the trigger is then on with the setting the tap is of; which registers a call has
written so far (`Part`) becomes, over the list of triggers (`EachSets`), that all triggers of the program are set (`Wrote`), and
the calls that set none keep it (`Frame`) up to `Done`.

The library's induction rules take an operator as a parameter, which no prover here can be given. Where an
argument is an induction on numbers it is by the least counterexample (`Least`, from `NatLessThanWellFounded`), and a recursive function is
unfolded after it has been shown to exist (`ReachExists`, `ChainUnfolds`, `RestExists`, `ParseExists`, `FlatExists`).

Only model-checked: all liveness (temporal proofs under fairness are beyond the
prover). Every safety property of the passing runs is a theorem; in the runs of TLC that need a proviso (calls that
do not overlap, no late refusal) it is a hypothesis of the theorem.

## 5. Where the code disagrees with its comments, and what holds only with a proviso

One is a run that TLC must find violated:

1. `probe_remove_finds`: `SsiPcie_Probe` keeps the start of BAR 4 in `baseHdwr`
   (`SsiPcie.c:732`), `SsiPcie_Remove` looks for that of BAR 0 (`:840`, under the comment
   "Look for matching device"), so it finds nothing and undoes nothing.

The others each have a `.cfg` that shows the counterexample when run by hand
(`tlc -config X.cfg M`):

2. `clients_parent_race` (`MCTprClients`): `tpr_release` clears `parent` after the share is back on the freelist
   (`tpr.c:350`); an open in between loses it, and its own release then gives up
   with the share still listed.
3. `clients_close_race`: `tpr_open` tests for the first open, and updates `minors` and the control register,
   without `dev->lock`; overlapping a last close, the channel ends up with a
   client and no DMA.
4. `clients_walk_race`: the wake loop follows `next` without the lock, into the freelist if the share
   it stands at is released.
5. `clients_last_close`: the last close writes channel 0's control value into the closed channel
   (`tpr.c:311`).
6. `dma_drop_unseen` (`TprDma`): the test for a drop looks at bits 31 and 23; the engine reports its own drops in
   bit 30 (`tpr.c:446`, `EvrV2PcieRxDma.vhd:358`).
7. `prom_unchecked` (`MCPromLoader`): the verification, which "Compare[s] the .mcs file with the PROM (true=matches)"
   (`EvrCardG2Prom.cpp:295`), returns 1 when the file cannot be opened (`:313`).

What holds only with a proviso, and is false without it: with `"map"` or `"irq"` added to `MayFail`
of `card_probe.cfg` a failed probe leaves its address in the table and `RemovesOwn` is
violated; with `"buffers"`, `UseSafe`; with two readers or two writers `Conserved` of
`SsiPcie` would be. The control device of `tpr.c` is tested and set without a lock, so two opens
that overlap can both have it; `pendingirq` outlives the client; and a reader that is
lapped is not told (the proviso `NotLapped` in `ReadCorrect`). `setupTrigger` writes the tap, the fine
part of a trigger's delay, after it has turned the trigger on (`tpr.cc:242`, `:243`): between the two, or killed there, a trigger
of `tprtest` is on with the new delay and the old tap. `TriggerWhole` exempts the tap of such a trigger until
a program has ended; without the exemption `programs` violates it.

## 6. Not modelled, and what comes next

In this order:

1. `BpiPromCore` and `BpiPromReg`: the bus cycles that are one step in `PromLoader`.
2. `IntervalCheck`, `DaqControlTx`, the phase loop of the timing lock: small modules of counters.

Of the event path, `EvrV2BsaChannel` and `EvrV2BsaChannelDSP` are not instantiated any more, the
event selection of `EvrV2Core` is the model's free choice of a selection, and a pause
threshold of all ones, with which the engine dumps frames, is `TprDma`'s. The comparison with
`maxFrame` (`EvrV2PcieRxDma.vhd:333`) is not in a module: a frame has at most 46 words.

Left out for good: clocking, transceivers, LEDs and pin wiring (vendor
primitives), simulation benches, register maps, `tprxvc` (a vendor's reference
server) and `evgasync`, the test programs of the older driver, `tprtrigmon`, `evrlock` and
`setupdma` (read or set registers that nothing else depends on), `tprloopb` (a loop-back test whose writes are
of kinds that `tprtest` and `tprtool` make, but for the DMA threshold: modes, the acknowledgement of a lost link, ring buffers), and
`mmap`, `poll` and `fasync` of both drivers, whose effect is in the kernel.
