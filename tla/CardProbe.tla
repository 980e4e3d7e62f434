----------------------------- MODULE CardProbe -----------------------------
(***************************************************************************)
(* Probe and removal of a card by the two drivers, tpr.c ("tpr") and         *)
(* SsiPcie.c ("ssi"): a table of device structures of which a probe takes    *)
(* the first free one, the resources a probe acquires one by one and a      *)
(* removal releases one by one, and beside them the interrupt handler, the   *)
(* tasklet and the clients of the card, which use those resources.          *)
(*                                                                         *)
(* The PCI core calls the driver for one card at a time. With Busy FALSE a  *)
(* card is opened only while it is bound and is not removed while a client  *)
(* has it open or mapped; the kernel enforces neither.                      *)
(*                                                                         *)
(* A definition whose name ends in a capital X is a plausible slip in the    *)
(* definition after it; nothing else uses it.                               *)
(***************************************************************************)
EXTENDS Integers, Sequences

CONSTANTS
    Driver,   \* "tpr" or "ssi"
    Cards,    \* the cards of this driver in the machine
    MaxDev,   \* MAX_PCI_DEVICES
    MayFail,  \* the resources that may be refused
    MaxVmas,  \* bound on the mappings of a card
    Busy,     \* cards are removed with clients, and opened at any time
    None      \* no card, no structure

Slots == 1 .. MaxDev

ASSUME DriverAssumption == Driver \in {"tpr", "ssi"} /\ Busy \in BOOLEAN
ASSUME SlotAssumption   == MaxDev \in Nat \ {0} /\ MaxVmas \in Nat
ASSUME NoneAssumption   == None \notin Cards \cup Slots /\ \A c \in Cards : None \notin {<<c, 0>>, <<c, 4>>}

\* What a probe does in order, and what it does when refused: return at once
\* with all it holds ("return") or go on without ("ignore"). "base" and the
\* entries after it named for no resource are writes that cannot fail.
\* Slip: the structure's base address is never set.
TprAcquireX ==
    << <<"qmem", "return">>, <<"map", "return">>, <<"ready", "never">>, <<"buffers", "ignore">>,
       <<"irq", "return">> >>
TprAcquire ==
    << <<"qmem", "return">>, <<"chrdev", "return">>, <<"cdev", "ignore">>,
       <<"enable", "return">>, <<"base", "never">>, <<"region", "ignore">>,
       <<"map", "return">>, <<"ready", "never">>, <<"irqOff", "never">>,
       <<"rxOn", "never">>, <<"buffers", "ignore">>, <<"irq", "return">> >>
SsiAcquire ==
    << <<"chrdev", "return">>, <<"cdev", "ignore">>, <<"enable", "ignore">>,
       <<"base", "never">>, <<"map", "return">>, <<"reset", "return">>,
       <<"region", "ignore">>, <<"irq", "return">>, <<"txBuffers", "return">>,
       <<"rxOn", "never">>, <<"buffers", "return">>, <<"ready", "never">>,
       <<"irqOn", "never">> >>
Acquire == IF Driver = "tpr" THEN TprAcquire ELSE SsiAcquire

\* What a removal does in order. "tasklet" waits for the tasklet.
\* Slips: the interrupt is not switched off; the queues' memory is not freed; the buffers go before the interrupt.
ReleaseLoudX  == << "irq", "tasklet", "rxOff", "buffers", "qmem", "map", "region",
                    "cdev", "chrdev", "enable", "base" >>
ReleaseLessX  == << "irq", "tasklet", "irqOff", "rxOff", "buffers", "map", "region",
                    "cdev", "chrdev", "enable", "base" >>
ReleaseEarlyX == << "rxOff", "buffers", "irq", "tasklet", "irqOff", "qmem", "map", "region",
                    "cdev", "chrdev", "enable", "base" >>
TprRelease ==
    << "irq", "tasklet", "irqOff", "channelsOff", "rxOff", "buffers", "qmem",
       "map", "region", "cdev", "chrdev", "enable", "base" >>
SsiRelease ==
    << "irqOff", "rxOff", "txBuffers", "buffers", "reset", "region", "irq",
       "map", "cdev", "chrdev", "enable", "base" >>
Release == IF Driver = "tpr" THEN TprRelease ELSE SsiRelease

\* pci_resource_start: tpr.c keeps the start of BAR 0, SsiPcie.c that of BAR 4;
\* both removals look for that of BAR 0.
Start(card, bar) == <<card, bar>>
Bar == IF Driver = "tpr" THEN 0 ELSE 4

VARIABLES
    loaded,      \* the module is loaded
    base, res,   \* per structure: baseHdwr, the resources it holds
    bound,       \* per card: the structure its probe took, or None
    op, card, slot, step,  \* the call under way: "idle", "probe" or "remove"
    missed,      \* a removal found no structure
    irqControl,  \* per card: its interrupt enable
    handler, task, \* per structure: handler running; tasklet
    clients, vmas  \* per card: a channel is open; mappings

callVars == <<op, card, slot, step, missed>>
intVars  == <<irqControl, handler, task>>
userVars == <<clients, vmas>>
vars == <<loaded, base, res, bound, callVars, intVars, userVars>>

Init ==
    /\ loaded = FALSE
    /\ base = [s \in Slots |-> None] /\ res = [s \in Slots |-> {}]
    /\ bound = [c \in Cards |-> None]
    /\ op = "idle" /\ card = None /\ slot = None /\ step = 1 /\ missed = FALSE
    /\ irqControl = [c \in Cards |-> 0]
    /\ handler = [s \in Slots |-> FALSE] /\ task = [s \in Slots |-> "idle"]
    /\ clients = [c \in Cards |-> FALSE] /\ vmas = [c \in Cards |-> 0]

-----------------------------------------------------------------------------
(* The module and its calls                                                 *)

\* tpr_init, SsiPcie_Init: the table is cleared.
Load ==
    /\ ~loaded
    /\ loaded' = TRUE
    /\ base' = [s \in Slots |-> None] /\ res' = [s \in Slots |-> {}]
    /\ UNCHANGED <<bound, callVars, intVars, userVars>>

\* tpr_exit, SsiPcie_Exit, once pci_unregister_driver has removed every card.
Unload ==
    /\ loaded /\ op = "idle" /\ \A c \in Cards : bound[c] = None
    /\ loaded' = FALSE
    /\ UNCHANGED <<base, res, bound, callVars, intVars, userVars>>

Free == {s \in Slots : base[s] = None}
First(set) == CHOOSE s \in set : \A t \in set : s <= t

\* What the structure still held of an earlier, failed probe is overwritten.
\* When the table is full the probe returns an error.
Probe(c) ==
    /\ loaded /\ op = "idle" /\ bound[c] = None /\ Free # {}
    /\ op' = "probe" /\ card' = c /\ slot' = First(Free) /\ step' = 1
    /\ res' = [res EXCEPT ![First(Free)] = {}]
    /\ UNCHANGED <<loaded, base, bound, missed, intVars, userVars>>

Idle == op' = "idle" /\ card' = None /\ slot' = None /\ step' = 1

\* One step of the probe that succeeds; after the last the card is bound.
ProbeStep ==
    /\ op = "probe"
    /\ LET r == Acquire[step][1] IN
       /\ base' = IF r = "base" THEN [base EXCEPT ![slot] = Start(card, Bar)] ELSE base
       /\ res' = [res EXCEPT ![slot] = @ \cup ({r} \ {"base", "irqOff", "irqOn", "rxOn"})]
       /\ irqControl' = IF r \in {"irqOff", "irqOn"}
                        THEN [irqControl EXCEPT ![card] = IF r = "irqOn" THEN 1 ELSE 0] ELSE irqControl
    /\ IF step = Len(Acquire)
       THEN bound' = [bound EXCEPT ![card] = slot] /\ Idle
       ELSE step' = step + 1 /\ UNCHANGED <<bound, op, card, slot>>
    /\ UNCHANGED <<loaded, missed, handler, task, userVars>>

\* One that is refused: nothing acquired so far is given back.
ProbeFail ==
    /\ op = "probe" /\ Acquire[step][1] \in MayFail
    /\ \/ Acquire[step][2] = "ignore" /\ step' = step + 1 /\ UNCHANGED <<op, card, slot>>
       \/ Acquire[step][2] = "return" /\ Idle
    /\ UNCHANGED <<loaded, base, res, bound, missed, intVars, userVars>>

InUse(c) == clients[c] \/ vmas[c] > 0

\* The first structure with the address of BAR 0.
MatchingX(c) == {s \in Slots : base[s] # None}
Matching(c)  == {s \in Slots : base[s] = Start(c, 0)}

Remove(c) ==
    /\ op = "idle" /\ bound[c] # None /\ (InUse(c) => Busy)
    /\ IF Matching(c) = {}
       THEN /\ missed' = TRUE
            /\ bound' = [bound EXCEPT ![c] = None]
            /\ UNCHANGED <<op, card, slot, step>>
       ELSE /\ op' = "remove" /\ card' = c /\ slot' = First(Matching(c)) /\ step' = 1
            /\ UNCHANGED <<bound, missed>>
    /\ UNCHANGED <<loaded, base, res, intVars, userVars>>

\* free_irq waits for the handler, tasklet_kill for the tasklet.
RemoveStep ==
    /\ op = "remove"
    /\ LET r == Release[step] IN
       /\ r = "irq" => ~handler[slot]
       /\ r = "tasklet" => task[slot] = "idle"
       /\ base' = IF r = "base" THEN [base EXCEPT ![slot] = None] ELSE base
       /\ res' = [res EXCEPT ![slot] = IF r = "base" THEN @ \ {"ready", "reset"} ELSE @ \ {r}]
       /\ irqControl' = IF r = "irqOff" THEN [irqControl EXCEPT ![card] = 0] ELSE irqControl
    /\ IF step = Len(Release)
       THEN bound' = [bound EXCEPT ![card] = None] /\ Idle
       ELSE step' = step + 1 /\ UNCHANGED <<bound, op, card, slot>>
    /\ UNCHANGED <<loaded, missed, handler, task, userVars>>

-----------------------------------------------------------------------------
(* What runs beside them                                                    *)

SlotOf(c) == First({s \in Slots : base[s] = Start(c, Bar)})
Known(c)  == \E s \in Slots : base[s] = Start(c, Bar)
Settled(c) == bound[c] # None /\ card # c

\* The first open of a channel; the character device is there from cdev_add on.
Open(c) ==
    /\ Known(c) /\ "cdev" \in res[SlotOf(c)] /\ (Settled(c) \/ Busy) /\ ~clients[c]
    /\ clients' = [clients EXCEPT ![c] = TRUE]
    /\ irqControl' = [irqControl EXCEPT ![c] = IF Driver = "tpr" THEN 1 ELSE @]
    /\ UNCHANGED <<loaded, base, res, bound, callVars, handler, task, vmas>>

\* The last close; a mapping keeps its file open.
Close(c) ==
    /\ clients[c] /\ vmas[c] = 0
    /\ clients' = [clients EXCEPT ![c] = FALSE]
    /\ UNCHANGED <<loaded, base, res, bound, callVars, intVars, vmas>>

\* tpr_mmap and tpr_vmopen, tpr_vmclose.
Mmap(c) ==
    /\ clients[c] /\ vmas[c] < MaxVmas
    /\ vmas' = [vmas EXCEPT ![c] = @ + 1]
    /\ UNCHANGED <<loaded, base, res, bound, callVars, intVars, clients>>

MunmapX(c) ==
    /\ clients[c]
    /\ vmas' = [vmas EXCEPT ![c] = @ - 1]
    /\ UNCHANGED <<loaded, base, res, bound, callVars, intVars, clients>>

Munmap(c) ==
    /\ vmas[c] > 0
    /\ vmas' = [vmas EXCEPT ![c] = @ - 1]
    /\ UNCHANGED <<loaded, base, res, bound, callVars, intVars, clients>>

\* The interrupt: the card's, while it is enabled.
Intr(c) ==
    /\ Known(c) /\ irqControl[c] = 1
    /\ "irq" \in res[SlotOf(c)] /\ ~handler[SlotOf(c)]
    /\ handler' = [handler EXCEPT ![SlotOf(c)] = TRUE]
    /\ UNCHANGED <<loaded, base, res, bound, callVars, irqControl, task, userVars>>

\* The rest of the handler: tpr_intr leaves the interrupt off and the tasklet
\* scheduled, SsiPcie_IRQHandler does the work itself and enables it again.
IntrEnd(s) ==
    /\ handler[s]
    /\ handler' = [handler EXCEPT ![s] = FALSE]
    /\ irqControl' = [c \in Cards |-> IF base[s] # Start(c, Bar) THEN irqControl[c]
                                      ELSE IF Driver = "tpr" THEN 0 ELSE 1]
    /\ task' = [task EXCEPT ![s] = IF Driver = "tpr" /\ @ = "idle" THEN "scheduled" ELSE @]
    /\ UNCHANGED <<loaded, base, res, bound, callVars, userVars>>

TaskRun(s) ==
    /\ task[s] = "scheduled"
    /\ task' = [task EXCEPT ![s] = "running"]
    /\ UNCHANGED <<loaded, base, res, bound, callVars, irqControl, handler, userVars>>

\* Its last access enables the interrupt, if a channel is open.
TaskEnd(s) ==
    /\ task[s] = "running"
    /\ task' = [task EXCEPT ![s] = "idle"]
    /\ irqControl' = [c \in Cards |-> IF base[s] = Start(c, Bar) /\ clients[c] THEN 1 ELSE irqControl[c]]
    /\ UNCHANGED <<loaded, base, res, bound, callVars, handler, userVars>>

Next ==
    \/ Load \/ Unload \/ ProbeStep \/ ProbeFail \/ RemoveStep
    \/ \E c \in Cards : Probe(c) \/ Remove(c) \/ Open(c) \/ Close(c) \/ Mmap(c) \/ Munmap(c) \/ Intr(c)
    \/ \E s \in Slots : IntrEnd(s) \/ TaskRun(s) \/ TaskEnd(s)

Spec == Init /\ [][Next]_vars

-----------------------------------------------------------------------------
(* Properties                                                               *)

Resources == {TprAcquire[i][1] : i \in DOMAIN TprAcquire} \cup {SsiAcquire[i][1] : i \in DOMAIN SsiAcquire}

TypeOK ==
    /\ loaded \in BOOLEAN /\ missed \in BOOLEAN /\ op \in {"idle", "probe", "remove"}
    /\ base \in [Slots -> {Start(c, Bar) : c \in Cards} \cup {None}] /\ res \in [Slots -> SUBSET Resources]
    /\ bound \in [Cards -> Slots \cup {None}] /\ card \in Cards \cup {None} /\ slot \in Slots \cup {None}
    /\ irqControl \in [Cards -> {0, 1}] /\ handler \in [Slots -> BOOLEAN]
    /\ task \in [Slots -> {"idle", "scheduled", "running"}]
    /\ clients \in [Cards -> BOOLEAN] /\ vmas \in [Cards -> 0 .. MaxVmas]

\* No two cards that are bound share a device structure, and the probe under
\* way works on one that no bound card has.
OwnStructure ==
    /\ \A c, d \in Cards : bound[c] # None /\ bound[c] = bound[d] => c = d
    /\ op = "probe" => \A c \in Cards : bound[c] # slot

\* A removal undoes the probe that bound the card: it finds a structure, and
\* it is that card's.
RemovesOwn == ~missed /\ (op = "remove" => slot = bound[card])

\* A removal that has ended leaves nothing of what the probe acquired.
Released == [][op = "remove" /\ op' = "idle" => res'[slot] = {}]_vars

\* Whoever runs finds what it uses: the handler the registers, the tasklet also
\* its buffers, its lists and the queues, a mapping the memory behind it.
UseSafe ==
    /\ \A s \in Slots :
         /\ handler[s] => "map" \in res[s]
         /\ task[s] = "running" => {"map", "ready", "qmem"} \subseteq res[s] /\ "buffers" \in res[s]
    /\ \A c \in Cards : vmas[c] > 0 => {"map", "qmem"} \subseteq res[SlotOf(c)]

\* A card that no driver has is quiet: its interrupt is off, and nothing of the
\* driver runs on its structure.
Quiet ==
    /\ \A c \in Cards : bound[c] = None /\ card # c => irqControl[c] = 0
    /\ \A s \in Slots : base[s] = None => ~handler[s] /\ task[s] = "idle"
=============================================================================
