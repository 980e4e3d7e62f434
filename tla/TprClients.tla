----------------------------- MODULE TprClients -----------------------------
(***************************************************************************)
(* The clients of one TPR card, as software/kernel/tpr.c keeps them: open,  *)
(* release and read of the character devices, the interrupt handler, and    *)
(* the tasklet's walk over the clients it wakes.                             *)
(*                                                                         *)
(* tpr_open and tpr_release run in process context, several at a time; the  *)
(* tasklet runs beside them and takes no lock.  An action is a maximal      *)
(* stretch of one of them between two accesses to memory or to a register   *)
(* that another of them may be using: a section under dev->lock is one      *)
(* action unless it touches `minors' or a control register, which           *)
(* tpr_open also writes without the lock.                                   *)
(*                                                                         *)
(* A definition whose name ends in a capital X is a plausible slip in the    *)
(* definition after it, kept to show that a property can tell the two       *)
(* apart; nothing else uses it.                                             *)
(*                                                                         *)
(* The DMA ring is abstracted to `ready', the channels that have messages   *)
(* in completed buffers.                                                    *)
(***************************************************************************)
EXTENDS Integers, FiniteSets

CONSTANTS
    Files,        \* the file structures a process may hold
    MOD_SHARED,   \* channel minors are 0 .. MOD_SHARED-1
    OPEN_SHARES,  \* entries of all_shares
    OpenMinors,   \* bound: the minors that are opened
    Cfgs,         \* values of the control bits other than DMA; 0 is "selects nothing"
    AppWrites,    \* bound: what an application writes to a control register
    Sources,      \* bound: the lists for which messages arrive
    MaxInFlight,  \* bound: open and release calls that overlap
    NULL,
    MASTER        \* the address of dev->master

Chans   == 0 .. (MOD_SHARED - 1)
CONTROL == MOD_SHARED
BSA     == MOD_SHARED + 1
Lists   == Chans \cup {BSA}           \* dev->shared[0..] and dev->bsa
Shares  == 0 .. (OPEN_SHARES - 1)     \* dev->all_shares
Ctl     == [dma : BOOLEAN, cfg : Cfgs]

ASSUME SizesAssumption  == MOD_SHARED \in Nat \ {0} /\ OPEN_SHARES \in Nat \ {0}
ASSUME MinorsAssumption == OpenMinors \subseteq Lists \cup {CONTROL}
ASSUME SourcesAssumption == Sources \subseteq Lists
ASSUME AppAssumption    == AppWrites \subseteq Ctl
ASSUME NullAssumption   == NULL \notin Shares \cup Files /\ MASTER \notin Shares /\ NULL # MASTER
ASSUME FlightAssumption == MaxInFlight \in Nat

VARIABLES
    pc,          \* where each file's system call stands
    arg,         \* the minor it opened
    sh,          \* filp->private_data
    seenMinors,  \* dev->minors as the call has read it, until it writes it back
    seenCtl,     \* the control register, likewise
    lock,        \* the file that holds dev->lock
    parent,      \* shared->parent is set
    minor,       \* shared->minor
    next,        \* shared->next
    prev,        \* shared->prev
    pending,     \* shared->pendingirq
    head,        \* dev->shared[m], dev->bsa
    freelist,    \* dev->freelist
    masterSet,   \* dev->master.parent is set
    minors,      \* dev->minors
    ctl,         \* channel[c].control
    irqControl,  \* the interrupt enable register
    ready,       \* lists with messages in completed DMA buffers
    sched,       \* the tasklet is scheduled
    tpc,         \* where the tasklet stands
    wmask,       \* the lists it has yet to walk
    node,        \* the share it stands at
    place,       \* history: where each share is
    owed         \* history: the shares the walk of the current list owes a wakeup

callVars   == <<arg, sh, seenMinors, seenCtl>>
fileVars   == <<pc, callVars>>
listVars   == <<minor, next, prev, head, freelist, place>>
sharedVars == <<lock, parent, pending, masterSet, minors, listVars>>
taskVars   == <<sched, tpc, wmask, node, ready, owed>>
worldVars  == <<ctl, irqControl, taskVars>>
systemVars == <<sharedVars, worldVars>>
vars == <<fileVars, systemVars>>

InFlight == Cardinality({f \in Files : pc[f] \notin {"closed", "open", "oops"}})

ListOf(s) == IF minor[s] = -1 THEN BSA ELSE minor[s]

Goto(f, label) == pc' = [pc EXCEPT ![f] = label]

\* The open has failed or the release has ended: the file structure is gone.
Forget(f) ==
    /\ Goto(f, "closed")
    /\ arg' = [arg EXCEPT ![f] = CONTROL]
    /\ sh' = [sh EXCEPT ![f] = NULL]

Init ==
    /\ pc = [f \in Files |-> "closed"]
    /\ arg = [f \in Files |-> CONTROL]
    /\ sh = [f \in Files |-> NULL]
    /\ seenMinors = [f \in Files |-> {}]
    /\ lock = NULL
    /\ parent = [s \in Shares |-> FALSE]
    /\ minor = [s \in Shares |-> -1]
    /\ next = [s \in Shares |-> IF s = 0 THEN NULL ELSE s - 1]
    /\ prev = [s \in Shares |-> NULL]
    /\ pending = [s \in Shares |-> FALSE]
    /\ head = [m \in Lists |-> NULL]
    /\ freelist = OPEN_SHARES - 1
    /\ masterSet = FALSE
    /\ minors = {}
    \* what applications wrote through the register map is still there
    /\ ctl \in [Chans -> [dma : {FALSE}, cfg : Cfgs]]
    /\ seenCtl = [f \in Files |-> NULL]
    /\ irqControl = 0
    /\ ready = {}
    /\ sched = FALSE
    /\ tpc = "idle"
    /\ wmask = {}
    /\ node = NULL
    /\ place = [s \in Shares |-> "free"]
    /\ owed = {}

-----------------------------------------------------------------------------
(* tpr_open                                                                 *)

Open(f) ==
    /\ pc[f] = "closed"
    /\ InFlight < MaxInFlight
    /\ \E m \in OpenMinors :
         /\ arg' = [arg EXCEPT ![f] = m]
         /\ Goto(f, IF m = CONTROL THEN "master_test" ELSE "pop")
    /\ UNCHANGED <<sh, seenMinors, seenCtl, systemVars>>

\* Slip: the share stays on the freelist.
PopX(f) ==
    /\ pc[f] = "pop"
    /\ lock = NULL
    /\ \/ /\ freelist = NULL                      \* Too many opens
          /\ Forget(f)
          /\ UNCHANGED <<freelist, place>>
       \/ /\ freelist # NULL
          /\ arg' = arg
          /\ sh' = [sh EXCEPT ![f] = freelist]
          /\ freelist' = freelist
          /\ place' = [place EXCEPT ![freelist] = "held"]
          /\ Goto(f, "adopt")
    /\ UNCHANGED <<seenMinors, seenCtl, lock, parent, masterSet, pending,
                   minors, minor, next, prev, head, worldVars>>

Pop(f) ==
    /\ pc[f] = "pop"
    /\ lock = NULL
    /\ \/ /\ freelist = NULL                      \* Too many opens
          /\ Forget(f)
          /\ UNCHANGED <<freelist, place>>
       \/ /\ freelist # NULL
          /\ arg' = arg
          /\ sh' = [sh EXCEPT ![f] = freelist]
          /\ freelist' = next[freelist]
          /\ place' = [place EXCEPT ![freelist] = "held"]
          /\ Goto(f, "adopt")
    /\ UNCHANGED <<seenMinors, seenCtl, lock, parent, masterSet, pending,
                   minors, minor, next, prev, head, worldVars>>

\* Slip: the parent is left NULL.
AdoptX(f) ==
    /\ pc[f] = "adopt"
    /\ parent' = parent
    /\ Goto(f, IF arg[f] \in Chans THEN "test" ELSE "link")
    /\ UNCHANGED <<lock, masterSet, pending, minors, callVars, listVars,
                   worldVars>>

Adopt(f) ==
    /\ pc[f] = "adopt"
    /\ parent' = [parent EXCEPT ![sh[f]] = TRUE]
    /\ Goto(f, IF arg[f] \in Chans THEN "test" ELSE "link")
    /\ UNCHANGED <<lock, masterSet, pending, minors, callVars, listVars,
                   worldVars>>

\* Is this the first open of the minor?  Read without the lock.
Test(f) ==
    /\ pc[f] = "test"
    /\ Goto(f, IF head[arg[f]] = NULL THEN "get_minors" ELSE "link")
    /\ UNCHANGED <<callVars, systemVars>>

GetMinors(f) ==
    /\ pc[f] = "get_minors"
    /\ seenMinors' = [seenMinors EXCEPT ![f] = minors]
    /\ Goto(f, "put_minors")
    /\ UNCHANGED <<arg, sh, seenCtl, systemVars>>

PutMinors(f) ==
    /\ pc[f] = "put_minors"
    /\ minors' = seenMinors[f] \cup {arg[f]}
    /\ seenMinors' = [seenMinors EXCEPT ![f] = {}]
    /\ Goto(f, "get_control")
    /\ UNCHANGED <<arg, sh, seenCtl, lock, parent, masterSet, pending,
                   listVars, worldVars>>

GetControl(f) ==
    /\ pc[f] = "get_control"
    /\ seenCtl' = [seenCtl EXCEPT ![f] = ctl[arg[f]]]
    /\ Goto(f, "put_control")
    /\ UNCHANGED <<arg, sh, seenMinors, systemVars>>

PutControl(f) ==
    /\ pc[f] = "put_control"
    /\ ctl' = [ctl EXCEPT ![arg[f]] = [seenCtl[f] EXCEPT !.dma = TRUE]]
    /\ seenCtl' = [seenCtl EXCEPT ![f] = NULL]
    /\ Goto(f, "arm")
    /\ UNCHANGED <<arg, sh, seenMinors, irqControl, taskVars, sharedVars>>

Arm(f) ==
    /\ pc[f] = "arm"
    /\ irqControl' = 1
    /\ Goto(f, "link")
    /\ UNCHANGED <<ctl, callVars, taskVars, sharedVars>>

MinorFieldX(m) == m
MinorField(m)  == IF m = BSA THEN -1 ELSE m

Link(f) ==
    LET s == sh[f]
        m == arg[f]
        h == head[m]
    IN  /\ pc[f] = "link"
        /\ lock = NULL
        /\ minor' = [minor EXCEPT ![s] = MinorField(m)]
        /\ next' = [next EXCEPT ![s] = h]
        /\ prev' = [t \in Shares |-> IF t = s THEN NULL
                                     ELSE IF t = h THEN s ELSE prev[t]]
        /\ head' = [head EXCEPT ![m] = s]
        /\ place' = [place EXCEPT ![s] = "linked"]
        /\ Goto(f, "open")
        /\ UNCHANGED <<lock, parent, masterSet, pending, minors, freelist,
                       callVars, worldVars>>

\* The control minor: tested and set without the lock.
MasterTest(f) ==
    /\ pc[f] = "master_test"
    /\ \/ masterSet /\ Forget(f)                  \* Device already open
       \/ ~masterSet /\ Goto(f, "master_set") /\ UNCHANGED <<arg, sh>>
    /\ UNCHANGED <<seenMinors, seenCtl, systemVars>>

MasterSet(f) ==
    /\ pc[f] = "master_set"
    /\ masterSet' = TRUE
    /\ sh' = [sh EXCEPT ![f] = MASTER]
    /\ Goto(f, "open")
    /\ UNCHANGED <<arg, seenMinors, seenCtl, lock, parent, pending, minors,
                   listVars, worldVars>>

-----------------------------------------------------------------------------
(* tpr_release                                                              *)

Close(f) ==
    /\ pc[f] = "open"
    /\ InFlight < MaxInFlight
    /\ Goto(f, "check_parent")
    /\ UNCHANGED <<callVars, systemVars>>

\* "Already closed": ERROR, and the file is gone all the same.
CheckParent(f) ==
    /\ pc[f] = "check_parent"
    /\ LET set == IF sh[f] = MASTER THEN masterSet ELSE parent[sh[f]]
       IN  \/ /\ set
              /\ Goto(f, IF sh[f] = MASTER THEN "master_print" ELSE "unlink")
              /\ UNCHANGED <<arg, sh>>
           \/ ~set /\ Forget(f)
    /\ UNCHANGED <<seenMinors, seenCtl, systemVars>>

\* The head of list m once s is off it; is the list empty then?
HeadWithoutX(s, m) == next[s]
HeadWithout(s, m)  == IF prev[s] = NULL THEN next[s] ELSE head[m]

IsLastX(m, h) == m # BSA
IsLast(m, h)  == m # BSA /\ h = NULL

Unlink(f) ==
    LET s == sh[f]
        m == ListOf(s)
    IN  /\ pc[f] = "unlink"
        /\ lock = NULL
        /\ lock' = f
        /\ next' = [t \in Shares |-> IF t = prev[s] THEN next[s] ELSE next[t]]
        /\ prev' = [t \in Shares |-> IF t = next[s] THEN prev[s] ELSE prev[t]]
        /\ head' = [head EXCEPT ![m] = HeadWithout(s, m)]
        /\ place' = [place EXCEPT ![s] = "held"]
        /\ owed' = owed \ {s}
        /\ Goto(f, IF IsLast(m, HeadWithout(s, m)) THEN "last_get_control"
                                                   ELSE "push")
        /\ UNCHANGED <<parent, masterSet, pending, minors, minor, freelist,
                       ctl, irqControl, ready, sched, tpc, wmask, node,
                       callVars>>

\* Last one leaving.  The register block is reached through shared->parent,
\* and the value is read from channel 0.
LastGetControl(f) ==
    /\ pc[f] = "last_get_control"
    /\ \/ /\ ~parent[sh[f]]
          /\ Goto(f, "oops")
          /\ UNCHANGED seenCtl
       \/ /\ parent[sh[f]]
          /\ seenCtl' = [seenCtl EXCEPT ![f] = ctl[0]]
          /\ Goto(f, "last_put_control")
    /\ UNCHANGED <<arg, sh, seenMinors, systemVars>>

LastPutControl(f) ==
    /\ pc[f] = "last_put_control"
    /\ ctl' = [ctl EXCEPT ![minor[sh[f]]] = [seenCtl[f] EXCEPT !.dma = FALSE]]
    /\ seenCtl' = [seenCtl EXCEPT ![f] = NULL]
    /\ Goto(f, "last_get_minors")
    /\ UNCHANGED <<arg, sh, seenMinors, irqControl, taskVars, sharedVars>>

LastGetMinors(f) ==
    /\ pc[f] = "last_get_minors"
    /\ seenMinors' = [seenMinors EXCEPT ![f] = minors]
    /\ Goto(f, "last_put_minors")
    /\ UNCHANGED <<arg, sh, seenCtl, systemVars>>

LastPutMinors(f) ==
    /\ pc[f] = "last_put_minors"
    /\ minors' = seenMinors[f] \ {minor[sh[f]]}
    /\ seenMinors' = [seenMinors EXCEPT ![f] = {}]
    /\ Goto(f, "push")
    /\ UNCHANGED <<arg, sh, seenCtl, lock, parent, masterSet, pending,
                   listVars, worldVars>>

\* Slip: the rest of the freelist is not linked behind the share.
PushX(f) ==
    LET s == sh[f]
    IN  /\ pc[f] = "push"
        /\ lock' = NULL
        /\ prev' = [prev EXCEPT ![s] = NULL]
        /\ next' = next
        /\ freelist' = s
        /\ place' = [place EXCEPT ![s] = "free"]
        /\ Goto(f, "print")
        /\ UNCHANGED <<parent, masterSet, pending, minors, minor, head,
                       callVars, worldVars>>

\* Slip: the parent is cleared under the lock, before the printk that uses it.
PushOrphanX(f) ==
    LET s == sh[f]
    IN  /\ pc[f] = "push"
        /\ lock' = NULL
        /\ prev' = [prev EXCEPT ![s] = NULL]
        /\ next' = [next EXCEPT ![s] = freelist]
        /\ freelist' = s
        /\ parent' = [parent EXCEPT ![s] = FALSE]
        /\ place' = [place EXCEPT ![s] = "free"]
        /\ Goto(f, "print")
        /\ UNCHANGED <<masterSet, pending, minors, minor, head, callVars,
                       worldVars>>

Push(f) ==
    LET s == sh[f]
    IN  /\ pc[f] = "push"
        /\ lock' = NULL
        /\ prev' = [prev EXCEPT ![s] = NULL]
        /\ next' = [next EXCEPT ![s] = freelist]
        /\ freelist' = s
        /\ place' = [place EXCEPT ![s] = "free"]
        /\ Goto(f, "print")
        /\ UNCHANGED <<parent, masterSet, pending, minors, minor, head,
                       callVars, worldVars>>

\* The printk reads shared->parent->major.
PrintMajor(f) ==
    /\ pc[f] = "print"
    /\ Goto(f, IF parent[sh[f]] THEN "orphan" ELSE "oops")
    /\ UNCHANGED <<callVars, systemVars>>

Orphan(f) ==
    /\ pc[f] = "orphan"
    /\ parent' = [parent EXCEPT ![sh[f]] = FALSE]
    /\ Forget(f)
    /\ UNCHANGED <<seenMinors, seenCtl, lock, masterSet, pending, minors,
                   listVars, worldVars>>

MasterPrint(f) ==
    /\ pc[f] = "master_print"
    /\ Goto(f, IF masterSet THEN "master_orphan" ELSE "oops")
    /\ UNCHANGED <<callVars, systemVars>>

MasterOrphan(f) ==
    /\ pc[f] = "master_orphan"
    /\ masterSet' = FALSE
    /\ Forget(f)
    /\ UNCHANGED <<seenMinors, seenCtl, lock, parent, pending, minors,
                   listVars, worldVars>>

-----------------------------------------------------------------------------
(* What an open file is used for                                            *)

\* tpr_read.  With nothing pending it sleeps, or returns EAGAIN or
\* ERESTARTSYS, and changes nothing.
Read(f) ==
    /\ pc[f] = "open"
    /\ sh[f] \in Shares
    /\ pending[sh[f]]
    /\ pending' = [pending EXCEPT ![sh[f]] = FALSE]
    /\ UNCHANGED <<lock, parent, masterSet, minors, listVars, fileVars,
                   worldVars>>

\* The application that holds the control device writes a channel's control
\* register through its map of the BAR.
Configure(f) ==
    /\ pc[f] = "open"
    /\ sh[f] = MASTER
    /\ \E c \in Chans, v \in AppWrites : ctl' = [ctl EXCEPT ![c] = v]
    /\ UNCHANGED <<irqControl, taskVars, fileVars, sharedVars>>

-----------------------------------------------------------------------------
(* The card, the interrupt handler and the tasklet                          *)

\* A channel that selects events and has its DMA on fills a buffer.
HwEvent(c) ==
    /\ c \in Sources
    /\ ctl[c].dma
    /\ ctl[c].cfg # 0
    /\ c \notin ready
    /\ ready' = ready \cup {c}
    /\ UNCHANGED <<ctl, irqControl, sched, tpc, wmask, node, owed, fileVars,
                   sharedVars>>

\* BSA messages flow while any channel has its DMA on.
HwBsa ==
    /\ BSA \in Sources
    /\ \E c \in Chans : ctl[c].dma
    /\ BSA \notin ready
    /\ ready' = ready \cup {BSA}
    /\ UNCHANGED <<ctl, irqControl, sched, tpc, wmask, node, owed, fileVars,
                   sharedVars>>

\* Slip: the tasklet is not scheduled.
IntrX ==
    /\ irqControl = 1
    /\ ready # {}
    /\ irqControl' = 0
    /\ sched' = sched
    /\ UNCHANGED <<ctl, ready, tpc, wmask, node, owed, fileVars, sharedVars>>

Intr ==
    /\ irqControl = 1
    /\ ready # {}
    /\ irqControl' = 0
    /\ sched' = TRUE
    /\ UNCHANGED <<ctl, ready, tpc, wmask, node, owed, fileVars, sharedVars>>

\* Slip: BSA messages wake nobody.
DrainX ==
    /\ tpc = "idle"
    /\ sched
    /\ sched' = FALSE
    /\ wmask' = ready \cap Chans
    /\ ready' = {}
    /\ tpc' = "walk"
    /\ UNCHANGED <<ctl, irqControl, node, owed, fileVars, sharedVars>>

\* tpr_handle_dma, up to its wake loop: every completed buffer is drained.
Drain ==
    /\ tpc = "idle"
    /\ sched
    /\ sched' = FALSE
    /\ wmask' = ready
    /\ ready' = {}
    /\ tpc' = "walk"
    /\ UNCHANGED <<ctl, irqControl, node, owed, fileVars, sharedVars>>

\* Start on the next list, in ascending order, at its head as it is now.
WalkHead ==
    /\ tpc = "walk"
    /\ \E m \in wmask :
         /\ \A k \in wmask : m <= k
         /\ wmask' = wmask \ {m}
         /\ node' = head[m]
         /\ tpc' = IF head[m] = NULL THEN "walk" ELSE "mark"
         /\ owed' = {s \in Shares : place[s] = "linked" /\ ListOf(s) = m}
    /\ UNCHANGED <<ctl, irqControl, ready, sched, fileVars, sharedVars>>

\* set_bit(0, &shared->pendingirq); wake_up(&shared->waitq)
WalkMark ==
    /\ tpc = "mark"
    /\ pending' = [pending EXCEPT ![node] = TRUE]
    /\ owed' = owed \ {node}
    /\ tpc' = "step"
    /\ UNCHANGED <<lock, parent, masterSet, minors, ctl, irqControl, ready,
                   sched, wmask, node, listVars, fileVars>>

\* shared = shared->next, whatever list the share is on by now
WalkStep ==
    /\ tpc = "step"
    /\ node' = next[node]
    /\ tpc' = IF next[node] = NULL THEN "walk" ELSE "mark"
    /\ UNCHANGED <<ctl, irqControl, ready, sched, wmask, owed, fileVars,
                   sharedVars>>

\* Slip: the interrupt is not enabled again.
WalkEndX ==
    /\ tpc = "walk"
    /\ wmask = {}
    /\ tpc' = "idle"
    /\ owed' = {}
    /\ UNCHANGED <<ctl, irqControl, ready, sched, wmask, node, fileVars,
                   sharedVars>>

\* if (dev->minors) ...
WalkEnd ==
    /\ tpc = "walk"
    /\ wmask = {}
    /\ tpc' = IF minors = {} THEN "idle" ELSE "rearm"
    /\ owed' = {}
    /\ UNCHANGED <<ctl, irqControl, ready, sched, wmask, node, fileVars,
                   sharedVars>>

Rearm ==
    /\ tpc = "rearm"
    /\ irqControl' = 1
    /\ tpc' = "idle"
    /\ UNCHANGED <<ctl, ready, sched, wmask, node, owed, fileVars, sharedVars>>

-----------------------------------------------------------------------------
OpenStep(f) ==
    \/ Pop(f) \/ Adopt(f) \/ Test(f) \/ GetMinors(f) \/ PutMinors(f)
    \/ GetControl(f) \/ PutControl(f) \/ Arm(f) \/ Link(f)
    \/ MasterTest(f) \/ MasterSet(f)

ReleaseStep(f) ==
    \/ CheckParent(f) \/ Unlink(f)
    \/ LastGetControl(f) \/ LastPutControl(f)
    \/ LastGetMinors(f) \/ LastPutMinors(f)
    \/ Push(f) \/ PrintMajor(f) \/ Orphan(f)
    \/ MasterPrint(f) \/ MasterOrphan(f)

Tasklet == Drain \/ WalkHead \/ WalkMark \/ WalkStep \/ WalkEnd \/ Rearm

Next ==
    \/ \E f \in Files : \/ Open(f) \/ OpenStep(f)
                        \/ Close(f) \/ ReleaseStep(f)
                        \/ Read(f) \/ Configure(f)
    \/ \E c \in Chans : HwEvent(c)
    \/ HwBsa
    \/ Intr
    \/ Tasklet

Spec == Init /\ [][Next]_vars

\* A system call that has begun is run to its end, a pending interrupt is
\* taken, a scheduled tasklet runs, an enabled channel goes on selecting
\* events.  Nobody has to open, close or read.
Fairness ==
    /\ \A f \in Files : WF_vars(OpenStep(f)) /\ WF_vars(ReleaseStep(f))
    /\ \A c \in Chans : WF_vars(HwEvent(c))
    /\ WF_vars(HwBsa)
    /\ WF_vars(Intr)
    /\ WF_vars(Tasklet)

FairSpec == Spec /\ Fairness

-----------------------------------------------------------------------------
(* Properties                                                               *)

Holds(f) ==   \* f owns the share that filp->private_data points at
    /\ sh[f] \in Shares
    /\ pc[f] \in {"adopt", "test", "get_minors", "put_minors", "get_control",
                  "put_control", "arm", "link", "open", "check_parent",
                  "unlink", "last_get_control", "last_put_control",
                  "last_get_minors", "last_put_minors", "push"}

Labels == {"closed", "pop", "adopt", "test", "get_minors", "put_minors",
           "get_control", "put_control", "arm", "link", "master_test",
           "master_set", "open", "check_parent", "unlink",
           "last_get_control", "last_put_control", "last_get_minors",
           "last_put_minors", "push", "print", "orphan", "master_print",
           "master_orphan", "oops"}

Ref == Shares \cup {NULL}

\* Every field has a value of its C type: pointers point into all_shares or
\* are NULL, shared->minor is a channel or -1.
TypeOK ==
    /\ pc \in [Files -> Labels]
    /\ arg \in [Files -> Lists \cup {CONTROL}]
    /\ sh \in [Files -> Ref \cup {MASTER}]
    /\ seenMinors \in [Files -> SUBSET Chans]
    /\ seenCtl \in [Files -> Ctl \cup {NULL}]
    /\ lock \in Files \cup {NULL}
    /\ parent \in [Shares -> BOOLEAN]
    /\ minor \in [Shares -> Chans \cup {-1}]
    /\ next \in [Shares -> Ref]
    /\ prev \in [Shares -> Ref]
    /\ pending \in [Shares -> BOOLEAN]
    /\ head \in [Lists -> Ref]
    /\ freelist \in Ref
    /\ masterSet \in BOOLEAN
    /\ minors \in SUBSET Chans
    /\ ctl \in [Chans -> Ctl]
    /\ irqControl \in {0, 1}
    /\ ready \in SUBSET Lists
    /\ sched \in BOOLEAN
    /\ tpc \in {"idle", "walk", "mark", "step", "rearm"}
    /\ wmask \in SUBSET Lists
    /\ node \in Ref
    /\ tpc \in {"mark", "step"} => node \in Shares
    /\ place \in [Shares -> {"free", "held", "linked"}]
    /\ owed \in SUBSET Shares

\* No two files own one entry of all_shares, however their opens and releases
\* interleave: a share handed out by the freelist stays out until tpr_release
\* puts it back.
ShareExclusive ==
    \A f, g \in Files : Holds(f) /\ Holds(g) /\ sh[f] = sh[g] => f = g

\* What the pointers reach from h.
Chain(h) ==
    LET reach[k \in 0 .. OPEN_SHARES] ==
          IF k = 0 THEN {h}
          ELSE reach[k-1] \cup {next[s] : s \in reach[k-1] \ {NULL}}
    IN  reach[OPEN_SHARES] \ {NULL}

\* The lists hold exactly the shares that were linked and not unlinked, each
\* on the list of its minor and with its back pointer right, and the freelist
\* exactly those put back: nothing is lost and nothing is on two lists.
ListsExact ==
    /\ Chain(freelist) = {s \in Shares : place[s] = "free"}
    /\ \A m \in Lists :
         /\ Chain(head[m]) = {s \in Shares : place[s] = "linked" /\ ListOf(s) = m}
         /\ head[m] # NULL => prev[head[m]] = NULL
    /\ \A s \in Shares :
         place[s] = "linked" /\ next[s] # NULL => prev[next[s]] = s

\* Some step to come will set irqControl: an open about to, an interrupt that
\* has the tasklet scheduled, or the tasklet before it looks at `minors'.
Rearming ==
    \/ \E f \in Files : pc[f] \in {"get_control", "put_control", "arm"}
    \/ sched
    \/ tpc \in {"walk", "mark", "step", "rearm"}

\* While the driver knows an open minor, the interrupt is enabled or something
\* under way enables it: the handler, the tasklet's last test of dev->minors
\* and the writes of irqControl in tpr_open never leave it off for good.
IrqArmed == minors # {} => irqControl = 1 \/ Rearming

\* A channel with a linked client has its DMA enabled and its bit in
\* dev->minors (tpr_open's first open, tpr_release's last close).
EnabledWhileOpen ==
    \A s \in Shares : place[s] = "linked" /\ minor[s] # -1 =>
        ctl[minor[s]].dma /\ minor[s] \in minors

\* A linked share has its parent set: tpr_release relies on it to unlink, and
\* tpr_mmap and tpr_fasync go through it.
ParentWhileLinked == \A s \in Shares : place[s] = "linked" => parent[s]

\* No system call follows a NULL parent.
NoOops == \A f \in Files : pc[f] # "oops"

\* When every file is closed the driver is as tpr_probe left it: every share
\* can be opened again, no minor is on record, the control device is free.
AllReturned ==
    (\A f \in Files : pc[f] = "closed") =>
        /\ Chain(freelist) = Shares
        /\ minors = {}
        /\ ~masterSet
        /\ \A s \in Shares : ~parent[s]

\* A walk of a list wakes every client that is on the list from the walk's
\* start to its end.
WalkWakesAll == tpc \notin {"mark", "step"} => owed = {}

\* The last close of a channel switches things off: the rest of the control
\* register keeps its value or is cleared.
LastCloseSwitchesOff ==
    [][\A f \in Files, c \in Chans :
         pc[f] = "last_put_control" /\ pc'[f] # pc[f]
             => ctl'[c].cfg \in {0, ctl[c].cfg}]_vars

ClientOf(f, m) == pc[f] = "open" /\ sh[f] \in Shares /\ arg[f] = m
Delivered(f)   == \E s \in Shares : sh[f] = s /\ pending[s]
Calm           == \A f \in Files : pc[f] \in {"closed", "open"}

\* A client of a channel that selects events, and one of BSA while
\* some channel is open: a BSA open itself enables neither DMA nor interrupt.
Waiting(f) ==
    \/ \E c \in Chans : ClientOf(f, c) /\ ctl[c].cfg # 0
    \/ ClientOf(f, BSA) /\ minors # {}

\* Once opens and closes have ceased, such a client gets a pending IRQ again and
\* again.
Served == <>[]Calm => \A f \in Files : Waiting(f) ~> Delivered(f) \/ ~Waiting(f)
=============================================================================
