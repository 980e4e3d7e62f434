-------------------------- MODULE TprClientsProofs --------------------------
(***************************************************************************)
(* Proofs about TprClients, for every number of files, channels and shares.  *)
(* However many calls overlap, TypeOK, ShareExclusive, IrqArmed and          *)
(* ListsExact are invariants; while calls do not overlap, ParentWhileLinked, *)
(* NoOops, AllReturned and EnabledWhileOpen are, too.                        *)
(*                                                                         *)
(* The argument: a share that tpr_open takes from the freelist has no owner  *)
(* because an owned share is held or linked, never free (OwnInv), and the    *)
(* freelist reaches free shares only (FreeInv).  An unlink writes next of    *)
(* the share before it, so it must not be a free one: the lists are doubly   *)
(* linked and closed (ListInv).                                              *)
(***************************************************************************)
EXTENDS TprClients, TLAPS, FiniteSetTheorems, WellFoundedInduction

HeldPcs == {"adopt", "test", "get_minors", "put_minors", "get_control",
            "put_control", "arm", "link", "last_get_control",
            "last_put_control", "last_get_minors", "last_put_minors", "push"}

LockPcs == {"last_get_control", "last_put_control", "last_get_minors",
            "last_put_minors", "push"}

Linked(s) == place[s] = "linked"

\* What a call has at hand where it stands.
CallOf(f) ==
    /\ pc[f] \in {"pop", "adopt", "link"} => arg[f] \in Lists
    /\ pc[f] \in {"test", "get_minors", "put_minors", "get_control",
                  "put_control", "arm"} => arg[f] \in Chans
    /\ pc[f] \in {"put_control", "last_put_control"} => seenCtl[f] \in Ctl

OwnOf(f) ==
    /\ pc[f] \in HeldPcs => sh[f] \in Shares /\ place[sh[f]] = "held"
    /\ pc[f] = "unlink" => sh[f] \in Shares /\ Linked(sh[f])
    /\ pc[f] \in {"open", "check_parent"} =>
         sh[f] = MASTER \/ (sh[f] \in Shares /\ Linked(sh[f]))

CallInv == \A f \in Files : CallOf(f)
OwnInv  == \A f \in Files : OwnOf(f)

\* The freelist is a chain of free shares, and no two of its pointers meet.
FreeInv ==
    /\ freelist # NULL => place[freelist] = "free"
    /\ \A s \in Shares : place[s] = "free" =>
         /\ next[s] # NULL => place[next[s]] = "free" /\ next[s] # freelist
         /\ \A t \in Shares : place[t] = "free" /\ next[s] = next[t] /\ s # t
              => next[s] = NULL

ListInv ==
    /\ \A s \in Shares : Linked(s) =>
         /\ next[s] # NULL => /\ Linked(next[s])
                              /\ prev[next[s]] = s
                              /\ ListOf(next[s]) = ListOf(s)
         /\ prev[s] # NULL => Linked(prev[s]) /\ next[prev[s]] = s
    /\ \A m \in Lists : head[m] # NULL =>
         Linked(head[m]) /\ prev[head[m]] = NULL /\ ListOf(head[m]) = m

LockInv == \A f \in Files : pc[f] \in LockPcs => lock = f

\* The last close writes back a value of dev->minors that may be stale, but
\* only opens have changed it since it was read.
MinorsInv ==
    \A f \in Files :
        pc[f] = "last_put_minors" /\ seenMinors[f] # {} => minors # {}

IInv ==
    /\ TypeOK /\ CallInv /\ OwnInv /\ ShareExclusive /\ FreeInv /\ ListInv
    /\ LockInv /\ MinorsInv /\ IrqArmed

-----------------------------------------------------------------------------
(* Steps                                                                    *)

\* A step is one of a system call, or of what is around the calls.
CallStep(f) == \/ Open(f) \/ OpenStep(f) \/ Close(f) \/ ReleaseStep(f)
               \/ Read(f) \/ Configure(f)

Elsewhere == (\E c \in Chans : HwEvent(c)) \/ HwBsa \/ Intr \/ Tasklet \/ UNCHANGED vars

LEMMA Steps ==
    ASSUME [Next]_vars
    PROVE  Elsewhere \/ \E f \in Files : CallStep(f)
  BY DEF Next, Elsewhere, CallStep

\* The card, the interrupt and the tasklet touch no call and no list.
LEMMA ElsewhereKeeps ==
    Elsewhere => UNCHANGED <<pc, arg, sh, seenMinors, seenCtl, lock, minors,
                             minor, next, prev, head, freelist, place>>
  BY DEF Elsewhere, HwEvent, HwBsa, Intr, Tasklet, Drain, WalkHead, WalkMark,
         WalkStep, WalkEnd, Rearm, vars, fileVars, callVars, systemVars,
         sharedVars, listVars

Arming(f) == pc[f] \in {"get_control", "put_control", "arm"}

\* A step of a call moves that call alone, and only a few steps take a share,
\* move a share, take or free the lock, write dev->minors or irqControl.
LEMMA CallMoves ==
    ASSUME TypeOK, NEW f \in Files, CallStep(f)
    PROVE  /\ \A g \in Files : g # f =>
                /\ pc'[g] = pc[g] /\ arg'[g] = arg[g] /\ sh'[g] = sh[g]
                /\ seenMinors'[g] = seenMinors[g] /\ seenCtl'[g] = seenCtl[g]
           /\ Pop(f) \/ (Holds(f)' => Holds(f) /\ sh'[f] = sh[f])
           /\ \/ Pop(f) \/ Link(f) \/ Unlink(f) \/ Push(f)
              \/ UNCHANGED <<minor, next, prev, head, freelist, place>>
           /\ \/ Unlink(f) \/ Push(f)
              \/ lock' = lock /\ (pc'[f] \in LockPcs => pc[f] \in LockPcs)
           /\ \/ PutMinors(f) \/ LastPutMinors(f)
              \/ /\ minors' = minors
                 /\ pc'[f] = "last_put_minors" =>
                      \/ seenMinors'[f] = minors
                      \/ pc'[f] = pc[f] /\ seenMinors'[f] = seenMinors[f]
           /\ \/ Arm(f) \/ PutMinors(f)
              \/ UNCHANGED <<irqControl, sched, tpc>> /\ (Arming(f) => Arming(f)')
<1> USE DEF TypeOK, Holds, LockPcs, Arming, Goto, Forget, callVars, fileVars, listVars, sharedVars, taskVars,
           worldVars, systemVars
<1>1. CASE Open(f)
  BY <1>1 DEF Open
<1>2. CASE Pop(f)
  BY <1>2 DEF Pop
<1>3. CASE Adopt(f)
  BY <1>3 DEF Adopt
<1>4. CASE Test(f)
  BY <1>4 DEF Test
<1>5. CASE GetMinors(f)
  BY <1>5 DEF GetMinors
<1>6. CASE PutMinors(f)
  BY <1>6 DEF PutMinors
<1>7. CASE GetControl(f)
  BY <1>7 DEF GetControl
<1>8. CASE PutControl(f)
  BY <1>8 DEF PutControl
<1>9. CASE Arm(f)
  BY <1>9 DEF Arm
<1>10. CASE Link(f)
  BY <1>10 DEF Link
<1>11. CASE MasterTest(f)
  BY <1>11 DEF MasterTest
<1>12. CASE MasterSet(f)
  BY <1>12, NullAssumption DEF MasterSet
<1>13. CASE Close(f)
  BY <1>13 DEF Close
<1>14. CASE CheckParent(f)
  BY <1>14 DEF CheckParent
<1>15. CASE Unlink(f)
  BY <1>15 DEF Unlink
<1>16. CASE LastGetControl(f)
  BY <1>16 DEF LastGetControl
<1>17. CASE LastPutControl(f)
  BY <1>17 DEF LastPutControl
<1>18. CASE LastGetMinors(f)
  BY <1>18 DEF LastGetMinors
<1>19. CASE LastPutMinors(f)
  BY <1>19 DEF LastPutMinors
<1>20. CASE Push(f)
  BY <1>20 DEF Push
<1>21. CASE PrintMajor(f)
  BY <1>21 DEF PrintMajor
<1>22. CASE Orphan(f)
  BY <1>22 DEF Orphan
<1>23. CASE MasterPrint(f)
  BY <1>23 DEF MasterPrint
<1>24. CASE MasterOrphan(f)
  BY <1>24 DEF MasterOrphan
<1>25. CASE Read(f)
  BY <1>25 DEF Read
<1>26. CASE Configure(f)
  BY <1>26 DEF Configure
<1>27. QED
  BY <1>1, <1>2, <1>3, <1>4, <1>5, <1>6, <1>7, <1>8, <1>9, <1>10, <1>11,
     <1>12, <1>13, <1>14, <1>15, <1>16, <1>17, <1>18, <1>19, <1>20, <1>21,
     <1>22, <1>23, <1>24, <1>25, <1>26 DEF CallStep, OpenStep, ReleaseStep

-----------------------------------------------------------------------------
(* Types                                                                    *)

LEMMA TypeInit == Init => TypeOK
<1> SUFFICES ASSUME Init PROVE TypeOK
  OBVIOUS
<1> USE DEF Init
<1>1. /\ CONTROL \in Lists \cup {CONTROL} /\ 0 \in Shares /\ OPEN_SHARES - 1 \in Shares
      /\ \A s \in Shares : s # 0 => s - 1 \in Shares
  BY SizesAssumption DEF Shares
<1>2. /\ pc \in [Files -> Labels] /\ arg \in [Files -> Lists \cup {CONTROL}]
      /\ sh \in [Files -> Ref \cup {MASTER}] /\ seenMinors \in [Files -> SUBSET Chans]
      /\ seenCtl \in [Files -> Ctl \cup {NULL}]
  BY <1>1 DEF Labels, Ref
<1>3. /\ next \in [Shares -> Ref] /\ prev \in [Shares -> Ref]
      /\ head \in [Lists -> Ref] /\ freelist \in Ref /\ node \in Ref
  BY <1>1 DEF Ref
<1>4. ctl \in [Chans -> Ctl]
  BY DEF Ctl
<1>5. QED
  BY <1>2, <1>3, <1>4 DEF TypeOK

LEMMA TypeStep == TypeOK /\ CallInv /\ OwnInv /\ [Next]_vars => TypeOK'
<1> SUFFICES ASSUME TypeOK, CallInv, OwnInv, [Next]_vars PROVE TypeOK'
  OBVIOUS
<1> USE DEF TypeOK, Labels, Ref, Goto, Forget, callVars, fileVars, listVars, sharedVars, taskVars,
           worldVars, systemVars
<1>1. ASSUME NEW f \in Files, Open(f) PROVE TypeOK'
  BY <1>1, MinorsAssumption DEF Open
<1>2. ASSUME NEW f \in Files, Pop(f) PROVE TypeOK'
  BY <1>2 DEF Pop
<1>3. ASSUME NEW f \in Files, Adopt(f) PROVE TypeOK'
  BY <1>3 DEF Adopt
<1>4. ASSUME NEW f \in Files, Test(f) PROVE TypeOK'
  BY <1>4 DEF Test
<1>5. ASSUME NEW f \in Files, GetMinors(f) PROVE TypeOK'
  BY <1>5 DEF GetMinors
<1>6. ASSUME NEW f \in Files, PutMinors(f) PROVE TypeOK'
  <2>1. arg[f] \in Chans
    BY <1>6 DEF PutMinors, CallInv, CallOf
  <2>2. minors' \in SUBSET Chans
    BY <1>6, <2>1 DEF PutMinors
  <2>3. QED
    BY <1>6, <2>2 DEF PutMinors
<1>7. ASSUME NEW f \in Files, GetControl(f) PROVE TypeOK'
  <2>1. ctl[arg[f]] \in Ctl
    BY <1>7 DEF GetControl, CallInv, CallOf
  <2>2. QED
    BY <1>7, <2>1 DEF GetControl
<1>8. ASSUME NEW f \in Files, PutControl(f) PROVE TypeOK'
  <2>1. [seenCtl[f] EXCEPT !.dma = TRUE] \in Ctl
    BY <1>8 DEF PutControl, CallInv, CallOf, Ctl
  <2>2. ctl' \in [Chans -> Ctl]
    <3>1. ctl' = [ctl EXCEPT ![arg[f]] = [seenCtl[f] EXCEPT !.dma = TRUE]]
      BY <1>8 DEF PutControl
    <3>2. QED
      BY <2>1, <3>1
  <2>3. QED
    BY <1>8, <2>2 DEF PutControl
<1>9. ASSUME NEW f \in Files, Arm(f) PROVE TypeOK'
  BY <1>9 DEF Arm
<1>10. ASSUME NEW f \in Files, Link(f) PROVE TypeOK'
  <2>1. arg[f] \in Lists /\ sh[f] \in Shares
    BY <1>10 DEF Link, CallInv, CallOf, OwnInv, OwnOf, HeldPcs
  <2>2. MinorField(arg[f]) \in Chans \cup {-1} /\ head[arg[f]] \in Ref
    BY <2>1 DEF MinorField, Lists
  <2>3. /\ minor' \in [Shares -> Chans \cup {-1}] /\ next' \in [Shares -> Ref]
        /\ prev' \in [Shares -> Ref] /\ head' \in [Lists -> Ref]
        /\ place' \in [Shares -> {"free", "held", "linked"}]
    BY <1>10, <2>1, <2>2 DEF Link
  <2>4. QED
    BY <1>10, <2>3 DEF Link
<1>11. ASSUME NEW f \in Files, MasterTest(f) PROVE TypeOK'
  BY <1>11 DEF MasterTest
<1>12. ASSUME NEW f \in Files, MasterSet(f) PROVE TypeOK'
  BY <1>12 DEF MasterSet
<1>13. ASSUME NEW f \in Files, Close(f) PROVE TypeOK'
  BY <1>13 DEF Close
<1>14. ASSUME NEW f \in Files, CheckParent(f) PROVE TypeOK'
  BY <1>14 DEF CheckParent
<1>15. ASSUME NEW f \in Files, Unlink(f) PROVE TypeOK'
  <2>1. sh[f] \in Shares /\ ListOf(sh[f]) \in Lists
    BY <1>15 DEF Unlink, OwnInv, OwnOf, ListOf, Lists
  <2>2. HeadWithout(sh[f], ListOf(sh[f])) \in Ref
    BY <2>1 DEF HeadWithout
  <2>3. /\ next' \in [Shares -> Ref] /\ prev' \in [Shares -> Ref]
        /\ head' \in [Lists -> Ref]
        /\ place' \in [Shares -> {"free", "held", "linked"}]
    BY <1>15, <2>1, <2>2 DEF Unlink
  <2>4. QED
    BY <1>15, <2>3 DEF Unlink
<1>16. ASSUME NEW f \in Files, LastGetControl(f) PROVE TypeOK'
  <2>1. ctl[0] \in Ctl
    BY SizesAssumption DEF Chans
  <2>2. QED
    BY <1>16, <2>1 DEF LastGetControl
<1>17. ASSUME NEW f \in Files, LastPutControl(f) PROVE TypeOK'
  <2>1. [seenCtl[f] EXCEPT !.dma = FALSE] \in Ctl
    BY <1>17 DEF LastPutControl, CallInv, CallOf, Ctl
  <2>2. ctl' \in [Chans -> Ctl]
    <3>1. ctl' = [ctl EXCEPT ![minor[sh[f]]] = [seenCtl[f] EXCEPT !.dma = FALSE]]
      BY <1>17 DEF LastPutControl
    <3>2. QED
      BY <2>1, <3>1
  <2>3. QED
    BY <1>17, <2>2 DEF LastPutControl
<1>18. ASSUME NEW f \in Files, LastGetMinors(f) PROVE TypeOK'
  BY <1>18 DEF LastGetMinors
<1>19. ASSUME NEW f \in Files, LastPutMinors(f) PROVE TypeOK'
  BY <1>19 DEF LastPutMinors
<1>20. ASSUME NEW f \in Files, Push(f) PROVE TypeOK'
  <2>1. sh[f] \in Shares
    BY <1>20 DEF Push, OwnInv, OwnOf, HeldPcs
  <2>2. QED
    BY <1>20, <2>1 DEF Push
<1>21. ASSUME NEW f \in Files, PrintMajor(f) PROVE TypeOK'
  BY <1>21 DEF PrintMajor
<1>22. ASSUME NEW f \in Files, Orphan(f) PROVE TypeOK'
  BY <1>22 DEF Orphan
<1>23. ASSUME NEW f \in Files, MasterPrint(f) PROVE TypeOK'
  BY <1>23 DEF MasterPrint
<1>24. ASSUME NEW f \in Files, MasterOrphan(f) PROVE TypeOK'
  BY <1>24 DEF MasterOrphan
<1>25. ASSUME NEW f \in Files, Read(f) PROVE TypeOK'
  BY <1>25 DEF Read
<1>26. ASSUME NEW f \in Files, Configure(f) PROVE TypeOK'
  BY <1>26, AppAssumption DEF Configure
<1>27. CASE \E c \in Chans : HwEvent(c)
  BY <1>27 DEF HwEvent, Lists
<1>28. CASE HwBsa
  BY <1>28 DEF HwBsa, Lists
<1>29. CASE Intr
  BY <1>29 DEF Intr
<1>30. CASE Drain
  BY <1>30 DEF Drain
<1>31. CASE WalkHead
  BY <1>31 DEF WalkHead
<1>32. CASE WalkMark
  BY <1>32 DEF WalkMark
<1>33. CASE WalkStep
  BY <1>33 DEF WalkStep
<1>34. CASE WalkEnd
  BY <1>34 DEF WalkEnd
<1>35. CASE Rearm
  BY <1>35 DEF Rearm
<1>36. CASE UNCHANGED vars
  BY <1>36 DEF vars
<1>37. QED
  BY <1>1, <1>2, <1>3, <1>4, <1>5, <1>6, <1>7, <1>8, <1>9, <1>10, <1>11,
     <1>12, <1>13, <1>14, <1>15, <1>16, <1>17, <1>18, <1>19, <1>20, <1>21,
     <1>22, <1>23, <1>24, <1>25, <1>26, <1>27, <1>28, <1>29, <1>30, <1>31,
     <1>32, <1>33, <1>34, <1>35, <1>36 DEF Next, OpenStep, ReleaseStep,
     Tasklet

-----------------------------------------------------------------------------
(* The lists and who owns a share                                           *)

LEMMA FreeInit == Init => FreeInv /\ ListInv
<1> SUFFICES ASSUME Init PROVE FreeInv /\ ListInv
  OBVIOUS
<1>1. /\ next = [s \in Shares |-> IF s = 0 THEN NULL ELSE s - 1]
      /\ freelist = OPEN_SHARES - 1 /\ freelist \in Shares
      /\ place = [s \in Shares |-> "free"] /\ head = [m \in Lists |-> NULL]
  BY SizesAssumption DEF Init, Shares
<1>2. \A s \in Shares : s \in Nat /\ s <= OPEN_SHARES - 1 /\ (s # 0 => s - 1 \in Shares)
  BY SizesAssumption DEF Shares
<1>3. FreeInv
  BY <1>1, <1>2, SizesAssumption, NullAssumption DEF FreeInv
<1>4. ListInv
  BY <1>1 DEF ListInv, Linked
<1>5. QED
  BY <1>3, <1>4

LEMMA FreeStep == TypeOK /\ OwnInv /\ FreeInv /\ ListInv /\ [Next]_vars => FreeInv'
<1> SUFFICES ASSUME TypeOK, OwnInv, FreeInv, ListInv, [Next]_vars PROVE FreeInv'
  OBVIOUS
<1>1. /\ next \in [Shares -> Shares \cup {NULL}] /\ prev \in [Shares -> Shares \cup {NULL}]
      /\ place \in [Shares -> {"free", "held", "linked"}]
      /\ freelist \in Shares \cup {NULL} /\ NULL \notin Shares
  BY NullAssumption DEF TypeOK, Ref
<1>2. CASE UNCHANGED <<minor, next, prev, head, freelist, place>>
  BY <1>2 DEF FreeInv
<1>3. ASSUME NEW f \in Files, Pop(f) PROVE FreeInv'
  BY <1>1, <1>3 DEF FreeInv, Pop
<1>4. ASSUME NEW f \in Files, Link(f) PROVE FreeInv'
  <2>1. sh[f] \in Shares /\ place[sh[f]] = "held"
    BY <1>4 DEF Link, OwnInv, OwnOf, HeldPcs
  <2>2. /\ next' = [next EXCEPT ![sh[f]] = head[arg[f]]] /\ freelist' = freelist
        /\ place' = [place EXCEPT ![sh[f]] = "linked"]
    BY <1>4 DEF Link
  <2>3. QED
    BY <1>1, <2>1, <2>2 DEF FreeInv
<1>5. ASSUME NEW f \in Files, Unlink(f) PROVE FreeInv'
  <2> DEFINE s == sh[f]
  <2>1. s \in Shares /\ place[s] = "linked" /\ (prev[s] # NULL => place[prev[s]] = "linked")
    BY <1>5 DEF Unlink, OwnInv, OwnOf, ListInv, Linked
  <2>2. /\ next' = [t \in Shares |-> IF t = prev[s] THEN next[s] ELSE next[t]]
        /\ freelist' = freelist /\ place' = [place EXCEPT ![s] = "held"]
    BY <1>5 DEF Unlink
  <2>3. \A t \in Shares : place'[t] = "free" <=> place[t] = "free"
    BY <1>1, <2>1, <2>2
  <2>4. \A t \in Shares : place[t] = "free" => next'[t] = next[t]
    BY <1>1, <2>1, <2>2
  <2>5. QED
    BY <1>1, <2>2, <2>3, <2>4 DEF FreeInv
<1>6. ASSUME NEW f \in Files, Push(f) PROVE FreeInv'
  <2>1. sh[f] \in Shares /\ place[sh[f]] = "held"
    BY <1>6 DEF Push, OwnInv, OwnOf, HeldPcs
  <2>2. /\ next' = [next EXCEPT ![sh[f]] = freelist] /\ freelist' = sh[f]
        /\ place' = [place EXCEPT ![sh[f]] = "free"]
    BY <1>6 DEF Push
  <2>3. QED
    BY <1>1, <2>1, <2>2 DEF FreeInv
<1>7. QED
  BY <1>2, <1>3, <1>4, <1>5, <1>6, Steps, ElsewhereKeeps, CallMoves

LEMMA ListStep == TypeOK /\ CallInv /\ OwnInv /\ FreeInv /\ ListInv /\ [Next]_vars => ListInv'
<1> SUFFICES ASSUME TypeOK, CallInv, OwnInv, FreeInv, ListInv, [Next]_vars PROVE ListInv'
  OBVIOUS
<1>1. /\ next \in [Shares -> Shares \cup {NULL}] /\ prev \in [Shares -> Shares \cup {NULL}]
      /\ place \in [Shares -> {"free", "held", "linked"}]
      /\ head \in [Lists -> Shares \cup {NULL}]
      /\ minor \in [Shares -> Chans \cup {-1}]
      /\ freelist \in Shares \cup {NULL} /\ NULL \notin Shares
  BY NullAssumption DEF TypeOK, Ref
<1>2. CASE UNCHANGED <<minor, next, prev, head, freelist, place>>
  BY <1>2 DEF ListInv, Linked, ListOf
<1>3. ASSUME NEW f \in Files, Pop(f) PROVE ListInv'
  <2>1. UNCHANGED <<next, prev, head, minor>> /\ \A s \in Shares : Linked(s)' <=> Linked(s)
    BY <1>1, <1>3 DEF Pop, FreeInv, Linked
  <2>2. \A s \in Shares : ListOf(s)' = ListOf(s)
    BY <2>1 DEF ListOf
  <2>3. QED
    BY <1>1, <2>1, <2>2 DEF ListInv
<1>4. ASSUME NEW f \in Files, Push(f) PROVE ListInv'
  <2> DEFINE s == sh[f]
  <2>1. s \in Shares /\ place[s] = "held"
    BY <1>4 DEF Push, OwnInv, OwnOf, HeldPcs
  <2>2. /\ next' = [next EXCEPT ![s] = freelist] /\ prev' = [prev EXCEPT ![s] = NULL]
        /\ UNCHANGED <<head, minor>> /\ place' = [place EXCEPT ![s] = "free"]
    BY <1>4 DEF Push
  <2>3. \A t \in Shares : /\ Linked(t)' <=> Linked(t)
                          /\ Linked(t) => t # s /\ next'[t] = next[t] /\ prev'[t] = prev[t]
                          /\ ListOf(t)' = ListOf(t)
    BY <1>1, <2>1, <2>2 DEF Linked, ListOf
  <2>4. QED
    BY <1>1, <2>2, <2>3 DEF ListInv
<1>5. ASSUME NEW f \in Files, Link(f) PROVE ListInv'
  <2> DEFINE s == sh[f]
             m == arg[f]
             h == head[m]
  <2>1. s \in Shares /\ place[s] = "held" /\ m \in Lists
    BY <1>5 DEF Link, OwnInv, OwnOf, CallInv, CallOf, HeldPcs
  <2>2. /\ next' = [next EXCEPT ![s] = h]
        /\ prev' = [t \in Shares |-> IF t = s THEN NULL ELSE IF t = h THEN s ELSE prev[t]]
        /\ head' = [head EXCEPT ![m] = s] /\ minor' = [minor EXCEPT ![s] = MinorField(m)]
        /\ place' = [place EXCEPT ![s] = "linked"]
    BY <1>5 DEF Link
  <2>3. \A t \in Shares : ListOf(t)' = IF t = s THEN m ELSE ListOf(t)
    BY <1>1, <2>1, <2>2, SizesAssumption DEF ListOf, MinorField, Lists, Chans, BSA
  <2>4. \A t \in Shares : Linked(t)' <=> t = s \/ Linked(t)
    BY <1>1, <2>1, <2>2 DEF Linked
  <2>5. h # NULL => /\ h \in Shares /\ h # s /\ Linked(h)
                    /\ prev[h] = NULL /\ ListOf(h) = m
    BY <1>1, <2>1 DEF ListInv, Linked
  <2>6. ASSUME NEW t \in Shares, Linked(t)'
        PROVE  /\ next'[t] # NULL => /\ Linked(next[t])'
                                      /\ prev'[next'[t]] = t
                                      /\ ListOf(next[t])' = ListOf(t)'
               /\ prev'[t] # NULL => Linked(prev[t])' /\ next'[prev'[t]] = t
    <3>1. CASE t = s
      BY <1>1, <2>1, <2>2, <2>3, <2>4, <2>5, <3>1
    <3>2. CASE t # s
      <4>1. Linked(t) /\ next'[t] = next[t]
        BY <1>1, <2>2, <2>4, <2>6, <3>2
      <4>2. next[t] # NULL => /\ next[t] \in Shares /\ Linked(next[t]) /\ next[t] # s
                              /\ prev[next[t]] = t /\ ListOf(next[t]) = ListOf(t)
        BY <1>1, <2>1, <4>1 DEF ListInv, Linked
      <4>3. next[t] # NULL => next[t] # h
        BY <1>1, <2>5, <4>2
      <4>4. prev[t] # NULL => prev[t] \in Shares /\ Linked(prev[t]) /\ next[prev[t]] = t
                              /\ prev[t] # s
        BY <1>1, <2>1, <4>1 DEF ListInv, Linked
      <4>5. next'[t] # NULL => /\ Linked(next[t])' /\ prev'[next'[t]] = t
                               /\ ListOf(next[t])' = ListOf(t)'
        BY <1>1, <2>2, <2>3, <2>4, <3>2, <4>1, <4>2, <4>3
      <4>6. prev'[t] # NULL => Linked(prev[t])' /\ next'[prev'[t]] = t
        BY <1>1, <2>1, <2>2, <2>4, <2>5, <3>2, <4>1, <4>4
      <4>7. QED
        BY <4>5, <4>6
    <3>3. QED
      BY <3>1, <3>2
  <2>7. ASSUME NEW k \in Lists, head'[k] # NULL
        PROVE  Linked(head[k])' /\ prev'[head'[k]] = NULL /\ ListOf(head[k])' = k
    <3>1. CASE k = m
      BY <1>1, <2>1, <2>2, <2>3, <2>4, <3>1
    <3>2. CASE k # m
      <4>1. head'[k] = head[k] /\ head[k] \in Shares
        BY <1>1, <2>2, <2>7, <3>2
      <4>2. Linked(head[k]) /\ prev[head[k]] = NULL /\ ListOf(head[k]) = k /\ head[k] # s
        BY <1>1, <2>1, <4>1 DEF ListInv, Linked
      <4>3. head[k] # h
        BY <2>5, <3>2, <4>1, <4>2, <1>1
      <4>4. QED
        BY <2>2, <2>3, <2>4, <4>1, <4>2, <4>3
    <3>3. QED
      BY <3>1, <3>2
  <2>8. QED
    BY <2>6, <2>7 DEF ListInv
<1>6. ASSUME NEW f \in Files, Unlink(f) PROVE ListInv'
  <2> DEFINE s == sh[f]
             m == ListOf(s)
  <2>1. s \in Shares /\ Linked(s) /\ m \in Lists
    BY <1>1, <1>6 DEF Unlink, OwnInv, OwnOf, ListOf, Lists
  <2>2. /\ next' = [t \in Shares |-> IF t = prev[s] THEN next[s] ELSE next[t]]
        /\ prev' = [t \in Shares |-> IF t = next[s] THEN prev[s] ELSE prev[t]]
        /\ head' = [head EXCEPT ![m] = IF prev[s] = NULL THEN next[s] ELSE head[m]]
        /\ minor' = minor /\ place' = [place EXCEPT ![s] = "held"]
    BY <1>6 DEF Unlink, HeadWithout
  <2>3. \A t \in Shares : ListOf(t)' = ListOf(t)
    BY <2>2 DEF ListOf
  <2>4. \A t \in Shares : Linked(t)' <=> t # s /\ Linked(t)
    BY <1>1, <2>1, <2>2 DEF Linked
  <2>5. /\ next[s] # NULL => /\ next[s] \in Shares /\ Linked(next[s])
                              /\ prev[next[s]] = s /\ ListOf(next[s]) = m
        /\ prev[s] # NULL => prev[s] \in Shares /\ Linked(prev[s]) /\ next[prev[s]] = s
    BY <1>1, <2>1 DEF ListInv
  <2>6. ASSUME NEW t \in Shares, Linked(t)'
        PROVE  /\ next'[t] # NULL => /\ Linked(next[t])'
                                      /\ prev'[next'[t]] = t
                                      /\ ListOf(next[t])' = ListOf(t)'
               /\ prev'[t] # NULL => Linked(prev[t])' /\ next'[prev'[t]] = t
    <3>1. t # s /\ Linked(t)
      BY <2>4, <2>6
    <3>2. /\ next[t] # NULL => /\ next[t] \in Shares /\ Linked(next[t])
                                /\ prev[next[t]] = t /\ ListOf(next[t]) = ListOf(t)
          /\ prev[t] # NULL => prev[t] \in Shares /\ Linked(prev[t]) /\ next[prev[t]] = t
      BY <1>1, <3>1 DEF ListInv
    <3>3. next'[t] # NULL => /\ Linked(next[t])' /\ prev'[next'[t]] = t
                             /\ ListOf(next[t])' = ListOf(t)'
      <4>1. CASE t = prev[s]
        BY <1>1, <2>1, <2>2, <2>3, <2>4, <2>5, <3>1, <3>2, <4>1
      <4>2. CASE t # prev[s]
        BY <1>1, <2>1, <2>2, <2>3, <2>4, <2>5, <3>1, <3>2, <4>2
      <4>3. QED
        BY <4>1, <4>2
    <3>4. prev'[t] # NULL => Linked(prev[t])' /\ next'[prev'[t]] = t
      <4>1. CASE t = next[s]
        BY <1>1, <2>1, <2>2, <2>4, <2>5, <3>1, <3>2, <4>1
      <4>2. CASE t # next[s]
        BY <1>1, <2>1, <2>2, <2>4, <2>5, <3>1, <3>2, <4>2
      <4>3. QED
        BY <4>1, <4>2
    <3>5. QED
      BY <3>3, <3>4
  <2>7. ASSUME NEW k \in Lists, head'[k] # NULL
        PROVE  Linked(head[k])' /\ prev'[head'[k]] = NULL /\ ListOf(head[k])' = k
    <3>1. CASE k = m /\ prev[s] = NULL
      <4>1. head'[k] = next[s] /\ next[s] \in Shares
        BY <1>1, <2>1, <2>2, <2>7, <3>1
      <4>2. next[s] # s
        BY <1>1, <2>5, <3>1, <4>1
      <4>3. QED
        BY <1>1, <2>1, <2>2, <2>3, <2>4, <2>5, <3>1, <4>1, <4>2
    <3>2. CASE ~(k = m /\ prev[s] = NULL)
      <4>1. head'[k] = head[k] /\ head[k] \in Shares
        BY <1>1, <2>1, <2>2, <2>7, <3>2
      <4>2. Linked(head[k]) /\ prev[head[k]] = NULL /\ ListOf(head[k]) = k
        BY <1>1, <4>1 DEF ListInv
      <4>3. head[k] # s
        BY <3>2, <4>2
      <4>4. head[k] # next[s]
        BY <1>1, <2>1, <2>5, <4>1, <4>2
      <4>5. QED
        BY <2>2, <2>3, <2>4, <4>1, <4>2, <4>3, <4>4
    <3>3. QED
      BY <3>1, <3>2
  <2>8. QED
    BY <2>6, <2>7 DEF ListInv
<1>7. QED
  BY <1>2, <1>3, <1>4, <1>5, <1>6, Steps, ElsewhereKeeps, CallMoves

LEMMA OwnedNotFree == OwnInv => \A f \in Files : Holds(f) => place[sh[f]] # "free"
  BY NullAssumption DEF OwnInv, OwnOf, Holds, HeldPcs, Linked

\* A step of one call leaves what another call owns where it is.
LEMMA OthersKeep ==
    ASSUME TypeOK, OwnInv, ShareExclusive, FreeInv,
           NEW f \in Files, NEW g \in Files, g # f, CallStep(f), Holds(g)
    PROVE  place'[sh[g]] = place[sh[g]]
<1>1. sh[g] \in Shares /\ place \in [Shares -> {"free", "held", "linked"}]
  BY DEF Holds, TypeOK
<1>2. CASE UNCHANGED place
  BY <1>2
<1>3. CASE Pop(f)
  BY <1>1, <1>3, OwnedNotFree DEF Pop, FreeInv
<1>4. CASE Link(f) \/ Unlink(f) \/ Push(f)
  <2>1. Holds(f)
    BY <1>4 DEF Link, Unlink, Push, OwnInv, OwnOf, HeldPcs, Holds
  <2>2. sh[f] # sh[g]
    BY <2>1 DEF ShareExclusive
  <2>3. QED
    BY <1>1, <1>4, <2>2 DEF Link, Unlink, Push
<1>5. QED
  BY <1>2, <1>3, <1>4, CallMoves

\* A call finds at each place what it left for itself at the one before.
LEMMA CallGoesOn ==
    ASSUME TypeOK, FreeInv, NEW f \in Files, CallOf(f), OwnOf(f), CallStep(f)
    PROVE  CallOf(f)' /\ OwnOf(f)'
<1> USE DEF TypeOK, CallOf, OwnOf, HeldPcs, Linked, Goto, Forget, callVars, fileVars, listVars, sharedVars, taskVars,
           worldVars, systemVars
<1>1. CASE Open(f)
  BY <1>1, MinorsAssumption DEF Open
<1>2. CASE Pop(f)
  BY <1>2, NullAssumption DEF Pop, FreeInv, Ref
<1>3. CASE Adopt(f)
  BY <1>3 DEF Adopt, Lists
<1>4. CASE Test(f)
  BY <1>4 DEF Test, Lists
<1>5. CASE GetMinors(f)
  BY <1>5 DEF GetMinors
<1>6. CASE PutMinors(f)
  BY <1>6 DEF PutMinors
<1>7. CASE GetControl(f)
  BY <1>7 DEF GetControl
<1>8. CASE PutControl(f)
  BY <1>8 DEF PutControl
<1>9. CASE Arm(f)
  BY <1>9 DEF Arm, Lists
<1>10. CASE Link(f)
  BY <1>10 DEF Link
<1>11. CASE MasterTest(f)
  BY <1>11 DEF MasterTest
<1>12. CASE MasterSet(f)
  BY <1>12 DEF MasterSet
<1>13. CASE Close(f)
  BY <1>13 DEF Close
<1>14. CASE CheckParent(f)
  BY <1>14 DEF CheckParent
<1>15. CASE Unlink(f)
  BY <1>15 DEF Unlink
<1>16. CASE LastGetControl(f)
  BY <1>16, SizesAssumption DEF LastGetControl, Chans
<1>17. CASE LastPutControl(f)
  BY <1>17 DEF LastPutControl
<1>18. CASE LastGetMinors(f)
  BY <1>18 DEF LastGetMinors
<1>19. CASE LastPutMinors(f)
  BY <1>19 DEF LastPutMinors
<1>20. CASE Push(f)
  BY <1>20 DEF Push
<1>21. CASE PrintMajor(f)
  BY <1>21 DEF PrintMajor
<1>22. CASE Orphan(f)
  BY <1>22 DEF Orphan
<1>23. CASE MasterPrint(f)
  BY <1>23 DEF MasterPrint
<1>24. CASE MasterOrphan(f)
  BY <1>24 DEF MasterOrphan
<1>25. CASE Read(f)
  BY <1>25 DEF Read
<1>26. CASE Configure(f)
  BY <1>26 DEF Configure
<1>27. QED
  BY <1>1, <1>2, <1>3, <1>4, <1>5, <1>6, <1>7, <1>8, <1>9, <1>10, <1>11,
     <1>12, <1>13, <1>14, <1>15, <1>16, <1>17, <1>18, <1>19, <1>20, <1>21,
     <1>22, <1>23, <1>24, <1>25, <1>26 DEF CallStep, OpenStep, ReleaseStep

LEMMA CallInvStep ==
    /\ TypeOK /\ CallInv /\ OwnInv /\ ShareExclusive /\ FreeInv
    /\ [Next]_vars
    => CallInv' /\ OwnInv'
<1> SUFFICES ASSUME TypeOK, CallInv, OwnInv, ShareExclusive, FreeInv, [Next]_vars
             PROVE  CallInv' /\ OwnInv'
  OBVIOUS
<1>1. CASE Elsewhere
  BY <1>1, ElsewhereKeeps DEF CallInv, OwnInv, CallOf, OwnOf, Linked
<1>2. ASSUME NEW f \in Files, CallStep(f) PROVE CallInv' /\ OwnInv'
  <2>1. ASSUME NEW g \in Files, g # f PROVE CallOf(g)' /\ OwnOf(g)'
    <3>1. pc'[g] = pc[g] /\ arg'[g] = arg[g] /\ sh'[g] = sh[g] /\ seenCtl'[g] = seenCtl[g]
      BY <1>2, <2>1, CallMoves
    <3>2. CallOf(g) /\ OwnOf(g)
      BY DEF CallInv, OwnInv
    <3>3. Holds(g) => place'[sh[g]] = place[sh[g]]
      BY <1>2, <2>1, OthersKeep
    <3>4. (sh[g] \in Shares /\ pc[g] \in HeldPcs \cup {"unlink", "open", "check_parent"})
             => Holds(g)
      BY DEF Holds, HeldPcs
    <3>5. QED
      BY <3>1, <3>2, <3>3, <3>4 DEF CallOf, OwnOf, Linked
  <2>2. CallOf(f)' /\ OwnOf(f)'
    BY <1>2, CallGoesOn DEF CallInv, OwnInv
  <2>3. QED
    BY <2>1, <2>2 DEF CallInv, OwnInv
<1>3. QED
  BY <1>1, <1>2, Steps

LEMMA ExclusiveStep ==
    TypeOK /\ OwnInv /\ ShareExclusive /\ FreeInv /\ [Next]_vars => ShareExclusive'
<1> SUFFICES ASSUME TypeOK, OwnInv, ShareExclusive, FreeInv, [Next]_vars
             PROVE  ShareExclusive'
  OBVIOUS
<1>1. CASE Elsewhere
  BY <1>1, ElsewhereKeeps DEF ShareExclusive, Holds
<1>2. ASSUME NEW f \in Files, CallStep(f) PROVE ShareExclusive'
  <2>1. \A g \in Files : g # f => sh'[g] = sh[g] /\ (Holds(g)' <=> Holds(g))
    BY <1>2, CallMoves DEF Holds
  <2>2. CASE Pop(f)
    <3>1. Holds(f)' => sh'[f] = freelist /\ place[freelist] = "free"
      BY <2>2, NullAssumption DEF Pop, Forget, Goto, Holds, FreeInv, TypeOK
    <3>2. \A g \in Files : g # f /\ Holds(g)' /\ Holds(f)' => sh'[g] # sh'[f]
      BY <2>1, <3>1, OwnedNotFree
    <3>3. QED
      BY <2>1, <3>2 DEF ShareExclusive
  <2>3. CASE ~Pop(f)
    <3>1. Holds(f)' => Holds(f) /\ sh'[f] = sh[f]
      BY <1>2, <2>3, CallMoves
    <3>2. QED
      BY <2>1, <3>1 DEF ShareExclusive
  <2>4. QED
    BY <2>2, <2>3
<1>3. QED
  BY <1>1, <1>2, Steps

-----------------------------------------------------------------------------
(* The lock and the interrupt                                               *)

LEMMA LockStep == TypeOK /\ LockInv /\ [Next]_vars => LockInv'
<1> SUFFICES ASSUME TypeOK, LockInv, [Next]_vars PROVE LockInv'
  OBVIOUS
<1>1. CASE Elsewhere
  BY <1>1, ElsewhereKeeps DEF LockInv
<1>2. ASSUME NEW f \in Files, CallStep(f) PROVE LockInv'
  <2>1. \A g \in Files : g # f => pc'[g] = pc[g]
    BY <1>2, CallMoves
  <2>2. CASE Unlink(f)
    <3>1. lock = NULL /\ lock' = f
      BY <2>2 DEF Unlink
    <3>2. \A g \in Files : pc[g] \notin LockPcs
      BY <3>1, NullAssumption DEF LockInv
    <3>3. QED
      BY <2>1, <3>1, <3>2 DEF LockInv
  <2>3. CASE Push(f)
    <3>1. pc[f] = "push" /\ pc'[f] = "print"
      BY <2>3 DEF Push, Goto, TypeOK
    <3>2. \A g \in Files : g # f => pc[g] \notin LockPcs
      BY <3>1 DEF LockInv, LockPcs
    <3>3. QED
      BY <2>1, <3>1, <3>2 DEF LockInv, LockPcs
  <2>4. CASE ~Unlink(f) /\ ~Push(f)
    <3>1. lock' = lock /\ (pc'[f] \in LockPcs => pc[f] \in LockPcs)
      BY <1>2, <2>4, CallMoves
    <3>2. QED
      BY <2>1, <3>1 DEF LockInv
  <2>5. QED
    BY <2>2, <2>3, <2>4
<1>3. QED
  BY <1>1, <1>2, Steps

LEMMA MinorsStep == TypeOK /\ LockInv /\ MinorsInv /\ [Next]_vars => MinorsInv'
<1> SUFFICES ASSUME TypeOK, LockInv, MinorsInv, [Next]_vars PROVE MinorsInv'
  OBVIOUS
<1>1. CASE Elsewhere
  BY <1>1, ElsewhereKeeps DEF MinorsInv
<1>2. ASSUME NEW f \in Files, CallStep(f) PROVE MinorsInv'
  <2>1. \A g \in Files : g # f => pc'[g] = pc[g] /\ seenMinors'[g] = seenMinors[g]
    BY <1>2, CallMoves
  <2>2. CASE PutMinors(f)
    BY <2>2 DEF PutMinors, MinorsInv
  <2>3. CASE LastPutMinors(f)
    <3>1. pc[f] = "last_put_minors" /\ pc'[f] = "push"
      BY <2>3 DEF LastPutMinors, Goto, TypeOK
    <3>2. \A g \in Files : g # f => pc[g] # "last_put_minors"
      BY <3>1 DEF LockInv, LockPcs
    <3>3. QED
      BY <2>1, <3>1, <3>2 DEF MinorsInv
  <2>4. CASE ~PutMinors(f) /\ ~LastPutMinors(f)
    BY <1>2, <2>1, <2>4, CallMoves DEF MinorsInv
  <2>5. QED
    BY <2>2, <2>3, <2>4
<1>3. QED
  BY <1>1, <1>2, Steps

LEMMA ArmedStep == TypeOK /\ MinorsInv /\ IrqArmed /\ [Next]_vars => IrqArmed'
<1> SUFFICES ASSUME TypeOK, MinorsInv, IrqArmed, [Next]_vars PROVE IrqArmed'
  OBVIOUS
<1>1. CASE Elsewhere
  <2>1. pc' = pc /\ minors' = minors
    BY <1>1, ElsewhereKeeps
  <2>2. CASE \/ \E c \in Chans : HwEvent(c)
             \/ HwBsa
             \/ UNCHANGED vars
    <3>1. UNCHANGED <<irqControl, sched, tpc>>
      BY <2>2 DEF HwEvent, HwBsa, vars, systemVars, worldVars, taskVars
    <3>2. QED
      BY <2>1, <3>1 DEF IrqArmed, Rearming
  <2>3. CASE Intr
    BY <2>3 DEF Intr, IrqArmed, Rearming
  <2>4. CASE Drain \/ WalkHead \/ WalkMark \/ WalkStep
    BY <2>4 DEF Drain, WalkHead, WalkMark, WalkStep, IrqArmed, Rearming
  <2>5. CASE WalkEnd
    BY <2>1, <2>5 DEF WalkEnd, IrqArmed, Rearming
  <2>6. CASE Rearm
    BY <2>6 DEF Rearm, IrqArmed
  <2>7. QED
    BY <1>1, <2>2, <2>3, <2>4, <2>5, <2>6 DEF Elsewhere, Tasklet
<1>2. ASSUME NEW f \in Files, CallStep(f) PROVE IrqArmed'
  <2>1. CASE Arm(f)
    BY <2>1 DEF Arm, IrqArmed
  <2>2. CASE PutMinors(f)
    BY <2>2 DEF PutMinors, Goto, TypeOK, IrqArmed, Rearming
  <2>3. CASE ~Arm(f) /\ ~PutMinors(f)
    <3>1. UNCHANGED <<irqControl, sched, tpc>> /\ (Arming(f) => Arming(f)')
      BY <1>2, <2>3, CallMoves
    <3>2. \A g \in Files : g # f => pc'[g] = pc[g]
      BY <1>2, CallMoves
    <3>3. (irqControl = 1 \/ Rearming) => (irqControl = 1 \/ Rearming)'
      BY <3>1, <3>2 DEF Rearming, Arming
    <3>4. minors' # {} => minors # {}
      <4>1. CASE LastPutMinors(f)
        BY <4>1 DEF LastPutMinors, MinorsInv
      <4>2. CASE ~LastPutMinors(f)
        BY <1>2, <2>3, <4>2, CallMoves
      <4>3. QED
        BY <4>1, <4>2
    <3>5. QED
      BY <3>3, <3>4 DEF IrqArmed
  <2>4. QED
    BY <2>1, <2>2, <2>3
<1>3. QED
  BY <1>1, <1>2, Steps

-----------------------------------------------------------------------------
(* The theorems                                                             *)

\* The inductive invariant of TprClients: what each call has at hand, who owns
\* which share, the lists and the freelist, the lock, the interrupt.
THEOREM Invariant == Spec => []IInv
<1>1. Init => IInv
  <2> SUFFICES ASSUME Init PROVE IInv
    OBVIOUS
  <2>1. \A f \in Files : pc[f] = "closed"
    BY DEF Init
  <2>2. CallInv /\ OwnInv /\ ShareExclusive /\ LockInv /\ MinorsInv
    BY <2>1 DEF CallInv, CallOf, OwnInv, OwnOf, HeldPcs, ShareExclusive, Holds,
                LockInv, LockPcs, MinorsInv
  <2>3. IrqArmed
    BY DEF Init, IrqArmed
  <2>4. QED
    BY <2>2, <2>3, TypeInit, FreeInit DEF IInv
<1>2. IInv /\ [Next]_vars => IInv'
  BY TypeStep, CallInvStep, ExclusiveStep, FreeStep, ListStep, LockStep,
     MinorsStep, ArmedStep DEF IInv
<1>3. QED
  BY <1>1, <1>2, PTL DEF Spec

\* Every pointer of the driver points into all_shares or is NULL, and every
\* field keeps its type, whatever opens and releases overlap.
THEOREM TypeCorrect == Spec => []TypeOK
<1>1. IInv => TypeOK
  BY DEF IInv
<1>2. QED
  BY Invariant, <1>1, PTL

\* No two open files own one share.
THEOREM Exclusive == Spec => []ShareExclusive
<1>1. IInv => ShareExclusive
  BY DEF IInv
<1>2. QED
  BY Invariant, <1>1, PTL

\* Overlapping opens, closes, the handler and the tasklet never leave the
\* interrupt off for good while the driver knows an open minor.
THEOREM Armed == Spec => []IrqArmed
<1>1. IInv => IrqArmed
  BY DEF IInv
<1>2. QED
  BY Invariant, <1>1, PTL

-----------------------------------------------------------------------------
(* Ranks and chains                                                         *)

Below == {ss \in Nat \X Nat : ss[1] < ss[2]}

LEMMA BelowWF == IsWellFoundedOn(Below, Nat)
  BY NatLessThanWellFounded, Zenon DEF OpToRel, Below

\* Every set of natural numbers that is not empty has a least element: what
\* the proofs below use in place of induction.
LEMMA Least ==
    ASSUME NEW T \in SUBSET Nat, T # {}
    PROVE  \E n \in T : \A k \in T : n <= k
<1>1. PICK n \in T : \A k \in T : ~ (<<k, n>> \in Below)
  BY BelowWF, WFMin
<1>2. ASSUME NEW k \in T PROVE n <= k
  <2>1. ~(k < n)
    BY <1>1 DEF Below
  <2>2. QED
    BY <2>1
<1>3. QED
  BY <1>2

Reach(h, r, n) ==
    r = [k \in 0 .. n |-> IF k = 0 THEN {h}
                          ELSE r[k-1] \cup {next[s] : s \in r[k-1] \ {NULL}}]

LEMMA ReachExists ==
    ASSUME NEW h
    PROVE  \A n \in Nat : \E r : Reach(h, r, n)
<1> DEFINE T == {n \in Nat : ~ \E r : Reach(h, r, n)}
<1>1. T \in SUBSET Nat /\ \A n \in Nat : n \in T <=> ~ \E r : Reach(h, r, n)
  OBVIOUS
<1> HIDE DEF T
<1> SUFFICES ASSUME T # {} PROVE FALSE
  BY <1>1
<1>2. PICK n \in T : \A k \in T : n <= k
  BY <1>1, Least
<1>3. CASE n = 0
  <2> DEFINE r == [k \in 0 .. 0 |-> {h}]
  <2>1. Reach(h, r, n)
    BY <1>3 DEF Reach
  <2>2. QED
    BY <1>1, <2>1
<1>4. CASE n # 0
  <2>1. n \in Nat /\ n - 1 \in Nat /\ n - 1 \notin T
    BY <1>1, <1>2, <1>4
  <2>2. PICK q : Reach(h, q, n-1)
    BY <1>1, <2>1
  <2> DEFINE r == [k \in 0 .. n |-> IF k = n THEN q[n-1] \cup {next[s] : s \in q[n-1] \ {NULL}}
                                    ELSE q[k]]
             q2 == [k \in 0 .. n |-> IF k = 0 THEN {h}
                                     ELSE r[k-1] \cup {next[s] : s \in r[k-1] \ {NULL}}]
  <2>3. \A k \in 0 .. n-1 : r[k] = q[k]
    BY <2>1
  <2>4. ASSUME NEW k \in 0 .. n PROVE r[k] = q2[k]
    <3>1. CASE k = n
      BY <1>4, <2>1, <2>3, <3>1
    <3>2. CASE k # n
      <4>1. k \in 0 .. n-1 /\ (k # 0 => k-1 \in 0 .. n-1)
        BY <2>1, <3>2
      <4>2. q[k] = IF k = 0 THEN {h} ELSE q[k-1] \cup {next[s] : s \in q[k-1] \ {NULL}}
        BY <2>2, <4>1 DEF Reach
      <4>3. QED
        BY <2>3, <4>1, <4>2
    <3>3. QED
      BY <3>1, <3>2
  <2>5. r = [k \in 0 .. n |-> r[k]] /\ q2 = [k \in 0 .. n |-> q2[k]]
    OBVIOUS
  <2>6. r = q2
    <3> HIDE DEF r, q2
    <3>1. QED
      BY <2>4, <2>5
  <2>7. Reach(h, r, n)
    BY <2>6 DEF Reach
  <2>8. QED
    BY <1>1, <2>7
<1>5. QED
  BY <1>3, <1>4

LEMMA ChainUnfolds ==
    ASSUME NEW h
    PROVE  \E r : Reach(h, r, OPEN_SHARES) /\ Chain(h) = r[OPEN_SHARES] \ {NULL}
<1>1. \E r : Reach(h, r, OPEN_SHARES)
  BY ReachExists, SizesAssumption
<1>2. Reach(h, CHOOSE r : Reach(h, r, OPEN_SHARES), OPEN_SHARES)
  BY <1>1, Zenon
<1>3. Chain(h) = (CHOOSE r : Reach(h, r, OPEN_SHARES))[OPEN_SHARES] \ {NULL}
  BY Zenon DEF Chain, Reach
<1>4. QED
  BY <1>2, <1>3

\* A set with a rank that is not empty has a share of the highest rank.
LEMMA Highest ==
    ASSUME NEW M \in SUBSET Shares, M # {}, NEW r \in [Shares -> Nat], NEW B \in Nat,
           \A s \in M : r[s] <= B
    PROVE  \E s \in M : \A t \in M : r[t] <= r[s]
<1> DEFINE T == {B - r[s] : s \in M}
<1>1. T \in SUBSET Nat /\ T # {}
  OBVIOUS
<1>2. PICK n \in T : \A k \in T : n <= k
  <2> HIDE DEF T
  <2>1. QED
    BY <1>1, Least
<1>3. PICK s \in M : n = B - r[s]
  BY <1>2
<1>4. ASSUME NEW t \in M PROVE r[t] <= r[s]
  <2>1. B - r[s] <= B - r[t] /\ r[s] \in Nat /\ r[t] \in Nat
    BY <1>2, <1>3
  <2>2. QED
    BY <2>1
<1>5. QED
  BY <1>4

\* A set of shares that has h, is closed under next, and in which every share
\* but h has a predecessor of higher rank is what the pointers reach from h.
LEMMA ChainIs ==
    ASSUME NEW h \in Ref, NEW L \in SUBSET Shares, NEW r \in [Shares -> Nat], NEW B \in Nat,
           next \in [Shares -> Ref],
           h # NULL => h \in L,
           \A s \in L : /\ r[s] <= B
                        /\ next[s] # NULL => next[s] \in L
                        /\ s = h \/ \E t \in L : next[t] = s /\ r[s] < r[t]
    PROVE  Chain(h) = L
<1>0. NULL \notin L /\ OPEN_SHARES \in Nat
  BY NullAssumption, SizesAssumption
<1>1. PICK q : Reach(h, q, OPEN_SHARES) /\ Chain(h) = q[OPEN_SHARES] \ {NULL}
  BY ChainUnfolds
<1>2. /\ q[0] = {h}
      /\ \A k \in 1 .. OPEN_SHARES :
           q[k] = q[k-1] \cup {next[s] : s \in q[k-1] \ {NULL}}
  <2>1. \A k \in 0 .. OPEN_SHARES :
          q[k] = IF k = 0 THEN {h} ELSE q[k-1] \cup {next[s] : s \in q[k-1] \ {NULL}}
    <3>1. Reach(h, q, OPEN_SHARES)
      BY <1>1
    <3>2. QED
      BY <3>1 DEF Reach
  <2>2. q[0] = {h}
    <3>1. 0 \in 0 .. OPEN_SHARES
      BY <1>0
    <3>2. QED
      BY <2>1, <3>1
  <2>3. ASSUME NEW k \in 1 .. OPEN_SHARES
        PROVE  q[k] = q[k-1] \cup {next[s] : s \in q[k-1] \ {NULL}}
    <3>1. k \in 0 .. OPEN_SHARES /\ k # 0
      BY <1>0
    <3>2. QED
      BY <2>1, <3>1
  <2>4. QED
    BY <2>2, <2>3
<1> DEFINE Good(k) == q[k] \subseteq L \cup {NULL} /\ h \in q[k]
<1>3. \A k \in 0 .. OPEN_SHARES : Good(k)
  <2> DEFINE T == {k \in 0 .. OPEN_SHARES : ~Good(k)}
  <2>1. T \in SUBSET Nat /\ \A k \in 0 .. OPEN_SHARES : k \in T <=> ~Good(k)
    BY <1>0
  <2>2. T \subseteq 0 .. OPEN_SHARES
    OBVIOUS
  <2> HIDE DEF T
  <2> SUFFICES ASSUME T # {} PROVE FALSE
    BY <2>1
  <2>3. PICK k \in T : \A j \in T : k <= j
    BY <2>1, Least
  <2>4. k # 0
    BY <1>2, <2>1, <2>2, <2>3
  <2>5. k \in 1 .. OPEN_SHARES /\ k-1 \in 0 .. OPEN_SHARES /\ k-1 \notin T
    BY <1>0, <2>2, <2>3, <2>4
  <2>6. Good(k-1)
    BY <2>1, <2>5
  <2>7. Good(k)
    BY <1>2, <2>5, <2>6
  <2>8. QED
    BY <2>1, <2>2, <2>7
<1>4. ASSUME NEW k \in 0 .. OPEN_SHARES, ~(L \subseteq q[k])
      PROVE  h # NULL /\ \E s \in L : s \notin q[k] /\ \E t \in q[k] \ {NULL} : next[t] = s
  <2>1. PICK s \in L \ q[k] : \A t \in L \ q[k] : r[t] <= r[s]
    BY <1>4, Highest
  <2>2. s # h
    BY <1>3
  <2>3. PICK t \in L : next[t] = s /\ r[s] < r[t]
    BY <2>1, <2>2
  <2>4. r[s] \in Nat /\ r[t] \in Nat
    OBVIOUS
  <2>5. t \in q[k] /\ t # NULL
    BY <1>0, <2>1, <2>3, <2>4
  <2>6. h # NULL
    <3>1. PICK u \in L : \A v \in L : r[v] <= r[u]
      BY <2>1, Highest
    <3>2. r[u] \in Nat /\ \A v \in L : r[v] \in Nat
      OBVIOUS
    <3>3. u = h
      BY <3>1, <3>2
    <3>4. QED
      BY <1>0, <3>3
  <2>7. QED
    BY <2>1, <2>3, <2>5, <2>6
<1>5. IsFiniteSet(L) /\ Cardinality(L) <= OPEN_SHARES
  <2>1. IsFiniteSet(Shares) /\ Cardinality(Shares) = OPEN_SHARES
    BY <1>0, SizesAssumption, FS_Interval DEF Shares
  <2>2. QED
    BY <2>1, FS_Subset
<1> DEFINE Found(k) == q[k] \ {NULL}
           Big(k) == L \subseteq q[k] \/ Cardinality(Found(k)) >= k + 1
<1>6. \A k \in 0 .. OPEN_SHARES : IsFiniteSet(Found(k)) /\ Found(k) \in SUBSET L
                                  /\ Cardinality(Found(k)) \in Nat
                                  /\ Cardinality(Found(k)) <= Cardinality(L)
  <2> TAKE k \in 0 .. OPEN_SHARES
  <2>1. Found(k) \in SUBSET L
    BY <1>3
  <2> HIDE DEF Found
  <2>2. QED
    BY <1>5, <2>1, FS_Subset, FS_CardinalityType
<1>7. \A k \in 0 .. OPEN_SHARES : Big(k)
  <2> DEFINE T == {k \in 0 .. OPEN_SHARES : ~Big(k)}
  <2>1. T \in SUBSET Nat /\ \A k \in 0 .. OPEN_SHARES : k \in T <=> ~Big(k)
    BY <1>0
  <2>2. T \subseteq 0 .. OPEN_SHARES
    OBVIOUS
  <2> HIDE DEF T
  <2> SUFFICES ASSUME T # {} PROVE FALSE
    BY <2>1
  <2>3. PICK k \in T : \A j \in T : k <= j
    BY <2>1, Least
  <2>4. ~Big(k) /\ k \in 0 .. OPEN_SHARES
    BY <2>1, <2>2, <2>3
  <2>5. h # NULL
    BY <1>4, <2>4
  <2>6. CASE k = 0
    <3>1. Found(k) = {h}
      BY <1>2, <2>5, <2>6
    <3> HIDE DEF Found
    <3>2. Cardinality(Found(k)) = 1
      BY <3>1, FS_Singleton
    <3>3. QED
      BY <2>4, <2>6, <3>2
  <2>7. CASE k # 0
    <3>1. k \in 1 .. OPEN_SHARES /\ k-1 \in 0 .. OPEN_SHARES /\ k-1 \notin T
      BY <1>0, <2>3, <2>4, <2>7
    <3>2. q[k-1] \subseteq q[k]
      BY <1>2, <3>1
    <3>3. ~(L \subseteq q[k-1])
      BY <2>4, <3>2
    <3>4. Cardinality(Found(k-1)) >= k
      <4>1. Big(k-1)
        BY <2>1, <3>1
      <4>2. QED
        BY <3>1, <3>3, <4>1
    <3>5. PICK s \in L : s \notin q[k-1] /\ \E t \in q[k-1] \ {NULL} : next[t] = s
      BY <1>4, <3>1, <3>3
    <3>6. s \in Found(k) /\ s \notin Found(k-1)
      BY <1>0, <1>2, <3>1, <3>5
    <3>7. Found(k-1) \cup {s} \in SUBSET Found(k)
      BY <3>2, <3>6
    <3>8. IsFiniteSet(Found(k)) /\ IsFiniteSet(Found(k-1)) /\ Cardinality(Found(k-1)) \in Nat
          /\ Cardinality(Found(k)) \in Nat
      BY <1>6, <2>4, <3>1
    <3> HIDE DEF Found
    <3>9. Cardinality(Found(k-1) \cup {s}) = Cardinality(Found(k-1)) + 1
      BY <3>6, <3>8, FS_AddElement
    <3>10. Cardinality(Found(k-1) \cup {s}) <= Cardinality(Found(k))
      BY <3>7, <3>8, FS_Subset
    <3>11. Cardinality(Found(k)) >= k + 1
      BY <3>1, <3>4, <3>8, <3>9, <3>10
    <3>12. QED
      BY <2>4, <3>11
  <2>8. QED
    BY <2>6, <2>7
<1>8. L \subseteq q[OPEN_SHARES]
  <2>1. OPEN_SHARES \in 0 .. OPEN_SHARES
    BY <1>0
  <2>2. /\ L \subseteq q[OPEN_SHARES] \/ Cardinality(Found(OPEN_SHARES)) >= OPEN_SHARES + 1
        /\ Cardinality(Found(OPEN_SHARES)) \in Nat
        /\ Cardinality(Found(OPEN_SHARES)) <= Cardinality(L)
    BY <1>6, <1>7, <2>1
  <2> HIDE DEF Found
  <2>3. Cardinality(L) \in Nat
    BY <1>5, FS_CardinalityType
  <2>4. QED
    BY <1>0, <1>5, <2>2, <2>3
<1>9. q[OPEN_SHARES] \subseteq L \cup {NULL}
  BY <1>0, <1>3
<1>10. QED
  BY <1>0, <1>1, <1>8, <1>9

-----------------------------------------------------------------------------
(* Lists and freelist are what the pointers reach                           *)

\* A share on the freelist is its head or another points at it, and a linked
\* one without a predecessor is the head of its list.
TopInv ==
    /\ \A s \in Shares : place[s] = "free" =>
         s = freelist \/ \E t \in Shares : place[t] = "free" /\ next[t] = s
    /\ \A s \in Shares : Linked(s) /\ prev[s] = NULL => head[ListOf(s)] = s

\* The pointers go down from share to share: no list and no freelist is a ring.
RankInv ==
    \E B \in Nat : \E r \in [Shares -> 0 .. B] :
        \A s \in Shares : place[s] # "held" /\ next[s] # NULL => r[next[s]] < r[s]

LEMMA ChainInit == Init => TopInv /\ RankInv
<1> SUFFICES ASSUME Init PROVE TopInv /\ RankInv
  OBVIOUS
<1> USE DEF Init
<1>1. \A s \in Shares : s \in 0 .. OPEN_SHARES /\ (s # 0 => s - 1 \in Shares /\ s - 1 < s)
  BY SizesAssumption DEF Shares
<1>2. TopInv
  <2>1. ASSUME NEW s \in Shares, s # freelist
        PROVE  \E t \in Shares : place[t] = "free" /\ next[t] = s
    <3>1. s + 1 \in Shares /\ s + 1 # 0 /\ (s + 1) - 1 = s
      BY <2>1, SizesAssumption DEF Shares
    <3>2. place[s + 1] = "free" /\ next[s + 1] = s
      BY <3>1
    <3>3. QED
      BY <3>1, <3>2
  <2>2. QED
    BY <2>1 DEF TopInv, Linked
<1>3. RankInv
  <2> DEFINE r == [s \in Shares |-> s]
  <2>1. r \in [Shares -> 0 .. OPEN_SHARES] /\ OPEN_SHARES \in Nat
    BY <1>1, SizesAssumption
  <2>2. \A s \in Shares : next[s] # NULL => r[next[s]] < r[s]
    BY <1>1
  <2>3. QED
    BY <2>1, <2>2 DEF RankInv
<1>4. QED
  BY <1>2, <1>3

LEMMA TopStep ==
    TypeOK /\ CallInv /\ OwnInv /\ FreeInv /\ ListInv /\ TopInv /\ [Next]_vars => TopInv'
<1> SUFFICES ASSUME TypeOK, CallInv, OwnInv, FreeInv, ListInv, TopInv, [Next]_vars
             PROVE  TopInv'
  OBVIOUS
<1>1. /\ place \in [Shares -> {"free", "held", "linked"}] /\ next \in [Shares -> Ref]
      /\ prev \in [Shares -> Ref] /\ head \in [Lists -> Ref] /\ freelist \in Ref
      /\ minor \in [Shares -> Chans \cup {-1}] /\ NULL \notin Shares
      /\ Ref = Shares \cup {NULL}
  BY NullAssumption DEF TypeOK, Ref
<1>2. CASE UNCHANGED <<minor, next, prev, head, freelist, place>>
  BY <1>2 DEF TopInv, Linked, ListOf
<1>3. ASSUME NEW f \in Files, Pop(f) PROVE TopInv'
  <2>1. CASE UNCHANGED <<freelist, place>>
    BY <1>3, <2>1 DEF Pop, TopInv, Linked, ListOf
  <2>2. CASE ~UNCHANGED <<freelist, place>>
    <3>1. /\ freelist \in Shares /\ freelist' = next[freelist]
          /\ place' = [place EXCEPT ![freelist] = "held"]
          /\ UNCHANGED <<minor, next, prev, head>>
      BY <1>1, <1>3, <2>2 DEF Pop
    <3>2. place[freelist] = "free"
      BY <1>1, <3>1 DEF FreeInv
    <3>3. ASSUME NEW s \in Shares, place'[s] = "free"
          PROVE  s = freelist' \/ \E t \in Shares : place'[t] = "free" /\ next'[t] = s
      <4>1. s # freelist /\ place[s] = "free"
        BY <1>1, <3>1, <3>3
      <4>2. PICK t \in Shares : place[t] = "free" /\ next[t] = s
        BY <4>1 DEF TopInv
      <4>3. QED
        BY <1>1, <3>1, <4>2
    <3>4. \A s \in Shares : Linked(s)' => Linked(s)
      BY <1>1, <3>1 DEF Linked
    <3>5. QED
      BY <3>1, <3>3, <3>4 DEF TopInv, ListOf
  <2>3. QED
    BY <2>1, <2>2
<1>4. ASSUME NEW f \in Files, Push(f) PROVE TopInv'
  <2> DEFINE s == sh[f]
  <2>1. s \in Shares /\ place[s] = "held"
    BY <1>4 DEF Push, OwnInv, OwnOf, HeldPcs
  <2>2. /\ prev' = [prev EXCEPT ![s] = NULL] /\ next' = [next EXCEPT ![s] = freelist]
        /\ freelist' = s /\ place' = [place EXCEPT ![s] = "free"]
        /\ UNCHANGED <<minor, head>>
    BY <1>4 DEF Push
  <2>3. ASSUME NEW t \in Shares, place'[t] = "free"
        PROVE  t = freelist' \/ \E u \in Shares : place'[u] = "free" /\ next'[u] = t
    <3>1. CASE t = s
      BY <2>2, <3>1
    <3>2. CASE t = freelist
      BY <1>1, <2>1, <2>2, <3>2
    <3>3. CASE t # s /\ t # freelist
      <4>1. PICK u \in Shares : place[u] = "free" /\ next[u] = t
        BY <1>1, <2>1, <2>2, <2>3, <3>3 DEF TopInv
      <4>2. QED
        BY <1>1, <2>1, <2>2, <4>1
    <3>4. QED
      BY <3>1, <3>2, <3>3
  <2>4. \A t \in Shares : Linked(t)' => Linked(t) /\ prev'[t] = prev[t] /\ ListOf(t)' = ListOf(t)
    BY <1>1, <2>1, <2>2 DEF Linked, ListOf
  <2>5. QED
    BY <2>2, <2>3, <2>4 DEF TopInv
<1>5. ASSUME NEW f \in Files, Link(f) PROVE TopInv'
  <2> DEFINE s == sh[f]
             m == arg[f]
             h == head[m]
  <2>1. s \in Shares /\ place[s] = "held" /\ m \in Lists
    BY <1>5 DEF Link, OwnInv, OwnOf, HeldPcs, CallInv, CallOf
  <2>2. /\ minor' = [minor EXCEPT ![s] = MinorField(m)]
        /\ next' = [next EXCEPT ![s] = h]
        /\ prev' = [t \in Shares |-> IF t = s THEN NULL ELSE IF t = h THEN s ELSE prev[t]]
        /\ head' = [head EXCEPT ![m] = s] /\ place' = [place EXCEPT ![s] = "linked"]
        /\ freelist' = freelist
    BY <1>5 DEF Link
  <2>3. \A t \in Shares : t # s => ListOf(t)' = ListOf(t) /\ (Linked(t)' <=> Linked(t))
                                    /\ (place'[t] = "free" <=> place[t] = "free")
                                    /\ next'[t] = next[t]
    BY <1>1, <2>1, <2>2 DEF ListOf, Linked
  <2>4. \A t \in Shares : t = s => ListOf(t)' = m
    BY <1>1, <2>1, <2>2, SizesAssumption DEF ListOf, MinorField, Lists, BSA, Chans
  <2>5. ASSUME NEW t \in Shares, place'[t] = "free"
        PROVE  t = freelist' \/ \E u \in Shares : place'[u] = "free" /\ next'[u] = t
    <3>1. t # s /\ place[t] = "free"
      BY <1>1, <2>1, <2>2, <2>5
    <3>2. CASE t = freelist
      BY <2>2, <3>2
    <3>3. CASE t # freelist
      <4>1. PICK u \in Shares : place[u] = "free" /\ next[u] = t
        BY <3>1, <3>3 DEF TopInv
      <4>2. u # s
        BY <2>1, <4>1
      <4>3. QED
        BY <2>3, <4>1, <4>2
    <3>4. QED
      BY <3>2, <3>3
  <2>6. ASSUME NEW t \in Shares, Linked(t)', prev'[t] = NULL
        PROVE  head'[ListOf(t)'] = t
    <3>1. CASE t = s
      BY <1>1, <2>1, <2>2, <2>4, <3>1
    <3>2. CASE t # s
      <4>1. t # h /\ prev[t] = NULL /\ Linked(t) /\ ListOf(t)' = ListOf(t)
        BY <1>1, <2>1, <2>2, <2>3, <2>6, <3>2
      <4>2. head[ListOf(t)] = t
        BY <4>1 DEF TopInv
      <4>3. ListOf(t) # m
        BY <4>1, <4>2
      <4>4. QED
        BY <1>1, <2>1, <2>2, <4>1, <4>2, <4>3
    <3>3. QED
      BY <3>1, <3>2
  <2>7. QED
    BY <2>5, <2>6 DEF TopInv
<1>6. ASSUME NEW f \in Files, Unlink(f) PROVE TopInv'
  <2> DEFINE s == sh[f]
             m == ListOf(s)
  <2>1. s \in Shares /\ Linked(s) /\ m \in Lists
    BY <1>1, <1>6 DEF Unlink, OwnInv, OwnOf, ListOf, Lists
  <2>2. /\ next' = [t \in Shares |-> IF t = prev[s] THEN next[s] ELSE next[t]]
        /\ prev' = [t \in Shares |-> IF t = next[s] THEN prev[s] ELSE prev[t]]
        /\ head' = [head EXCEPT ![m] = IF prev[s] = NULL THEN next[s] ELSE head[m]]
        /\ minor' = minor /\ place' = [place EXCEPT ![s] = "held"] /\ freelist' = freelist
    BY <1>6 DEF Unlink, HeadWithout
  <2>3. \A t \in Shares : ListOf(t)' = ListOf(t) /\ (Linked(t)' <=> t # s /\ Linked(t))
                          /\ (place'[t] = "free" <=> place[t] = "free")
    BY <1>1, <2>1, <2>2 DEF ListOf, Linked
  <2>4. /\ next[s] # NULL => /\ next[s] \in Shares /\ Linked(next[s])
                              /\ prev[next[s]] = s /\ ListOf(next[s]) = m
        /\ prev[s] # NULL => prev[s] \in Shares /\ Linked(prev[s]) /\ next[prev[s]] = s
    BY <1>1, <2>1 DEF ListInv
  <2>5. ASSUME NEW t \in Shares, place'[t] = "free"
        PROVE  t = freelist' \/ \E u \in Shares : place'[u] = "free" /\ next'[u] = t
    <3>1. place[t] = "free"
      BY <2>3, <2>5
    <3>2. CASE t = freelist
      BY <2>2, <3>2
    <3>3. CASE t # freelist
      <4>1. PICK u \in Shares : place[u] = "free" /\ next[u] = t
        BY <3>1, <3>3 DEF TopInv
      <4>2. u # prev[s]
        BY <1>1, <2>4, <4>1 DEF Linked
      <4>3. QED
        BY <2>2, <2>3, <4>1, <4>2
    <3>4. QED
      BY <3>2, <3>3
  <2>6. ASSUME NEW t \in Shares, Linked(t)', prev'[t] = NULL
        PROVE  head'[ListOf(t)'] = t
    <3>1. t # s /\ Linked(t) /\ ListOf(t)' = ListOf(t) /\ ListOf(t) \in Lists
      BY <1>1, <2>3, <2>6 DEF ListOf, Lists
    <3>2. CASE t = next[s]
      <4>1. prev[s] = NULL /\ ListOf(t) = m
        BY <1>1, <2>2, <2>4, <2>6, <3>2
      <4>2. head'[m] = t
        BY <1>1, <2>1, <2>2, <3>2, <4>1
      <4>3. QED
        BY <3>1, <4>1, <4>2
    <3>3. CASE t # next[s]
      <4>1. prev[t] = NULL
        BY <2>2, <2>6, <3>3
      <4>2. head[ListOf(t)] = t
        BY <3>1, <4>1 DEF TopInv
      <4>3. prev[s] = NULL => head[m] = s
        BY <2>1 DEF TopInv
      <4>4. QED
        BY <1>1, <2>1, <2>2, <3>1, <4>2, <4>3
    <3>4. QED
      BY <3>2, <3>3
  <2>7. QED
    BY <2>5, <2>6 DEF TopInv
<1>7. QED
  BY <1>2, <1>3, <1>4, <1>5, <1>6, Steps, ElsewhereKeeps, CallMoves

LEMMA RankStep ==
    TypeOK /\ CallInv /\ OwnInv /\ FreeInv /\ ListInv /\ RankInv /\ [Next]_vars => RankInv'
<1> SUFFICES ASSUME TypeOK, CallInv, OwnInv, FreeInv, ListInv, RankInv, [Next]_vars
             PROVE  RankInv'
  OBVIOUS
<1>1. /\ place \in [Shares -> {"free", "held", "linked"}] /\ next \in [Shares -> Ref]
      /\ prev \in [Shares -> Ref] /\ head \in [Lists -> Ref] /\ freelist \in Ref
      /\ NULL \notin Shares /\ Ref = Shares \cup {NULL}
  BY NullAssumption DEF TypeOK, Ref
<1>0. PICK B \in Nat : \E r \in [Shares -> 0 .. B] :
         \A s \in Shares : place[s] # "held" /\ next[s] # NULL => r[next[s]] < r[s]
  BY DEF RankInv
<1>2. PICK r \in [Shares -> 0 .. B] :
         \A s \in Shares : place[s] # "held" /\ next[s] # NULL => r[next[s]] < r[s]
  BY <1>0
<1>3. ASSUME \A s \in Shares : place'[s] # "held" /\ next'[s] # NULL =>
               place[s] # "held" /\ next'[s] = next[s]
      PROVE  RankInv'
  BY <1>2, <1>3 DEF RankInv
<1>4. \A s \in Shares : place[s] # "held" /\ next[s] # NULL => place[next[s]] # "held"
  BY <1>1 DEF FreeInv, ListInv, Linked
<1>6. ASSUME NEW s \in Shares, place[s] = "held", NEW h \in Ref, h # s,
             next' = [next EXCEPT ![s] = h],
             \A t \in Shares : t # s => place'[t] = place[t]
      PROVE  RankInv'
  <2> DEFINE q == [r EXCEPT ![s] = B + 1]
  <2>1. q \in [Shares -> 0 .. (B + 1)] /\ B + 1 \in Nat
    OBVIOUS
  <2>2. ASSUME NEW t \in Shares, place'[t] # "held", next'[t] # NULL
        PROVE  q[next'[t]] < q[t]
    <3>1. CASE t = s
      <4>1. next'[t] = h /\ h \in Shares
        BY <1>1, <1>6, <2>2, <3>1
      <4>2. q[h] = r[h] /\ r[h] \in 0 .. B /\ q[s] = B + 1
        BY <1>6, <4>1
      <4>3. QED
        BY <3>1, <4>1, <4>2
    <3>2. CASE t # s
      <4>1. next'[t] = next[t] /\ next[t] \in Shares /\ place[t] # "held"
        BY <1>1, <1>6, <2>2, <3>2
      <4>2. next[t] # s
        BY <1>4, <1>6, <4>1, <1>1
      <4>3. q[next[t]] = r[next[t]] /\ q[t] = r[t]
        BY <3>2, <4>1, <4>2
      <4>4. r[next[t]] < r[t]
        BY <1>1, <1>2, <4>1
      <4>5. QED
        BY <4>1, <4>3, <4>4
    <3>3. QED
      BY <3>1, <3>2
  <2> HIDE DEF q
  <2>3. QED
    BY <2>1, <2>2 DEF RankInv
<1>7. ASSUME NEW f \in Files, Pop(f) PROVE RankInv'
  BY <1>1, <1>3, <1>7 DEF Pop
<1>8. ASSUME NEW f \in Files, Push(f) PROVE RankInv'
  <2>1. sh[f] \in Shares /\ place[sh[f]] = "held"
    BY <1>8 DEF Push, OwnInv, OwnOf, HeldPcs
  <2>2. freelist # sh[f]
    BY <1>1, <2>1 DEF FreeInv
  <2>3. QED
    BY <1>1, <1>6, <1>8, <2>1, <2>2 DEF Push
<1>9. ASSUME NEW f \in Files, Link(f) PROVE RankInv'
  <2>1. sh[f] \in Shares /\ place[sh[f]] = "held" /\ arg[f] \in Lists
    BY <1>9 DEF Link, OwnInv, OwnOf, HeldPcs, CallInv, CallOf
  <2>2. head[arg[f]] \in Ref /\ head[arg[f]] # sh[f]
    BY <1>1, <2>1 DEF ListInv, Linked
  <2>3. QED
    BY <1>1, <1>6, <1>9, <2>1, <2>2 DEF Link
<1>10. ASSUME NEW f \in Files, Unlink(f) PROVE RankInv'
  <2> DEFINE s == sh[f]
  <2>1. s \in Shares /\ Linked(s)
    BY <1>10 DEF Unlink, OwnInv, OwnOf
  <2>2. /\ next' = [t \in Shares |-> IF t = prev[s] THEN next[s] ELSE next[t]]
        /\ place' = [place EXCEPT ![s] = "held"]
    BY <1>10 DEF Unlink
  <2>3. ASSUME NEW t \in Shares, place'[t] # "held", next'[t] # NULL
        PROVE  r[next'[t]] < r[t]
    <3>1. t # s /\ place[t] # "held"
      BY <1>1, <2>1, <2>2, <2>3
    <3>2. CASE t = prev[s]
      <4>1. next'[t] = next[s] /\ next[s] \in Shares /\ next[t] = s /\ t \in Shares
        BY <1>1, <2>1, <2>2, <2>3, <3>2 DEF ListInv
      <4>2. r[s] < r[t] /\ r[next[s]] < r[s]
        BY <1>1, <1>2, <2>1, <3>1, <4>1 DEF Linked
      <4>3. r[s] \in 0 .. B /\ r[t] \in 0 .. B /\ r[next[s]] \in 0 .. B
        BY <2>1, <4>1
      <4>4. QED
        BY <4>1, <4>2, <4>3
    <3>3. CASE t # prev[s]
      BY <1>2, <2>2, <2>3, <3>1, <3>3
    <3>4. QED
      BY <3>2, <3>3
  <2>4. QED
    BY <2>3 DEF RankInv
<1>11. CASE UNCHANGED <<minor, next, prev, head, freelist, place>>
  BY <1>3, <1>11
<1>12. QED
  BY <1>7, <1>8, <1>9, <1>10, <1>11, Steps, ElsewhereKeeps, CallMoves

ChainInv == TopInv /\ RankInv

\* With the pointers right share by share, what they reach is right.
LEMMA Exactly == TypeOK /\ FreeInv /\ ListInv /\ ChainInv => ListsExact
<1> SUFFICES ASSUME TypeOK, FreeInv, ListInv, TopInv, RankInv PROVE ListsExact
  BY DEF ChainInv
<1>1. /\ place \in [Shares -> {"free", "held", "linked"}] /\ next \in [Shares -> Ref]
      /\ prev \in [Shares -> Ref] /\ head \in [Lists -> Ref] /\ freelist \in Ref
      /\ NULL \notin Shares /\ Ref = Shares \cup {NULL}
      /\ \A s \in Shares : ListOf(s) \in Lists
  BY NullAssumption DEF TypeOK, Ref, ListOf, Lists
<1>2. PICK B \in Nat : \E r \in [Shares -> 0 .. B] :
         \A s \in Shares : place[s] # "held" /\ next[s] # NULL => r[next[s]] < r[s]
  BY DEF RankInv
<1>3. PICK r \in [Shares -> 0 .. B] :
         \A s \in Shares : place[s] # "held" /\ next[s] # NULL => r[next[s]] < r[s]
  BY <1>2
<1>4. r \in [Shares -> Nat] /\ \A s \in Shares : r[s] <= B
  OBVIOUS
<1>5. Chain(freelist) = {s \in Shares : place[s] = "free"}
  <2> DEFINE L == {s \in Shares : place[s] = "free"}
  <2>1. L \in SUBSET Shares /\ (freelist # NULL => freelist \in L)
    BY <1>1 DEF FreeInv
  <2>2. ASSUME NEW s \in L
        PROVE  /\ r[s] <= B
               /\ next[s] # NULL => next[s] \in L
               /\ s = freelist \/ \E t \in L : next[t] = s /\ r[s] < r[t]
    <3>1. next[s] # NULL => next[s] \in L
      BY <1>1 DEF FreeInv
    <3>2. s = freelist \/ \E t \in L : next[t] = s
      BY DEF TopInv
    <3>3. \A t \in L : next[t] = s => r[s] < r[t]
      BY <1>1, <1>3
    <3>4. QED
      BY <1>4, <3>1, <3>2, <3>3
  <2> HIDE DEF L
  <2>3. Chain(freelist) = L
    BY <1>1, <1>4, <2>1, <2>2, ChainIs
  <2>4. QED
    BY <2>3 DEF L
<1>6. ASSUME NEW m \in Lists
      PROVE  Chain(head[m]) = {s \in Shares : place[s] = "linked" /\ ListOf(s) = m}
  <2> DEFINE L == {s \in Shares : place[s] = "linked" /\ ListOf(s) = m}
             h == head[m]
  <2>1. L \in SUBSET Shares /\ h \in Ref /\ (h # NULL => h \in L)
    BY <1>1 DEF ListInv, Linked
  <2>2. ASSUME NEW s \in L
        PROVE  /\ r[s] <= B
               /\ next[s] # NULL => next[s] \in L
               /\ s = h \/ \E t \in L : next[t] = s /\ r[s] < r[t]
    <3>1. next[s] # NULL => next[s] \in L
      BY <1>1 DEF ListInv, Linked
    <3>2. CASE prev[s] = NULL
      BY <1>4, <3>1, <3>2 DEF TopInv, Linked
    <3>3. CASE prev[s] # NULL
      <4>1. prev[s] \in Shares /\ Linked(prev[s]) /\ next[prev[s]] = s
        BY <1>1, <3>3 DEF ListInv, Linked
      <4>2. ListOf(prev[s]) = m /\ r[s] < r[prev[s]]
        BY <1>1, <1>3, <4>1 DEF ListInv, Linked
      <4>3. prev[s] \in L
        BY <4>1, <4>2 DEF Linked
      <4>4. QED
        BY <1>4, <3>1, <4>1, <4>2, <4>3
    <3>4. QED
      BY <3>2, <3>3
  <2> HIDE DEF L, h
  <2>3. Chain(h) = L
    BY <1>1, <1>4, <2>1, <2>2, ChainIs
  <2>4. QED
    BY <2>3 DEF L, h
<1>7. QED
  BY <1>5, <1>6 DEF ListsExact, ListInv, Linked

\* Beside IInv: who points at the shares of each list and of the freelist, and
\* that each chain of pointers has an end.
THEOREM ChainsKept == Spec => []ChainInv
<1>1. Init => ChainInv
  BY ChainInit DEF ChainInv
<1>2. IInv /\ ChainInv /\ [Next]_vars => ChainInv'
  BY TopStep, RankStep DEF IInv, ChainInv
<1>3. QED
  BY Invariant, <1>1, <1>2, PTL DEF Spec

\* Following the pointers from a list's head gives exactly the shares that were
\* linked to it and not unlinked, and from freelist those that were put back,
\* whatever opens and releases overlap.
THEOREM ListsCorrect == Spec => []ListsExact
<1>1. IInv /\ ChainInv => ListsExact
  BY Exactly DEF IInv
<1>2. QED
  BY Invariant, ChainsKept, <1>1, PTL

-----------------------------------------------------------------------------
(* Calls that do not overlap                                                *)

FirstPcs  == {"get_control", "put_control", "arm", "link"}
LastPcs   == {"last_get_control", "last_put_control", "last_get_minors", "last_put_minors"}
MasterPcs == {"open", "check_parent", "master_print", "master_orphan"}

Busy(f) == pc[f] \notin {"closed", "open", "oops"}

\* f has set the parent of its share and not yet cleared it.
Adopted(f) == (Holds(f) /\ pc[f] # "adopt") \/ pc[f] \in {"print", "orphan"}

OneAtATime == \A f, g \in Files : Busy(f) /\ Busy(g) => f = g

ParentOf(f) ==
    /\ pc[f] \in {"print", "orphan"} => sh[f] \in Shares /\ place[sh[f]] = "free"
    /\ Adopted(f) => parent[sh[f]]
    /\ pc[f] # "oops"

MasterOf(f) ==
    /\ pc[f] \in {"master_print", "master_orphan"} => sh[f] = MASTER
    /\ sh[f] = MASTER => masterSet /\ pc[f] \in MasterPcs
    /\ pc[f] = "master_set" => ~masterSet

MinorOf(f) ==
    /\ pc[f] \in {"put_minors", "last_put_minors"} => seenMinors[f] = minors
    /\ pc[f] \in FirstPcs /\ arg[f] \in Chans => arg[f] \in minors
    /\ pc[f] \in LastPcs => minor[sh[f]] \in Chans /\ head[minor[sh[f]]] = NULL

\* Every share that is out has its owner, and a parent only while it has one.
UsedInv ==
    \A s \in Shares :
        /\ place[s] # "free" => \E f \in Files : Holds(f) /\ sh[f] = s
        /\ parent[s] => \E f \in Files : Adopted(f) /\ sh[f] = s

MasterInv ==
    /\ masterSet => \E f \in Files : sh[f] = MASTER
    /\ \A f, g \in Files : sh[f] = MASTER /\ sh[g] = MASTER => f = g

\* dev->minors has the channels with a list that is not empty, and beside them
\* the one whose first open or last close is under way.
RecordInv ==
    /\ \A c \in Chans : head[c] # NULL => c \in minors
    /\ \A c \in minors :
         \/ head[c] # NULL
         \/ \E f \in Files : \/ pc[f] \in FirstPcs /\ arg[f] = c
                             \/ pc[f] \in LastPcs /\ minor[sh[f]] = c

SerialInv ==
    /\ OneAtATime /\ UsedInv /\ MasterInv /\ RecordInv
    /\ \A f \in Files : ParentOf(f) /\ MasterOf(f) /\ MinorOf(f)

LEMMA SerialInit == Init => SerialInv
<1> SUFFICES ASSUME Init PROVE SerialInv
  OBVIOUS
<1>1. \A f \in Files : pc[f] = "closed" /\ sh[f] = NULL
  BY DEF Init
<1>2. \A s \in Shares : place[s] = "free" /\ ~parent[s]
  BY DEF Init
<1>3. \A c \in Chans : head[c] = NULL
  BY DEF Init, Lists
<1>4. masterSet = FALSE /\ minors = {} /\ NULL # MASTER
  BY NullAssumption DEF Init
<1>5. OneAtATime /\ UsedInv /\ MasterInv /\ RecordInv
  BY <1>1, <1>2, <1>3, <1>4 DEF OneAtATime, Busy, UsedInv, MasterInv, RecordInv
<1>6. \A f \in Files : ParentOf(f) /\ MasterOf(f) /\ MinorOf(f)
  BY <1>1, <1>4 DEF ParentOf, MasterOf, MinorOf, Adopted, Holds, FirstPcs, LastPcs
<1>7. QED
  BY <1>5, <1>6 DEF SerialInv

\* A call that begins finds no other under way, and one that goes on is alone.
LEMMA Alone ==
    ASSUME MaxInFlight <= 1, TypeOK, OneAtATime, NEW f \in Files, CallStep(f),
           ~Read(f), ~Configure(f), NEW g \in Files, g # f
    PROVE  ~Busy(g)
<1>1. CASE Open(f) \/ Close(f)
  <2> DEFINE S == {x \in Files : pc[x] \notin {"closed", "open", "oops"}}
  <2>1. S = {} \/ \E x : S = {x}
    BY DEF OneAtATime, Busy
  <2>2. Cardinality(S) < MaxInFlight
    BY <1>1 DEF Open, Close, InFlight
  <2>3. S = {}
    <3> HIDE DEF S
    <3>1. ASSUME NEW x, S = {x} PROVE FALSE
      <4>1. Cardinality(S) = 1
        BY <3>1, FS_Singleton
      <4>2. MaxInFlight \in Nat
        BY FlightAssumption
      <4>3. QED
        BY <2>2, <4>1, <4>2
    <3>2. QED
      BY <2>1, <3>1
  <2>4. QED
    BY <2>3 DEF Busy
<1>2. CASE ~Open(f) /\ ~Close(f)
  <2>1. Busy(f)
    BY <1>2 DEF Busy, CallStep, OpenStep, ReleaseStep, Pop, Adopt, Test, GetMinors, PutMinors,
       GetControl, PutControl, Arm, Link, MasterTest, MasterSet, CheckParent, Unlink,
       LastGetControl, LastPutControl, LastGetMinors, LastPutMinors, Push, PrintMajor,
       Orphan, MasterPrint, MasterOrphan
  <2>2. QED
    BY <2>1 DEF OneAtATime
<1>3. QED
  BY <1>1, <1>2

\* Reading and configuring move no call and no share.
LEMMA UseKeeps ==
    ASSUME NEW f \in Files, Read(f) \/ Configure(f)
    PROVE  UNCHANGED <<pc, arg, sh, seenMinors, seenCtl, lock, parent, masterSet, minors,
                       minor, next, prev, head, freelist, place>>
  BY DEF Read, Configure, fileVars, callVars, listVars, sharedVars

LEMMA ElsewhereKeepsParents == Elsewhere => UNCHANGED <<parent, masterSet, ctl>>
  BY DEF Elsewhere, HwEvent, HwBsa, Intr, Tasklet, Drain, WalkHead, WalkMark,
         WalkStep, WalkEnd, Rearm, vars, fileVars, callVars, systemVars,
         sharedVars, worldVars, listVars

LEMMA OneStep ==
    ASSUME MaxInFlight <= 1, TypeOK, OneAtATime, [Next]_vars
    PROVE  OneAtATime'
<1>1. CASE Elsewhere
  BY <1>1, ElsewhereKeeps DEF OneAtATime, Busy
<1>2. ASSUME NEW f \in Files, CallStep(f) PROVE OneAtATime'
  <2>1. CASE Read(f) \/ Configure(f)
    BY <2>1, UseKeeps DEF OneAtATime, Busy
  <2>2. CASE ~Read(f) /\ ~Configure(f)
    <3>1. \A g \in Files : g # f => ~Busy(g) /\ pc'[g] = pc[g]
      BY <1>2, <2>2, Alone, CallMoves
    <3>2. \A g \in Files : g # f => ~Busy(g)'
      BY <3>1 DEF Busy
    <3>3. QED
      BY <3>2 DEF OneAtATime
  <2>3. QED
    BY <2>1, <2>2
<1>3. QED
  BY <1>1, <1>2, Steps

\* What a step of a call makes true of that call.
LEMMA SelfGoesOn ==
    ASSUME TypeOK, FreeInv, RecordInv, NEW f \in Files, CallOf(f), OwnOf(f),
           ParentOf(f), MasterOf(f), MinorOf(f), CallStep(f)
    PROVE  ParentOf(f)' /\ MasterOf(f)' /\ MinorOf(f)'
<1> USE NullAssumption
    DEF TypeOK, CallOf, OwnOf, HeldPcs, Linked, ParentOf, MasterOf, MinorOf, Adopted,
        Holds, FirstPcs, LastPcs, MasterPcs, Goto, Forget, callVars, fileVars, listVars,
        sharedVars, taskVars, worldVars, systemVars
<1>1. CASE Open(f)
  BY <1>1 DEF Open
<1>2. CASE Pop(f)
  <2>1. pc[f] = "pop" /\ pc'[f] \in {"closed", "adopt"}
    BY <1>2 DEF Pop
  <2>2. sh'[f] # MASTER
    BY <1>2 DEF Pop, Ref
  <2>3. QED
    BY <2>1, <2>2
<1>3. CASE Adopt(f)
  BY <1>3 DEF Adopt
<1>4. CASE Test(f)
  BY <1>4 DEF Test, RecordInv
<1>5. CASE GetMinors(f)
  BY <1>5 DEF GetMinors
<1>6. CASE PutMinors(f)
  BY <1>6 DEF PutMinors
<1>7. CASE GetControl(f)
  BY <1>7 DEF GetControl
<1>8. CASE PutControl(f)
  BY <1>8 DEF PutControl
<1>9. CASE Arm(f)
  BY <1>9 DEF Arm
<1>10. CASE Link(f)
  BY <1>10 DEF Link
<1>11. CASE MasterTest(f)
  BY <1>11 DEF MasterTest
<1>12. CASE MasterSet(f)
  BY <1>12 DEF MasterSet
<1>13. CASE Close(f)
  BY <1>13 DEF Close
<1>14. CASE CheckParent(f)
  BY <1>14 DEF CheckParent
<1>15. CASE Unlink(f)
  <2> DEFINE s == sh[f]
             m == ListOf(s)
  <2>1. s \in Shares /\ m \in Lists /\ pc[f] = "unlink" /\ parent[s] /\ s # MASTER
    BY <1>15 DEF Unlink, ListOf, Lists
  <2>2. UNCHANGED <<parent, masterSet, minor, minors, sh, arg, seenMinors>>
    BY <1>15 DEF Unlink
  <2>3. head' = [head EXCEPT ![m] = HeadWithout(s, m)]
        /\ pc'[f] = IF IsLast(m, HeadWithout(s, m)) THEN "last_get_control" ELSE "push"
    BY <1>15 DEF Unlink
  <2>4. pc'[f] = "last_get_control" => minor[s] \in Chans /\ head'[minor[s]] = NULL
    BY <2>1, <2>3 DEF IsLast, ListOf, Lists
  <2>5. pc'[f] \in {"last_get_control", "push"}
    BY <2>3
  <2>6. QED
    BY <2>1, <2>2, <2>4, <2>5
<1>16. CASE LastGetControl(f)
  BY <1>16 DEF LastGetControl
<1>17. CASE LastPutControl(f)
  BY <1>17 DEF LastPutControl
<1>18. CASE LastGetMinors(f)
  BY <1>18 DEF LastGetMinors
<1>19. CASE LastPutMinors(f)
  BY <1>19 DEF LastPutMinors
<1>20. CASE Push(f)
  BY <1>20 DEF Push
<1>21. CASE PrintMajor(f)
  BY <1>21 DEF PrintMajor
<1>22. CASE Orphan(f)
  BY <1>22 DEF Orphan
<1>23. CASE MasterPrint(f)
  BY <1>23 DEF MasterPrint
<1>24. CASE MasterOrphan(f)
  BY <1>24 DEF MasterOrphan
<1>25. CASE Read(f)
  BY <1>25 DEF Read
<1>26. CASE Configure(f)
  BY <1>26 DEF Configure
<1>27. QED
  BY <1>1, <1>2, <1>3, <1>4, <1>5, <1>6, <1>7, <1>8, <1>9, <1>10, <1>11,
     <1>12, <1>13, <1>14, <1>15, <1>16, <1>17, <1>18, <1>19, <1>20, <1>21,
     <1>22, <1>23, <1>24, <1>25, <1>26 DEF CallStep, OpenStep, ReleaseStep

\* A call keeps its share, its parent, the control device and its place in the
\* first open or the last close until the step that gives it up.
LEMMA SelfKeeps ==
    ASSUME TypeOK, FreeInv, NEW f \in Files, CallOf(f), OwnOf(f), ParentOf(f), MasterOf(f),
           CallStep(f)
    PROVE  /\ Holds(f) => Push(f) \/ (Holds(f)' /\ sh'[f] = sh[f])
           /\ Adopted(f) => Orphan(f) \/ (Adopted(f)' /\ sh'[f] = sh[f])
           /\ sh[f] = MASTER => MasterOrphan(f) \/ sh'[f] = MASTER
           /\ sh'[f] = MASTER => MasterSet(f) \/ sh[f] = MASTER
           /\ Adopt(f) \/ Orphan(f) \/ parent' = parent
           /\ MasterSet(f) \/ MasterOrphan(f) \/ masterSet' = masterSet
           /\ pc[f] \in FirstPcs => Link(f) \/ (pc'[f] \in FirstPcs /\ arg'[f] = arg[f])
           /\ pc[f] \in LastPcs => \/ LastPutMinors(f)
                                   \/ pc'[f] \in LastPcs /\ sh'[f] = sh[f] /\ minor' = minor
<1> USE NullAssumption
    DEF TypeOK, CallOf, OwnOf, HeldPcs, Linked, ParentOf, MasterOf, Adopted, Holds,
        FirstPcs, LastPcs, MasterPcs, Goto, Forget, callVars, fileVars, listVars,
        sharedVars, taskVars, worldVars, systemVars
<1>1. CASE Open(f)
  BY <1>1 DEF Open
<1>2. CASE Pop(f)
  <2>1. pc[f] = "pop" /\ sh'[f] # MASTER /\ parent' = parent /\ masterSet' = masterSet
    BY <1>2 DEF Pop, Ref
  <2>2. QED
    BY <2>1
<1>3. CASE Adopt(f)
  BY <1>3 DEF Adopt
<1>4. CASE Test(f)
  BY <1>4 DEF Test
<1>5. CASE GetMinors(f)
  BY <1>5 DEF GetMinors
<1>6. CASE PutMinors(f)
  BY <1>6 DEF PutMinors
<1>7. CASE GetControl(f)
  BY <1>7 DEF GetControl
<1>8. CASE PutControl(f)
  BY <1>8 DEF PutControl
<1>9. CASE Arm(f)
  BY <1>9 DEF Arm
<1>10. CASE Link(f)
  BY <1>10 DEF Link
<1>11. CASE MasterTest(f)
  BY <1>11 DEF MasterTest
<1>12. CASE MasterSet(f)
  BY <1>12 DEF MasterSet
<1>13. CASE Close(f)
  BY <1>13 DEF Close
<1>14. CASE CheckParent(f)
  BY <1>14 DEF CheckParent
<1>15. CASE Unlink(f)
  BY <1>15 DEF Unlink
<1>16. CASE LastGetControl(f)
  BY <1>16 DEF LastGetControl
<1>17. CASE LastPutControl(f)
  BY <1>17 DEF LastPutControl
<1>18. CASE LastGetMinors(f)
  BY <1>18 DEF LastGetMinors
<1>19. CASE LastPutMinors(f)
  BY <1>19 DEF LastPutMinors
<1>20. CASE Push(f)
  BY <1>20 DEF Push
<1>21. CASE PrintMajor(f)
  BY <1>21 DEF PrintMajor
<1>22. CASE Orphan(f)
  BY <1>22 DEF Orphan
<1>23. CASE MasterPrint(f)
  BY <1>23 DEF MasterPrint
<1>24. CASE MasterOrphan(f)
  BY <1>24 DEF MasterOrphan
<1>25. CASE Read(f)
  BY <1>25 DEF Read
<1>26. CASE Configure(f)
  BY <1>26 DEF Configure
<1>27. QED
  BY <1>1, <1>2, <1>3, <1>4, <1>5, <1>6, <1>7, <1>8, <1>9, <1>10, <1>11,
     <1>12, <1>13, <1>14, <1>15, <1>16, <1>17, <1>18, <1>19, <1>20, <1>21,
     <1>22, <1>23, <1>24, <1>25, <1>26 DEF CallStep, OpenStep, ReleaseStep

LEMMA OthersGoOn ==
    ASSUME MaxInFlight <= 1, TypeOK, CallInv, OwnInv, FreeInv, SerialInv,
           NEW f \in Files, CallStep(f), NEW g \in Files, g # f
    PROVE  ParentOf(g)' /\ MasterOf(g)' /\ MinorOf(g)'
<1> ParentOf(f) /\ MasterOf(f) /\ CallOf(f) /\ OwnOf(f)
  BY DEF SerialInv, CallInv, OwnInv
<1> ParentOf(g) /\ MasterOf(g) /\ MinorOf(g) /\ OwnOf(g)
  BY DEF SerialInv, OwnInv
<1>1. CASE Read(f) \/ Configure(f)
  BY <1>1, UseKeeps DEF ParentOf, MasterOf, MinorOf, Adopted, Holds
<1>2. CASE ~Read(f) /\ ~Configure(f)
  <2>1. pc'[g] = pc[g] /\ sh'[g] = sh[g]
    BY CallMoves
  <2>2. pc[g] \in {"closed", "open"}
    BY <1>2, Alone DEF SerialInv, Busy, ParentOf
  <2>3. CASE pc[g] = "closed"
    <3>1. sh[g] # MASTER
      BY <2>3 DEF MasterOf, MasterPcs
    <3>2. QED
      BY <2>1, <2>3, <3>1 DEF ParentOf, MasterOf, MinorOf, Adopted, Holds, FirstPcs, LastPcs
  <2>4. CASE pc[g] = "open"
    <3>1. sh[g] \in Shares => Linked(sh[g]) /\ parent[sh[g]]
      BY <2>4, NullAssumption DEF OwnOf, ParentOf, Adopted, Holds
    <3>2. sh[g] \in Shares => parent'[sh[g]]
      <4>1. CASE Adopt(f)
        BY <3>1, <4>1 DEF Adopt, TypeOK
      <4>2. CASE Orphan(f)
        <5>1. place[sh[f]] = "free"
          BY <4>2 DEF Orphan, ParentOf
        <5>2. QED
          BY <3>1, <4>2, <5>1 DEF Orphan, TypeOK, Linked
      <4>3. QED
        BY <3>1, <4>1, <4>2, SelfKeeps
    <3>3. sh[g] = MASTER => masterSet'
      <4>1. CASE MasterOrphan(f)
        <5>1. sh[f] = MASTER
          BY <4>1 DEF MasterOrphan, MasterOf
        <5>2. QED
          BY <5>1 DEF SerialInv, MasterInv
      <4>2. CASE MasterSet(f)
        BY <4>2 DEF MasterSet
      <4>3. QED
        BY <4>1, <4>2, SelfKeeps DEF MasterOf
    <3>4. QED
      BY <2>1, <2>4, <3>2, <3>3
         DEF ParentOf, MasterOf, MinorOf, Adopted, Holds, FirstPcs, LastPcs, MasterPcs
  <2>5. QED
    BY <2>2, <2>3, <2>4
<1>3. QED
  BY <1>1, <1>2

LEMMA UsedStep ==
    ASSUME TypeOK, CallInv, OwnInv, FreeInv, SerialInv, NEW f \in Files, CallStep(f)
    PROVE  UsedInv'
<1> CallOf(f) /\ OwnOf(f) /\ ParentOf(f) /\ MasterOf(f)
  BY DEF SerialInv, CallInv, OwnInv
<1>1. \A g \in Files : g # f => /\ sh'[g] = sh[g] /\ (Holds(g)' <=> Holds(g))
                                /\ Adopted(g)' <=> Adopted(g)
  BY CallMoves DEF Holds, Adopted
<1>2. place \in [Shares -> {"free", "held", "linked"}] /\ parent \in [Shares -> BOOLEAN]
  BY DEF TypeOK
<1>3. ASSUME NEW s \in Shares, place'[s] # "free"
      PROVE  \E g \in Files : Holds(g)' /\ sh'[g] = s
  <2>1. CASE place[s] = "free"
    <3>1. CASE Pop(f)
      BY <1>2, <1>3, <2>1, <3>1 DEF Pop, Holds, Goto, TypeOK
    <3>2. CASE Link(f) \/ Unlink(f) \/ Push(f)
      <4>1. place[sh[f]] # "free" /\ (place'[s] = place[s] \/ s = sh[f])
        BY <1>2, <3>2 DEF Link, Unlink, Push, OwnOf, HeldPcs, Linked
      <4>2. QED
        BY <1>3, <2>1, <4>1
    <3>3. QED
      BY <1>3, <2>1, <3>1, <3>2, CallMoves
  <2>2. CASE place[s] # "free"
    <3>1. PICK g \in Files : Holds(g) /\ sh[g] = s
      BY <2>2 DEF SerialInv, UsedInv
    <3>2. CASE g = f
      <4>1. ~Push(f)
        BY <1>2, <1>3, <3>1, <3>2 DEF Push
      <4>2. QED
        BY <3>1, <3>2, <4>1, SelfKeeps
    <3>3. QED
      BY <1>1, <3>1, <3>2
  <2>3. QED
    BY <2>1, <2>2
<1>4. ASSUME NEW s \in Shares, parent'[s]
      PROVE  \E g \in Files : Adopted(g)' /\ sh'[g] = s
  <2>1. CASE parent[s]
    <3>1. PICK g \in Files : Adopted(g) /\ sh[g] = s
      BY <2>1 DEF SerialInv, UsedInv
    <3>2. CASE g = f
      <4>1. ~Orphan(f)
        BY <1>2, <1>4, <3>1, <3>2 DEF Orphan
      <4>2. QED
        BY <3>1, <3>2, <4>1, SelfKeeps
    <3>3. QED
      BY <1>1, <3>1, <3>2
  <2>2. CASE ~parent[s]
    <3>1. Adopt(f) /\ s = sh[f]
      BY <1>2, <1>4, <2>2, SelfKeeps DEF Adopt, Orphan
    <3>2. Adopted(f)' /\ sh'[f] = s
      BY <3>1 DEF Adopt, Adopted, Holds, Goto, TypeOK, callVars
    <3>3. QED
      BY <3>2
  <2>3. QED
    BY <2>1, <2>2
<1>5. QED
  BY <1>3, <1>4 DEF UsedInv

LEMMA MasterStep ==
    ASSUME TypeOK, CallInv, OwnInv, FreeInv, SerialInv, NEW f \in Files, CallStep(f)
    PROVE  MasterInv'
<1> CallOf(f) /\ OwnOf(f) /\ ParentOf(f) /\ MasterOf(f)
  BY DEF SerialInv, CallInv, OwnInv
<1>1. \A g \in Files : g # f => sh'[g] = sh[g]
  BY CallMoves
<1>2. CASE MasterSet(f)
  <2>1. \A g \in Files : sh[g] # MASTER
    BY <1>2 DEF MasterSet, SerialInv, MasterOf
  <2>2. sh'[f] = MASTER
    BY <1>2 DEF MasterSet, TypeOK
  <2>3. QED
    BY <1>1, <2>1, <2>2 DEF MasterInv
<1>3. CASE MasterOrphan(f)
  <2>1. ~masterSet' /\ sh'[f] # MASTER
    BY <1>3, NullAssumption DEF MasterOrphan, Forget, TypeOK
  <2>2. QED
    BY <1>1, <2>1 DEF MasterInv, SerialInv
<1>4. CASE ~MasterSet(f) /\ ~MasterOrphan(f)
  <2>1. masterSet' = masterSet /\ (sh'[f] = MASTER <=> sh[f] = MASTER)
    BY <1>4, SelfKeeps
  <2>2. QED
    BY <1>1, <2>1 DEF MasterInv, SerialInv
<1>5. QED
  BY <1>2, <1>3, <1>4

\* Who writes dev->minors, and who changes which list is empty.
LEMMA RecordMoves ==
    ASSUME TypeOK, CallInv, OwnInv, TopInv, NEW f \in Files, MinorOf(f), CallStep(f)
    PROVE  /\ PutMinors(f) => minors' = minors \cup {arg[f]} /\ pc'[f] \in FirstPcs
                              /\ arg'[f] = arg[f] /\ pc[f] \notin FirstPcs \cup LastPcs
           /\ LastPutMinors(f) => /\ minors' = minors \ {minor[sh[f]]}
                                  /\ head[minor[sh[f]]] = NULL /\ pc[f] \notin FirstPcs
           /\ PutMinors(f) \/ LastPutMinors(f) \/ minors' = minors
           /\ Link(f) => head'[arg[f]] # NULL /\ (\A c \in Lists : c # arg[f] => head'[c] = head[c])
           /\ Unlink(f) => \A c \in Lists :
                /\ head'[c] # NULL => head[c] # NULL
                /\ head[c] # NULL /\ head'[c] = NULL /\ c \in Chans =>
                     pc'[f] \in LastPcs /\ sh'[f] = sh[f] /\ minor'[sh[f]] = c
           /\ Link(f) \/ Unlink(f) \/ head' = head
<1>1. PutMinors(f) => minors' = minors \cup {arg[f]} /\ pc'[f] \in FirstPcs
                      /\ arg'[f] = arg[f] /\ pc[f] \notin FirstPcs \cup LastPcs
  BY DEF PutMinors, MinorOf, Goto, TypeOK, FirstPcs, LastPcs
<1>2. LastPutMinors(f) => /\ minors' = minors \ {minor[sh[f]]}
                          /\ head[minor[sh[f]]] = NULL /\ pc[f] \notin FirstPcs
  BY DEF LastPutMinors, MinorOf, FirstPcs, LastPcs
<1>3. PutMinors(f) \/ LastPutMinors(f) \/ minors' = minors
  BY CallMoves
<1>4. ASSUME Link(f)
      PROVE  head'[arg[f]] # NULL /\ (\A c \in Lists : c # arg[f] => head'[c] = head[c])
  <2>1. arg[f] \in Lists /\ sh[f] \in Shares /\ head' = [head EXCEPT ![arg[f]] = sh[f]]
    BY <1>4 DEF Link, CallInv, CallOf, OwnInv, OwnOf, HeldPcs
  <2>2. QED
    BY <2>1, NullAssumption DEF TypeOK
<1>5. ASSUME Unlink(f), NEW c \in Lists
      PROVE  /\ head'[c] # NULL => head[c] # NULL
             /\ head[c] # NULL /\ head'[c] = NULL /\ c \in Chans =>
                  pc'[f] \in LastPcs /\ sh'[f] = sh[f] /\ minor'[sh[f]] = c
  <2> DEFINE s == sh[f]
             m == ListOf(s)
  <2>1. s \in Shares /\ Linked(s) /\ m \in Lists
    BY <1>5 DEF Unlink, OwnInv, OwnOf, ListOf, Lists, TypeOK
  <2>2. /\ head' = [head EXCEPT ![m] = HeadWithout(s, m)] /\ sh' = sh /\ minor' = minor
        /\ pc'[f] = IF IsLast(m, HeadWithout(s, m)) THEN "last_get_control" ELSE "push"
    BY <1>5 DEF Unlink, Goto, TypeOK, callVars
  <2>3. prev[s] = NULL => head[m] = s
    BY <2>1 DEF TopInv
  <2>4. head'[c] # NULL => head[c] # NULL
    BY <2>1, <2>2, <2>3, NullAssumption DEF HeadWithout, TypeOK
  <2>5. ASSUME head[c] # NULL, head'[c] = NULL, c \in Chans
        PROVE  pc'[f] \in LastPcs /\ minor'[s] = c
    <3>1. c = m /\ HeadWithout(s, m) = NULL /\ m # BSA
      BY <2>1, <2>2, <2>5, SizesAssumption DEF TypeOK, Chans, BSA
    <3>2. QED
      BY <2>2, <3>1 DEF IsLast, LastPcs, ListOf
  <2>6. QED
    BY <2>2, <2>4, <2>5
<1>6. Link(f) \/ Unlink(f) \/ head' = head
  BY CallMoves DEF Pop, Push
<1>7. QED
  BY <1>1, <1>2, <1>3, <1>4, <1>5, <1>6

LEMMA RecordStep ==
    ASSUME TypeOK, CallInv, OwnInv, FreeInv, TopInv, SerialInv, NEW f \in Files, CallStep(f)
    PROVE  RecordInv'
<1> CallOf(f) /\ OwnOf(f) /\ ParentOf(f) /\ MasterOf(f) /\ MinorOf(f)
  BY DEF SerialInv, CallInv, OwnInv
<1> Chans \subseteq Lists /\ minors \subseteq Chans
  BY DEF Lists, TypeOK
<1>1. ASSUME NEW c \in Chans, head'[c] # NULL PROVE c \in minors'
  <2>1. CASE Link(f)
    <3>1. minors' = minors /\ (arg[f] \in Chans => arg[f] \in minors)
      BY <2>1 DEF Link, MinorOf, FirstPcs
    <3>2. c # arg[f] => head[c] # NULL
      BY <1>1, <2>1, RecordMoves
    <3>3. QED
      BY <3>1, <3>2 DEF SerialInv, RecordInv
  <2>2. CASE Unlink(f)
    <3>1. c \in Lists
      OBVIOUS
    <3>2. head[c] # NULL
      BY <1>1, <2>2, <3>1, RecordMoves
    <3>3. minors' = minors
      BY <2>2 DEF Unlink
    <3>4. QED
      BY <3>2, <3>3 DEF SerialInv, RecordInv
  <2>3. CASE ~Link(f) /\ ~Unlink(f)
    <3>1. c \in minors /\ head[c] # NULL
      BY <1>1, <2>3, RecordMoves DEF SerialInv, RecordInv
    <3>2. CASE PutMinors(f)
      BY <3>1, <3>2, RecordMoves
    <3>3. CASE LastPutMinors(f)
      BY <3>1, <3>3, RecordMoves
    <3>4. QED
      BY <3>1, <3>2, <3>3, RecordMoves
  <2>4. QED
    BY <2>1, <2>2, <2>3
<1>2. ASSUME NEW c \in minors'
      PROVE  \/ head'[c] # NULL
             \/ \E g \in Files : \/ pc'[g] \in FirstPcs /\ arg'[g] = c
                                 \/ pc'[g] \in LastPcs /\ minor'[sh'[g]] = c
  <2>1. CASE PutMinors(f) /\ c = arg[f]
    BY <2>1, RecordMoves
  <2>2. CASE ~(PutMinors(f) /\ c = arg[f])
    <3>1. c \in minors /\ c \in Chans
      BY <1>2, <2>2, RecordMoves
    <3>2. CASE head[c] # NULL
      BY <3>1, <3>2, RecordMoves
    <3>3. CASE head[c] = NULL
      <4>1. PICK g \in Files : \/ pc[g] \in FirstPcs /\ arg[g] = c
                               \/ pc[g] \in LastPcs /\ minor[sh[g]] = c
        BY <3>1, <3>3 DEF SerialInv, RecordInv
      <4>2. CASE g = f
        <5>1. CASE pc[f] \in FirstPcs /\ arg[f] = c
          BY <4>2, <5>1, SelfKeeps, RecordMoves
        <5>2. CASE pc[f] \in LastPcs /\ minor[sh[f]] = c
          BY <1>2, <4>2, <5>2, SelfKeeps, RecordMoves
        <5>3. QED
          BY <4>1, <4>2, <5>1, <5>2
      <4>3. CASE g # f
        <5>1. Busy(g) /\ ~Busy(f)
          BY <4>1, <4>3 DEF Busy, FirstPcs, LastPcs, SerialInv, OneAtATime
        <5>2. pc'[g] = pc[g] /\ arg'[g] = arg[g] /\ sh'[g] = sh[g]
          BY <4>3, CallMoves
        <5>3. minor' = minor
          BY <5>1, CallMoves DEF Busy, Pop, Link, Unlink, Push
        <5>4. QED
          BY <4>1, <5>2, <5>3
      <4>4. QED
        BY <4>2, <4>3
    <3>4. QED
      BY <3>2, <3>3
  <2>3. QED
    BY <2>1, <2>2
<1>3. QED
  BY <1>1, <1>2 DEF RecordInv

LEMMA SerialStep ==
    ASSUME MaxInFlight <= 1
    PROVE  IInv /\ TopInv /\ SerialInv /\ [Next]_vars => SerialInv'
<1> SUFFICES ASSUME IInv, TopInv, SerialInv, [Next]_vars PROVE SerialInv'
  OBVIOUS
<1> TypeOK /\ CallInv /\ OwnInv /\ FreeInv /\ OneAtATime
  BY DEF IInv, SerialInv
<1>1. CASE Elsewhere
  BY <1>1, ElsewhereKeeps, ElsewhereKeepsParents
     DEF SerialInv, OneAtATime, Busy, UsedInv, MasterInv, RecordInv, ParentOf, MasterOf,
         MinorOf, Adopted, Holds
<1>2. ASSUME NEW f \in Files, CallStep(f) PROVE SerialInv'
  <2>1. ParentOf(f)' /\ MasterOf(f)' /\ MinorOf(f)'
    BY <1>2, SelfGoesOn DEF SerialInv, CallInv, OwnInv
  <2>2. \A g \in Files : g # f => ParentOf(g)' /\ MasterOf(g)' /\ MinorOf(g)'
    BY <1>2, OthersGoOn
  <2>3. OneAtATime' /\ UsedInv' /\ MasterInv' /\ RecordInv'
    BY <1>2, OneStep, UsedStep, MasterStep, RecordStep
  <2>4. QED
    BY <2>1, <2>2, <2>3 DEF SerialInv
<1>3. QED
  BY <1>1, <1>2, Steps

\* While calls do not overlap, every share that is out has its one owner and
\* its parent, and dev->minors the channels with a client.
THEOREM Serial ==
    ASSUME MaxInFlight <= 1
    PROVE  Spec => []SerialInv
<1>1. IInv /\ TopInv /\ SerialInv /\ [Next]_vars => SerialInv'
  BY SerialStep
<1>2. ChainInv => TopInv
  BY DEF ChainInv
<1>3. QED
  BY <1>1, <1>2, SerialInit, Invariant, ChainsKept, PTL DEF Spec

\* While calls do not overlap, a share on a list has the parent through which
\* tpr_release, tpr_mmap and tpr_fasync go.
THEOREM ParentsKept ==
    ASSUME MaxInFlight <= 1
    PROVE  Spec => []ParentWhileLinked
<1>1. IInv /\ SerialInv => ParentWhileLinked
  <2> SUFFICES ASSUME IInv, SerialInv, NEW s \in Shares, place[s] = "linked" PROVE parent[s]
    BY DEF ParentWhileLinked
  <2>1. PICK f \in Files : Holds(f) /\ sh[f] = s
    BY DEF SerialInv, UsedInv
  <2>2. pc[f] # "adopt"
    BY <2>1 DEF IInv, OwnInv, OwnOf, HeldPcs
  <2>3. QED
    BY <2>1, <2>2 DEF SerialInv, ParentOf, Adopted
<1>2. QED
  BY <1>1, Serial, Invariant, PTL

\* While calls do not overlap, none of them follows a NULL parent.
THEOREM NeverOops ==
    ASSUME MaxInFlight <= 1
    PROVE  Spec => []NoOops
<1>1. SerialInv => NoOops
  BY DEF SerialInv, ParentOf, NoOops
<1>2. QED
  BY <1>1, Serial, PTL

\* While calls do not overlap, the last close of all leaves the driver as
\* tpr_probe left it: the freelist has every share and nothing is on record.
THEOREM ReturnsAll ==
    ASSUME MaxInFlight <= 1
    PROVE  Spec => []AllReturned
<1>1. SerialInv /\ ListsExact /\ TypeOK /\ ListInv => AllReturned
  <2> SUFFICES ASSUME SerialInv, ListsExact, TypeOK, ListInv, \A f \in Files : pc[f] = "closed"
               PROVE  /\ Chain(freelist) = Shares /\ minors = {} /\ ~masterSet
                      /\ \A s \in Shares : ~parent[s]
    BY DEF AllReturned
  <2>1. \A s \in Shares : place[s] = "free" /\ ~parent[s]
    BY DEF SerialInv, UsedInv, Holds, Adopted
  <2>2. Chain(freelist) = Shares
    BY <2>1 DEF ListsExact
  <2>3. \A c \in Chans : head[c] = NULL
    BY <2>1 DEF ListInv, Linked, TypeOK, Ref, Lists
  <2>4. minors = {}
    BY <2>3 DEF SerialInv, RecordInv, FirstPcs, LastPcs, TypeOK
  <2>5. ~masterSet
    BY DEF SerialInv, MasterInv, MasterOf, MasterPcs
  <2>6. QED
    BY <2>1, <2>2, <2>4, <2>5
<1>2. IInv => TypeOK /\ ListInv
  BY DEF IInv
<1>3. QED
  BY <1>1, <1>2, Serial, ListsCorrect, Invariant, PTL

-----------------------------------------------------------------------------
(* Channels with a client are enabled                                       *)

\* A list with a share has a head.
LEMMA HeadThere ==
    ASSUME TypeOK, ListInv, TopInv, RankInv, NEW s \in Shares, Linked(s)
    PROVE  head[ListOf(s)] # NULL
<1> DEFINE L == {t \in Shares : Linked(t) /\ ListOf(t) = ListOf(s)}
<1>1. L \in SUBSET Shares /\ L # {}
  OBVIOUS
<1>2. PICK B \in Nat : \E r \in [Shares -> 0 .. B] :
         \A t \in Shares : place[t] # "held" /\ next[t] # NULL => r[next[t]] < r[t]
  BY DEF RankInv
<1>3. PICK r \in [Shares -> 0 .. B] :
         \A t \in Shares : place[t] # "held" /\ next[t] # NULL => r[next[t]] < r[t]
  BY <1>2
<1>4. r \in [Shares -> Nat] /\ \A t \in Shares : r[t] <= B
  OBVIOUS
<1>5. PICK t \in L : \A u \in L : r[u] <= r[t]
  <2> HIDE DEF L
  <2>1. QED
    BY <1>1, <1>4, Highest
<1>6. CASE prev[t] = NULL
  BY <1>5, <1>6, NullAssumption DEF TopInv
<1>7. CASE prev[t] # NULL
  <2>1. prev[t] \in Shares /\ Linked(prev[t]) /\ next[prev[t]] = t /\ t # NULL
    BY <1>5, <1>7, NullAssumption DEF ListInv, TypeOK, Ref
  <2>2. ListOf(prev[t]) = ListOf(s)
    BY <1>5, <2>1 DEF ListInv
  <2>3. r[t] < r[prev[t]]
    BY <1>3, <2>1 DEF Linked
  <2>4. r[prev[t]] <= r[t]
    BY <1>5, <2>1, <2>2
  <2>5. r[t] \in Nat /\ r[prev[t]] \in Nat
    BY <1>4, <2>1
  <2>6. QED
    BY <2>3, <2>4, <2>5
<1>8. QED
  BY <1>6, <1>7

\* The channels with a list that is not empty have their DMA on, and so has the
\* one that an open is about to link to.
EnabledInv ==
    /\ \A c \in Chans : head[c] # NULL => ctl[c].dma = TRUE
    /\ \A f \in Files : pc[f] \in {"arm", "link"} /\ arg[f] \in Chans => ctl[arg[f]].dma = TRUE

LEMMA ControlMoves ==
    ASSUME TypeOK, CallInv, NEW f \in Files, CallStep(f), MinorOf(f), AppWrites \subseteq Ctl,
           \A v \in AppWrites : v.dma = TRUE, NEW c \in Chans
    PROVE  /\ ctl[c].dma = TRUE => \/ ctl'[c].dma = TRUE
                                   \/ LastPutControl(f) /\ head[c] = NULL /\ pc[f] \in LastPcs
           /\ pc'[f] = "arm" => PutControl(f) /\ ctl'[arg[f]].dma = TRUE
           /\ pc'[f] = "link" => \/ Arm(f) /\ ctl' = ctl
                                 \/ Test(f) /\ ctl' = ctl /\ head[arg[f]] # NULL
                                 \/ arg'[f] \notin Chans
           /\ pc'[f] \in {"arm", "link"} => arg'[f] = arg[f]
<1>1. pc'[f] \in {"arm", "link"} => PutControl(f) \/ Arm(f) \/ Test(f) \/ Adopt(f) \/ Read(f) \/ Configure(f)
  BY DEF TypeOK, CallStep, OpenStep, ReleaseStep, Goto, Forget, Open, Pop, GetMinors, PutMinors,
         GetControl, Link, MasterTest, MasterSet, Close, CheckParent, Unlink,
         LastGetControl, LastPutControl, LastGetMinors, LastPutMinors, Push, PrintMajor,
         Orphan, MasterPrint, MasterOrphan
<1>2. pc'[f] \in {"arm", "link"} => ~Read(f) /\ ~Configure(f)
  BY DEF Read, Configure, fileVars
<1>3. PutControl(f) => /\ pc'[f] = "arm" /\ arg' = arg /\ arg[f] \in Chans
                       /\ ctl'[arg[f]].dma = TRUE /\ \A d \in Chans : d # arg[f] => ctl'[d] = ctl[d]
  BY DEF PutControl, Goto, TypeOK, CallInv, CallOf, Ctl
<1>4. Arm(f) => pc'[f] = "link" /\ arg' = arg /\ ctl' = ctl
  BY DEF Arm, Goto, TypeOK, callVars
<1>5. Test(f) => /\ pc'[f] = "link" => head[arg[f]] # NULL
                 /\ pc'[f] # "arm" /\ arg' = arg /\ ctl' = ctl
  BY DEF Test, Goto, TypeOK, callVars, systemVars, worldVars
<1>6. Adopt(f) => /\ pc'[f] = "link" => arg[f] \notin Chans
                  /\ pc'[f] # "arm" /\ arg' = arg
  BY DEF Adopt, Goto, TypeOK, callVars
<1>7. Configure(f) => \E d \in Chans, v \in AppWrites : ctl' = [ctl EXCEPT ![d] = v]
  BY DEF Configure
<1>8. LastPutControl(f) => /\ pc[f] \in LastPcs /\ head[minor[sh[f]]] = NULL /\ minor[sh[f]] \in Chans
                           /\ \A d \in Chans : d # minor[sh[f]] => ctl'[d] = ctl[d]
  BY DEF LastPutControl, MinorOf, LastPcs, TypeOK
<1>9. PutControl(f) \/ Configure(f) \/ LastPutControl(f) \/ ctl' = ctl
  BY DEF CallStep, OpenStep, ReleaseStep, Open, Pop, Adopt, Test, GetMinors, PutMinors,
         GetControl, Arm, Link, MasterTest, MasterSet, Close, CheckParent, Unlink,
         LastGetControl, LastGetMinors, LastPutMinors, Push, PrintMajor,
         Orphan, MasterPrint, MasterOrphan, Read, systemVars, worldVars
<1>10. ASSUME ctl[c].dma = TRUE
       PROVE  ctl'[c].dma = TRUE \/ (LastPutControl(f) /\ head[c] = NULL /\ pc[f] \in LastPcs)
  <2>1. CASE PutControl(f)
    BY <1>3, <1>10, <2>1
  <2>2. CASE Configure(f)
    BY <1>7, <1>10, <2>2 DEF TypeOK
  <2>3. CASE LastPutControl(f)
    BY <1>8, <1>10, <2>3
  <2>4. QED
    BY <1>9, <1>10, <2>1, <2>2, <2>3
<1>11. QED
  BY <1>1, <1>2, <1>3, <1>4, <1>5, <1>6, <1>10

LEMMA EnabledStep ==
    ASSUME MaxInFlight <= 1, \A v \in AppWrites : v.dma = TRUE
    PROVE  IInv /\ TopInv /\ SerialInv /\ EnabledInv /\ [Next]_vars => EnabledInv'
<1> SUFFICES ASSUME IInv, TopInv, SerialInv, EnabledInv, [Next]_vars PROVE EnabledInv'
  OBVIOUS
<1> TypeOK /\ CallInv /\ OwnInv /\ OneAtATime /\ AppWrites \subseteq Ctl
  BY AppAssumption DEF IInv, SerialInv
<1>1. CASE Elsewhere
  BY <1>1, ElsewhereKeeps, ElsewhereKeepsParents DEF EnabledInv
<1>2. ASSUME NEW f \in Files, CallStep(f) PROVE EnabledInv'
  <2> MinorOf(f)
    BY DEF SerialInv
  <2>1. ASSUME NEW c \in Chans, head'[c] # NULL PROVE ctl'[c].dma = TRUE
    <3>1. c \in Lists
      BY DEF Lists
    <3>2. CASE Link(f) /\ c = arg[f]
      BY <3>2 DEF Link, EnabledInv, worldVars
    <3>3. CASE ~(Link(f) /\ c = arg[f])
      <4>1. head[c] # NULL
        <5>1. CASE Link(f)
          BY <1>2, <2>1, <3>1, <3>3, <5>1, RecordMoves
        <5>2. CASE Unlink(f)
          BY <1>2, <2>1, <3>1, <5>2, RecordMoves
        <5>3. CASE ~Link(f) /\ ~Unlink(f)
          BY <1>2, <2>1, <5>3, RecordMoves
        <5>4. QED
          BY <5>1, <5>2, <5>3
      <4>2. ctl[c].dma = TRUE
        BY <4>1 DEF EnabledInv
      <4>3. QED
        BY <1>2, <4>1, <4>2, ControlMoves
    <3>4. QED
      BY <3>2, <3>3
  <2>2. ASSUME NEW g \in Files, pc'[g] \in {"arm", "link"}, arg'[g] \in Chans
        PROVE  ctl'[arg'[g]].dma = TRUE
    <3>1. CASE g = f
      <4>1. arg'[f] = arg[f] /\ arg[f] \in Chans
        BY <1>2, <2>2, <3>1, ControlMoves
      <4>2. CASE pc'[f] = "arm"
        BY <1>2, <3>1, <4>1, <4>2, ControlMoves
      <4>3. CASE pc'[f] = "link" /\ Arm(f) /\ ctl' = ctl
        BY <3>1, <4>1, <4>3 DEF Arm, EnabledInv
      <4>4. CASE pc'[f] = "link" /\ ctl' = ctl /\ head[arg[f]] # NULL
        BY <3>1, <4>1, <4>4 DEF EnabledInv
      <4>5. QED
        BY <1>2, <2>2, <3>1, <4>1, <4>2, <4>3, <4>4, ControlMoves
    <3>2. CASE g # f
      <4>1. pc'[g] = pc[g] /\ arg'[g] = arg[g]
        BY <1>2, <3>2, CallMoves
      <4>2. ctl[arg[g]].dma = TRUE /\ Busy(g)
        BY <2>2, <4>1 DEF EnabledInv, Busy
      <4>3. pc[f] \notin LastPcs
        BY <3>2, <4>2 DEF OneAtATime, Busy, LastPcs
      <4>4. QED
        BY <1>2, <2>2, <4>1, <4>2, <4>3, ControlMoves
    <3>3. QED
      BY <3>1, <3>2
  <2>3. QED
    BY <2>1, <2>2 DEF EnabledInv
<1>3. QED
  BY <1>1, <1>2, Steps

\* While calls do not overlap, and the writes that applications make to the
\* control register leave the DMA on as those of SetupRate do, a channel with a
\* linked client has its DMA enabled and is in dev->minors.
THEOREM EnabledKept ==
    ASSUME MaxInFlight <= 1, \A v \in AppWrites : v.dma = TRUE
    PROVE  Spec => []EnabledWhileOpen
<1>1. Init => EnabledInv
  BY DEF Init, EnabledInv, Lists
<1>2. IInv /\ TopInv /\ SerialInv /\ EnabledInv /\ [Next]_vars => EnabledInv'
  BY EnabledStep
<1>3. IInv /\ ChainInv /\ SerialInv /\ EnabledInv => EnabledWhileOpen
  <2> SUFFICES ASSUME IInv, ChainInv, SerialInv, EnabledInv,
                      NEW s \in Shares, place[s] = "linked", minor[s] # -1
               PROVE  ctl[minor[s]].dma /\ minor[s] \in minors
    BY DEF EnabledWhileOpen
  <2>1. minor[s] \in Chans /\ ListOf(s) = minor[s]
    BY DEF IInv, TypeOK, ListOf
  <2>2. head[minor[s]] # NULL
    BY <2>1, HeadThere DEF IInv, ChainInv, Linked
  <2>3. QED
    BY <2>1, <2>2 DEF SerialInv, RecordInv, EnabledInv
<1>4. ChainInv => TopInv
  BY DEF ChainInv
<1>5. QED
  BY <1>1, <1>2, <1>3, <1>4, Serial, Invariant, ChainsKept, PTL DEF Spec
=============================================================================
