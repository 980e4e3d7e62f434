-------------------------- MODULE CardProbeProofs --------------------------
(***************************************************************************)
(* Proofs about CardProbe, for every number of cards and structures, either *)
(* driver, and whatever clients do: TypeOK and OwnStructure are invariants, *)
(* whichever steps of a probe are refused. Of tpr.c: a removal leaves        *)
(* nothing behind (Released); it undoes its own card (RemovesOwn) if nothing *)
(* is refused after the card's address is set; and if clients use a card     *)
(* only while it is bound and settled, and it has its buffers, UseSafe and   *)
(* Quiet hold.                                                             *)
(*                                                                         *)
(* The argument: a structure that a card is bound to holds its address      *)
(* (BoundInv), so the probe under way, whose structure was free, has it to  *)
(* itself until the address is in place (ProbeInv). A structure that has     *)
(* the interrupt, the last thing a probe acquires and the first a removal    *)
(* gives back, has everything (WholeInv), and handler and tasklet run only   *)
(* where there is the interrupt, the tasklet up to the step that waits for   *)
(* it (RunInv).                                                            *)
(***************************************************************************)
EXTENDS CardProbe, FiniteSetTheorems, WellFoundedInduction, TLAPS

\* The step of a probe that stores the card's address.
BasePos == IF Driver = "tpr" THEN 5 ELSE 4

LoadedInv == ~loaded => op = "idle" /\ \A c \in Cards : bound[c] = None

BoundInv == \A c \in Cards : bound[c] # None => base[bound[c]] = Start(c, Bar)

ProbeInv ==
    op = "probe" =>
      /\ card \in Cards /\ slot \in Slots /\ step \in 1 .. Len(Acquire)
      /\ bound[card] = None /\ \A c \in Cards : bound[c] # slot
      /\ base[slot] = IF step > BasePos THEN Start(card, Bar) ELSE None

RemoveInv ==
    op = "remove" =>
      /\ card \in Cards /\ slot \in Slots /\ step \in 1 .. Len(Release)
      /\ base[slot] = Start(card, 0)

\* Of tpr.c, when nothing is refused after the address is set.
NoStale ==
    /\ missed = FALSE
    /\ \A s \in Slots :
         base[s] # None =>
           \E c \in Cards : /\ base[s] = Start(c, Bar)
                            /\ bound[c] = s \/ (op = "probe" /\ card = c /\ slot = s)
    /\ op = "remove" => bound[card] = slot

\* Of tpr.c: what a structure can hold, and what a removal has given back.
TprHeld == {"irq", "buffers", "qmem", "map", "region", "cdev", "chrdev", "enable", "ready"}
HeldInv ==
    /\ \A s \in Slots : res[s] \subseteq TprHeld
    /\ op = "remove" => \A i \in 1 .. (step - 1) : TprRelease[i] \notin res[slot]

\* Of tpr.c with cards that are in use neither opened early nor removed: a
\* structure with the interrupt has all that its handler and tasklet use.
Orderly  == Driver = "tpr" /\ Busy = FALSE /\ MayFail \cap {"map", "irq", "buffers"} = {}
Needs    == {"qmem", "map", "ready", "buffers"}
WholeInv ==
    /\ \A s \in Slots : "irq" \in res[s] => Needs \subseteq res[s] /\ base[s] # None
    /\ op = "probe" =>
         /\ "irq" \notin res[slot]
         /\ \A i \in 1 .. (step - 1) : TprAcquire[i][1] \in Needs => TprAcquire[i][1] \in res[slot]
    /\ \A c \in Cards : bound[c] # None /\ ~(op = "remove" /\ card = c) => "irq" \in res[bound[c]]
    /\ op = "remove" /\ step = 1 => "irq" \in res[slot]
    /\ op = "remove" /\ step = 2 => Needs \subseteq res[slot]

RunInv ==
    /\ \A s \in Slots : handler[s] => "irq" \in res[s]
    /\ \A s \in Slots : task[s] # "idle" => "irq" \in res[s] \/ (op = "remove" /\ slot = s /\ step = 2)

UseInv ==
    /\ op = "idle" => card = None
    /\ \A c \in Cards : vmas[c] > 0 => clients[c]
    /\ \A c \in Cards : clients[c] => bound[c] # None /\ card # c
    /\ \A c \in Cards : irqControl[c] = 1 => bound[c] # None /\ (op = "remove" /\ card = c => step <= 3)

IInv == TypeOK /\ LoadedInv /\ BoundInv /\ ProbeInv /\ RemoveInv

-----------------------------------------------------------------------------
(* The tables                                                               *)

LEMMA AcquireIs ==
    /\ Len(Acquire) \in {12, 13} /\ BasePos < Len(Acquire)
    /\ \A i \in 1 .. Len(Acquire) :
         /\ Acquire[i][1] \in Resources
         /\ Acquire[i][1] = "base" <=> i = BasePos
<1>1. CASE Driver = "tpr"
  <2>1. Acquire = TprAcquire /\ Len(Acquire) = 12 /\ BasePos = 5
    BY <1>1 DEF Acquire, TprAcquire, BasePos
  <2>2. \A i \in 1 .. 12 : TprAcquire[i][1] = "base" <=> i = 5
    BY DEF TprAcquire
  <2>3. DOMAIN TprAcquire = 1 .. 12
    BY DEF TprAcquire
  <2>4. \A i \in 1 .. 12 : TprAcquire[i][1] \in Resources
    BY <2>3 DEF Resources
  <2>5. QED
    BY <2>1, <2>2, <2>4
<1>2. CASE Driver = "ssi"
  <2>1. Acquire = SsiAcquire /\ Len(Acquire) = 13 /\ BasePos = 4
    BY <1>2 DEF Acquire, SsiAcquire, BasePos
  <2>2. \A i \in 1 .. 13 : SsiAcquire[i][1] = "base" <=> i = 4
    BY DEF SsiAcquire
  <2>3. DOMAIN SsiAcquire = 1 .. 13
    BY DEF SsiAcquire
  <2>4. \A i \in 1 .. 13 : SsiAcquire[i][1] \in Resources
    BY <2>3 DEF Resources
  <2>5. QED
    BY <2>1, <2>2, <2>4
<1>3. QED
  BY <1>1, <1>2, DriverAssumption

\* The step that stores the address and the last one are never passed over.
LEMMA ActionOf ==
    ASSUME NEW i \in 1 .. Len(Acquire), Acquire[i][2] = "ignore"
    PROVE  i # BasePos /\ i # Len(Acquire)
<1>1. CASE Driver = "tpr"
  BY <1>1 DEF Acquire, TprAcquire, BasePos
<1>2. CASE Driver = "ssi"
  BY <1>2 DEF Acquire, SsiAcquire, BasePos
<1>3. QED
  BY <1>1, <1>2, DriverAssumption

LEMMA ReleaseIs ==
    /\ Len(Release) \in {12, 13}
    /\ \A i \in 1 .. Len(Release) : Release[i] = "base" <=> i = Len(Release)
<1>1. CASE Driver = "tpr"
  BY <1>1 DEF Release, TprRelease
<1>2. CASE Driver = "ssi"
  BY <1>2 DEF Release, SsiRelease
<1>3. QED
  BY <1>1, <1>2, DriverAssumption

\* The search of both drivers for the first structure finds one of the set.
LEMMA FirstIn ==
    ASSUME NEW set \in SUBSET Slots, set # {}
    PROVE  First(set) \in set
<1> DEFINE Upto(n) == 0 .. n
           T == {Upto(n) : n \in set}
<1>1. set \subseteq Nat /\ set \subseteq 0 .. MaxDev
  BY SlotAssumption DEF Slots
<1>2. IsFiniteSet(0 .. MaxDev) /\ \A n \in set : IsFiniteSet(Upto(n))
  BY <1>1, SlotAssumption, FS_Interval
<1>3. T \subseteq FiniteSubsetsOf(0 .. MaxDev) /\ T # {}
  <2>1. ASSUME NEW n \in set PROVE Upto(n) \in SUBSET (0 .. MaxDev)
    BY <1>1, SlotAssumption
  <2>2. ASSUME NEW n \in set PROVE Upto(n) \in FiniteSubsetsOf(0 .. MaxDev)
    BY <1>2, <2>1 DEF FiniteSubsetsOf
  <2>3. QED
    BY <2>2
<1>4. PICK U \in T : \A V \in T : ~(<<V, U>> \in StrictSubsetOrdering(0 .. MaxDev))
  BY <1>3, WFMin, FS_StrictSubsetOrderingWellFounded
<1>5. PICK n \in set : U = Upto(n)
  OBVIOUS
<1>6. ASSUME NEW t \in set PROVE n <= t
  <2>1. SUFFICES ASSUME t < n PROVE FALSE
    BY <1>1
  <2>2. Upto(t) \subseteq Upto(n) /\ Upto(t) # Upto(n) /\ Upto(n) \subseteq 0 .. MaxDev
    BY <1>1, <2>1, SlotAssumption
  <2>3. <<Upto(t), U>> \in StrictSubsetOrdering(0 .. MaxDev)
    BY <1>5, <2>2 DEF StrictSubsetOrdering
  <2>4. QED
    BY <1>4, <2>3
<1>7. QED
  BY <1>6 DEF First

-----------------------------------------------------------------------------
(* Users: what does not touch a structure or a call                         *)

Users ==
    \/ \E c \in Cards : Open(c) \/ Close(c) \/ Mmap(c) \/ Munmap(c) \/ Intr(c)
    \/ \E s \in Slots : IntrEnd(s) \/ TaskRun(s) \/ TaskEnd(s)
    \/ UNCHANGED vars

LEMMA UsersKeep == Users => UNCHANGED <<loaded, base, res, bound, callVars>>
  BY DEF Users, Open, Close, Mmap, Munmap, Intr, IntrEnd, TaskRun, TaskEnd, vars

LEMMA Cases ==
    ASSUME [Next]_vars
    PROVE  \/ Load \/ Unload \/ ProbeStep \/ ProbeFail \/ RemoveStep \/ Users
           \/ \E c \in Cards : Probe(c) \/ Remove(c)
  BY DEF Next, Users

-----------------------------------------------------------------------------
(* Types                                                                    *)

UserTypes ==
    /\ irqControl \in [Cards -> {0, 1}] /\ handler \in [Slots -> BOOLEAN]
    /\ task \in [Slots -> {"idle", "scheduled", "running"}]
    /\ clients \in [Cards -> BOOLEAN] /\ vmas \in [Cards -> 0 .. MaxVmas]

LEMMA UserTypesStep ==
    ASSUME TypeOK, Users
    PROVE  UserTypes'
<1>1. UserTypes
  BY DEF TypeOK, UserTypes
<1>2. CASE UNCHANGED vars
  BY <1>1, <1>2 DEF UserTypes, vars, intVars, userVars
<1>3. ASSUME NEW c \in Cards, Open(c) PROVE UserTypes'
  <2>1. irqControl' \in [Cards -> {0, 1}]
    BY <1>1, <1>3 DEF Open, UserTypes
  <2>2. QED
    BY <1>1, <1>3, <2>1 DEF Open, UserTypes
<1>4. ASSUME NEW c \in Cards, Close(c) PROVE UserTypes'
  BY <1>1, <1>4 DEF Close, UserTypes, intVars
<1>5. ASSUME NEW c \in Cards, Mmap(c) PROVE UserTypes'
  BY <1>1, <1>5, SlotAssumption DEF Mmap, UserTypes, intVars
<1>6. ASSUME NEW c \in Cards, Munmap(c) PROVE UserTypes'
  BY <1>1, <1>6, SlotAssumption DEF Munmap, UserTypes, intVars
<1>7. ASSUME NEW c \in Cards, Intr(c) PROVE UserTypes'
  BY <1>1, <1>7 DEF Intr, UserTypes, userVars
<1>8. ASSUME NEW s \in Slots, IntrEnd(s) PROVE UserTypes'
  <2>1. irqControl' \in [Cards -> {0, 1}]
    BY <1>1, <1>8 DEF IntrEnd, UserTypes
  <2>2. handler' \in [Slots -> BOOLEAN] /\ task' \in [Slots -> {"idle", "scheduled", "running"}]
    BY <1>1, <1>8 DEF IntrEnd, UserTypes
  <2>3. QED
    BY <1>1, <1>8, <2>1, <2>2 DEF IntrEnd, UserTypes, userVars
<1>9. ASSUME NEW s \in Slots, TaskRun(s) PROVE UserTypes'
  BY <1>1, <1>9 DEF TaskRun, UserTypes, userVars
<1>10. ASSUME NEW s \in Slots, TaskEnd(s) PROVE UserTypes'
  <2>1. irqControl' \in [Cards -> {0, 1}]
    BY <1>1, <1>10 DEF TaskEnd, UserTypes
  <2>2. QED
    BY <1>1, <1>10, <2>1 DEF TaskEnd, UserTypes, userVars
<1>11. QED
  BY <1>2, <1>3, <1>4, <1>5, <1>6, <1>7, <1>8, <1>9, <1>10 DEF Users

LEMMA TypeStep == TypeOK /\ ProbeInv /\ RemoveInv /\ [Next]_vars => TypeOK'
<1> SUFFICES ASSUME TypeOK, ProbeInv, RemoveInv, [Next]_vars PROVE TypeOK'
  OBVIOUS
<1>1. CASE Users
  <2>1. UserTypes'
    BY <1>1, UserTypesStep
  <2>2. UNCHANGED <<loaded, base, res, bound, callVars>>
    BY <1>1, UsersKeep
  <2>3. QED
    BY <2>1, <2>2 DEF TypeOK, UserTypes, callVars
<1>2. CASE Load
  BY <1>2 DEF Load, TypeOK, callVars, intVars, userVars
<1>3. CASE Unload
  BY <1>3 DEF Unload, TypeOK, callVars, intVars, userVars
<1>4. ASSUME NEW c \in Cards, Probe(c) PROVE TypeOK'
  <2>1. First(Free) \in Slots
    BY <1>4, FirstIn DEF Probe, Free
  <2>2. QED
    BY <1>4, <2>1 DEF Probe, TypeOK, intVars, userVars
<1>5. CASE ProbeStep
  <2>1. card \in Cards /\ slot \in Slots /\ Acquire[step][1] \in Resources
    BY <1>5, AcquireIs DEF ProbeStep, ProbeInv
  <2> DEFINE r == Acquire[step][1]
  <2>2. base' \in [Slots -> {Start(c, Bar) : c \in Cards} \cup {None}]
    BY <1>5, <2>1 DEF ProbeStep, TypeOK
  <2>3. res' \in [Slots -> SUBSET Resources]
    BY <1>5, <2>1 DEF ProbeStep, TypeOK
  <2>4. irqControl' \in [Cards -> {0, 1}]
    BY <1>5, <2>1 DEF ProbeStep, TypeOK
  <2>5. /\ bound' \in [Cards -> Slots \cup {None}] /\ op' \in {"idle", "probe", "remove"}
        /\ card' \in Cards \cup {None} /\ slot' \in Slots \cup {None}
    BY <1>5, <2>1 DEF ProbeStep, TypeOK, Idle
  <2>6. QED
    BY <1>5, <2>2, <2>3, <2>4, <2>5 DEF ProbeStep, TypeOK, userVars
<1>6. CASE ProbeFail
  BY <1>6 DEF ProbeFail, Idle, TypeOK, intVars, userVars
<1>7. ASSUME NEW c \in Cards, Remove(c) PROVE TypeOK'
  <2>1. Matching(c) # {} => First(Matching(c)) \in Slots
    BY FirstIn DEF Matching
  <2>2. QED
    BY <1>7, <2>1 DEF Remove, TypeOK, intVars, userVars
<1>8. CASE RemoveStep
  <2>1. card \in Cards /\ slot \in Slots
    BY <1>8 DEF RemoveStep, RemoveInv
  <2>2. base' \in [Slots -> {Start(c, Bar) : c \in Cards} \cup {None}]
    BY <1>8, <2>1 DEF RemoveStep, TypeOK
  <2>3. res' \in [Slots -> SUBSET Resources]
    BY <1>8, <2>1 DEF RemoveStep, TypeOK
  <2>4. irqControl' \in [Cards -> {0, 1}]
    BY <1>8, <2>1 DEF RemoveStep, TypeOK
  <2>5. /\ bound' \in [Cards -> Slots \cup {None}] /\ op' \in {"idle", "probe", "remove"}
        /\ card' \in Cards \cup {None} /\ slot' \in Slots \cup {None}
    BY <1>8, <2>1 DEF RemoveStep, TypeOK, Idle
  <2>6. QED
    BY <1>8, <2>2, <2>3, <2>4, <2>5 DEF RemoveStep, TypeOK, userVars
<1>9. QED
  BY <1>1, <1>2, <1>3, <1>4, <1>5, <1>6, <1>7, <1>8, Cases

-----------------------------------------------------------------------------
(* Calls                                                                    *)

LEMMA Starts ==
    ASSUME NEW c \in Cards
    PROVE  /\ Start(c, Bar) # None /\ Start(c, 0) # None
           /\ \A d \in Cards : Start(c, Bar) = Start(d, Bar) => c = d
           /\ \A d \in Cards : Start(c, Bar) = Start(d, 0) => c = d /\ Bar = 0
  BY NoneAssumption DEF Start, Bar

LEMMA InitInv == Init => IInv
<1> SUFFICES ASSUME Init PROVE IInv
  OBVIOUS
<1>1. TypeOK
  <2>1. UserTypes
    BY SlotAssumption DEF Init, UserTypes
  <2>2. QED
    BY <2>1 DEF Init, TypeOK, UserTypes
<1>2. LoadedInv /\ BoundInv /\ ProbeInv /\ RemoveInv
  BY DEF Init, LoadedInv, BoundInv, ProbeInv, RemoveInv
<1>3. QED
  BY <1>1, <1>2 DEF IInv

LEMMA CallStep ==
    IInv /\ [Next]_vars => LoadedInv' /\ BoundInv' /\ ProbeInv' /\ RemoveInv'
<1> SUFFICES ASSUME IInv, [Next]_vars PROVE LoadedInv' /\ BoundInv' /\ ProbeInv' /\ RemoveInv'
  OBVIOUS
<1> USE DEF IInv
<1>0. None \notin Cards /\ None \notin Slots
  BY NoneAssumption
<1>1. CASE Users
  BY <1>1, UsersKeep DEF LoadedInv, BoundInv, ProbeInv, RemoveInv, callVars
<1>2. CASE Load
  BY <1>2 DEF Load, LoadedInv, BoundInv, ProbeInv, RemoveInv, callVars
<1>3. CASE Unload
  BY <1>3 DEF Unload, LoadedInv, BoundInv, ProbeInv, RemoveInv, callVars
<1>4. ASSUME NEW c \in Cards, Probe(c)
      PROVE  LoadedInv' /\ BoundInv' /\ ProbeInv' /\ RemoveInv'
  <2>1. /\ First(Free) \in Slots /\ base[First(Free)] = None
        /\ loaded' = loaded /\ base' = base /\ bound' = bound
        /\ op' = "probe" /\ card' = c /\ slot' = First(Free) /\ step' = 1
        /\ loaded /\ bound[c] = None
    BY <1>4, FirstIn DEF Probe, Free
  <2>2. \A d \in Cards : bound[d] # First(Free)
    BY <1>0, <2>1, Starts DEF BoundInv
  <2>3. 1 \in 1 .. Len(Acquire) /\ ~(1 > BasePos)
    BY AcquireIs DEF BasePos
  <2>4. ProbeInv'
    BY <2>1, <2>2, <2>3 DEF ProbeInv, BasePos
  <2>5. QED
    BY <2>1, <2>4 DEF LoadedInv, BoundInv, RemoveInv
<1>5. CASE ProbeStep
  <2>1. /\ card \in Cards /\ slot \in Slots /\ step \in 1 .. Len(Acquire)
        /\ \A c \in Cards : bound[c] # slot
        /\ base[slot] = IF step > BasePos THEN Start(card, Bar) ELSE None
        /\ op = "probe" /\ loaded /\ loaded' = loaded
    BY <1>5 DEF ProbeStep, ProbeInv, LoadedInv
  <2>2. /\ base' = IF step = BasePos THEN [base EXCEPT ![slot] = Start(card, Bar)] ELSE base
        /\ Len(Acquire) \in {12, 13} /\ BasePos < Len(Acquire) /\ BasePos \in Nat
    BY <1>5, <2>1, AcquireIs DEF ProbeStep, BasePos
  <2>3. base \in [Slots -> {Start(c, Bar) : c \in Cards} \cup {None}] /\ bound \in [Cards -> Slots \cup {None}]
    BY DEF TypeOK
  <2>4. \A c \in Cards : bound[c] # None => base'[bound[c]] = Start(c, Bar)
    BY <2>1, <2>2, <2>3 DEF BoundInv
  <2>5. base'[slot] = IF step + 1 > BasePos THEN Start(card, Bar) ELSE None
    BY <2>1, <2>2, <2>3
  <2>6. CASE step = Len(Acquire)
    <3>1. bound' = [bound EXCEPT ![card] = slot] /\ op' = "idle"
      BY <1>5, <2>6 DEF ProbeStep, Idle
    <3>2. BoundInv'
      BY <2>1, <2>2, <2>3, <2>4, <2>5, <2>6, <3>1 DEF BoundInv
    <3>3. QED
      BY <2>1, <3>1, <3>2 DEF LoadedInv, ProbeInv, RemoveInv
  <2>7. CASE step # Len(Acquire)
    <3>1. step' = step + 1 /\ UNCHANGED <<bound, op, card, slot>>
      BY <1>5, <2>7 DEF ProbeStep
    <3>2. step' \in 1 .. Len(Acquire)
      BY <2>1, <2>2, <2>7, <3>1
    <3>3. QED
      BY <2>1, <2>4, <2>5, <3>1, <3>2 DEF LoadedInv, BoundInv, ProbeInv, RemoveInv, BasePos
  <2>8. QED
    BY <2>6, <2>7
<1>6. CASE ProbeFail
  <2>1. /\ op = "probe" /\ UNCHANGED <<loaded, base, bound>>
        /\ \/ Acquire[step][2] = "ignore" /\ step' = step + 1 /\ UNCHANGED <<op, card, slot>>
           \/ op' = "idle"
    BY <1>6 DEF ProbeFail, Idle
  <2>2. CASE op' = "idle"
    BY <2>1, <2>2 DEF LoadedInv, BoundInv, ProbeInv, RemoveInv
  <2>3. CASE Acquire[step][2] = "ignore" /\ step' = step + 1 /\ UNCHANGED <<op, card, slot>>
    <3>1. step \in 1 .. Len(Acquire) /\ Len(Acquire) \in {12, 13}
      BY <2>1, AcquireIs DEF ProbeInv
    <3>2. step # BasePos /\ step # Len(Acquire)
      BY <2>3, <3>1, ActionOf
    <3>3. step' \in 1 .. Len(Acquire)
      BY <2>3, <3>1, <3>2
    <3>4. BasePos \in Nat /\ (step > BasePos <=> step' > BasePos)
      BY <2>3, <3>1, <3>2 DEF BasePos
    <3>5. QED
      BY <2>1, <2>3, <3>3, <3>4 DEF LoadedInv, BoundInv, ProbeInv, RemoveInv, BasePos
  <2>4. QED
    BY <2>1, <2>2, <2>3
<1>7. ASSUME NEW c \in Cards, Remove(c)
      PROVE  LoadedInv' /\ BoundInv' /\ ProbeInv' /\ RemoveInv'
  <2>1. op = "idle" /\ bound[c] # None /\ loaded /\ loaded' = loaded /\ base' = base
    BY <1>7 DEF Remove, LoadedInv
  <2>2. CASE Matching(c) = {}
    BY <1>7, <2>1, <2>2 DEF Remove, LoadedInv, BoundInv, ProbeInv, RemoveInv, TypeOK
  <2>3. CASE Matching(c) # {}
    <3>1. op' = "remove" /\ card' = c /\ slot' = First(Matching(c)) /\ step' = 1 /\ bound' = bound
      BY <1>7, <2>3 DEF Remove
    <3>2. First(Matching(c)) \in Matching(c)
      BY <2>3, FirstIn DEF Matching
    <3>3. slot' \in Slots /\ base'[slot'] = Start(card', 0)
      BY <2>1, <3>1, <3>2 DEF Matching
    <3>4. 1 \in 1 .. Len(Release)
      BY ReleaseIs
    <3>5. RemoveInv'
      BY <3>1, <3>3, <3>4 DEF RemoveInv
    <3>6. QED
      BY <2>1, <3>1, <3>5 DEF LoadedInv, BoundInv, ProbeInv
  <2>4. QED
    BY <2>2, <2>3
<1>8. CASE RemoveStep
  <2>1. /\ card \in Cards /\ slot \in Slots /\ step \in 1 .. Len(Release)
        /\ base[slot] = Start(card, 0)
        /\ op = "remove" /\ loaded /\ loaded' = loaded
    BY <1>8 DEF RemoveStep, RemoveInv, LoadedInv
  <2>2. Len(Release) \in {12, 13} /\ (Release[step] = "base" <=> step = Len(Release))
    BY <2>1, ReleaseIs
  <2>3. base \in [Slots -> {Start(c, Bar) : c \in Cards} \cup {None}] /\ bound \in [Cards -> Slots \cup {None}]
    BY DEF TypeOK
  <2>4. CASE step = Len(Release)
    <3>1. /\ base' = [base EXCEPT ![slot] = None]
          /\ bound' = [bound EXCEPT ![card] = None] /\ op' = "idle"
      BY <1>8, <2>2, <2>4 DEF RemoveStep, Idle
    <3>2. \A c \in Cards : bound[c] = slot => c = card
      BY <1>0, <2>1, Starts DEF BoundInv
    <3>3. BoundInv'
      BY <1>0, <2>1, <2>3, <3>1, <3>2 DEF BoundInv
    <3>4. QED
      BY <2>1, <3>1, <3>3 DEF LoadedInv, ProbeInv, RemoveInv
  <2>5. CASE step # Len(Release)
    <3>1. base' = base /\ step' = step + 1 /\ UNCHANGED <<bound, op, card, slot>>
      BY <1>8, <2>2, <2>5 DEF RemoveStep
    <3>2. step' \in 1 .. Len(Release)
      BY <2>1, <2>2, <2>5, <3>1
    <3>3. QED
      BY <2>1, <3>1, <3>2 DEF LoadedInv, BoundInv, ProbeInv, RemoveInv
  <2>6. QED
    BY <2>4, <2>5
<1>9. QED
  BY <1>1, <1>2, <1>3, <1>4, <1>5, <1>6, <1>7, <1>8, Cases

THEOREM Invariant == Spec => []IInv
<1>1. IInv /\ [Next]_vars => IInv'
  BY TypeStep, CallStep DEF IInv
<1>2. QED
  BY <1>1, InitInv, PTL DEF Spec

\* The table and what runs beside it keep their types: a card's mappings are
\* never counted below none, and only structures of the table are probed.
THEOREM TypeCorrect == Spec => []TypeOK
<1>1. IInv => TypeOK
  BY DEF IInv
<1>2. QED
  BY Invariant, <1>1, PTL

\* No two bound cards share a device structure and no probe writes to one that
\* is in use, whichever steps of which probes were refused before.
THEOREM Structures == Spec => []OwnStructure
<1>1. IInv => OwnStructure
  BY Starts DEF IInv, BoundInv, ProbeInv, OwnStructure
<1>2. QED
  BY Invariant, <1>1, PTL

-----------------------------------------------------------------------------
(* tpr.c: removal                                                           *)

LEMMA LateRefusals ==
    ASSUME Driver = "tpr", MayFail \cap {"map", "irq"} = {}, op = "probe", ProbeInv, ProbeFail,
           op' = "idle"
    PROVE  step < BasePos
<1>1. Acquire = TprAcquire /\ Len(Acquire) = 12 /\ BasePos = 5
  BY DEF Acquire, TprAcquire, BasePos
<1>2. Acquire[step][1] \in MayFail /\ Acquire[step][2] = "return" /\ step \in 1 .. 12
  BY <1>1 DEF ProbeFail, ProbeInv
<1>3. \A i \in 5 .. 12 : TprAcquire[i][2] = "return" => TprAcquire[i][1] \in {"map", "irq"}
  BY DEF TprAcquire
<1>4. QED
  BY <1>1, <1>2, <1>3

LEMMA NoStaleStep ==
    ASSUME Driver = "tpr", MayFail \cap {"map", "irq"} = {}
    PROVE  IInv /\ NoStale /\ [Next]_vars => NoStale'
<1> SUFFICES ASSUME IInv, NoStale, [Next]_vars PROVE NoStale'
  OBVIOUS
<1> USE DEF IInv
<1>0. None \notin Cards /\ None \notin Slots /\ Bar = 0
  BY NoneAssumption DEF Bar
<1>00. base \in [Slots -> {Start(c, Bar) : c \in Cards} \cup {None}] /\ bound \in [Cards -> Slots \cup {None}]
  BY DEF TypeOK
<1>1. CASE Users
  BY <1>1, UsersKeep DEF NoStale, callVars
<1>2. CASE Load
  BY <1>2 DEF Load, NoStale, LoadedInv, callVars
<1>3. CASE Unload
  BY <1>3 DEF Unload, NoStale, callVars
<1>4. ASSUME NEW c \in Cards, Probe(c) PROVE NoStale'
  <2>1. op = "idle" /\ op' = "probe" /\ base' = base /\ bound' = bound /\ missed' = missed
    BY <1>4 DEF Probe
  <2>2. QED
    BY <2>1 DEF NoStale
<1>5. CASE ProbeStep
  <2>1. /\ card \in Cards /\ slot \in Slots /\ op = "probe" /\ step \in 1 .. Len(Acquire)
        /\ missed' = missed
        /\ \A s \in Slots : s # slot => base'[s] = base[s]
        /\ \A c \in Cards : bound[c] # slot
        /\ base'[slot] \in {Start(card, Bar), None}
    BY <1>5, <1>00 DEF ProbeStep, ProbeInv
  <2>2. CASE step = Len(Acquire)
    <3>1. bound' = [bound EXCEPT ![card] = slot] /\ op' = "idle"
      BY <1>5, <2>2 DEF ProbeStep, Idle
    <3>2. bound[card] = None
      BY <2>1 DEF ProbeInv
    <3>3. ASSUME NEW s \in Slots, base'[s] # None
          PROVE  \E c \in Cards : base'[s] = Start(c, Bar) /\ bound'[c] = s
      <4>1. CASE s = slot
        BY <1>00, <2>1, <3>1, <3>3, <4>1
      <4>2. CASE s # slot
        <5>1. PICK c \in Cards : base[s] = Start(c, Bar) /\ bound[c] = s
          BY <2>1, <3>3, <4>2 DEF NoStale
        <5>2. c # card
          BY <1>0, <3>2, <5>1
        <5>3. QED
          BY <1>00, <2>1, <3>1, <4>2, <5>1, <5>2
      <4>3. QED
        BY <4>1, <4>2
    <3>4. QED
      BY <2>1, <3>1, <3>3 DEF NoStale
  <2>3. CASE step # Len(Acquire)
    <3>1. UNCHANGED <<bound, op, card, slot>>
      BY <1>5, <2>3 DEF ProbeStep
    <3>2. QED
      BY <2>1, <3>1 DEF NoStale
  <2>4. QED
    BY <2>2, <2>3
<1>6. CASE ProbeFail
  <2>1. /\ op = "probe" /\ UNCHANGED <<base, bound, missed>>
        /\ op' = "idle" \/ UNCHANGED <<op, card, slot>>
    BY <1>6 DEF ProbeFail, Idle
  <2>2. CASE op' = "idle"
    <3>1. base[slot] = None
      BY <1>6, <2>1, <2>2, LateRefusals DEF ProbeInv, BasePos
    <3>2. QED
      BY <2>1, <2>2, <3>1 DEF NoStale
  <2>3. CASE UNCHANGED <<op, card, slot>>
    BY <2>1, <2>3 DEF NoStale
  <2>4. QED
    BY <2>1, <2>2, <2>3
<1>7. ASSUME NEW c \in Cards, Remove(c) PROVE NoStale'
  <2>1. op = "idle" /\ bound[c] \in Slots /\ base' = base /\ base[bound[c]] = Start(c, 0)
    BY <1>0, <1>00, <1>7 DEF Remove, BoundInv
  <2>2. Matching(c) = {bound[c]}
    <3>1. ASSUME NEW s \in Slots, base[s] = Start(c, 0) PROVE s = bound[c]
      <4>1. PICK d \in Cards : base[s] = Start(d, Bar) /\ bound[d] = s
        BY <2>1, <3>1, Starts DEF NoStale
      <4>2. QED
        BY <1>0, <3>1, <4>1, Starts
    <3>2. QED
      BY <2>1, <3>1 DEF Matching
  <2>3. First(Matching(c)) = bound[c]
    BY <2>1, <2>2, FirstIn
  <2>4. /\ op' = "remove" /\ card' = c /\ slot' = bound[c] /\ bound' = bound /\ missed' = missed
    BY <1>7, <2>2, <2>3 DEF Remove
  <2>5. QED
    BY <2>1, <2>4 DEF NoStale
<1>8. CASE RemoveStep
  <2>1. card \in Cards /\ slot \in Slots /\ op = "remove" /\ bound[card] = slot /\ missed' = missed
    BY <1>8 DEF RemoveStep, RemoveInv, NoStale
  <2>2. step \in 1 .. Len(Release) /\ (Release[step] = "base" <=> step = Len(Release))
    BY <1>8, ReleaseIs DEF RemoveStep, RemoveInv
  <2>3. CASE step = Len(Release)
    <3>1. /\ base' = [base EXCEPT ![slot] = None]
          /\ bound' = [bound EXCEPT ![card] = None] /\ op' = "idle"
      BY <1>8, <2>2, <2>3 DEF RemoveStep, Idle
    <3>2. ASSUME NEW s \in Slots, base'[s] # None
          PROVE  \E c \in Cards : base'[s] = Start(c, Bar) /\ bound'[c] = s
      <4>1. s # slot /\ base'[s] = base[s]
        BY <1>00, <2>1, <3>1, <3>2
      <4>2. PICK c \in Cards : base[s] = Start(c, Bar) /\ bound[c] = s
        BY <2>1, <3>2, <4>1 DEF NoStale
      <4>3. QED
        BY <1>00, <2>1, <3>1, <4>1, <4>2
    <3>3. QED
      BY <2>1, <3>1, <3>2 DEF NoStale
  <2>4. CASE step # Len(Release)
    <3>1. base' = base /\ UNCHANGED <<bound, op, card, slot>>
      BY <1>8, <2>2, <2>4 DEF RemoveStep
    <3>2. QED
      BY <2>1, <3>1 DEF NoStale
  <2>5. QED
    BY <2>3, <2>4
<1>9. QED
  BY <1>1, <1>2, <1>3, <1>4, <1>5, <1>6, <1>7, <1>8, Cases

\* A removal finds a structure, and it is that of the card it was called for,
\* when no step after the one that stores the address is refused.
THEOREM RemovesRight ==
    ASSUME Driver = "tpr", MayFail \cap {"map", "irq"} = {}
    PROVE  Spec => []RemovesOwn
<1>1. Init => NoStale
  BY DEF Init, NoStale
<1>2. IInv /\ NoStale /\ [Next]_vars => NoStale'
  BY NoStaleStep
<1>3. NoStale => RemovesOwn
  BY DEF NoStale, RemovesOwn
<1>4. QED
  BY <1>1, <1>2, <1>3, Invariant, PTL DEF Spec

LEMMA TprTables ==
    ASSUME Driver = "tpr"
    PROVE  /\ Acquire = TprAcquire /\ Len(Acquire) = 12
           /\ Release = TprRelease /\ Len(Release) = 13 /\ TprRelease[13] = "base"
           /\ \A i \in 1 .. 12 :
                TprAcquire[i][1] \in TprHeld \cup {"base", "irqOff", "irqOn", "rxOn"}
           /\ \A r \in TprHeld \ {"ready"} : \E i \in 1 .. 12 : TprRelease[i] = r
<1>1. /\ Acquire = TprAcquire /\ Len(Acquire) = 12
      /\ Release = TprRelease /\ Len(Release) = 13 /\ TprRelease[13] = "base"
  BY DEF Acquire, TprAcquire, Release, TprRelease
<1>2. \A i \in 1 .. 12 : TprAcquire[i][1] \in TprHeld \cup {"base", "irqOff", "irqOn", "rxOn"}
  BY DEF TprAcquire, TprHeld
<1>3. /\ TprRelease[1] = "irq" /\ TprRelease[6] = "buffers" /\ TprRelease[7] = "qmem"
      /\ TprRelease[8] = "map" /\ TprRelease[9] = "region" /\ TprRelease[10] = "cdev"
      /\ TprRelease[11] = "chrdev" /\ TprRelease[12] = "enable"
  BY DEF TprRelease
<1>4. QED
  BY <1>1, <1>2, <1>3 DEF TprHeld

LEMMA HeldStep ==
    ASSUME Driver = "tpr"
    PROVE  IInv /\ HeldInv /\ [Next]_vars => HeldInv'
<1> SUFFICES ASSUME IInv, HeldInv, [Next]_vars PROVE HeldInv'
  OBVIOUS
<1> USE DEF IInv
<1>0. res \in [Slots -> SUBSET Resources] /\ \A s \in Slots : res[s] \subseteq TprHeld
  BY DEF TypeOK, HeldInv
<1>1. CASE Users
  BY <1>1, UsersKeep DEF HeldInv, callVars
<1>2. CASE Load
  BY <1>2 DEF Load, HeldInv, LoadedInv, callVars
<1>3. CASE Unload
  BY <1>3 DEF Unload, HeldInv, callVars
<1>4. ASSUME NEW c \in Cards, Probe(c) PROVE HeldInv'
  BY <1>0, <1>4 DEF Probe, HeldInv
<1>5. CASE ProbeStep
  <2>1. /\ op = "probe" /\ slot \in Slots /\ step \in 1 .. 12
        /\ res' = [res EXCEPT ![slot] = @ \cup ({TprAcquire[step][1]} \ {"base", "irqOff", "irqOn", "rxOn"})]
        /\ op' \in {"probe", "idle"}
    BY <1>5, TprTables DEF ProbeStep, ProbeInv, Idle
  <2>2. TprAcquire[step][1] \in TprHeld \cup {"base", "irqOff", "irqOn", "rxOn"}
    BY <2>1, TprTables
  <2>3. \A s \in Slots : res'[s] \subseteq TprHeld
    BY <1>0, <2>1, <2>2
  <2>4. QED
    BY <2>1, <2>3 DEF HeldInv
<1>6. CASE ProbeFail
  <2>1. op' \in {"probe", "idle"} /\ res' = res
    BY <1>6 DEF ProbeFail, Idle
  <2>2. QED
    BY <2>1 DEF HeldInv
<1>7. ASSUME NEW c \in Cards, Remove(c) PROVE HeldInv'
  <2>1. res' = res /\ (op' = "idle" \/ step' = 1)
    BY <1>7 DEF Remove
  <2>2. QED
    BY <1>0, <2>1 DEF HeldInv
<1>8. CASE RemoveStep
  <2>1. op = "remove" /\ slot \in Slots /\ step \in 1 .. 13
    BY <1>8, TprTables DEF RemoveStep, RemoveInv
  <2>2. res' = [res EXCEPT ![slot] = IF TprRelease[step] = "base" THEN @ \ {"ready", "reset"}
                                     ELSE @ \ {TprRelease[step]}]
    BY <1>8, TprTables DEF RemoveStep
  <2>3. \A s \in Slots : res'[s] \subseteq TprHeld
    BY <1>0, <2>1, <2>2
  <2>4. \/ op' = "idle"
        \/ op' = op /\ slot' = slot /\ step' = step + 1 /\ step # 13
    BY <1>8, TprTables DEF RemoveStep, Idle
  <2>5. ASSUME op' = op, slot' = slot, step' = step + 1, step # 13, NEW i \in 1 .. step
        PROVE  TprRelease[i] \notin res'[slot]
    <3>1. TprRelease[step] # "base"
      BY <2>1, <2>5, ReleaseIs, TprTables
    <3>2. i < step => TprRelease[i] \notin res[slot]
      BY <2>1 DEF HeldInv
    <3>3. res'[slot] = res[slot] \ {TprRelease[step]}
      BY <1>0, <2>1, <2>2, <3>1
    <3>4. QED
      BY <2>1, <3>2, <3>3
  <2>6. QED
    BY <2>1, <2>3, <2>4, <2>5 DEF HeldInv
<1>9. QED
  BY <1>1, <1>2, <1>3, <1>4, <1>5, <1>6, <1>7, <1>8, Cases

\* When a removal has gone through, the structure holds nothing that a probe
\* ever acquired for it, refused or not.
THEOREM ReleasesAll ==
    ASSUME Driver = "tpr"
    PROVE  Spec => Released
<1>1. Init => HeldInv
  BY DEF Init, HeldInv
<1>2. IInv /\ HeldInv /\ [Next]_vars => HeldInv'
  BY HeldStep
<1>3. IInv /\ HeldInv /\ [Next]_vars => [op = "remove" /\ op' = "idle" => res'[slot] = {}]_vars
  <2> SUFFICES ASSUME IInv, HeldInv, [Next]_vars, op = "remove", op' = "idle"
               PROVE  res'[slot] = {}
    OBVIOUS
  <2>1. slot \in Slots /\ step \in 1 .. 13 /\ res[slot] \subseteq TprHeld /\ res \in [Slots -> SUBSET Resources]
    BY TprTables DEF IInv, TypeOK, RemoveInv, HeldInv
  <2>2. RemoveStep
    BY UsersKeep, Cases DEF Load, Unload, ProbeStep, ProbeFail, Probe, Remove, callVars
  <2>3. step = 13
    BY <2>2, TprTables DEF RemoveStep
  <2>4. res'[slot] = res[slot] \ {"ready", "reset"}
    BY <2>1, <2>2, <2>3, TprTables DEF RemoveStep
  <2>5. \A i \in 1 .. 12 : TprRelease[i] \notin res[slot]
    BY <2>3 DEF HeldInv
  <2>6. res[slot] \subseteq {"ready"}
    BY <2>1, <2>5, TprTables
  <2>7. QED
    BY <2>4, <2>6
<1>4. QED
  BY <1>1, <1>2, <1>3, Invariant, PTL DEF Spec, Released

-----------------------------------------------------------------------------
(* tpr.c: what runs beside probe and removal                                *)

LEMMA NeedsTables ==
    ASSUME Orderly
    PROVE  /\ TprAcquire[12][1] = "irq" /\ \A i \in 1 .. 11 : TprAcquire[i][1] # "irq"
           /\ \A r \in Needs : \E i \in 1 .. 11 : TprAcquire[i][1] = r
           /\ \A i \in 1 .. 12 : TprAcquire[i][1] \in Needs /\ TprAcquire[i][1] \in MayFail =>
                                   TprAcquire[i][2] # "ignore"
           /\ \A i \in 1 .. 12 : TprAcquire[i][1] \notin {"irqOn"}
           /\ TprRelease[1] = "irq" /\ TprRelease[2] = "tasklet" /\ TprRelease[3] = "irqOff"
           /\ \A i \in 2 .. 13 : TprRelease[i] # "irq"
           /\ \A i \in {1, 3} \cup 4 .. 13 : TprRelease[i] # "tasklet"
<1>1. /\ TprAcquire[1] = <<"qmem", "return">> /\ TprAcquire[7] = <<"map", "return">>
      /\ TprAcquire[8] = <<"ready", "never">> /\ TprAcquire[11] = <<"buffers", "ignore">>
      /\ TprAcquire[12] = <<"irq", "return">>
  BY DEF TprAcquire
<1>2. \A i \in 1 .. 11 : TprAcquire[i][1] # "irq" /\ TprAcquire[i][1] # "irqOn"
  BY DEF TprAcquire
<1>3. \A i \in 1 .. 12 : TprAcquire[i][1] \in Needs => TprAcquire[i][2] # "ignore" \/ i = 11
  BY DEF TprAcquire, Needs
<1>4. "buffers" \notin MayFail
  BY DEF Orderly
<1>5. /\ TprRelease[1] = "irq" /\ TprRelease[2] = "tasklet" /\ TprRelease[3] = "irqOff"
      /\ \A i \in 2 .. 13 : TprRelease[i] # "irq"
      /\ \A i \in {1, 3} \cup 4 .. 13 : TprRelease[i] # "tasklet"
  BY DEF TprRelease
<1>6. \A r \in Needs : \E i \in 1 .. 11 : TprAcquire[i][1] = r
  BY <1>1 DEF Needs
<1>7. QED
  BY <1>1, <1>2, <1>3, <1>4, <1>5, <1>6

LEMMA WholeStep ==
    ASSUME Orderly
    PROVE  IInv /\ NoStale /\ HeldInv /\ WholeInv /\ [Next]_vars => WholeInv'
<1> SUFFICES ASSUME IInv, NoStale, HeldInv, WholeInv, [Next]_vars PROVE WholeInv'
  OBVIOUS
<1> USE DEF IInv
<1>0. /\ Driver = "tpr" /\ None \notin Cards /\ None \notin Slots
      /\ base \in [Slots -> {Start(c, Bar) : c \in Cards} \cup {None}] /\ bound \in [Cards -> Slots \cup {None}]
      /\ res \in [Slots -> SUBSET Resources] /\ Len(Acquire) = 12 /\ Acquire = TprAcquire
      /\ Len(Release) = 13 /\ Release = TprRelease /\ BasePos = 5
  BY NoneAssumption, TprTables DEF TypeOK, Orderly, BasePos
<1>1. CASE Users
  BY <1>1, UsersKeep DEF WholeInv, callVars
<1>2. CASE Load
  BY <1>2 DEF Load, WholeInv, LoadedInv, callVars
<1>3. CASE Unload
  BY <1>3 DEF Unload, WholeInv, callVars
<1>4. ASSUME NEW c \in Cards, Probe(c) PROVE WholeInv'
  <2>1. /\ First(Free) \in Slots /\ base[First(Free)] = None /\ base' = base /\ bound' = bound
        /\ op' = "probe" /\ op = "idle" /\ slot' = First(Free) /\ step' = 1
        /\ res' = [res EXCEPT ![First(Free)] = {}]
    BY <1>4, FirstIn DEF Probe, Free
  <2>2. \A d \in Cards : bound[d] # First(Free)
    BY <1>0, <2>1, Starts DEF BoundInv
  <2>3. QED
    BY <1>0, <2>1, <2>2 DEF WholeInv
<1>5. CASE ProbeStep
  <2>1. /\ card \in Cards /\ slot \in Slots /\ step \in 1 .. 12 /\ op = "probe"
        /\ \A c \in Cards : bound[c] # slot
        /\ base[slot] = IF step > 5 THEN Start(card, Bar) ELSE None
        /\ res' = [res EXCEPT ![slot] = @ \cup ({TprAcquire[step][1]} \ {"base", "irqOff", "irqOn", "rxOn"})]
        /\ \A s \in Slots : s # slot => base'[s] = base[s]
        /\ base[slot] # None => base'[slot] # None
    BY <1>0, <1>5, Starts DEF ProbeStep, ProbeInv
  <2>2. /\ TprAcquire[step][1] \in Needs => TprAcquire[step][1] \in res'[slot]
        /\ res[slot] \subseteq res'[slot] /\ \A s \in Slots : s # slot => res'[s] = res[s]
        /\ step # 12 => "irq" \notin res'[slot]
        /\ step = 12 => "irq" \in res'[slot]
    BY <1>0, <2>1, NeedsTables DEF WholeInv, Needs
  <2>3. \A i \in 1 .. step : TprAcquire[i][1] \in Needs => TprAcquire[i][1] \in res'[slot]
    BY <2>1, <2>2 DEF WholeInv
  <2>4. CASE step = 12
    <3>1. bound' = [bound EXCEPT ![card] = slot] /\ op' = "idle"
      BY <1>0, <1>5, <2>4 DEF ProbeStep, Idle
    <3>2. Needs \subseteq res'[slot]
      BY <2>3, <2>4, NeedsTables
    <3>3. base[slot] # None
      BY <2>1, <2>4, Starts
    <3>4. \A s \in Slots : "irq" \in res'[s] => Needs \subseteq res'[s] /\ base'[s] # None
      BY <2>1, <2>2, <3>2, <3>3 DEF WholeInv
    <3>5. \A c \in Cards : bound'[c] # None => "irq" \in res'[bound'[c]]
      BY <1>0, <2>1, <2>2, <2>4, <3>1 DEF WholeInv
    <3>6. QED
      BY <3>1, <3>4, <3>5 DEF WholeInv
  <2>5. CASE step # 12
    <3>1. step' = step + 1 /\ UNCHANGED <<bound, op, card, slot>>
      BY <1>0, <1>5, <2>5 DEF ProbeStep
    <3>2. \A s \in Slots : "irq" \in res'[s] => Needs \subseteq res'[s] /\ base'[s] # None
      BY <2>1, <2>2, <2>5 DEF WholeInv
    <3>3. \A c \in Cards : bound[c] # None => "irq" \in res'[bound[c]]
      BY <1>0, <2>1, <2>2 DEF WholeInv
    <3>4. \A i \in 1 .. (step' - 1) : TprAcquire[i][1] \in Needs => TprAcquire[i][1] \in res'[slot']
      BY <2>1, <2>3, <3>1
    <3>5. QED
      BY <2>1, <2>2, <2>5, <3>1, <3>2, <3>3, <3>4 DEF WholeInv
  <2>6. QED
    BY <2>4, <2>5
<1>6. CASE ProbeFail
  <2>1. /\ op = "probe" /\ UNCHANGED <<base, bound, res>> /\ TprAcquire[step][1] \in MayFail
        /\ step \in 1 .. 12
        /\ \/ TprAcquire[step][2] = "ignore" /\ step' = step + 1 /\ UNCHANGED <<op, card, slot>>
           \/ op' = "idle"
    BY <1>0, <1>6 DEF ProbeFail, Idle, ProbeInv
  <2>2. CASE op' = "idle"
    BY <2>1, <2>2 DEF WholeInv
  <2>3. CASE TprAcquire[step][2] = "ignore" /\ step' = step + 1 /\ UNCHANGED <<op, card, slot>>
    <3>1. TprAcquire[step][1] \notin Needs
      BY <2>1, <2>3, NeedsTables
    <3>2. \A i \in 1 .. (step' - 1) : TprAcquire[i][1] \in Needs => TprAcquire[i][1] \in res[slot]
      BY <2>1, <2>3, <3>1 DEF WholeInv
    <3>3. QED
      BY <2>1, <2>3, <3>2 DEF WholeInv
  <2>4. QED
    BY <2>1, <2>2, <2>3
<1>7. ASSUME NEW c \in Cards, Remove(c) PROVE WholeInv'
  <2>1. op = "idle" /\ bound[c] # None /\ UNCHANGED <<base, res>>
    BY <1>7 DEF Remove
  <2>2. CASE Matching(c) = {}
    BY <1>0, <1>7, <2>1, <2>2 DEF Remove, WholeInv
  <2>3. CASE Matching(c) # {}
    <3>1. op' = "remove" /\ card' = c /\ step' = 1 /\ bound' = bound
      BY <1>7, <2>3 DEF Remove
    <3>2. slot' = bound[c]
      BY <1>7, <3>1, NoStaleStep DEF NoStale, Orderly
    <3>3. "irq" \in res[slot']
      BY <2>1, <3>2 DEF WholeInv
    <3>4. QED
      BY <2>1, <3>1, <3>3 DEF WholeInv
  <2>4. QED
    BY <2>2, <2>3
<1>8. CASE RemoveStep
  <2>1. /\ card \in Cards /\ slot \in Slots /\ step \in 1 .. 13 /\ op = "remove" /\ bound[card] = slot
        /\ res' = [res EXCEPT ![slot] = IF TprRelease[step] = "base" THEN @ \ {"ready", "reset"}
                                        ELSE @ \ {TprRelease[step]}]
        /\ \A s \in Slots : s # slot => base'[s] = base[s]
    BY <1>0, <1>8 DEF RemoveStep, RemoveInv, NoStale
  <2>2. "irq" \notin res'[slot]
    BY <1>0, <2>1, NeedsTables DEF HeldInv
  <2>3. \A s \in Slots : "irq" \in res'[s] => Needs \subseteq res'[s] /\ base'[s] # None
    BY <1>0, <2>1, <2>2 DEF WholeInv
  <2>4. \A c \in Cards : bound[c] = slot => c = card
    BY <1>0, <2>1, Starts DEF BoundInv
  <2>5. \A c \in Cards : c # card /\ bound[c] # None => "irq" \in res'[bound[c]]
    BY <1>0, <2>1, <2>4 DEF WholeInv
  <2>6. CASE step = 13
    <3>1. bound' = [bound EXCEPT ![card] = None] /\ op' = "idle"
      BY <1>0, <1>8, <2>6 DEF RemoveStep, Idle
    <3>2. QED
      BY <1>0, <2>1, <2>3, <2>5, <3>1 DEF WholeInv
  <2>7. CASE step # 13
    <3>1. step' = step + 1 /\ UNCHANGED <<bound, op, card, slot>>
      BY <1>0, <1>8, <2>7 DEF RemoveStep
    <3>2. step = 1 => Needs \subseteq res'[slot]
      BY <1>0, <2>1, NeedsTables DEF WholeInv, Needs
    <3>3. QED
      BY <2>1, <2>3, <2>5, <3>1, <3>2 DEF WholeInv
  <2>8. QED
    BY <2>6, <2>7
<1>9. QED
  BY <1>1, <1>2, <1>3, <1>4, <1>5, <1>6, <1>7, <1>8, Cases

\* A removal waits for the handler, then for the tasklet; neither is started
\* once the interrupt is gone.
LEMMA RunStep ==
    ASSUME Orderly
    PROVE  IInv /\ NoStale /\ HeldInv /\ WholeInv /\ RunInv /\ [Next]_vars => RunInv'
<1> SUFFICES ASSUME IInv, NoStale, HeldInv, WholeInv, RunInv, [Next]_vars PROVE RunInv'
  OBVIOUS
<1> USE DEF IInv
<1>0. /\ Driver = "tpr" /\ res \in [Slots -> SUBSET Resources]
      /\ handler \in [Slots -> BOOLEAN] /\ task \in [Slots -> {"idle", "scheduled", "running"}]
      /\ Acquire = TprAcquire /\ Release = TprRelease /\ Len(Acquire) = 12 /\ Len(Release) = 13
  BY TprTables DEF TypeOK, Orderly
<1>1. CASE Users
  <2>1. UNCHANGED <<res, op, slot, step>>
    BY <1>1, UsersKeep DEF callVars
  <2>2. CASE UNCHANGED <<handler, task>>
    BY <2>1, <2>2 DEF RunInv
  <2>3. ASSUME NEW c \in Cards, Intr(c) PROVE RunInv'
    <3>1. /\ "irq" \in res[SlotOf(c)] /\ task' = task
          /\ \A s \in Slots : handler'[s] => handler[s] \/ s = SlotOf(c)
      BY <1>0, <2>3 DEF Intr
    <3>2. QED
      BY <2>1, <3>1 DEF RunInv
  <2>4. ASSUME NEW s \in Slots, IntrEnd(s) PROVE RunInv'
    <3>1. "irq" \in res[s]
      BY <2>4 DEF IntrEnd, RunInv
    <3>2. /\ \A t \in Slots : handler'[t] => handler[t]
          /\ \A t \in Slots : t # s => task'[t] = task[t]
      BY <1>0, <2>4 DEF IntrEnd
    <3>3. QED
      BY <2>1, <3>1, <3>2 DEF RunInv
  <2>5. ASSUME NEW s \in Slots, TaskRun(s) PROVE RunInv'
    BY <1>0, <2>1, <2>5 DEF TaskRun, RunInv
  <2>6. ASSUME NEW s \in Slots, TaskEnd(s) PROVE RunInv'
    BY <1>0, <2>1, <2>6 DEF TaskEnd, RunInv
  <2>7. QED
    BY <1>1, <2>2, <2>3, <2>4, <2>5, <2>6 DEF Users, Open, Close, Mmap, Munmap, intVars, vars
<1>2. CASE Load
  <2>1. \A s \in Slots : base[s] = None
    BY <1>2, NoneAssumption DEF Load, LoadedInv, NoStale
  <2>2. \A s \in Slots : "irq" \notin res[s]
    BY <2>1 DEF WholeInv
  <2>3. op = "idle" /\ UNCHANGED <<handler, task, op>>
    BY <1>2 DEF Load, LoadedInv, callVars, intVars
  <2>4. QED
    BY <2>2, <2>3 DEF RunInv
<1>3. CASE Unload
  BY <1>3 DEF Unload, RunInv, callVars, intVars
<1>4. ASSUME NEW c \in Cards, Probe(c) PROVE RunInv'
  <2>1. /\ First(Free) \in Slots /\ base[First(Free)] = None
        /\ op = "idle" /\ op' = "probe" /\ UNCHANGED <<handler, task>>
        /\ res' = [res EXCEPT ![First(Free)] = {}]
    BY <1>4, FirstIn DEF Probe, Free, intVars
  <2>2. "irq" \notin res[First(Free)]
    BY <2>1 DEF WholeInv
  <2>3. QED
    BY <1>0, <2>1, <2>2 DEF RunInv
<1>5. CASE ProbeStep
  <2>1. /\ op = "probe" /\ slot \in Slots /\ op' \in {"probe", "idle"} /\ UNCHANGED <<handler, task>>
        /\ \A s \in Slots : res[s] \subseteq res'[s]
    BY <1>0, <1>5 DEF ProbeStep, ProbeInv, Idle
  <2>2. QED
    BY <2>1 DEF RunInv
<1>6. CASE ProbeFail
  <2>1. op = "probe" /\ UNCHANGED <<handler, task, res>>
    BY <1>6 DEF ProbeFail, intVars
  <2>2. QED
    BY <2>1 DEF RunInv
<1>7. ASSUME NEW c \in Cards, Remove(c) PROVE RunInv'
  <2>1. op = "idle" /\ UNCHANGED <<handler, task, res>>
    BY <1>7 DEF Remove, intVars
  <2>2. QED
    BY <2>1 DEF RunInv
<1>8. CASE RemoveStep
  <2>1. /\ op = "remove" /\ slot \in Slots /\ step \in 1 .. 13 /\ UNCHANGED <<handler, task>>
        /\ res' = [res EXCEPT ![slot] = IF TprRelease[step] = "base" THEN @ \ {"ready", "reset"}
                                        ELSE @ \ {TprRelease[step]}]
        /\ step = 1 => ~handler[slot]
        /\ step = 2 => task[slot] = "idle"
    BY <1>0, <1>8, NeedsTables DEF RemoveStep, RemoveInv
  <2>2. step # 1 => "irq" \notin res[slot]
    BY <2>1, NeedsTables DEF HeldInv
  <2>3. ~handler[slot]
    BY <2>1, <2>2 DEF RunInv
  <2>4. step # 1 => task[slot] = "idle"
    BY <2>1, <2>2 DEF RunInv
  <2>5. step = 1 => op' = op /\ slot' = slot /\ step' = 2
    BY <1>0, <1>8 DEF RemoveStep
  <2>6. \A s \in Slots : s # slot => res'[s] = res[s]
    BY <1>0, <2>1
  <2>7. QED
    BY <2>1, <2>3, <2>4, <2>5, <2>6 DEF RunInv
<1>9. QED
  BY <1>1, <1>2, <1>3, <1>4, <1>5, <1>6, <1>7, <1>8, Cases

\* Only a card that is bound, and that no call is about, is in use; its
\* interrupt is on only while it is bound and before a removal switches it off.
LEMMA UseStep ==
    ASSUME Orderly
    PROVE  IInv /\ UseInv /\ [Next]_vars => UseInv'
<1> SUFFICES ASSUME IInv, UseInv, [Next]_vars PROVE UseInv'
  OBVIOUS
<1> USE DEF IInv
<1>0. /\ Driver = "tpr" /\ Busy = FALSE /\ None \notin Cards
      /\ irqControl \in [Cards -> {0, 1}] /\ clients \in [Cards -> BOOLEAN] /\ vmas \in [Cards -> 0 .. MaxVmas]
      /\ bound \in [Cards -> Slots \cup {None}]
      /\ Acquire = TprAcquire /\ Release = TprRelease /\ Len(Acquire) = 12 /\ Len(Release) = 13
  BY NoneAssumption, TprTables DEF TypeOK, Orderly
<1>1. CASE Users
  <2>1. UNCHANGED <<bound, op, card, step>>
    BY <1>1, UsersKeep DEF callVars
  <2>2. CASE UNCHANGED vars
    BY <2>2 DEF vars, callVars, intVars, userVars, UseInv
  <2>3. ASSUME NEW c \in Cards, Open(c) PROVE UseInv'
    <3>1. /\ bound[c] # None /\ card # c
          /\ clients' = [clients EXCEPT ![c] = TRUE] /\ vmas' = vmas
          /\ irqControl' = [irqControl EXCEPT ![c] = 1]
      BY <1>0, <2>3 DEF Open, Settled
    <3>2. QED
      BY <1>0, <2>1, <3>1 DEF UseInv
  <2>4. ASSUME NEW c \in Cards, Close(c) PROVE UseInv'
    <3>1. vmas[c] = 0 /\ clients' = [clients EXCEPT ![c] = FALSE] /\ UNCHANGED <<vmas, irqControl>>
      BY <2>4 DEF Close, intVars
    <3>2. QED
      BY <1>0, <2>1, <3>1 DEF UseInv
  <2>5. ASSUME NEW c \in Cards, Mmap(c) PROVE UseInv'
    <3>1. clients[c] /\ vmas' = [vmas EXCEPT ![c] = @ + 1] /\ UNCHANGED <<clients, irqControl>>
      BY <2>5 DEF Mmap, intVars
    <3>2. QED
      BY <1>0, <2>1, <3>1 DEF UseInv
  <2>6. ASSUME NEW c \in Cards, Munmap(c) PROVE UseInv'
    <3>1. vmas[c] > 0 /\ vmas' = [vmas EXCEPT ![c] = @ - 1] /\ UNCHANGED <<clients, irqControl>>
      BY <2>6 DEF Munmap, intVars
    <3>2. QED
      BY <1>0, <2>1, <3>1 DEF UseInv
  <2>7. ASSUME NEW c \in Cards, Intr(c) PROVE UseInv'
    BY <2>1, <2>7 DEF Intr, userVars, UseInv
  <2>8. ASSUME NEW s \in Slots, IntrEnd(s) PROVE UseInv'
    <3>1. /\ UNCHANGED <<clients, vmas>>
          /\ \A c \in Cards : irqControl'[c] = 1 => irqControl[c] = 1
      BY <1>0, <2>8 DEF IntrEnd, userVars
    <3>2. QED
      BY <2>1, <3>1 DEF UseInv
  <2>9. ASSUME NEW s \in Slots, TaskRun(s) PROVE UseInv'
    BY <2>1, <2>9 DEF TaskRun, userVars, UseInv
  <2>10. ASSUME NEW s \in Slots, TaskEnd(s) PROVE UseInv'
    <3>1. /\ UNCHANGED <<clients, vmas>>
          /\ \A c \in Cards : irqControl'[c] = 1 => irqControl[c] = 1 \/ clients[c]
      BY <1>0, <2>10 DEF TaskEnd, userVars
    <3>2. QED
      BY <2>1, <3>1 DEF UseInv
  <2>11. QED
    BY <1>1, <2>2, <2>3, <2>4, <2>5, <2>6, <2>7, <2>8, <2>9, <2>10 DEF Users
<1>2. CASE Load
  BY <1>2 DEF Load, UseInv, callVars, intVars, userVars
<1>3. CASE Unload
  BY <1>3 DEF Unload, UseInv, callVars, intVars, userVars
<1>4. ASSUME NEW c \in Cards, Probe(c) PROVE UseInv'
  <2>1. op' = "probe" /\ card' = c /\ bound[c] = None /\ UNCHANGED <<bound, clients, vmas, irqControl>>
    BY <1>4 DEF Probe, intVars, userVars
  <2>2. QED
    BY <2>1 DEF UseInv
<1>5. CASE ProbeStep
  <2>1. /\ card \in Cards /\ slot \in Slots /\ step \in 1 .. 12 /\ op = "probe" /\ bound[card] = None
    BY <1>0, <1>5 DEF ProbeStep, ProbeInv
  <2>2. /\ UNCHANGED <<clients, vmas>>
        /\ \A c \in Cards : irqControl'[c] = 1 => irqControl[c] = 1
    BY <1>0, <1>5, <2>1, NeedsTables DEF ProbeStep, userVars
  <2>3. \/ bound' = [bound EXCEPT ![card] = slot] /\ op' = "idle" /\ card' = None
        \/ UNCHANGED <<bound, op, card>>
    BY <1>5 DEF ProbeStep, Idle
  <2>4. \A c \in Cards : irqControl'[c] = 1 => bound[c] # None
    BY <2>2 DEF UseInv
  <2>5. \A c \in Cards : bound[c] # None => bound'[c] # None
    BY <1>0, <2>1, <2>3
  <2>6. QED
    BY <1>0, <2>1, <2>2, <2>3, <2>4, <2>5 DEF UseInv
<1>6. CASE ProbeFail
  <2>1. /\ op = "probe" /\ UNCHANGED <<bound, clients, vmas, irqControl>>
        /\ (op' = "idle" /\ card' = None) \/ UNCHANGED <<op, card>>
    BY <1>6 DEF ProbeFail, Idle, intVars, userVars
  <2>2. QED
    BY <1>0, <2>1 DEF UseInv
<1>7. ASSUME NEW c \in Cards, Remove(c) PROVE UseInv'
  <2>1. op = "idle" /\ ~clients[c] /\ UNCHANGED <<clients, vmas, irqControl>>
    BY <1>0, <1>7 DEF Remove, InUse, intVars, userVars
  <2>2. base[bound[c]] = Start(c, 0) /\ bound[c] \in Slots
    BY <1>0, <1>7 DEF Remove, BoundInv, Bar
  <2>3. Matching(c) # {}
    BY <2>2 DEF Matching
  <2>4. op' = "remove" /\ card' = c /\ step' = 1 /\ bound' = bound
    BY <1>7, <2>3 DEF Remove
  <2>5. QED
    BY <2>1, <2>4 DEF UseInv
<1>8. CASE RemoveStep
  <2>1. card \in Cards /\ op = "remove" /\ step \in 1 .. 13
    BY <1>0, <1>8 DEF RemoveStep, RemoveInv
  <2>2. /\ UNCHANGED <<clients, vmas>>
        /\ \A c \in Cards : irqControl'[c] = 1 => irqControl[c] = 1
        /\ step = 3 => irqControl'[card] = 0
    BY <1>0, <1>8, <2>1, NeedsTables DEF RemoveStep, userVars
  <2>3. irqControl'[card] = 1 => step < 3
    BY <2>1, <2>2 DEF UseInv
  <2>4. \/ /\ step = 13 /\ op' = "idle" /\ card' = None
           /\ bound' = [bound EXCEPT ![card] = None]
        \/ step # 13 /\ step' = step + 1 /\ UNCHANGED <<bound, op, card>>
    BY <1>0, <1>8 DEF RemoveStep, Idle
  <2>5. CASE step = 13
    BY <1>0, <2>1, <2>2, <2>3, <2>4, <2>5 DEF UseInv
  <2>6. CASE step # 13
    BY <2>1, <2>2, <2>3, <2>4, <2>6 DEF UseInv
  <2>7. QED
    BY <2>5, <2>6
<1>9. QED
  BY <1>1, <1>2, <1>3, <1>4, <1>5, <1>6, <1>7, <1>8, Cases

LEMMA Beside ==
    ASSUME Orderly
    PROVE  Spec => [](IInv /\ NoStale /\ HeldInv /\ WholeInv /\ RunInv /\ UseInv)
<1>1. Init => NoStale /\ HeldInv /\ WholeInv /\ RunInv /\ UseInv
  BY DEF Init, NoStale, HeldInv, WholeInv, RunInv, UseInv
<1>2. IInv /\ NoStale /\ [Next]_vars => NoStale'
  BY NoStaleStep DEF Orderly
<1>3. IInv /\ HeldInv /\ [Next]_vars => HeldInv'
  BY HeldStep DEF Orderly
<1>4. QED
  BY <1>1, <1>2, <1>3, WholeStep, RunStep, UseStep, Invariant, PTL DEF Spec

\* Handler, tasklet and mappings find the registers, buffers, lists and queues
\* they use, whatever a probe or a removal of any card is doing at the time.
THEOREM UsesSafe ==
    ASSUME Orderly
    PROVE  Spec => []UseSafe
<1>1. ASSUME IInv, NoStale, HeldInv, WholeInv, RunInv, UseInv
      PROVE  UseSafe
  <2>1. ASSUME NEW s \in Slots, handler[s] PROVE "map" \in res[s]
    BY <1>1, <2>1 DEF RunInv, WholeInv, Needs
  <2>2. ASSUME NEW s \in Slots, task[s] = "running"
        PROVE  {"map", "ready", "qmem"} \subseteq res[s] /\ "buffers" \in res[s]
    BY <1>1, <2>2 DEF RunInv, WholeInv, Needs
  <2>3. ASSUME NEW c \in Cards, vmas[c] > 0 PROVE {"map", "qmem"} \subseteq res[SlotOf(c)]
    <3>1. bound[c] \in Slots /\ card # c /\ base[bound[c]] = Start(c, Bar)
      BY <1>1, <2>3 DEF UseInv, IInv, TypeOK, BoundInv
    <3>2. \A s \in Slots : base[s] = Start(c, Bar) => s = bound[c]
      BY <1>1, <3>1, Starts DEF NoStale
    <3>3. {s \in Slots : base[s] = Start(c, Bar)} = {bound[c]}
      BY <3>1, <3>2
    <3>4. SlotOf(c) = bound[c]
      BY <3>1, <3>3, FirstIn DEF SlotOf
    <3>5. "irq" \in res[bound[c]]
      BY <1>1, <3>1, NoneAssumption DEF WholeInv
    <3>6. QED
      BY <1>1, <3>1, <3>4, <3>5 DEF WholeInv, Needs
  <2>4. QED
    BY <2>1, <2>2, <2>3 DEF UseSafe
<1>2. QED
  BY <1>1, Beside, PTL

\* A card that is not bound has its interrupt off, and a structure without a
\* card has neither handler nor tasklet running on it.
THEOREM QuietAfter ==
    ASSUME Orderly
    PROVE  Spec => []Quiet
<1>1. ASSUME IInv, NoStale, HeldInv, WholeInv, RunInv, UseInv
      PROVE  Quiet
  <2>1. ASSUME NEW c \in Cards, bound[c] = None PROVE irqControl[c] = 0
    BY <1>1, <2>1 DEF UseInv, IInv, TypeOK
  <2>2. ASSUME NEW s \in Slots, base[s] = None PROVE ~handler[s] /\ task[s] = "idle"
    <3>1. "irq" \notin res[s]
      BY <1>1, <2>2 DEF WholeInv
    <3>2. ~(op = "remove" /\ slot = s)
      BY <1>1, <2>2, Starts DEF IInv, RemoveInv
    <3>3. QED
      BY <1>1, <3>1, <3>2 DEF RunInv
  <2>3. QED
    BY <2>1, <2>2 DEF Quiet
<1>2. QED
  BY <1>1, Beside, PTL
=============================================================================
