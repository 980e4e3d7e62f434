-------------------------- MODULE TprProgramsProofs --------------------------
(***************************************************************************)
(* Proofs about TprPrograms, for any tuners, readers, channels, triggers,    *)
(* command lines and number of starts: Tuned, TriggerWhole, DmaWhileOpen and *)
(* LossReported hold.                                                       *)
(*                                                                         *)
(* A program is a list of steps made of the lists of the calls in tpr.cc, so *)
(* the argument follows the text of the programs. Local is what one program  *)
(* can know of the card; an Outline of a list of steps has an assertion for  *)
(* each place in it, which the loss of the link cannot spoil (Stable), from  *)
(* which the next step does no harm (Safe) and leads to the assertion after  *)
(* it (Does). Brings says that a list has an outline from one assertion to   *)
(* another. The outlines of two lists that meet make one of the lists put    *)
(* together (Then), and Each is a list that can be taken one call at a time  *)
(* (Flat); so the outline of a read, a write or an open gives that of each   *)
(* library call, and those the programs' (ScriptBrings): a program that      *)
(* found CSR at x ends in Done(r, x). Steps that set no trigger keep the     *)
(* triggers Wrote so far (Frame), and those of one trigger after another add *)
(* each to them (EachSets), the tap after the enable or before it.          *)
(*                                                                         *)
(* The invariant says that a tuner is at a place of such an outline, where   *)
(* the assertion holds of its view of the card (Place). No step of another   *)
(* process disturbs it: there is one tuner at a time, and readers only turn  *)
(* the DMA of channels on and off, which no assertion speaks of.             *)
(***************************************************************************)
EXTENDS TprPrograms, TLAPS, SequenceTheorems, FiniteSetTheorems, WellFoundedInduction

Below == {ss \in Nat \X Nat : ss[1] < ss[2]}

LEMMA BelowWF == IsWellFoundedOn(Below, Nat)
  BY NatLessThanWellFounded, Zenon DEF OpToRel, Below

\* Every set of natural numbers that is not empty has a least element: what
\* the proofs below use in place of induction.
LEMMA Least ==
    ASSUME NEW T \in SUBSET Nat, T # {}
    PROVE  \E n \in T : \A k \in T : n <= k
<1>1. PICK n \in T : \A k \in T : ~ (<<k, n>> \in Below)
  BY BelowWF, WFMin
<1>2. ASSUME NEW k \in T PROVE n <= k
  <2>1. ~(k < n)
    BY <1>1 DEF Below
  <2>2. QED
    BY <2>1
<1>3. QED
  BY <1>2

-----------------------------------------------------------------------------
(* What one program knows of the card                                       *)

\* The registers of flags that no driver call and no other program writes
\* while a tuner runs, and the values of the registers.
Known == {CSR, Refclk} \cup Rings
Loss  == {"linkDownL"}
Bits  == {"refclk", "enable", "clear", "dma"}
RegVal(r) == IF r = CSR THEN Flags ELSE IF r = Refclk THEN {"refclk"}
             ELSE IF r \in Rings THEN {"enable", "clear"} ELSE Bits
Settings ==
    {"off", Unset} \cup TestSettings \cup {r.setting : r \in {q \in Runs : q.prog = "tprtrig"}}

Whole(g) ==
    \A t \in Triggers :
      LET s == g[Trigger("trigger", t)]
      IN s # "off" => /\ g[Trigger("delay", t)] = s /\ g[Trigger("width", t)] = s
                      /\ s \in TestSettings \/ g[Trigger("delayTap", t)] = s

Local ==
    {l \in [reg : [Known -> SUBSET (Flags \cup Bits)], v : SUBSET (Flags \cup Bits), held : 0 .. 2,
            fresh : BOOLEAN, trig : [TrigRegs -> Settings]] :
       (\A r \in Known : l.reg[r] \subseteq RegVal(r)) /\ Whole(l.trig)}

\* The same after the link was lost.
Lost(l) ==
    [reg |-> [l.reg EXCEPT ![CSR] = @ \cup Loss], v |-> l.v, held |-> l.held, fresh |-> TRUE, trig |-> l.trig]

Writes == {"put", "save", "set"}
Value(st, w) == IF st.op = "set" THEN st.val ELSE (w \ st.off) \cup st.on
Stored(l, r, x) == IF r # CSR THEN x ELSE (x \ Loss) \cup (l.reg[CSR] \cap x \cap Loss)

\* What the program k may do at l without harm: it writes no flag a register
\* has not, lets a channel send only when it has it open or is to, clears a
\* loss of the link it has not read only when it is tprtest, and sets a
\* trigger so that it stays whole.
SafeWrite(k, st, l, x) ==
    /\ x \subseteq RegVal(st.reg)
    /\ st.reg \notin Known /\ "dma" \in x =>
         st.reg \in {Control(c) : c \in Trigged} \/ (st.reg = Control(0) /\ l.held > 0)
    /\ st.reg = CSR /\ "linkDownL" \in l.reg[CSR] /\ "linkDownL" \notin x =>
         l.fresh \/ (k = "tprtest" /\ st.op = "put" /\ "linkDownL" \in st.off)

Safe(k, st, l) ==
    /\ st.op \in {"get", "put", "save", "set", "settrig", "open", "close"}
    /\ st.op \in Writes \cup {"get"} => st.reg \in FlagRegs
    /\ st.op \in Writes => SafeWrite(k, st, l, Value(st, l.v))
    /\ st.op = "settrig" =>
         st.reg \in TrigRegs /\ st.val \in Settings /\ Whole([l.trig EXCEPT ![st.reg] = st.val])
    /\ st.op = "open" => st.channel = 0 /\ l.held <= 1
    /\ st.op = "close" => st.channel = 0 /\ l.held >= 1

\* The step st done from l leads to m (an open that fails changes nothing).
Does(st, l, m) ==
    /\ m.reg = IF st.op \in Writes /\ st.reg \in Known
               THEN [l.reg EXCEPT ![st.reg] = Stored(l, st.reg, Value(st, l.v))] ELSE l.reg
    /\ st.op \notin {"get", "save"} => m.v = l.v
    /\ st.op = "save" => m.v = Value(st, l.v)
    /\ st.op = "get" => IF st.reg \in Known THEN m.v = l.reg[st.reg] ELSE m.v \in SUBSET Bits
    /\ m.held = IF st.op = "open" THEN l.held + 1 ELSE IF st.op = "close" THEN l.held - 1 ELSE l.held
    /\ m.fresh = (l.fresh /\ ~(st.op = "get" /\ st.reg = CSR))
    /\ m.trig = IF st.op = "settrig" THEN [l.trig EXCEPT ![st.reg] = st.val] ELSE l.trig

Stable(P) == P \subseteq Local /\ \A l \in P : Lost(l) \in P

\* A is an assertion for each place in the list s of steps, which every step
\* done safely from one leads to the next.
Outline(k, s, A) ==
    /\ \A i \in 1 .. (Len(s) + 1) : Stable(A[i])
    /\ \A i \in 1 .. Len(s) : \A l \in A[i] :
         Safe(k, s[i], l) /\ \A m \in Local : Does(s[i], l, m) => m \in A[i + 1]
    /\ \A i \in 1 .. Len(s) : s[i].op = "open" =>
         s[i].skip \in Nat /\ i + 1 + s[i].skip \in 1 .. (Len(s) + 1) /\ A[i] \subseteq A[i + 1 + s[i].skip]

IsSeq(s) == \E S : s \in Seq(S)

\* The program k brings the list of steps s from P to Q.
Brings(k, P, s, Q) ==
    /\ IsSeq(s) /\ Stable(P) /\ Stable(Q)
    /\ \E A : Outline(k, s, A) /\ P \subseteq A[1] /\ A[Len(s) + 1] \subseteq Q

\* The registers are distinct.
LEMMA RegFacts ==
    /\ CSR # Refclk /\ CSR \notin Rings /\ Refclk \notin Rings /\ Known \subseteq FlagRegs
    /\ \A c \in Channels : Control(c) \notin Known /\ Control(c) \in FlagRegs
    /\ \A r \in FlagRegs : r \in Known \/ \E c \in Channels : r = Control(c)
    /\ \A c, d \in Channels : Control(c) = Control(d) => c = d
BY DEF Known, CSR, Refclk, Rings, FlagRegs, Control

\* What a member of Local is made of, and what makes one.
LEMMA LocalType ==
    ASSUME NEW l \in Local
    PROVE  /\ l.reg \in [Known -> SUBSET (Flags \cup Bits)] /\ l.v \in SUBSET (Flags \cup Bits) /\ l.held \in 0 .. 2
           /\ l.fresh \in BOOLEAN /\ l.trig \in [TrigRegs -> Settings] /\ Whole(l.trig)
           /\ \A r \in Known : l.reg[r] \subseteq RegVal(r)
BY DEF Local

LEMMA LocalIs ==
    ASSUME NEW r \in [Known -> SUBSET (Flags \cup Bits)], \A x \in Known : r[x] \subseteq RegVal(x),
           NEW w \in SUBSET (Flags \cup Bits), NEW h \in 0 .. 2, NEW f \in BOOLEAN,
           NEW g \in [TrigRegs -> Settings], Whole(g)
    PROVE  [reg |-> r, v |-> w, held |-> h, fresh |-> f, trig |-> g] \in Local
BY DEF Local

\* The loss of the link sets linkDownL and leaves the rest.
LEMMA LostLocal ==
    ASSUME NEW l \in Local
    PROVE  /\ Lost(l) \in Local
           /\ Lost(l).v = l.v /\ Lost(l).held = l.held /\ Lost(l).fresh = TRUE /\ Lost(l).trig = l.trig
           /\ \A r \in Known : Lost(l).reg[r] = IF r = CSR THEN l.reg[r] \cup Loss ELSE l.reg[r]
<1> DEFINE q == [l.reg EXCEPT ![CSR] = @ \cup Loss]
<1>1. CSR \in Known /\ Loss \subseteq Flags
  BY DEF Known, Loss, Flags
<1>2. q \in [Known -> SUBSET (Flags \cup Bits)] /\ \A r \in Known : q[r] = IF r = CSR THEN l.reg[r] \cup Loss ELSE l.reg[r]
  BY <1>1, LocalType
<1>3. \A r \in Known : q[r] \subseteq RegVal(r)
  BY <1>1, <1>2, LocalType DEF RegVal
<1> HIDE DEF q
<1>4. [reg |-> q, v |-> l.v, held |-> l.held, fresh |-> TRUE, trig |-> l.trig] \in Local
  BY <1>2, <1>3, LocalType, LocalIs
<1>5. QED
  BY <1>2, <1>4 DEF Lost, q

\* A step in a list of one.
LEMMA OneStep ==
    ASSUME NEW k, NEW st, NEW P, NEW Q, Stable(P), Stable(Q), st.op # "open",
           \A l \in P : Safe(k, st, l) /\ \A m \in Local : Does(st, l, m) => m \in Q
    PROVE  Brings(k, P, <<st>>, Q)
<1> DEFINE A == <<P, Q>>
           s == <<st>>
<1>1. Len(s) = 1 /\ s[1] = st /\ IsSeq(s)
  <2>1. s \in Seq({st})
    OBVIOUS
  <2>2. QED
    BY <2>1 DEF IsSeq
<1>2. A[1] = P /\ A[2] = Q
  OBVIOUS
<1> HIDE DEF A, s
<1>3. Outline(k, s, A)
  <2>1. \A i \in 1 .. (Len(s) + 1) : i = 1 \/ i = 2
    BY <1>1
  <2>2. \A i \in 1 .. Len(s) : i = 1 /\ i + 1 = 2
    BY <1>1
  <2>3. \A i \in 1 .. (Len(s) + 1) : Stable(A[i])
    BY <1>2, <2>1
  <2>4. \A i \in 1 .. Len(s) : \A l \in A[i] :
          Safe(k, s[i], l) /\ \A m \in Local : Does(s[i], l, m) => m \in A[i + 1]
    BY <1>1, <1>2, <2>2
  <2>5. QED
    BY <1>1, <2>2, <2>3, <2>4 DEF Outline
<1>4. Len(s) + 1 = 2
  BY <1>1
<1>5. QED
  BY <1>1, <1>2, <1>3, <1>4 DEF Brings, s

\* A list that brings P to Q brings less than P to more than Q.
LEMMA Weaken ==
    ASSUME NEW k, NEW s, NEW P, NEW Q, NEW P2, NEW Q2, Brings(k, P, s, Q),
           P2 \subseteq P, Q \subseteq Q2, Stable(P2), Stable(Q2)
    PROVE  Brings(k, P2, s, Q2)
<1>1. PICK A : Outline(k, s, A) /\ P \subseteq A[1] /\ A[Len(s) + 1] \subseteq Q
  BY DEF Brings
<1>2. P2 \subseteq A[1] /\ A[Len(s) + 1] \subseteq Q2
  BY <1>1
<1>3. QED
  BY <1>1, <1>2 DEF Brings

\* The empty list.
LEMMA Nothing ==
    ASSUME NEW k, NEW P, Stable(P)
    PROVE  Brings(k, P, <<>>, P)
<1> DEFINE A == <<P>>
<1>1. Len(<<>>) = 0 /\ IsSeq(<<>>)
  BY DEF IsSeq
<1>2. Outline(k, <<>>, A)
  BY <1>1 DEF Outline
<1>3. QED
  BY <1>1, <1>2 DEF Brings

\* Where the steps of two lists are in the one made of them.
LEMMA Concat ==
    ASSUME NEW s, NEW t, IsSeq(s), IsSeq(t)
    PROVE  /\ IsSeq(s \o t) /\ Len(s) \in Nat /\ Len(t) \in Nat /\ Len(s \o t) = Len(s) + Len(t)
           /\ \A i \in 1 .. Len(s) : (s \o t)[i] = s[i]
           /\ \A i \in (Len(s) + 1) .. (Len(s) + Len(t)) : (s \o t)[i] = t[i - Len(s)]
<1>1. PICK S : s \in Seq(S)
  BY DEF IsSeq
<1>2. PICK T : t \in Seq(T)
  BY DEF IsSeq
<1>3. s \in Seq(S \cup T) /\ t \in Seq(S \cup T)
  BY <1>1, <1>2
<1>4. s \o t \in Seq(S \cup T)
  BY <1>3
<1>5. QED
  BY <1>3, <1>4 DEF IsSeq

\* One list after the other.
LEMMA Then ==
    ASSUME NEW k, NEW s, NEW t, NEW P, NEW Q, NEW R, Brings(k, P, s, Q), Brings(k, Q, t, R)
    PROVE  Brings(k, P, s \o t, R)
<1>1. PICK A : Outline(k, s, A) /\ P \subseteq A[1] /\ A[Len(s) + 1] \subseteq Q
  BY DEF Brings
<1>2. PICK B : Outline(k, t, B) /\ Q \subseteq B[1] /\ B[Len(t) + 1] \subseteq R
  BY DEF Brings
<1>3. IsSeq(s) /\ IsSeq(t) /\ Stable(P) /\ Stable(R)
  BY DEF Brings
<1>4. PICK a \in Nat : a = Len(s)
  BY <1>3, Concat
<1>5. PICK b \in Nat : b = Len(t)
  BY <1>3, Concat
<1> DEFINE u == s \o t
           C == [i \in 1 .. (a + b + 1) |-> IF i <= a THEN A[i] ELSE B[i - a]]
<1>6. /\ IsSeq(u) /\ Len(u) = a + b
      /\ \A i \in 1 .. a : u[i] = s[i]
      /\ \A i \in (a + 1) .. (a + b) : u[i] = t[i - a]
  BY <1>3, <1>4, <1>5, Concat
<1> HIDE DEF u
<1>7. \A i \in 1 .. a : C[i] = A[i]
  BY <1>4
<1>8. \A i \in (a + 1) .. (a + b + 1) : C[i] = B[i - a]
  BY <1>4
<1> HIDE DEF C
<1>9. A[a + 1] \subseteq C[a + 1]
  <2>1. C[a + 1] = B[1]
    BY <1>8
  <2>2. QED
    BY <1>1, <1>2, <1>4, <2>1
<1>10. \A i \in 1 .. (a + 1) : A[i] \subseteq C[i]
  <2>1. \A i \in 1 .. (a + 1) : i \in 1 .. a \/ i = a + 1
    BY <1>4
  <2>2. QED
    BY <1>7, <1>9, <2>1
<1>11. /\ \A i \in 1 .. (a + 1) : Stable(A[i])
       /\ \A i \in 1 .. a : \A l \in A[i] :
            Safe(k, s[i], l) /\ \A m \in Local : Does(s[i], l, m) => m \in A[i + 1]
       /\ \A i \in 1 .. a : s[i].op = "open" =>
            s[i].skip \in Nat /\ i + 1 + s[i].skip \in 1 .. (a + 1) /\ A[i] \subseteq A[i + 1 + s[i].skip]
  BY <1>1, <1>4 DEF Outline
<1>12. /\ \A i \in 1 .. (b + 1) : Stable(B[i])
       /\ \A i \in 1 .. b : \A l \in B[i] :
            Safe(k, t[i], l) /\ \A m \in Local : Does(t[i], l, m) => m \in B[i + 1]
       /\ \A i \in 1 .. b : t[i].op = "open" =>
            t[i].skip \in Nat /\ i + 1 + t[i].skip \in 1 .. (b + 1) /\ B[i] \subseteq B[i + 1 + t[i].skip]
  BY <1>2, <1>5 DEF Outline
<1>13. ASSUME NEW i \in 1 .. (a + b + 1) PROVE Stable(C[i])
  <2>1. CASE i \in 1 .. a
    <3>1. i \in 1 .. (a + 1)
      BY <2>1
    <3>2. QED
      BY <1>7, <1>11, <2>1, <3>1
  <2>2. CASE i \in (a + 1) .. (a + b + 1)
    <3>1. i - a \in 1 .. (b + 1)
      BY <2>2
    <3>2. QED
      BY <1>8, <1>12, <2>2, <3>1
  <2>3. QED
    BY <2>1, <2>2
<1>14. ASSUME NEW i \in 1 .. (a + b)
       PROVE  /\ \A l \in C[i] : Safe(k, u[i], l) /\ \A m \in Local : Does(u[i], l, m) => m \in C[i + 1]
              /\ u[i].op = "open" => u[i].skip \in Nat /\ i + 1 + u[i].skip \in 1 .. (a + b + 1) /\ C[i] \subseteq C[i + 1 + u[i].skip]
  <2>1. CASE i \in 1 .. a
    <3>1. u[i] = s[i] /\ C[i] = A[i] /\ i + 1 \in 1 .. (a + 1)
      BY <1>6, <1>7, <2>1
    <3>2. A[i + 1] \subseteq C[i + 1]
      BY <1>10, <3>1
    <3>3. \A l \in C[i] : Safe(k, u[i], l) /\ \A m \in Local : Does(u[i], l, m) => m \in C[i + 1]
      BY <1>11, <2>1, <3>1, <3>2
    <3>4. ASSUME u[i].op = "open"
          PROVE  u[i].skip \in Nat /\ i + 1 + u[i].skip \in 1 .. (a + b + 1) /\ C[i] \subseteq C[i + 1 + u[i].skip]
      <4> DEFINE j == i + 1 + s[i].skip
      <4>1. s[i].skip \in Nat /\ j \in 1 .. (a + 1) /\ A[i] \subseteq A[j]
        BY <1>11, <2>1, <3>1, <3>4
      <4>2. i + 1 + u[i].skip = j /\ u[i].skip \in Nat
        BY <3>1, <4>1
      <4> HIDE DEF j
      <4>3. j \in 1 .. (a + b + 1)
        BY <4>1
      <4>4. C[i] \subseteq C[j]
        BY <1>10, <3>1, <4>1
      <4>5. QED
        BY <4>2, <4>3, <4>4
    <3>5. QED
      BY <3>3, <3>4
  <2>2. CASE i \in (a + 1) .. (a + b)
    <3>1. PICK n \in 1 .. b : n = i - a
      BY <2>2
    <3>2. u[i] = t[n] /\ i + 1 - a = n + 1 /\ i + 1 \in (a + 1) .. (a + b + 1) /\ i \in (a + 1) .. (a + b + 1)
      BY <1>6, <2>2, <3>1
    <3>3. C[i] = B[n] /\ C[i + 1] = B[n + 1]
      BY <1>8, <3>1, <3>2
    <3>4. \A l \in C[i] : Safe(k, u[i], l) /\ \A m \in Local : Does(u[i], l, m) => m \in C[i + 1]
      BY <1>12, <3>1, <3>2, <3>3
    <3>5. ASSUME u[i].op = "open"
          PROVE  u[i].skip \in Nat /\ i + 1 + u[i].skip \in 1 .. (a + b + 1) /\ C[i] \subseteq C[i + 1 + u[i].skip]
      <4> DEFINE j == n + 1 + t[n].skip
                 c == i + 1 + t[n].skip
      <4>1. t[n].skip \in Nat /\ j \in 1 .. (b + 1) /\ B[n] \subseteq B[j]
        BY <1>12, <3>1, <3>2, <3>5
      <4> DEFINE w == t[n].skip
      <4>2. w \in Nat /\ j = n + 1 + w /\ c = i + 1 + w
        BY <4>1
      <4>3. i + 1 + u[i].skip = c /\ u[i].skip \in Nat
        BY <3>2, <4>1
      <4> HIDE DEF w, j, c
      <4>4. c - a = j /\ c \in (a + 1) .. (a + b + 1) /\ c \in 1 .. (a + b + 1)
        BY <3>1, <4>1, <4>2
      <4>5. C[c] = B[j]
        BY <1>8, <4>4
      <4>6. QED
        BY <3>3, <4>1, <4>3, <4>4, <4>5
    <3>6. QED
      BY <3>4, <3>5
  <2>3. QED
    BY <2>1, <2>2
<1>15. Outline(k, u, C)
  BY <1>6, <1>13, <1>14 DEF Outline
<1>16. P \subseteq C[1]
  <2>1. 1 \in 1 .. (a + 1)
    OBVIOUS
  <2>2. A[1] \subseteq C[1]
    BY <1>10, <2>1
  <2>3. QED
    BY <1>1, <2>2
<1>17. C[Len(u) + 1] \subseteq R
  <2>1. a + b + 1 \in (a + 1) .. (a + b + 1) /\ a + b + 1 - a = b + 1
    OBVIOUS
  <2>2. C[a + b + 1] = B[b + 1]
    BY <1>8, <2>1
  <2>3. QED
    BY <1>2, <1>5, <1>6, <2>2
<1>18. Brings(k, P, u, R)
  BY <1>3, <1>6, <1>15, <1>16, <1>17 DEF Brings
<1>19. QED
  BY <1>18 DEF u

\* f is what FlattenSeq defines by recursion, up to n.
FlatIs(ss, n, f) == f = [i \in 1 .. n |-> IF i = 1 THEN ss[i] ELSE f[i-1] \o ss[i]]

\* There is such a list for every list of lists.
LEMMA FlatExists ==
    ASSUME NEW ss
    PROVE  \A n \in Nat : \E f : FlatIs(ss, n, f)
<1> DEFINE T == {n \in Nat : ~ \E f : FlatIs(ss, n, f)}
<1>1. T \in SUBSET Nat /\ \A n \in Nat : n \in T <=> ~ \E f : FlatIs(ss, n, f)
  OBVIOUS
<1> HIDE DEF T
<1> SUFFICES ASSUME T # {} PROVE FALSE
  BY <1>1
<1>2. PICK n \in T : \A k \in T : n <= k
  BY <1>1, Least
<1>3. CASE n = 0
  <2> DEFINE f == [i \in 1 .. 0 |-> <<>>]
             f2 == [i \in 1 .. 0 |-> IF i = 1 THEN ss[i] ELSE f[i-1] \o ss[i]]
  <2>1. f = f2
    OBVIOUS
  <2>2. FlatIs(ss, n, f)
    BY <1>3, <2>1 DEF FlatIs
  <2>3. QED
    BY <1>1, <2>2
<1>4. CASE n # 0
  <2>1. n \in Nat /\ n - 1 \in Nat /\ n - 1 \notin T
    BY <1>1, <1>2, <1>4
  <2>2. PICK q : FlatIs(ss, n - 1, q)
    BY <1>1, <2>1
  <2> DEFINE f  == [i \in 1 .. n |-> IF i = n THEN (IF i = 1 THEN ss[i] ELSE q[i-1] \o ss[i]) ELSE q[i]]
             f2 == [i \in 1 .. n |-> IF i = 1 THEN ss[i] ELSE f[i-1] \o ss[i]]
  <2>3. \A i \in 1 .. (n - 1) : f[i] = q[i]
    BY <2>1
  <2>4. ASSUME NEW i \in 1 .. n PROVE f[i] = f2[i]
    <3>1. CASE i = n
      <4>1. i # 1 => f[i-1] = q[i-1]
        BY <2>1, <2>3, <3>1
      <4>2. f[i] = IF i = 1 THEN ss[i] ELSE q[i-1] \o ss[i]
        BY <3>1
      <4> HIDE DEF f
      <4>3. f2[i] = IF i = 1 THEN ss[i] ELSE f[i-1] \o ss[i]
        OBVIOUS
      <4>4. CASE i = 1
        BY <4>2, <4>3, <4>4
      <4>5. CASE i # 1
        BY <4>1, <4>2, <4>3, <4>5, Zenon
      <4>6. QED
        BY <4>4, <4>5
    <3>2. CASE i # n
      <4>1. i \in 1 .. (n - 1) /\ (i # 1 => i - 1 \in 1 .. (n - 1))
        BY <2>1, <3>2
      <4>2. q[i] = IF i = 1 THEN ss[i] ELSE q[i-1] \o ss[i]
        BY <2>2, <4>1 DEF FlatIs
      <4>3. i # 1 => f[i-1] = q[i-1]
        BY <2>3, <4>1
      <4>4. f[i] = q[i]
        BY <2>3, <4>1
      <4> HIDE DEF f
      <4>5. f2[i] = IF i = 1 THEN ss[i] ELSE f[i-1] \o ss[i]
        OBVIOUS
      <4>6. CASE i = 1
        BY <4>2, <4>4, <4>5, <4>6
      <4>7. CASE i # 1
        BY <4>2, <4>3, <4>4, <4>5, <4>7, Zenon
      <4>8. QED
        BY <4>6, <4>7
    <3>3. QED
      BY <3>1, <3>2
  <2>5. f = [i \in 1 .. n |-> f[i]] /\ f2 = [i \in 1 .. n |-> f2[i]]
    OBVIOUS
  <2>6. f = f2
    <3> HIDE DEF f, f2
    <3>1. QED
      BY <2>4, <2>5
  <2>7. FlatIs(ss, n, f)
    BY <2>6 DEF FlatIs
  <2>8. QED
    BY <1>1, <2>7
<1>5. QED
  BY <1>3, <1>4

LEMMA FlatUnfolds ==
    ASSUME NEW ss, Len(ss) \in Nat, Len(ss) # 0
    PROVE  \E f : FlatIs(ss, Len(ss), f) /\ FlattenSeq(ss) = f[Len(ss)]
<1>1. \E f : FlatIs(ss, Len(ss), f)
  BY FlatExists
<1>2. FlatIs(ss, Len(ss), CHOOSE f : FlatIs(ss, Len(ss), f))
  BY <1>1, Zenon
<1>3. FlattenSeq(ss) = (CHOOSE f : FlatIs(ss, Len(ss), f))[Len(ss)]
  BY Zenon DEF FlattenSeq, FlatIs
<1>4. QED
  BY <1>2, <1>3

\* Lists that each go on where the one before left off, one after another.
LEMMA FlatGoes ==
    ASSUME NEW k, NEW P, Stable(P[1]), NEW ss, IsSeq(ss),
           \A i \in 1 .. Len(ss) : Brings(k, P[i], ss[i], P[i + 1])
    PROVE  Brings(k, P[1], FlattenSeq(ss), P[Len(ss) + 1])
<1>1. Len(ss) \in Nat
  BY DEF IsSeq
<1>2. CASE Len(ss) = 0
  <2>1. ss = <<>>
    BY <1>2 DEF IsSeq
  <2>2. FlattenSeq(ss) = <<>> /\ Len(ss) + 1 = 1
    BY <1>2, <2>1 DEF FlattenSeq
  <2>3. QED
    BY <2>2, Nothing
<1>3. CASE Len(ss) # 0
  <2>1. PICK f : FlatIs(ss, Len(ss), f) /\ FlattenSeq(ss) = f[Len(ss)]
    BY <1>1, <1>3, FlatUnfolds
  <2>2. PICK n \in Nat : n = Len(ss)
    BY <1>1
  <2>3. \A i \in 1 .. n : f[i] = IF i = 1 THEN ss[i] ELSE f[i-1] \o ss[i]
    BY <2>1, <2>2 DEF FlatIs
  <2> DEFINE T == {i \in 1 .. n : ~ Brings(k, P[1], f[i], P[i + 1])}
  <2>4. T \in SUBSET Nat /\ T \subseteq 1 .. n /\ \A i \in 1 .. n : i \in T <=> ~ Brings(k, P[1], f[i], P[i + 1])
    OBVIOUS
  <2> HIDE DEF T
  <2>5. ASSUME T # {} PROVE FALSE
    <3>1. PICK i \in T : \A j \in T : i <= j
      BY <2>4, <2>5, Least
    <3>2. i \in 1 .. n /\ Brings(k, P[i], ss[i], P[i + 1])
      BY <2>2, <2>4
    <3>3. CASE i = 1
      BY <2>3, <2>4, <3>2, <3>3
    <3>4. CASE i # 1
      <4>1. i - 1 \in 1 .. n /\ i - 1 \notin T /\ (i - 1) + 1 = i
        BY <2>4, <3>1, <3>2, <3>4
      <4>2. Brings(k, P[1], f[i - 1], P[i])
        BY <2>4, <4>1
      <4>3. Brings(k, P[1], f[i - 1] \o ss[i], P[i + 1])
        BY <3>2, <4>2, Then
      <4>4. f[i] = f[i - 1] \o ss[i]
        BY <2>3, <3>2, <3>4
      <4>5. QED
        BY <2>4, <3>2, <4>3, <4>4
    <3>5. QED
      BY <3>3, <3>4
  <2>6. Brings(k, P[1], f[n], P[n + 1])
    <3>1. n \in 1 .. n
      BY <1>3, <2>2
    <3>2. QED
      BY <2>4, <2>5, <3>1
  <2>7. QED
    BY <2>1, <2>2, <2>6
<1>4. QED
  BY <1>2, <1>3

\* Lists that each keep P.
LEMMA Flat ==
    ASSUME NEW k, NEW P, Stable(P), NEW ss, IsSeq(ss),
           \A i \in 1 .. Len(ss) : Brings(k, P, ss[i], P)
    PROVE  Brings(k, P, FlattenSeq(ss), P)
<1>1. Len(ss) \in Nat
  BY DEF IsSeq
<1>2. PICK n \in Nat : n = Len(ss)
  BY <1>1
<1> DEFINE Q == [i \in 1 .. (n + 1) |-> P]
<1>3. \A i \in 1 .. (n + 1) : Q[i] = P
  OBVIOUS
<1> HIDE DEF Q
<1>4. 1 \in 1 .. (n + 1) /\ n + 1 \in 1 .. (n + 1) /\ \A i \in 1 .. n : i \in 1 .. (n + 1) /\ i + 1 \in 1 .. (n + 1)
  OBVIOUS
<1>5. Q[1] = P /\ Q[n + 1] = P /\ \A i \in 1 .. n : Q[i] = P /\ Q[i + 1] = P
  BY <1>3, <1>4
<1>6. Brings(k, Q[1], FlattenSeq(ss), Q[Len(ss) + 1])
  <2>1. \A i \in 1 .. Len(ss) : Brings(k, Q[i], ss[i], Q[i + 1])
    BY <1>2, <1>5
  <2>2. Stable(Q[1])
    BY <1>5
  <2>3. QED
    BY <2>1, <2>2, FlatGoes
<1>7. QED
  BY <1>2, <1>5, <1>6

\* SetToSeq lists the members of a set, all of them.
LEMMA Listed ==
    ASSUME NEW S, IsFiniteSet(S)
    PROVE  /\ SetToSeq(S) \in Seq(S) /\ Len(SetToSeq(S)) \in Nat
           /\ \A i \in 1 .. Len(SetToSeq(S)) : SetToSeq(S)[i] \in S
           /\ \A x \in S : \E i \in 1 .. Len(SetToSeq(S)) : SetToSeq(S)[i] = x
<1> DEFINE c == Cardinality(S)
           q == SetToSeq(S)
<1>1. c \in Nat
  BY FS_CardinalityType
<1>2. \E f \in [1 .. c -> S] : IsInjective(f)
  <2>1. PICK f : f \in Bijection(1 .. c, S)
    BY FS_CardinalityType, Zenon DEF ExistsBijection
  <2>2. QED
    BY <2>1 DEF Bijection, Injection
<1>3. q \in [1 .. c -> S] /\ IsInjective(q)
  BY <1>2 DEF SetToSeq
<1> HIDE DEF q
<1>4. q \in Seq(S) /\ Len(q) = c
  <2> HIDE DEF c
  <2>1. QED
    BY <1>1, <1>3
<1>5. \A x \in S : \E i \in 1 .. c : q[i] = x
  <2>1. q \in Injection(1 .. c, S)
    BY <1>3 DEF Injection
  <2>2. Cardinality(1 .. c) = c
    BY <1>1, FS_Interval
  <2>3. q \in Surjection(1 .. c, S)
    BY <2>1, <2>2, FS_Injection
  <2>4. QED
    BY <2>3 DEF Surjection
<1>6. QED
  BY <1>3, <1>4, <1>5 DEF q

-----------------------------------------------------------------------------
(* Assertions, and what the single steps do to them                          *)

\* The registers have the values g but for linkDownL, and the program has as
\* many files open as H says.
Rest(g, H) ==
    {l \in Local : (\A r \in Known : l.reg[r] \ Loss = g[r]) /\ l.held \in H}

\* And it has x of the register r in its local; a loss of the link that is
\* not there came after it read r.
Read(g, H, r, x) ==
    {l \in Rest(g, H) :
       /\ l.v \ Loss = x /\ l.v \subseteq RegVal(r)
       /\ r = CSR /\ "linkDownL" \in l.reg[CSR] => l.fresh \/ "linkDownL" \in l.v}

Upd(g, r, y) == [g EXCEPT ![r] = y]

Vals == [Known -> SUBSET (Flags \cup Bits)]

\* The loss of the link spoils none of these assertions.
LEMMA RestStable ==
    ASSUME NEW g, NEW H
    PROVE  Stable(Rest(g, H))
<1>1. ASSUME NEW l \in Rest(g, H) PROVE Lost(l) \in Rest(g, H)
  <2>1. l \in Local /\ (\A r \in Known : l.reg[r] \ Loss = g[r]) /\ l.held \in H
    BY <1>1 DEF Rest
  <2>2. \A r \in Known : Lost(l).reg[r] \ Loss = l.reg[r] \ Loss
    BY <2>1, LostLocal
  <2>3. QED
    BY <2>1, <2>2, LostLocal DEF Rest
<1>2. QED
  BY <1>1 DEF Stable, Rest

LEMMA ReadStable ==
    ASSUME NEW g, NEW H, NEW r, NEW x
    PROVE  Stable(Read(g, H, r, x))
<1>1. ASSUME NEW l \in Read(g, H, r, x) PROVE Lost(l) \in Read(g, H, r, x)
  <2>1. l \in Rest(g, H) /\ l \in Local /\ l.v \ Loss = x /\ l.v \subseteq RegVal(r)
    BY <1>1 DEF Read, Rest
  <2>2. Lost(l) \in Rest(g, H)
    BY <2>1, RestStable DEF Stable
  <2>3. QED
    BY <2>1, <2>2, LostLocal DEF Read
<1>2. QED
  BY <1>1 DEF Stable, Read, Rest

LEMMA ReadRest ==
    ASSUME NEW g, NEW H, NEW r, NEW x
    PROVE  Read(g, H, r, x) \subseteq Rest(g, H)
BY DEF Read

LEMMA RestIs ==
    ASSUME NEW g, NEW H, NEW l \in Rest(g, H)
    PROVE  l \in Local /\ (\A r \in Known : l.reg[r] \ Loss = g[r]) /\ l.held \in H
BY DEF Rest

\* A read of a register.
LEMMA GetBrings ==
    ASSUME NEW k, NEW g, NEW H, NEW r \in Known
    PROVE  Brings(k, Rest(g, H), Get(r), Read(g, H, r, g[r]))
<1> DEFINE st == [op |-> "get", reg |-> r]
<1>1. st.op = "get" /\ st.reg = r /\ Get(r) = <<st>>
  BY DEF Get
<1> HIDE DEF st
<1>2. ASSUME NEW l \in Rest(g, H) PROVE Safe(k, st, l)
  BY <1>1, RegFacts DEF Safe, Writes
<1>3. ASSUME NEW l \in Rest(g, H), NEW m \in Local, Does(st, l, m) PROVE m \in Read(g, H, r, g[r])
  <2>1. l \in Local /\ (\A x \in Known : l.reg[x] \ Loss = g[x]) /\ l.held \in H
    BY RestIs
  <2>2. m.reg = l.reg /\ m.v = l.reg[r] /\ m.held = l.held
    BY <1>1, <1>3 DEF Does, Writes
  <2>3. m \in Rest(g, H)
    BY <2>1, <2>2 DEF Rest
  <2>4. m.v \ Loss = g[r] /\ m.v \subseteq RegVal(r)
    BY <2>1, <2>2, LocalType
  <2>5. r = CSR /\ "linkDownL" \in m.reg[CSR] => "linkDownL" \in m.v
    BY <2>2
  <2>6. QED
    BY <2>3, <2>4, <2>5 DEF Read
<1>4. Brings(k, Rest(g, H), <<st>>, Read(g, H, r, g[r]))
  <2>1. st.op # "open"
    BY <1>1
  <2>2. QED
    BY <1>2, <1>3, <2>1, RestStable, ReadStable, OneStep
<1>5. QED
  BY <1>1, <1>4

\* What a write of the local leaves in the registers.
Leaves(g, H, r, x, st, l, m) ==
    /\ m \in Rest(Upd(g, r, (x \ st.off) \cup st.on), H)
    /\ r = CSR => m.reg[CSR] \subseteq Value(st, l.v)
    /\ Value(st, l.v) = (l.v \ st.off) \cup st.on /\ m.fresh = l.fresh
    /\ st.op = "put" => m.v = l.v
    /\ st.op = "save" => m.v = Value(st, l.v)

LEMMA WriteLeaves ==
    ASSUME NEW g \in Vals, NEW H, NEW r \in Known, NEW x, NEW l \in Read(g, H, r, x), NEW m \in Local,
           NEW st, st.op \in {"put", "save"}, st.reg = r, Does(st, l, m), "linkDownL" \notin st.on
    PROVE  Leaves(g, H, r, x, st, l, m)
<1>1. /\ l \in Local /\ (\A y \in Known : l.reg[y] \ Loss = g[y]) /\ l.held \in H /\ l.v \ Loss = x
      /\ l.v \subseteq RegVal(r)
  BY RestIs DEF Read
<1> DEFINE w == Value(st, l.v)
           y == (x \ st.off) \cup st.on
<1>2. w = (l.v \ st.off) \cup st.on
  BY DEF Value
<1>3. /\ m.reg = [l.reg EXCEPT ![r] = Stored(l, r, w)] /\ m.held = l.held
      /\ m.fresh = (l.fresh /\ ~(st.op = "get" /\ st.reg = CSR))
  BY DEF Does, Writes
<1>4. m.fresh = l.fresh
  BY <1>1, <1>3, LocalType
<1>5. st.op = "put" => m.v = l.v
  BY DEF Does
<1>6. st.op = "save" => m.v = w
  BY DEF Does
<1>7. \A z \in Known : m.reg[z] = IF z = r THEN Stored(l, r, w) ELSE l.reg[z]
  BY <1>1, <1>3, LocalType
<1>8. \A z \in Known : Upd(g, r, y)[z] = IF z = r THEN y ELSE g[z]
  BY DEF Upd, Vals
<1>9. w \ Loss = y
  BY <1>1, <1>2 DEF Loss
<1>10. r # CSR => "linkDownL" \notin l.v
  BY <1>1 DEF RegVal, Bits
<1> HIDE DEF w, y
<1>11. Stored(l, r, w) \ Loss = y
  BY <1>9 DEF Stored
<1>12. m \in Rest(Upd(g, r, y), H)
  <2>1. \A z \in Known : m.reg[z] \ Loss = Upd(g, r, y)[z]
    BY <1>1, <1>7, <1>8, <1>11
  <2>2. QED
    BY <1>1, <1>3, <2>1 DEF Rest
<1>13. r = CSR => m.reg[CSR] \subseteq w
  BY <1>7 DEF Stored
<1>14. QED
  BY <1>2, <1>4, <1>5, <1>6, <1>12, <1>13 DEF w, y, Leaves

\* A write of the local to a register, changed or not.
LEMMA PutBrings ==
    ASSUME NEW k, NEW g \in Vals, NEW H, NEW r \in Known, NEW x,
           NEW on \in SUBSET RegVal(r), NEW off, "linkDownL" \notin on, "linkDownL" \notin off
    PROVE  /\ Brings(k, Read(g, H, r, x), Put(r, on, off), Read(Upd(g, r, (x \ off) \cup on), H, r, x))
           /\ Brings(k, Read(g, H, r, x), Save(r, on, off),
                     Read(Upd(g, r, (x \ off) \cup on), H, r, (x \ off) \cup on))
<1> DEFINE y == (x \ off) \cup on
<1>1. ASSUME NEW st, st.op \in {"put", "save"}, st.reg = r, st.on = on, st.off = off,
             NEW z, z = IF st.op = "put" THEN x ELSE y
      PROVE  Brings(k, Read(g, H, r, x), <<st>>, Read(Upd(g, r, y), H, r, z))
  <2>1. ASSUME NEW l \in Read(g, H, r, x)
        PROVE  /\ l \in Local /\ l.v \ Loss = x /\ l.v \subseteq RegVal(r)
               /\ r = CSR /\ "linkDownL" \in l.reg[CSR] => l.fresh \/ "linkDownL" \in l.v
    BY RestIs DEF Read
  <2>2. ASSUME NEW l \in Read(g, H, r, x) PROVE Safe(k, st, l)
    <3>1. Value(st, l.v) = (l.v \ off) \cup on
      BY <1>1 DEF Value
    <3>2. Value(st, l.v) \subseteq RegVal(st.reg)
      BY <1>1, <2>1, <3>1
    <3>3. "linkDownL" \in l.v => "linkDownL" \in Value(st, l.v)
      BY <3>1
    <3>4. st.reg \in FlagRegs /\ st.reg \in Known
      BY <1>1, RegFacts
    <3>5. st.reg = CSR /\ "linkDownL" \in l.reg[CSR] /\ "linkDownL" \notin Value(st, l.v) => l.fresh
      BY <1>1, <2>1, <3>3
    <3>6. QED
      <4>1. st.op \notin {"settrig", "open", "close"} /\ st.op \in {"get", "put", "save", "set", "settrig", "open", "close"}
        BY <1>1
      <4>2. SafeWrite(k, st, l, Value(st, l.v))
        BY <3>2, <3>4, <3>5 DEF SafeWrite
      <4>3. QED
        BY <3>4, <4>1, <4>2 DEF Safe
  <2>3. ASSUME NEW l \in Read(g, H, r, x), NEW m \in Local, Does(st, l, m)
        PROVE  m \in Read(Upd(g, r, y), H, r, z)
    <3> DEFINE w == Value(st, l.v)
    <3>0. "linkDownL" \notin st.on
      BY <1>1
    <3>1. /\ m \in Rest(Upd(g, r, (x \ st.off) \cup st.on), H)
          /\ r = CSR => m.reg[CSR] \subseteq w
          /\ w = (l.v \ st.off) \cup st.on /\ m.fresh = l.fresh
          /\ st.op = "put" => m.v = l.v
          /\ st.op = "save" => m.v = w
      <4>1. Leaves(g, H, r, x, st, l, m)
        BY <1>1, <2>3, <3>0, WriteLeaves
      <4>2. QED
        BY <4>1 DEF Leaves
    <3>9. m \in Rest(Upd(g, r, y), H) /\ w = (l.v \ off) \cup on
      BY <1>1, <3>1
    <3> HIDE DEF w
    <3>2. w \subseteq RegVal(r) /\ w \ Loss = y
      BY <2>1, <3>9 DEF Loss
    <3>3. m.v \ Loss = z /\ m.v \subseteq RegVal(r)
      BY <1>1, <2>1, <3>1, <3>2
    <3>4. ASSUME r = CSR, "linkDownL" \in m.reg[CSR] PROVE m.fresh \/ "linkDownL" \in m.v
      <4>1. "linkDownL" \in w
        BY <3>1, <3>4
      <4>2. "linkDownL" \in l.v
        BY <3>9, <4>1
      <4>3. QED
        BY <1>1, <3>1, <4>1, <4>2
    <3>5. QED
      BY <3>9, <3>3, <3>4 DEF Read
  <2>4. st.op # "open"
    BY <1>1
  <2>5. QED
    BY <2>2, <2>3, <2>4, ReadStable, OneStep
<1> DEFINE p == [op |-> "put", reg |-> r, on |-> on, off |-> off]
           s == [op |-> "save", reg |-> r, on |-> on, off |-> off]
<1>2. p.op = "put" /\ p.reg = r /\ p.on = on /\ p.off = off
  OBVIOUS
<1>3. s.op = "save" /\ s.reg = r /\ s.on = on /\ s.off = off
  OBVIOUS
<1>4. Put(r, on, off) = <<p>> /\ Save(r, on, off) = <<s>>
  BY DEF Put, Save
<1> HIDE DEF p, s, y
<1>5. Brings(k, Read(g, H, r, x), <<p>>, Read(Upd(g, r, y), H, r, x))
  BY <1>1, <1>2
<1>6. Brings(k, Read(g, H, r, x), <<s>>, Read(Upd(g, r, y), H, r, y))
  BY <1>1, <1>3
<1>7. QED
  BY <1>4, <1>5, <1>6 DEF y

\* The write with which tprtest acknowledges a loss of the link.
LEMMA AcknowledgeBrings ==
    ASSUME NEW g \in Vals, NEW H, NEW x
    PROVE  Brings("tprtest", Read(g, H, CSR, x), Put(CSR, {}, {"linkDownL"}), Rest(Upd(g, CSR, x), H))
<1> DEFINE st == [op |-> "put", reg |-> CSR, on |-> {}, off |-> {"linkDownL"}]
<1>1. st.op = "put" /\ st.reg = CSR /\ st.on = {} /\ st.off = Loss /\ Put(CSR, {}, {"linkDownL"}) = <<st>>
  BY DEF Put, Loss
<1>2. CSR \in Known
  BY DEF Known
<1> HIDE DEF st
<1>3. ASSUME NEW l \in Read(g, H, CSR, x) PROVE l.v \ Loss = x /\ l.v \subseteq RegVal(CSR)
  BY DEF Read
<1>4. ASSUME NEW l \in Read(g, H, CSR, x) PROVE Safe("tprtest", st, l)
  <2>1. Value(st, l.v) \subseteq RegVal(CSR)
    BY <1>1, <1>3 DEF Value
  <2>2. "linkDownL" \in st.off
    BY <1>1 DEF Loss
  <2>3. QED
    BY <1>1, <1>2, <2>1, <2>2, RegFacts DEF Safe, SafeWrite
<1>5. ASSUME NEW l \in Read(g, H, CSR, x), NEW m \in Local, Does(st, l, m) PROVE m \in Rest(Upd(g, CSR, x), H)
  <2>1. m \in Rest(Upd(g, CSR, (x \ st.off) \cup st.on), H)
    <3>1. st.op \in {"put", "save"} /\ st.reg = CSR /\ "linkDownL" \notin st.on
      BY <1>1
    <3>2. Leaves(g, H, CSR, x, st, l, m)
      BY <1>2, <1>5, <3>1, WriteLeaves
    <3>3. QED
      BY <3>2 DEF Leaves
  <2>2. (x \ st.off) \cup st.on = x
    BY <1>1, <1>3
  <2>3. QED
    BY <2>1, <2>2
<1>6. st.op # "open"
  BY <1>1
<1>7. QED
  BY <1>1, <1>4, <1>5, <1>6, ReadStable, RestStable, OneStep

-----------------------------------------------------------------------------
(* The library calls                                                        *)

\* The list s turns the register r from x to y, and leaves the others and the
\* files open alone.
Clean(r) == SUBSET (RegVal(r) \ Loss)

Turns(k, H, r, s, x, y) ==
    /\ r \in Known /\ x \in Clean(r) /\ y \in Clean(r)
    /\ \A g \in Vals : g[r] = x => Brings(k, Rest(g, H), s, Rest(Upd(g, r, y), H))

Flip(x, f, b) == IF b THEN x \cup {f} ELSE x \ {f}

LEMMA RegValSub == \A r : RegVal(r) \subseteq Flags \cup Bits
  BY DEF RegVal, Bits

\* The values after one register of them has changed.
LEMMA UpdFacts ==
    ASSUME NEW g \in Vals, NEW r \in Known, NEW y \in SUBSET (Flags \cup Bits)
    PROVE  /\ Upd(g, r, y) \in Vals /\ Upd(g, r, y)[r] = y
           /\ \A q \in Known : q # r => Upd(g, r, y)[q] = g[q]
BY DEF Upd, Vals

LEMMA UpdTwice ==
    ASSUME NEW g \in Vals, NEW r \in Known, NEW y, NEW z
    PROVE  Upd(Upd(g, r, y), r, z) = Upd(g, r, z)
BY DEF Upd, Vals

LEMMA UpdSame ==
    ASSUME NEW g \in Vals, NEW r \in Known
    PROVE  Upd(g, r, g[r]) = g
BY DEF Upd, Vals

LEMMA TurnsThen ==
    ASSUME NEW k, NEW H, NEW r, NEW s, NEW t, NEW x, NEW y, NEW z,
           Turns(k, H, r, s, x, y), Turns(k, H, r, t, y, z)
    PROVE  Turns(k, H, r, s \o t, x, z)
<1>1. r \in Known /\ x \in Clean(r) /\ y \in Clean(r) /\ z \in Clean(r)
  BY DEF Turns
<1>2. y \in SUBSET (Flags \cup Bits)
  BY <1>1, RegValSub DEF Clean
<1>3. ASSUME NEW g \in Vals, g[r] = x
      PROVE  Brings(k, Rest(g, H), s \o t, Rest(Upd(g, r, z), H))
  <2>1. Upd(g, r, y) \in Vals /\ Upd(g, r, y)[r] = y
    BY <1>1, <1>2, UpdFacts
  <2>2. Brings(k, Rest(g, H), s, Rest(Upd(g, r, y), H))
    BY <1>3 DEF Turns
  <2>3. Brings(k, Rest(Upd(g, r, y), H), t, Rest(Upd(Upd(g, r, y), r, z), H))
    BY <2>1 DEF Turns
  <2>4. Upd(Upd(g, r, y), r, z) = Upd(g, r, z)
    BY <1>1, UpdTwice
  <2>5. QED
    BY <2>2, <2>3, <2>4, Then
<1>4. QED
  BY <1>1, <1>3 DEF Turns

LEMMA TurnsNothing ==
    ASSUME NEW k, NEW H, NEW r \in Known, NEW x \in Clean(r)
    PROVE  Turns(k, H, r, <<>>, x, x)
<1>1. ASSUME NEW g \in Vals, g[r] = x
      PROVE  Brings(k, Rest(g, H), <<>>, Rest(Upd(g, r, x), H))
  <2>1. Upd(g, r, x) = g
    BY <1>1, UpdSame
  <2>2. QED
    BY <2>1, RestStable, Nothing
<1>2. QED
  BY <1>1 DEF Turns

\* Read, change, write and keep.
LEMMA RmwReads ==
    ASSUME NEW k, NEW H, NEW r \in Known, NEW g \in Vals, NEW f \in RegVal(r) \ Loss, NEW b \in BOOLEAN
    PROVE  LET y == Flip(g[r], f, b) IN Brings(k, Rest(g, H), Rmw(r, f, b), Read(Upd(g, r, y), H, r, y))
<1> DEFINE x == g[r]
           on == IF b THEN {f} ELSE {}
           off == IF b THEN {} ELSE {f}
           y == Flip(x, f, b)
<1>1. on \in SUBSET RegVal(r) /\ "linkDownL" \notin on /\ "linkDownL" \notin off
  BY DEF Loss
<1>2. (x \ off) \cup on = y
  BY DEF Flip
<1>3. Brings(k, Rest(g, H), Get(r), Read(g, H, r, x))
  BY GetBrings
<1>4. Rmw(r, f, b) = Get(r) \o Save(r, on, off)
  BY DEF Rmw
<1> HIDE DEF on, off, x
<1>5. Brings(k, Read(g, H, r, x), Save(r, on, off), Read(Upd(g, r, (x \ off) \cup on), H, r, (x \ off) \cup on))
  BY <1>1, PutBrings
<1>6. Brings(k, Read(g, H, r, x), Save(r, on, off), Read(Upd(g, r, y), H, r, y))
  BY <1>2, <1>5
<1> HIDE DEF y
<1>7. Brings(k, Rest(g, H), Rmw(r, f, b), Read(Upd(g, r, y), H, r, y))
  BY <1>3, <1>4, <1>6, Then
<1>8. QED
  BY <1>7 DEF x, y

\* A flag that is turned leaves a value the register may have.
LEMMA FlipClean ==
    ASSUME NEW r, NEW x \in Clean(r), NEW f \in RegVal(r) \ Loss, NEW b \in BOOLEAN
    PROVE  Flip(x, f, b) \in Clean(r)
BY DEF Flip, Clean

LEMMA RmwTurns ==
    ASSUME NEW k, NEW H, NEW r \in Known, NEW x \in Clean(r), NEW f \in RegVal(r) \ Loss, NEW b \in BOOLEAN
    PROVE  Turns(k, H, r, Rmw(r, f, b), x, Flip(x, f, b))
<1> DEFINE y == Flip(x, f, b)
<1>1. y \in Clean(r)
  BY FlipClean
<1> HIDE DEF y
<1>2. ASSUME NEW g \in Vals, g[r] = x
      PROVE  Brings(k, Rest(g, H), Rmw(r, f, b), Rest(Upd(g, r, y), H))
  <2>1. Brings(k, Rest(g, H), Rmw(r, f, b), Read(Upd(g, r, y), H, r, y))
    BY <1>2, RmwReads DEF y
  <2>2. QED
    BY <2>1, ReadRest, RestStable, Weaken DEF Stable, Brings
<1>3. QED
  BY <1>1, <1>2 DEF Turns, y

\* A flag set and reset again.
LEMMA PulseReads ==
    ASSUME NEW k, NEW H, NEW r \in Known, NEW g \in Vals, NEW x \in Clean(r), NEW f \in RegVal(r) \ Loss
    PROVE  Brings(k, Read(g, H, r, x), Pulse(r, f), Read(Upd(g, r, x \ {f}), H, r, x))
<1> DEFINE y == (x \ {}) \cup {f}
           z == (x \ {f}) \cup {}
<1>1. {f} \in SUBSET RegVal(r) /\ "linkDownL" \notin {f} /\ "linkDownL" \notin {} /\ {} \in SUBSET RegVal(r)
  BY DEF Loss
<1>2. y \in SUBSET (Flags \cup Bits)
  BY RegValSub DEF Clean
<1>3. z = x \ {f}
  OBVIOUS
<1>4. Brings(k, Read(g, H, r, x), Put(r, {f}, {}), Read(Upd(g, r, y), H, r, x))
  BY <1>1, PutBrings
<1> HIDE DEF y
<1>5. Upd(g, r, y) \in Vals
  BY <1>2, UpdFacts
<1>6. Brings(k, Read(Upd(g, r, y), H, r, x), Put(r, {}, {f}), Read(Upd(Upd(g, r, y), r, z), H, r, x))
  BY <1>1, <1>5, PutBrings
<1>7. Upd(Upd(g, r, y), r, z) = Upd(g, r, z)
  BY UpdTwice
<1> HIDE DEF z
<1>8. Brings(k, Read(g, H, r, x), Put(r, {f}, {}) \o Put(r, {}, {f}), Read(Upd(g, r, z), H, r, x))
  BY <1>4, <1>6, <1>7, Then
<1>9. QED
  BY <1>3, <1>8 DEF Pulse

LEMMA PulseTurns ==
    ASSUME NEW k, NEW H, NEW r \in Known, NEW x \in Clean(r), NEW f \in RegVal(r) \ Loss
    PROVE  Turns(k, H, r, Get(r) \o Pulse(r, f), x, x \ {f})
<1> DEFINE y == x \ {f}
<1>1. y \in Clean(r)
  BY DEF Clean
<1> HIDE DEF y
<1>2. ASSUME NEW g \in Vals, g[r] = x
      PROVE  Brings(k, Rest(g, H), Get(r) \o Pulse(r, f), Rest(Upd(g, r, y), H))
  <2>1. Brings(k, Rest(g, H), Get(r), Read(g, H, r, x))
    BY <1>2, GetBrings
  <2>2. Brings(k, Read(g, H, r, x), Pulse(r, f), Read(Upd(g, r, y), H, r, x))
    BY PulseReads DEF y
  <2>3. Brings(k, Rest(g, H), Get(r) \o Pulse(r, f), Read(Upd(g, r, y), H, r, x))
    BY <2>1, <2>2, Then
  <2>4. QED
    BY <2>3, ReadRest, RestStable, Weaken
<1>3. QED
  BY <1>1, <1>2 DEF Turns, y

CsrFlag == {"countReset", "rxPolarity", "resetRx", "clkSel", "modeSel", "modeSelEn"}

\* CSR is none of the other registers, and its flags are its own.
LEMMA FlagFacts ==
    /\ CSR \in Known /\ Refclk \in Known /\ Rings \subseteq Known
    /\ CsrFlag = RegVal(CSR) \ Loss /\ "refclk" \in RegVal(Refclk) \ Loss
    /\ \A r \in Rings : {"enable", "clear"} \subseteq RegVal(r) \ Loss
BY RegFacts DEF Known, RegVal, Loss, Flags, Bits, CsrFlag

LEMMA CsrTurns ==
    ASSUME NEW k, NEW H, NEW x \in Clean(CSR), NEW b \in BOOLEAN
    PROVE  /\ Turns(k, H, CSR, clkSel(b), x, Flip(x, "clkSel", b))
           /\ Turns(k, H, CSR, modeSel(b), x, Flip(x, "modeSel", b))
           /\ Turns(k, H, CSR, modeSelEn(b), x, Flip(x, "modeSelEn", b))
           /\ Turns(k, H, CSR, resetRx, x, x \ {"resetRx"})
           /\ Turns(k, H, CSR, resetCounts, x, x \ {"countReset"})
<1>1. \A f \in CsrFlag : Turns(k, H, CSR, Rmw(CSR, f, b), x, Flip(x, f, b))
  BY FlagFacts, RmwTurns
<1>2. \A f \in CsrFlag : Turns(k, H, CSR, Get(CSR) \o Pulse(CSR, f), x, x \ {f})
  BY FlagFacts, PulseTurns
<1>3. {"clkSel", "modeSel", "modeSelEn", "resetRx", "countReset"} \subseteq CsrFlag
  BY DEF CsrFlag
<1>4. QED
  BY <1>1, <1>2, <1>3 DEF clkSel, modeSel, modeSelEn, resetRx, resetCounts

LEMMA PolarityTurns ==
    ASSUME NEW k, NEW H, NEW x \in Clean(CSR), NEW b \in BOOLEAN
    PROVE  Turns(k, H, CSR, rxPolarity(b), x, Flip(x, "rxPolarity", b) \ {"resetRx"})
<1> DEFINE y == Flip(x, "rxPolarity", b)
           z == y \ {"resetRx"}
<1>1. "rxPolarity" \in RegVal(CSR) \ Loss /\ "resetRx" \in RegVal(CSR) \ Loss /\ CSR \in Known
  BY FlagFacts DEF CsrFlag
<1>2. y \in Clean(CSR)
  BY <1>1, FlipClean
<1>3. z \in Clean(CSR)
  BY <1>2 DEF Clean
<1>4. ASSUME NEW g \in Vals, g[CSR] = x
      PROVE  Brings(k, Rest(g, H), rxPolarity(b), Rest(Upd(g, CSR, z), H))
  <2>1. Brings(k, Rest(g, H), Rmw(CSR, "rxPolarity", b), Read(Upd(g, CSR, y), H, CSR, y))
    BY <1>1, <1>4, RmwReads
  <2> HIDE DEF y
  <2>2. y \in SUBSET (Flags \cup Bits)
    BY <1>2, RegValSub DEF Clean
  <2>3. Upd(g, CSR, y) \in Vals
    BY <1>1, <2>2, UpdFacts
  <2>4. Brings(k, Read(Upd(g, CSR, y), H, CSR, y), Pulse(CSR, "resetRx"),
               Read(Upd(Upd(g, CSR, y), CSR, y \ {"resetRx"}), H, CSR, y))
    BY <1>1, <1>2, <2>3, PulseReads
  <2>5. Upd(Upd(g, CSR, y), CSR, z) = Upd(g, CSR, z)
    BY <1>1, UpdTwice
  <2>6. Brings(k, Rest(g, H), rxPolarity(b), Read(Upd(g, CSR, z), H, CSR, y))
    BY <2>1, <2>4, <2>5, Then DEF rxPolarity
  <2> HIDE DEF z
  <2>7. QED
    BY <2>6, ReadRest, RestStable, Weaken
<1>5. QED
  BY <1>1, <1>3, <1>4 DEF Turns

\* The dump leaves the ring buffer disabled and not being cleared.
LEMMA RingTurns ==
    ASSUME NEW k, NEW H, NEW r \in Rings, NEW x \in Clean(r)
    PROVE  Turns(k, H, r, dumpRing(r), x, x \ {"enable", "clear"})
<1>1. r \in Known /\ "enable" \in RegVal(r) \ Loss /\ "clear" \in RegVal(r) \ Loss
  BY FlagFacts
<1>2. \A y \in Clean(r), b \in BOOLEAN : Turns(k, H, r, enable(r, b), y, Flip(y, "enable", b)) /\ Flip(y, "enable", b) \in Clean(r)
  BY <1>1, RmwTurns, FlipClean DEF enable
<1>3. \A y \in Clean(r) : Turns(k, H, r, clear(r), y, y \ {"clear"}) /\ y \ {"clear"} \in Clean(r)
  BY <1>1, PulseTurns DEF clear, Clean
<1> DEFINE x1 == Flip(x, "enable", FALSE)
           x2 == x1 \ {"clear"}
           x3 == Flip(x2, "enable", TRUE)
           x4 == Flip(x3, "enable", FALSE)
<1>4. x4 = x \ {"enable", "clear"}
  BY DEF Flip
<1> HIDE DEF x1, x2, x3, x4
<1>5. Turns(k, H, r, enable(r, FALSE), x, x1) /\ x1 \in Clean(r)
  BY <1>2 DEF x1
<1>6. Turns(k, H, r, clear(r), x1, x2) /\ x2 \in Clean(r)
  BY <1>3, <1>5 DEF x2
<1>7. Turns(k, H, r, enable(r, TRUE), x2, x3) /\ x3 \in Clean(r)
  BY <1>2, <1>6 DEF x3
<1>8. Turns(k, H, r, enable(r, FALSE), x3, x4)
  BY <1>2, <1>7 DEF x4
<1>9. Turns(k, H, r, enable(r, FALSE) \o clear(r), x, x2)
  BY <1>5, <1>6, TurnsThen
<1>10. Turns(k, H, r, enable(r, FALSE) \o clear(r) \o enable(r, TRUE), x, x3)
  BY <1>7, <1>9, TurnsThen
<1>11. Turns(k, H, r, dumpRing(r), x, x4)
  BY <1>8, <1>10, TurnsThen DEF dumpRing
<1>12. QED
  BY <1>4, <1>11

-----------------------------------------------------------------------------
(* Channels and triggers                                                    *)

\* A channel enabled or set free of events, and set to send if it is to.
LEMMA SetBrings ==
    ASSUME NEW k, NEW g, NEW H, NEW c \in Channels, NEW val \in SUBSET {"enable", "dma"},
           "dma" \in val => c \in Trigged
    PROVE  Brings(k, Rest(g, H), Set(Control(c), val), Rest(g, H))
<1> DEFINE st == [op |-> "set", reg |-> Control(c), val |-> val]
<1>1. st.op = "set" /\ st.reg = Control(c) /\ st.val = val /\ Set(Control(c), val) = <<st>>
  BY DEF Set
<1> HIDE DEF st
<1>2. Control(c) \notin Known /\ Control(c) \in FlagRegs /\ CSR \in Known
  BY RegFacts, FlagFacts
<1>3. ASSUME NEW l \in Rest(g, H) PROVE Safe(k, st, l)
  <2>1. Value(st, l.v) = val /\ val \subseteq RegVal(Control(c))
    BY <1>1, <1>2, FlagFacts DEF Value, RegVal, Bits
  <2>2. SafeWrite(k, st, l, val)
    BY <1>1, <1>2, <2>1 DEF SafeWrite
  <2>3. QED
    BY <1>1, <1>2, <2>1, <2>2 DEF Safe
<1>4. ASSUME NEW l \in Rest(g, H), NEW m \in Local, Does(st, l, m) PROVE m \in Rest(g, H)
  <2>1. m.reg = l.reg /\ m.held = l.held
    BY <1>1, <1>2, <1>4 DEF Does
  <2>2. QED
    BY <2>1, RestIs DEF Rest
<1>5. st.op # "open"
  BY <1>1
<1>6. QED
  BY <1>1, <1>3, <1>4, <1>5, RestStable, OneStep

\* Every trigger in S has all of the setting s, and is on.
Wrote(S, s) == {l \in Local : \A t \in S : \A f \in Fields : l.trig[Trigger(f, t)] = s}

LEMMA WroteStable ==
    ASSUME NEW P, Stable(P), NEW S, NEW s
    PROVE  Stable(P \cap Wrote(S, s)) /\ P \cap Wrote({}, s) = P
<1>1. ASSUME NEW l \in P PROVE l \in Local /\ Lost(l) \in P /\ Lost(l).trig = l.trig /\ Lost(l) \in Local
  BY LostLocal DEF Stable
<1>2. QED
  BY <1>1 DEF Stable, Wrote

\* Steps that set no trigger leave the triggers as they are.
NoTrig(s) == \A i \in 1 .. Len(s) : s[i].op # "settrig"

LEMMA Frame ==
    ASSUME NEW k, NEW P, NEW s, NEW Q, Brings(k, P, s, Q), NoTrig(s), NEW S, NEW x
    PROVE  Brings(k, P \cap Wrote(S, x), s, Q \cap Wrote(S, x))
<1> DEFINE W == Wrote(S, x)
<1>1. PICK A : Outline(k, s, A) /\ P \subseteq A[1] /\ A[Len(s) + 1] \subseteq Q
  BY DEF Brings
<1>2. IsSeq(s) /\ Stable(P) /\ Stable(Q)
  BY DEF Brings
<1>3. PICK n \in Nat : n = Len(s)
  BY <1>2, Concat
<1> DEFINE B == [i \in 1 .. (n + 1) |-> A[i] \cap W]
<1>4. \A i \in 1 .. (n + 1) : B[i] = A[i] \cap W
  OBVIOUS
<1> HIDE DEF B
<1>5. /\ \A i \in 1 .. (n + 1) : Stable(A[i])
      /\ \A i \in 1 .. n : \A l \in A[i] :
           Safe(k, s[i], l) /\ \A m \in Local : Does(s[i], l, m) => m \in A[i + 1]
      /\ \A i \in 1 .. n : s[i].op = "open" =>
           s[i].skip \in Nat /\ i + 1 + s[i].skip \in 1 .. (n + 1) /\ A[i] \subseteq A[i + 1 + s[i].skip]
  BY <1>1, <1>3 DEF Outline
<1>6. \A i \in 1 .. (n + 1) : Stable(B[i])
  BY <1>4, <1>5, WroteStable
<1>7. ASSUME NEW i \in 1 .. n PROVE i \in 1 .. (n + 1) /\ i + 1 \in 1 .. (n + 1)
  OBVIOUS
<1>8. ASSUME NEW i \in 1 .. n, NEW l \in B[i]
      PROVE  Safe(k, s[i], l) /\ \A m \in Local : Does(s[i], l, m) => m \in B[i + 1]
  <2>1. l \in A[i] /\ l \in W
    BY <1>4, <1>7, <1>8
  <2>2. ASSUME NEW m \in Local, Does(s[i], l, m) PROVE m \in W
    <3>1. m.trig = l.trig
      BY <1>3, <2>2 DEF Does, NoTrig
    <3>2. QED
      BY <2>1, <3>1 DEF Wrote
  <2>3. QED
    BY <1>4, <1>5, <1>7, <2>1, <2>2
<1>9. ASSUME NEW i \in 1 .. n, s[i].op = "open"
      PROVE  s[i].skip \in Nat /\ i + 1 + s[i].skip \in 1 .. (n + 1) /\ B[i] \subseteq B[i + 1 + s[i].skip]
  <2> DEFINE j == i + 1 + s[i].skip
  <2>1. s[i].skip \in Nat /\ j \in 1 .. (n + 1) /\ A[i] \subseteq A[j]
    BY <1>5, <1>9
  <2> HIDE DEF j
  <2>2. B[i] \subseteq B[j]
    BY <1>4, <1>7, <2>1
  <2>3. QED
    BY <2>1, <2>2 DEF j
<1>10. Outline(k, s, B)
  BY <1>3, <1>6, <1>8, <1>9 DEF Outline
<1>11. P \cap W \subseteq B[1] /\ B[Len(s) + 1] \subseteq Q \cap W
  <2>1. 1 \in 1 .. (n + 1) /\ n + 1 \in 1 .. (n + 1)
    OBVIOUS
  <2>2. QED
    BY <1>1, <1>3, <1>4, <2>1
<1>12. Stable(P \cap W) /\ Stable(Q \cap W)
  BY <1>2, WroteStable
<1>13. QED
  BY <1>2, <1>10, <1>11, <1>12 DEF Brings

\* What a program knows of the trigger t while it sets it: the control and the
\* registers F of it; and that the triggers in S apart from it are set.
Part(g, H, S, t, s, F, o) ==
    {l \in Rest(g, H) \cap Wrote(S \ {t}, s) :
       l.trig[Trigger("trigger", t)] = o /\ \A f \in F : l.trig[Trigger(f, t)] = s}

LEMMA PartStable ==
    ASSUME NEW g, NEW H, NEW S, NEW t, NEW s, NEW F, NEW o
    PROVE  Stable(Part(g, H, S, t, s, F, o))
<1>1. ASSUME NEW l \in Rest(g, H) PROVE l \in Local /\ Lost(l) \in Local /\ Lost(l) \in Rest(g, H) /\ Lost(l).trig = l.trig
  BY RestIs, RestStable, LostLocal DEF Stable
<1>2. QED
  BY <1>1 DEF Stable, Part, Wrote

\* One write of a trigger's register.
LEMMA SetTrigBrings ==
    ASSUME NEW k, NEW P, NEW Q, NEW g, NEW H, NEW f \in Fields, NEW t \in Triggers, NEW s \in Settings,
           Stable(P), Stable(Q), P \subseteq Rest(g, H),
           \A l \in P : Whole([l.trig EXCEPT ![Trigger(f, t)] = s]),
           \A m \in Rest(g, H) : (\E l \in P : m.trig = [l.trig EXCEPT ![Trigger(f, t)] = s]) => m \in Q
    PROVE  Brings(k, P, SetTrig(Trigger(f, t), s), Q)
<1> DEFINE st == [op |-> "settrig", reg |-> Trigger(f, t), val |-> s]
<1>1. st.op = "settrig" /\ st.reg = Trigger(f, t) /\ st.val = s /\ SetTrig(Trigger(f, t), s) = <<st>>
  BY DEF SetTrig
<1>2. Trigger(f, t) \in TrigRegs
  BY DEF TrigRegs
<1> HIDE DEF st
<1>3. ASSUME NEW l \in P PROVE Safe(k, st, l)
  <2>1. Whole([l.trig EXCEPT ![st.reg] = st.val])
    BY <1>1
  <2>2. QED
    BY <1>1, <1>2, <2>1 DEF Safe, Writes
<1>4. ASSUME NEW l \in P, NEW m \in Local, Does(st, l, m) PROVE m \in Q
  <2>1. m.reg = l.reg /\ m.held = l.held /\ m.trig = [l.trig EXCEPT ![Trigger(f, t)] = s]
    BY <1>1, <1>4 DEF Does, Writes
  <2>2. l \in Rest(g, H)
    OBVIOUS
  <2>3. m \in Rest(g, H)
    BY <2>1, <2>2, RestIs DEF Rest
  <2>4. QED
    BY <2>1, <2>3
<1>5. st.op # "open"
  BY <1>1
<1>6. QED
  BY <1>1, <1>3, <1>4, <1>5, OneStep

\* The registers of triggers are distinct.
LEMMA TrigFacts ==
    /\ \A f \in Fields, t \in Triggers : Trigger(f, t) \in TrigRegs
    /\ \A f, q \in Fields, t, u \in Triggers : Trigger(f, t) = Trigger(q, u) => f = q /\ t = u
    /\ Fields = {"trigger", "delay", "width", "delayTap"} /\ "off" \in Settings
BY DEF TrigRegs, Fields, Trigger, Settings

\* What a write of one register leaves of the others.
OnlySets(h, e, f, t, x) ==
    /\ e[Trigger(f, t)] = x
    /\ \A q \in Fields, u \in Triggers : (q # f \/ u # t) => e[Trigger(q, u)] = h[Trigger(q, u)]

LEMMA TrigWritten ==
    ASSUME NEW l \in Local, NEW f \in Fields, NEW t \in Triggers, NEW x
    PROVE  OnlySets(l.trig, [l.trig EXCEPT ![Trigger(f, t)] = x], f, t, x)
<1> DEFINE e == [l.trig EXCEPT ![Trigger(f, t)] = x]
<1>1. l.trig \in [TrigRegs -> Settings] /\ Trigger(f, t) \in TrigRegs
  BY LocalType, TrigFacts
<1>2. \A r \in TrigRegs : e[r] = IF r = Trigger(f, t) THEN x ELSE l.trig[r]
  BY <1>1
<1> HIDE DEF e
<1>3. ASSUME NEW q \in Fields, NEW u \in Triggers, q # f \/ u # t PROVE e[Trigger(q, u)] = l.trig[Trigger(q, u)]
  <2>1. Trigger(q, u) \in TrigRegs /\ Trigger(q, u) # Trigger(f, t)
    BY <1>3, TrigFacts
  <2>2. QED
    BY <1>2, <2>1
<1>4. OnlySets(l.trig, e, f, t, x)
  BY <1>1, <1>2, <1>3 DEF OnlySets
<1>5. QED
  BY <1>4 DEF e

\* A trigger stays whole when it is turned off; when it is off; when it is
\* turned on with the setting it has; and when it is on and gets its own tap.
LEMMA StaysWhole ==
    ASSUME NEW l \in Local, NEW f \in Fields, NEW t \in Triggers, NEW x,
           \/ f = "trigger" /\ x = "off"
           \/ f # "trigger" /\ l.trig[Trigger("trigger", t)] = "off"
           \/ /\ f = "trigger" /\ l.trig[Trigger("delay", t)] = x /\ l.trig[Trigger("width", t)] = x
              /\ x \in TestSettings \/ l.trig[Trigger("delayTap", t)] = x
           \/ f = "delayTap" /\ l.trig[Trigger("trigger", t)] = x
    PROVE  Whole([l.trig EXCEPT ![Trigger(f, t)] = x])
<1> DEFINE e == [l.trig EXCEPT ![Trigger(f, t)] = x]
           OK(h, u) == LET s == h[Trigger("trigger", u)]
                       IN s # "off" => /\ h[Trigger("delay", u)] = s /\ h[Trigger("width", u)] = s
                                       /\ s \in TestSettings \/ h[Trigger("delayTap", u)] = s
<1>1. /\ e[Trigger(f, t)] = x
      /\ \A q \in Fields, u \in Triggers : (q # f \/ u # t) => e[Trigger(q, u)] = l.trig[Trigger(q, u)]
  <2>1. OnlySets(l.trig, e, f, t, x)
    BY TrigWritten
  <2>2. QED
    BY <2>1 DEF OnlySets
<1>2. \A u \in Triggers : OK(l.trig, u)
  BY LocalType DEF Whole
<1> HIDE DEF e
<1>3. ASSUME NEW u \in Triggers, u # t PROVE OK(e, u)
  <2>1. \A q \in Fields : e[Trigger(q, u)] = l.trig[Trigger(q, u)]
    BY <1>1, <1>3
  <2>2. OK(l.trig, u)
    BY <1>2
  <2>3. QED
    BY <2>1, <2>2, TrigFacts
<1>4. OK(e, t)
  <2>1. \A q \in Fields : q # f => e[Trigger(q, t)] = l.trig[Trigger(q, t)]
    BY <1>1
  <2>2. OK(l.trig, t)
    BY <1>2
  <2>3. CASE f = "trigger" /\ x = "off"
    BY <1>1, <2>3
  <2>4. CASE f # "trigger" /\ l.trig[Trigger("trigger", t)] = "off"
    BY <2>1, <2>4, TrigFacts
  <2>5. CASE /\ f = "trigger" /\ l.trig[Trigger("delay", t)] = x /\ l.trig[Trigger("width", t)] = x
             /\ x \in TestSettings \/ l.trig[Trigger("delayTap", t)] = x
    BY <1>1, <2>1, <2>5, TrigFacts
  <2>6. CASE f = "delayTap" /\ l.trig[Trigger("trigger", t)] = x
    BY <1>1, <2>1, <2>2, <2>6, TrigFacts
  <2>7. QED
    BY <2>3, <2>4, <2>5, <2>6
<1>5. \A u \in Triggers : OK(e, u)
  BY <1>3, <1>4
<1>6. QED
  BY <1>5 DEF Whole, e

\* A write of one trigger leaves the others set.
LEMMA OthersWrote ==
    ASSUME NEW l \in Local, NEW f \in Fields, NEW t \in Triggers, NEW x, NEW m \in Local,
           m.trig = [l.trig EXCEPT ![Trigger(f, t)] = x], NEW S \in SUBSET Triggers, NEW s, l \in Wrote(S \ {t}, s)
    PROVE  m \in Wrote(S \ {t}, s)
<1>1. \A q \in Fields, u \in Triggers : (q # f \/ u # t) => m.trig[Trigger(q, u)] = l.trig[Trigger(q, u)]
  <2>1. OnlySets(l.trig, m.trig, f, t, x)
    BY TrigWritten
  <2>2. QED
    BY <2>1 DEF OnlySets
<1>2. \A u \in S \ {t} : u \in Triggers /\ u # t
  OBVIOUS
<1>3. QED
  BY <1>1, <1>2 DEF Wrote

\* The trigger is turned off.
LEMMA OffBrings ==
    ASSUME NEW k, NEW g, NEW H, NEW S \in SUBSET Triggers, NEW t \in Triggers, NEW s
    PROVE  Brings(k, Rest(g, H) \cap Wrote(S, s), SetTrig(Trigger("trigger", t), "off"), Part(g, H, S, t, s, {}, "off"))
<1> DEFINE P == Rest(g, H) \cap Wrote(S, s)
           Q == Part(g, H, S, t, s, {}, "off")
<1>1. \A l \in P : l \in Rest(g, H) /\ l \in Local /\ l \in Wrote(S \ {t}, s)
  BY RestIs DEF Wrote
<1>2. Stable(P) /\ Stable(Q) /\ P \subseteq Rest(g, H)
  BY RestStable, WroteStable, PartStable
<1>3. "trigger" \in Fields /\ "off" \in Settings
  BY TrigFacts
<1> HIDE DEF P
<1>4. \A l \in P : Whole([l.trig EXCEPT ![Trigger("trigger", t)] = "off"])
  BY <1>1, <1>3, StaysWhole
<1>5. ASSUME NEW m \in Rest(g, H), NEW l \in P, m.trig = [l.trig EXCEPT ![Trigger("trigger", t)] = "off"]
      PROVE  m \in Q
  <2>1. m \in Local /\ l \in Local
    BY <1>1, RestIs
  <2>2. m \in Wrote(S \ {t}, s)
    BY <1>1, <1>3, <1>5, <2>1, OthersWrote
  <2>3. m.trig[Trigger("trigger", t)] = "off"
    <3>1. OnlySets(l.trig, m.trig, "trigger", t, "off")
      BY <1>3, <1>5, <2>1, TrigWritten
    <3>2. QED
      BY <3>1 DEF OnlySets
  <2>4. QED
    BY <2>2, <2>3 DEF Part
<1> HIDE DEF Q
<1>6. Brings(k, P, SetTrig(Trigger("trigger", t), "off"), Q)
  BY <1>2, <1>3, <1>4, <1>5, SetTrigBrings
<1>7. QED
  BY <1>6 DEF P, Q

\* Another register of it is written: while it is off, or the tap of what it is
\* on with.
LEMMA FieldBrings ==
    ASSUME NEW k, NEW g, NEW H, NEW S \in SUBSET Triggers, NEW t \in Triggers, NEW s \in Settings,
           NEW F \in SUBSET Fields, NEW o, NEW f \in Fields, f # "trigger", o = "off" \/ (f = "delayTap" /\ o = s)
    PROVE  Brings(k, Part(g, H, S, t, s, F, o), SetTrig(Trigger(f, t), s), Part(g, H, S, t, s, F \cup {f}, o))
<1> DEFINE P == Part(g, H, S, t, s, F, o)
           Q == Part(g, H, S, t, s, F \cup {f}, o)
<1>1. \A l \in P : /\ l \in Rest(g, H) /\ l \in Local /\ l \in Wrote(S \ {t}, s)
                   /\ l.trig[Trigger("trigger", t)] = o /\ \A q \in F : l.trig[Trigger(q, t)] = s
  BY RestIs DEF Part
<1>2. Stable(P) /\ Stable(Q) /\ P \subseteq Rest(g, H)
  BY <1>1, PartStable
<1> HIDE DEF P
<1>3. \A l \in P : Whole([l.trig EXCEPT ![Trigger(f, t)] = s])
  BY <1>1, StaysWhole
<1>4. ASSUME NEW m \in Rest(g, H), NEW l \in P, m.trig = [l.trig EXCEPT ![Trigger(f, t)] = s]
      PROVE  m \in Q
  <2>1. m \in Local /\ l \in Local
    BY <1>1, RestIs
  <2>2. m \in Wrote(S \ {t}, s)
    BY <1>1, <1>4, <2>1, OthersWrote
  <2>3. m.trig[Trigger(f, t)] = s /\ \A q \in Fields : q # f => m.trig[Trigger(q, t)] = l.trig[Trigger(q, t)]
    <3>1. OnlySets(l.trig, m.trig, f, t, s)
      BY <1>4, <2>1, TrigWritten
    <3>2. QED
      BY <3>1 DEF OnlySets
  <2>4. m.trig[Trigger("trigger", t)] = o /\ \A q \in F \cup {f} : m.trig[Trigger(q, t)] = s
    BY <1>1, <2>3, TrigFacts
  <2>5. QED
    BY <2>2, <2>4 DEF Part
<1> HIDE DEF Q
<1>5. Brings(k, P, SetTrig(Trigger(f, t), s), Q)
  BY <1>2, <1>3, <1>4, SetTrigBrings
<1>6. QED
  BY <1>5 DEF P, Q

\* The trigger is turned on, with its tap or, if tprtest does it, without.
LEMMA OnBrings ==
    ASSUME NEW k, NEW g, NEW H, NEW S \in SUBSET Triggers, NEW t \in Triggers, NEW s \in Settings,
           NEW F \in SUBSET (Fields \ {"trigger"}), "delay" \in F, "width" \in F, s \in TestSettings \/ "delayTap" \in F
    PROVE  Brings(k, Part(g, H, S, t, s, F, "off"), SetTrig(Trigger("trigger", t), s), Part(g, H, S, t, s, F, s))
<1> DEFINE P == Part(g, H, S, t, s, F, "off")
           Q == Part(g, H, S, t, s, F, s)
<1>1. \A l \in P : /\ l \in Rest(g, H) /\ l \in Local /\ l \in Wrote(S \ {t}, s) /\ \A q \in F : l.trig[Trigger(q, t)] = s
  BY RestIs DEF Part
<1>2. Stable(P) /\ Stable(Q) /\ P \subseteq Rest(g, H)
  BY <1>1, PartStable
<1>3. "trigger" \in Fields /\ \A q \in F : q \in Fields /\ q # "trigger"
  BY TrigFacts
<1> HIDE DEF P
<1>4. \A l \in P : Whole([l.trig EXCEPT ![Trigger("trigger", t)] = s])
  BY <1>1, <1>3, StaysWhole
<1>5. ASSUME NEW m \in Rest(g, H), NEW l \in P, m.trig = [l.trig EXCEPT ![Trigger("trigger", t)] = s]
      PROVE  m \in Q
  <2>1. m \in Local /\ l \in Local
    BY <1>1, RestIs
  <2>2. m \in Wrote(S \ {t}, s)
    BY <1>1, <1>3, <1>5, <2>1, OthersWrote
  <2>3. m.trig[Trigger("trigger", t)] = s /\ \A q \in F : m.trig[Trigger(q, t)] = l.trig[Trigger(q, t)]
    <3>1. OnlySets(l.trig, m.trig, "trigger", t, s)
      BY <1>3, <1>5, <2>1, TrigWritten
    <3>2. QED
      BY <1>3, <3>1 DEF OnlySets
  <2>4. \A q \in F : m.trig[Trigger(q, t)] = s
    BY <1>1, <2>3
  <2>5. QED
    BY <2>2, <2>3, <2>4 DEF Part
<1> HIDE DEF Q
<1>6. Brings(k, P, SetTrig(Trigger("trigger", t), s), Q)
  BY <1>2, <1>3, <1>4, <1>5, SetTrigBrings
<1>7. QED
  BY <1>6 DEF P, Q

\* A trigger that is on and has the other registers too is one of those set.
LEMMA PartAll ==
    ASSUME NEW g, NEW H, NEW S \in SUBSET Triggers, NEW t \in Triggers, NEW s, NEW F, Fields \ {"trigger"} \subseteq F
    PROVE  Part(g, H, S, t, s, F, s) \subseteq Rest(g, H) \cap Wrote(S \cup {t}, s)
<1>1. ASSUME NEW l \in Part(g, H, S, t, s, F, s) PROVE l \in Rest(g, H) \cap Wrote(S \cup {t}, s)
  <2>1. /\ l \in Rest(g, H) /\ l \in Local /\ l \in Wrote(S \ {t}, s)
        /\ l.trig[Trigger("trigger", t)] = s /\ \A f \in F : l.trig[Trigger(f, t)] = s
    BY <1>1, RestIs DEF Part
  <2>2. \A f \in Fields : l.trig[Trigger(f, t)] = s
    BY <2>1
  <2>3. \A u \in S \cup {t} : u \in S \ {t} \/ u = t
    OBVIOUS
  <2>4. \A u \in S \cup {t} : \A f \in Fields : l.trig[Trigger(f, u)] = s
    BY <2>1, <2>2, <2>3 DEF Wrote
  <2>5. QED
    BY <2>1, <2>4 DEF Wrote
<1>2. QED
  BY <1>1

\* tprtest sets a trigger: the tap comes last, to a trigger that is on.
LEMMA SetupBrings ==
    ASSUME NEW k, NEW g, NEW H, NEW S \in SUBSET Triggers, NEW t \in Triggers, NEW s \in TestSettings
    PROVE  Brings(k, Rest(g, H) \cap Wrote(S, s), setupTrigger(t, s), Rest(g, H) \cap Wrote(S \cup {t}, s))
<1> DEFINE off == SetTrig(Trigger("trigger", t), "off")
           delay == SetTrig(Trigger("delay", t), s)
           width == SetTrig(Trigger("width", t), s)
           tap == SetTrig(Trigger("delayTap", t), s)
           on == SetTrig(Trigger("trigger", t), s)
           P == Rest(g, H) \cap Wrote(S, s)
           A(F, o) == Part(g, H, S, t, s, F, o)
           F1 == {} \cup {"delay"}
           F2 == F1 \cup {"width"}
           F3 == F2 \cup {"delayTap"}
           Q == Rest(g, H) \cap Wrote(S \cup {t}, s)
<1>1. setupTrigger(t, s) = off \o (((delay \o width) \o on) \o tap)
  BY DEF setupTrigger, setupTriggerX
<1>2. s \in Settings /\ F1 \in SUBSET Fields /\ F2 \in SUBSET Fields /\ {} \in SUBSET Fields
      /\ F2 \in SUBSET (Fields \ {"trigger"}) /\ Fields \ {"trigger"} \subseteq F3
      /\ "delay" \in Fields /\ "width" \in Fields /\ "delayTap" \in Fields
      /\ "delay" \in F2 /\ "width" \in F2
  BY TrigFacts DEF Settings
<1>3. Brings(k, P, off, A({}, "off"))
  BY OffBrings
<1>4. Brings(k, A({}, "off"), delay, A(F1, "off"))
  BY <1>2, FieldBrings
<1>5. Brings(k, A(F1, "off"), width, A(F2, "off"))
  BY <1>2, FieldBrings
<1>6. Brings(k, A(F2, "off"), on, A(F2, s))
  BY <1>2, OnBrings
<1>7. Brings(k, A(F2, s), tap, A(F3, s))
  BY <1>2, FieldBrings
<1>8. A(F3, s) \subseteq Q
  BY <1>2, PartAll
<1>9. Stable(Q)
  BY RestStable, WroteStable
<1> HIDE DEF off, delay, width, tap, on, P, A, F1, F2, F3, Q
<1>10. Brings(k, A({}, "off"), delay \o width, A(F2, "off"))
  BY <1>4, <1>5, Then
<1>11. Brings(k, A({}, "off"), (delay \o width) \o on, A(F2, s))
  BY <1>6, <1>10, Then
<1>12. Brings(k, A({}, "off"), ((delay \o width) \o on) \o tap, A(F3, s))
  BY <1>7, <1>11, Then
<1>13. Brings(k, P, setupTrigger(t, s), A(F3, s))
  BY <1>1, <1>3, <1>12, Then
<1>14. Brings(k, P, setupTrigger(t, s), Q)
  <2>1. Stable(P)
    BY <1>13 DEF Brings
  <2>2. QED
    BY <1>8, <1>9, <1>13, <2>1, Weaken
<1>15. QED
  BY <1>14 DEF P, Q

\* tprtrig sets one: the tap comes while the trigger is off.
LEMMA SetTriggerBrings ==
    ASSUME NEW k, NEW g, NEW H, NEW S \in SUBSET Triggers, NEW t \in Triggers, t \in Trigged, NEW s \in Settings
    PROVE  Brings(k, Rest(g, H) \cap Wrote(S, s), set_trigger(t, s), Rest(g, H) \cap Wrote(S \cup {t}, s))
<1> DEFINE dma == Set(Control(t), {"enable", "dma"})
           off == SetTrig(Trigger("trigger", t), "off")
           delay == SetTrig(Trigger("delay", t), s)
           tap == SetTrig(Trigger("delayTap", t), s)
           width == SetTrig(Trigger("width", t), s)
           on == SetTrig(Trigger("trigger", t), s)
           P == Rest(g, H) \cap Wrote(S, s)
           A(F, o) == Part(g, H, S, t, s, F, o)
           F1 == {} \cup {"delay"}
           F2 == F1 \cup {"delayTap"}
           F3 == F2 \cup {"width"}
           Q == Rest(g, H) \cap Wrote(S \cup {t}, s)
<1>1. set_trigger(t, s) = ((((dma \o off) \o delay) \o tap) \o width) \o on
  BY DEF set_trigger
<1>2. /\ F1 \in SUBSET Fields /\ F2 \in SUBSET Fields /\ {} \in SUBSET Fields
      /\ F3 \in SUBSET (Fields \ {"trigger"}) /\ Fields \ {"trigger"} \subseteq F3
      /\ "delay" \in Fields /\ "width" \in Fields /\ "delayTap" \in Fields
      /\ "delay" \in F3 /\ "width" \in F3 /\ "delayTap" \in F3
  BY TrigFacts
<1>3. Brings(k, P, dma, P)
  <2>1. t \in Channels /\ {"enable", "dma"} \in SUBSET {"enable", "dma"}
    BY RunAssumption
  <2>2. Brings(k, Rest(g, H), dma, Rest(g, H))
    BY <2>1, SetBrings
  <2>3. NoTrig(dma)
    BY DEF NoTrig, Set
  <2>4. QED
    BY <2>2, <2>3, Frame
<1>4. Brings(k, P, off, A({}, "off"))
  BY OffBrings
<1>5. Brings(k, A({}, "off"), delay, A(F1, "off"))
  BY <1>2, FieldBrings
<1>6. Brings(k, A(F1, "off"), tap, A(F2, "off"))
  BY <1>2, FieldBrings
<1>7. Brings(k, A(F2, "off"), width, A(F3, "off"))
  BY <1>2, FieldBrings
<1>8. Brings(k, A(F3, "off"), on, A(F3, s))
  BY <1>2, OnBrings
<1>9. A(F3, s) \subseteq Q
  BY <1>2, PartAll
<1>10. Stable(P) /\ Stable(Q)
  BY RestStable, WroteStable
<1> HIDE DEF dma, off, delay, width, tap, on, P, A, F1, F2, F3, Q
<1>11. Brings(k, P, dma \o off, A({}, "off"))
  BY <1>3, <1>4, Then
<1>12. Brings(k, P, (dma \o off) \o delay, A(F1, "off"))
  BY <1>5, <1>11, Then
<1>13. Brings(k, P, ((dma \o off) \o delay) \o tap, A(F2, "off"))
  BY <1>6, <1>12, Then
<1>14. Brings(k, P, (((dma \o off) \o delay) \o tap) \o width, A(F3, "off"))
  BY <1>7, <1>13, Then
<1>15. Brings(k, P, set_trigger(t, s), A(F3, s))
  BY <1>1, <1>8, <1>14, Then
<1>16. Brings(k, P, set_trigger(t, s), Q)
  BY <1>9, <1>10, <1>15, Weaken
<1>17. QED
  BY <1>16 DEF P, Q

\* An open of channel 0 which, when it fails, leaves out all of a list that is
\* done with the file it gives.
LEMMA OpenBrings ==
    ASSUME NEW k, NEW P, NEW P1, NEW Q, NEW s, Brings(k, P1, s, Q), Stable(P), P \subseteq Q,
           \A l \in P : l.held <= 1,
           \A l \in P : \A m \in Local : m.reg = l.reg /\ m.v = l.v /\ m.held = l.held + 1 => m \in P1
    PROVE  Brings(k, P, Open(0, Len(s)) \o s, Q)
<1>1. PICK B : Outline(k, s, B) /\ P1 \subseteq B[1] /\ B[Len(s) + 1] \subseteq Q
  BY DEF Brings
<1>2. IsSeq(s) /\ Stable(Q)
  BY DEF Brings
<1>3. PICK n \in Nat : n = Len(s)
  BY <1>2, Concat
<1> DEFINE st == [op |-> "open", channel |-> 0, skip |-> n]
           o == <<st>>
           u == o \o s
           C == [i \in 1 .. (n + 2) |-> IF i = 1 THEN P ELSE IF i = n + 2 THEN Q ELSE B[i - 1]]
<1>4. st.op = "open" /\ st.channel = 0 /\ st.skip = n /\ Open(0, Len(s)) = o
  BY <1>3 DEF Open
<1>5. IsSeq(o) /\ Len(o) = 1 /\ o[1] = st
  <2>1. o \in Seq({st})
    OBVIOUS
  <2>2. QED
    BY <2>1 DEF IsSeq
<1> HIDE DEF st, o
<1>6. IsSeq(u) /\ Len(u) = n + 1 /\ u[1] = st /\ \A i \in 2 .. (n + 1) : u[i] = s[i - 1]
  <2>1. /\ IsSeq(o \o s) /\ Len(o \o s) = Len(o) + Len(s)
        /\ \A i \in 1 .. Len(o) : (o \o s)[i] = o[i]
        /\ \A i \in (Len(o) + 1) .. (Len(o) + Len(s)) : (o \o s)[i] = s[i - Len(o)]
    BY <1>2, <1>5, Concat
  <2> HIDE DEF u
  <2>2. /\ IsSeq(u) /\ Len(u) = 1 + n /\ u[1] = o[1]
        /\ \A i \in (1 + 1) .. (1 + n) : u[i] = s[i - 1]
    BY <1>3, <1>5, <2>1 DEF u
  <2>3. QED
    BY <1>5, <2>2
<1> HIDE DEF u
<1>7. C[1] = P /\ C[n + 2] = Q /\ \A i \in 2 .. (n + 1) : C[i] = B[i - 1]
  OBVIOUS
<1> HIDE DEF C
<1>8. /\ \A i \in 1 .. (n + 1) : Stable(B[i])
      /\ \A i \in 1 .. n : \A l \in B[i] :
           Safe(k, s[i], l) /\ \A m \in Local : Does(s[i], l, m) => m \in B[i + 1]
      /\ \A i \in 1 .. n : s[i].op = "open" =>
           s[i].skip \in Nat /\ i + 1 + s[i].skip \in 1 .. (n + 1) /\ B[i] \subseteq B[i + 1 + s[i].skip]
  BY <1>1, <1>3 DEF Outline
<1>9. \A j \in 1 .. (n + 1) : B[j] \subseteq C[j + 1]
  <2>1. ASSUME NEW j \in 1 .. n PROVE B[j] \subseteq C[j + 1]
    <3>1. j + 1 \in 2 .. (n + 1) /\ j + 1 - 1 = j
      BY <2>1
    <3>2. QED
      BY <1>7, <3>1
  <2>2. B[n + 1] \subseteq C[n + 2]
    BY <1>1, <1>3, <1>7
  <2>3. \A j \in 1 .. (n + 1) : j \in 1 .. n \/ (j = n + 1 /\ j + 1 = n + 2)
    OBVIOUS
  <2>4. QED
    BY <2>1, <2>2, <2>3
<1>10. ASSUME NEW i \in 1 .. (n + 2) PROVE Stable(C[i])
  <2>1. i = 1 \/ i = n + 2 \/ i \in 2 .. (n + 1)
    OBVIOUS
  <2>2. i \in 2 .. (n + 1) => i - 1 \in 1 .. (n + 1)
    OBVIOUS
  <2>3. QED
    BY <1>2, <1>7, <1>8, <2>1, <2>2
<1>11. ASSUME NEW i \in 1 .. (n + 1)
       PROVE  /\ \A l \in C[i] : Safe(k, u[i], l) /\ \A m \in Local : Does(u[i], l, m) => m \in C[i + 1]
              /\ u[i].op = "open" =>
                   u[i].skip \in Nat /\ i + 1 + u[i].skip \in 1 .. (n + 2) /\ C[i] \subseteq C[i + 1 + u[i].skip]
  <2>1. CASE i = 1
    <3>1. u[i] = st /\ C[i] = P /\ i + 1 = 2
      BY <1>6, <1>7, <2>1
    <3>2. P1 \subseteq C[2]
      <4>1. 1 \in 1 .. (n + 1) /\ 1 + 1 = 2
        OBVIOUS
      <4>2. B[1] \subseteq C[2]
        BY <1>9, <4>1
      <4>3. QED
        BY <1>1, <4>2
    <3>3. ASSUME NEW l \in P PROVE Safe(k, st, l)
      BY <1>4, <3>3 DEF Safe, Writes
    <3>4. ASSUME NEW l \in P, NEW m \in Local, Does(st, l, m) PROVE m \in C[2]
      <4>1. m.reg = l.reg /\ m.v = l.v /\ m.held = l.held + 1
        BY <1>4, <3>4 DEF Does, Writes
      <4>2. QED
        BY <3>2, <4>1
    <3>5. st.skip \in Nat /\ 1 + 1 + st.skip = n + 2 /\ n + 2 \in 1 .. (n + 2) /\ P \subseteq C[n + 2]
      BY <1>4, <1>7
    <3>6. QED
      BY <2>1, <3>1, <3>3, <3>4, <3>5
  <2>2. CASE i # 1
    <3>1. PICK j \in 1 .. n : i = j + 1
      <4>1. i - 1 \in 1 .. n /\ i = i - 1 + 1
        BY <2>2
      <4>2. QED
        BY <4>1
    <3>2. i \in 2 .. (n + 1) /\ i - 1 = j /\ j \in 1 .. (n + 1) /\ j + 1 \in 1 .. (n + 1)
      BY <3>1
    <3>3. u[i] = s[j] /\ C[i] = B[j] /\ B[j + 1] \subseteq C[i + 1]
      BY <1>6, <1>7, <1>9, <3>1, <3>2
    <3>4. \A l \in C[i] : Safe(k, u[i], l) /\ \A m \in Local : Does(u[i], l, m) => m \in C[i + 1]
      BY <1>8, <3>3
    <3>5. ASSUME u[i].op = "open"
          PROVE  u[i].skip \in Nat /\ i + 1 + u[i].skip \in 1 .. (n + 2) /\ C[i] \subseteq C[i + 1 + u[i].skip]
      <4> DEFINE w == s[j].skip
                 c == j + 1 + w
      <4>1. w \in Nat /\ c \in 1 .. (n + 1) /\ B[j] \subseteq B[c]
        BY <1>8, <3>3, <3>5
      <4>2. u[i].skip = w /\ c = j + 1 + w
        BY <3>3
      <4> HIDE DEF w, c
      <4>3. i + 1 + w = c + 1 /\ c + 1 \in 1 .. (n + 2)
        BY <3>1, <4>1, <4>2
      <4>4. B[c] \subseteq C[c + 1]
        BY <1>9, <4>1
      <4>5. QED
        BY <3>3, <4>1, <4>2, <4>3, <4>4
    <3>6. QED
      BY <3>4, <3>5
  <2>3. QED
    BY <2>1, <2>2
<1>12. Outline(k, u, C)
  <2>1. Len(u) + 1 = n + 2
    BY <1>6
  <2>2. QED
    BY <1>6, <1>10, <1>11, <2>1 DEF Outline
<1>13. C[Len(u) + 1] = Q
  BY <1>6, <1>7
<1>14. Brings(k, P, u, Q)
  BY <1>2, <1>6, <1>7, <1>12, <1>13 DEF Brings
<1>15. QED
  BY <1>4, <1>14 DEF u

LEMMA Assoc ==
    ASSUME NEW s, NEW t, NEW u, IsSeq(s), IsSeq(t), IsSeq(u)
    PROVE  (s \o t) \o u = s \o (t \o u)
<1>1. PICK S : s \in Seq(S)
  BY DEF IsSeq
<1>2. PICK T : t \in Seq(T)
  BY DEF IsSeq
<1>3. PICK U : u \in Seq(U)
  BY DEF IsSeq
<1>4. s \in Seq(S \cup T \cup U) /\ t \in Seq(S \cup T \cup U) /\ u \in Seq(S \cup T \cup U)
  BY <1>1, <1>2, <1>3
<1>5. QED
  BY <1>4, ConcatAssociative

\* With the control of channel 0 in the local.
Held(g, H) == {l \in Rest(g, H) : l.v \subseteq Bits}

LEMMA HeldStable ==
    ASSUME NEW g, NEW H
    PROVE  Stable(Held(g, H)) /\ Held(g, H) \subseteq Rest(g, H)
<1>1. ASSUME NEW l \in Held(g, H) PROVE Lost(l) \in Held(g, H) /\ l \in Local
  BY RestIs, RestStable, LostLocal DEF Stable, Held
<1>2. QED
  BY <1>1 DEF Stable, Held

LEMMA HeldSteps ==
    ASSUME NEW k, NEW g, NEW h \in {1, 2}, NEW on \in SUBSET {"enable", "dma"}
    PROVE  /\ Brings(k, Rest(g, {h}), Get(Control(0)), Held(g, {h}))
           /\ Brings(k, Held(g, {h}), Set(Control(0), {}), Held(g, {h}))
           /\ Brings(k, Held(g, {h}), Put(Control(0), on, {}), Held(g, {h}))
           /\ Brings(k, Rest(g, {h}), Close(0), Rest(g, {h - 1}))
<1>1. Control(0) \notin Known /\ Control(0) \in FlagRegs /\ RegVal(Control(0)) = Bits /\ CSR \in Known
  BY RegFacts, FlagFacts, RunAssumption DEF RegVal
<1> DEFINE G == [op |-> "get", reg |-> Control(0)]
           S == [op |-> "set", reg |-> Control(0), val |-> {}]
           P == [op |-> "put", reg |-> Control(0), on |-> on, off |-> {}]
           C == [op |-> "close", channel |-> 0]
<1>2. G.op = "get" /\ G.reg = Control(0) /\ Get(Control(0)) = <<G>>
  BY DEF Get
<1>3. S.op = "set" /\ S.reg = Control(0) /\ S.val = {} /\ Set(Control(0), {}) = <<S>>
  BY DEF Set
<1>4. P.op = "put" /\ P.reg = Control(0) /\ P.on = on /\ P.off = {} /\ Put(Control(0), on, {}) = <<P>>
  BY DEF Put
<1>5. C.op = "close" /\ C.channel = 0 /\ Close(0) = <<C>>
  BY DEF Close
<1> HIDE DEF G, S, P, C
<1>6. \A l \in Held(g, {h}) : l \in Rest(g, {h}) /\ l.v \subseteq Bits /\ l.held = h
  BY RestIs DEF Held
<1>7. Brings(k, Rest(g, {h}), <<G>>, Held(g, {h}))
  <2>1. \A l \in Rest(g, {h}) : Safe(k, G, l)
    BY <1>1, <1>2 DEF Safe, Writes
  <2>2. ASSUME NEW l \in Rest(g, {h}), NEW m \in Local, Does(G, l, m) PROVE m \in Held(g, {h})
    <3>1. m.reg = l.reg /\ m.held = l.held /\ m.v \subseteq Bits
      BY <1>1, <1>2, <2>2 DEF Does, Writes
    <3>2. QED
      BY <3>1, RestIs DEF Rest, Held
  <2>3. G.op # "open"
    BY <1>2
  <2>4. QED
    BY <2>1, <2>2, <2>3, RestStable, HeldStable, OneStep
<1>8. Brings(k, Held(g, {h}), <<S>>, Held(g, {h}))
  <2>1. ASSUME NEW l \in Held(g, {h}) PROVE Safe(k, S, l)
    <3>1. SafeWrite(k, S, l, {})
      BY <1>1, <1>3 DEF SafeWrite
    <3>2. Value(S, l.v) = {}
      BY <1>3 DEF Value
    <3>3. QED
      BY <1>1, <1>3, <3>1, <3>2 DEF Safe, Writes
  <2>2. ASSUME NEW l \in Held(g, {h}), NEW m \in Local, Does(S, l, m) PROVE m \in Held(g, {h})
    <3>1. m.reg = l.reg /\ m.held = l.held /\ m.v = l.v
      BY <1>1, <1>3, <2>2 DEF Does, Writes
    <3>2. QED
      BY <1>6, <3>1, RestIs DEF Rest, Held
  <2>3. S.op # "open"
    BY <1>3
  <2>4. QED
    BY <2>1, <2>2, <2>3, HeldStable, OneStep
<1>9. Brings(k, Held(g, {h}), <<P>>, Held(g, {h}))
  <2>1. ASSUME NEW l \in Held(g, {h}) PROVE Safe(k, P, l)
    <3> DEFINE x == (l.v \ {}) \cup on
    <3>1. Value(P, l.v) = x
      BY <1>4 DEF Value
    <3>2. x \subseteq Bits /\ l.held > 0
      <4>1. on \subseteq Bits
        BY DEF Bits
      <4>2. l.v \subseteq Bits /\ l.held = h
        BY <1>6
      <4>3. h > 0
        OBVIOUS
      <4>4. QED
        BY <4>1, <4>2, <4>3
    <3> HIDE DEF x
    <3>3. SafeWrite(k, P, l, x)
      BY <1>1, <1>4, <3>2 DEF SafeWrite
    <3>4. QED
      BY <1>1, <1>4, <3>1, <3>3 DEF Safe, Writes
  <2>2. ASSUME NEW l \in Held(g, {h}), NEW m \in Local, Does(P, l, m) PROVE m \in Held(g, {h})
    <3>1. m.reg = l.reg /\ m.held = l.held /\ m.v = l.v
      BY <1>1, <1>4, <2>2 DEF Does, Writes
    <3>2. QED
      BY <1>6, <3>1, RestIs DEF Rest, Held
  <2>3. P.op # "open"
    BY <1>4
  <2>4. QED
    BY <2>1, <2>2, <2>3, HeldStable, OneStep
<1>10. Brings(k, Rest(g, {h}), <<C>>, Rest(g, {h - 1}))
  <2>1. ASSUME NEW l \in Rest(g, {h}) PROVE Safe(k, C, l)
    <3>1. l.held >= 1
      BY RestIs
    <3>2. QED
      BY <1>5, <3>1 DEF Safe, Writes
  <2>2. ASSUME NEW l \in Rest(g, {h}), NEW m \in Local, Does(C, l, m) PROVE m \in Rest(g, {h - 1})
    <3>1. m.reg = l.reg /\ m.held = l.held - 1
      BY <1>5, <2>2 DEF Does, Writes
    <3>2. QED
      BY <3>1, RestIs DEF Rest
  <2>3. C.op # "open"
    BY <1>5
  <2>4. QED
    BY <2>1, <2>2, <2>3, RestStable, OneStep
<1>11. QED
  BY <1>2, <1>3, <1>4, <1>5, <1>7, <1>8, <1>9, <1>10

LEMMA ListIs ==
    ASSUME NEW n \in Nat, NEW f, f = [i \in 1 .. n |-> f[i]]
    PROVE  IsSeq(f) /\ Len(f) = n
<1> DEFINE S == {f[i] : i \in 1 .. n}
<1>1. \A i \in 1 .. n : f[i] \in S
  OBVIOUS
<1> HIDE DEF S
<1>2. f \in [1 .. n -> S]
  BY <1>1
<1>3. f \in Seq(S) /\ Len(f) = n
  BY <1>2
<1>4. QED
  BY <1>3 DEF IsSeq

\* frame_capture, whichever of its two opens fail, brings the values back to
\* where they were.
LEMMA CaptureBrings ==
    ASSUME NEW k, NEW g
    PROVE  Brings(k, Rest(g, {0}), frame_capture, Rest(g, {0, 1}))
<1> DEFINE get == Get(Control(0))
           set == Set(Control(0), {})
           put == Put(Control(0), {"enable", "dma"}, {})
           back == Put(Control(0), {}, {})
           end == (back \o Close(0)) \o Close(0)
           open == Open(0, Len(end))
           body == (((get \o set) \o put) \o open) \o end
           Q == Rest(g, {0, 1})
<1>1. frame_capture = Open(0, Len(body)) \o body
  BY DEF frame_capture, CaptureEnd
<1>2. /\ Brings(k, Rest(g, {1}), get, Held(g, {1})) /\ Brings(k, Held(g, {1}), set, Held(g, {1}))
      /\ Brings(k, Held(g, {1}), put, Held(g, {1})) /\ Brings(k, Rest(g, {1}), Close(0), Rest(g, {0}))
  <2>1. {"enable", "dma"} \in SUBSET {"enable", "dma"} /\ 1 \in {1, 2} /\ 1 - 1 = 0
    OBVIOUS
  <2>2. QED
    BY <2>1, HeldSteps
<1>3. Brings(k, Held(g, {2}), back, Held(g, {2})) /\ Brings(k, Rest(g, {2}), Close(0), Rest(g, {1}))
  <2>1. {} \in SUBSET {"enable", "dma"} /\ 2 \in {1, 2} /\ 2 - 1 = 1
    OBVIOUS
  <2>2. QED
    BY <2>1, HeldSteps
<1>4. /\ Stable(Q) /\ Rest(g, {0}) \subseteq Q /\ Rest(g, {1}) \subseteq Q
      /\ Held(g, {1}) \subseteq Rest(g, {1}) /\ Held(g, {2}) \subseteq Rest(g, {2})
  <2>1. Rest(g, {0}) \subseteq Q /\ Rest(g, {1}) \subseteq Q
    BY DEF Rest
  <2>2. QED
    BY <2>1, RestStable, HeldStable
<1> HIDE DEF get, set, put, back, Q
<1>5. Brings(k, Held(g, {2}), back, Rest(g, {2}))
  BY <1>3, <1>4, HeldStable, RestStable, Weaken
<1>6. Brings(k, Held(g, {2}), back \o Close(0), Rest(g, {1}))
  BY <1>3, <1>5, Then
<1>7. Brings(k, Held(g, {2}), end, Rest(g, {0}))
  BY <1>2, <1>6, Then
<1> HIDE DEF end
<1>8. Brings(k, Held(g, {2}), end, Q)
  BY <1>4, <1>7, HeldStable, Weaken
<1>9. Brings(k, Held(g, {1}), open \o end, Q)
  <2>1. ASSUME NEW l \in Held(g, {1}) PROVE l \in Local /\ l.held = 1 /\ l.v \subseteq Bits /\ l \in Rest(g, {1})
    BY RestIs DEF Held
  <2>2. ASSUME NEW l \in Held(g, {1}), NEW m \in Local, m.reg = l.reg, m.v = l.v, m.held = l.held + 1
        PROVE  m \in Held(g, {2})
    <3>1. m.held = 2 /\ m.v \subseteq Bits
      BY <2>1, <2>2
    <3>2. \A r \in Known : m.reg[r] \ Loss = g[r]
      BY <2>1, <2>2, RestIs
    <3>3. QED
      BY <3>1, <3>2 DEF Rest, Held
  <2>3. \A l \in Held(g, {1}) : l.held <= 1
    BY <2>1
  <2>4. Held(g, {1}) \subseteq Q
    BY <1>4
  <2>5. QED
    BY <1>8, <2>2, <2>3, <2>4, HeldStable, OpenBrings
<1>10. Brings(k, Rest(g, {1}), (get \o set) \o put, Held(g, {1}))
  <2>1. Brings(k, Rest(g, {1}), get \o set, Held(g, {1}))
    BY <1>2, Then
  <2>2. QED
    BY <1>2, <2>1, Then
<1>11. Brings(k, Rest(g, {1}), body, Q)
  <2>1. IsSeq((get \o set) \o put) /\ IsSeq(end)
    BY <1>8, <1>10 DEF Brings
  <2>2. IsSeq(open)
    <3> DEFINE st == [op |-> "open", channel |-> 0, skip |-> Len(end)]
    <3>1. open = <<st>>
      BY DEF Open
    <3> HIDE DEF st
    <3>2. <<st>> \in Seq({st})
      OBVIOUS
    <3>3. QED
      BY <3>1, <3>2 DEF IsSeq
  <2> HIDE DEF open
  <2>3. body = ((get \o set) \o put) \o (open \o end)
    BY <2>1, <2>2, Assoc
  <2> HIDE DEF body
  <2>4. QED
    BY <1>9, <1>10, <2>3, Then
<1> HIDE DEF body
<1>12. Brings(k, Rest(g, {0}), Open(0, Len(body)) \o body, Q)
  <2>1. \A l \in Rest(g, {0}) : l.held <= 1
    BY RestIs
  <2>2. ASSUME NEW l \in Rest(g, {0}), NEW m \in Local, m.reg = l.reg, m.v = l.v, m.held = l.held + 1
        PROVE  m \in Rest(g, {1})
    <3>1. m.held = 1 /\ \A r \in Known : m.reg[r] \ Loss = g[r]
      BY <2>2, RestIs
    <3>2. QED
      BY <3>1 DEF Rest
  <2>3. QED
    BY <1>4, <1>11, <2>1, <2>2, RestStable, OpenBrings
<1>13. QED
  BY <1>1, <1>12 DEF Q

\* The same for each member of a set, in some order.
LEMMA RatesBrings ==
    ASSUME NEW k, NEW g, NEW H
    PROVE  Brings(k, Rest(g, H), frame_rates, Rest(g, H))
<1> DEFINE q == SetToSeq(Channels)
           on == [i \in 1 .. Len(q) |-> Set(Control(q[i]), {"enable"})]
           off == [i \in 1 .. Len(q) |-> Set(Control(q[i]), {})]
           P == Rest(g, H)
<1>1. frame_rates = FlattenSeq(on) \o FlattenSeq(off)
  BY DEF frame_rates, Each
<1>2. Len(q) \in Nat /\ \A i \in 1 .. Len(q) : q[i] \in Channels
  BY RunAssumption, Listed
<1> HIDE DEF q
<1>3. PICK n \in Nat : n = Len(q)
  BY <1>2
<1>4. /\ \A i \in 1 .. n : Brings(k, P, Set(Control(q[i]), {"enable"}), P)
      /\ \A i \in 1 .. n : Brings(k, P, Set(Control(q[i]), {}), P)
  <2>1. {"enable"} \in SUBSET {"enable", "dma"} /\ {} \in SUBSET {"enable", "dma"} /\ "dma" \notin {"enable"} /\ "dma" \notin {}
    OBVIOUS
  <2>2. QED
    BY <1>2, <1>3, <2>1, SetBrings
<1>5. on = [i \in 1 .. n |-> Set(Control(q[i]), {"enable"})] /\ off = [i \in 1 .. n |-> Set(Control(q[i]), {})]
  BY <1>3
<1> HIDE DEF on, off
<1>6. IsSeq(on) /\ Len(on) = n /\ \A i \in 1 .. n : on[i] = Set(Control(q[i]), {"enable"})
  <2>1. \A i \in 1 .. n : on[i] = Set(Control(q[i]), {"enable"})
    BY <1>5
  <2>2. on = [i \in 1 .. n |-> on[i]]
    BY <1>5
  <2>3. QED
    BY <2>1, <2>2, ListIs
<1>7. IsSeq(off) /\ Len(off) = n /\ \A i \in 1 .. n : off[i] = Set(Control(q[i]), {})
  <2>1. \A i \in 1 .. n : off[i] = Set(Control(q[i]), {})
    BY <1>5
  <2>2. off = [i \in 1 .. n |-> off[i]]
    BY <1>5
  <2>3. QED
    BY <2>1, <2>2, ListIs
<1> HIDE DEF P
<1>8. Stable(P)
  BY RestStable DEF P
<1>9. Brings(k, P, FlattenSeq(on), P)
  <2>1. \A i \in 1 .. Len(on) : Brings(k, P, on[i], P)
    BY <1>4, <1>6
  <2>2. QED
    BY <1>6, <1>8, <2>1, Flat
<1>10. Brings(k, P, FlattenSeq(off), P)
  <2>1. \A i \in 1 .. Len(off) : Brings(k, P, off[i], P)
    BY <1>4, <1>7
  <2>2. QED
    BY <1>7, <1>8, <2>1, Flat
<1>11. QED
  BY <1>1, <1>9, <1>10, Then DEF P

\* q lists the triggers of O.
Lists(q, n, O) ==
    /\ n \in Nat /\ O \in SUBSET Triggers
    /\ \A i \in 1 .. n : q[i] \in O
    /\ \A t \in O : \E i \in 1 .. n : q[i] = t

\* Each of the lists of steps ss adds its trigger to those set to s.
Adds(k, P, ss, q, n, s) ==
    /\ IsSeq(ss) /\ Len(ss) = n
    /\ \A S \in SUBSET Triggers : \A i \in 1 .. n :
         Brings(k, P \cap Wrote(S, s), ss[i], P \cap Wrote(S \cup {q[i]}, s))

\* A list of triggers set one after another, each by steps that add it to those
\* that are set, leaves all of them set.
LEMMA EachSets ==
    ASSUME NEW k, NEW g, NEW H, NEW O, NEW s, NEW n, NEW q, NEW ss,
           Lists(q, n, O), Adds(k, Rest(g, H), ss, q, n, s)
    PROVE  Brings(k, Rest(g, H), FlattenSeq(ss), Rest(g, H) \cap Wrote(O, s))
<1> USE DEF Lists, Adds
<1> DEFINE D(i) == {q[j] : j \in 1 .. (i - 1)}
           R(S) == Rest(g, H) \cap Wrote(S, s)
           P == [i \in 1 .. (n + 1) |-> R(D(i))]
<1>1. D(1) = {} /\ D(n + 1) = O
  <2>1. (n + 1) - 1 = n /\ 1 .. (1 - 1) = {}
    OBVIOUS
  <2>2. QED
    BY <2>1
<1>2. \A i \in 1 .. n : D(i + 1) = D(i) \cup {q[i]} /\ D(i) \in SUBSET Triggers
  <2>1. ASSUME NEW i \in 1 .. n PROVE D(i + 1) = D(i) \cup {q[i]} /\ D(i) \in SUBSET Triggers
    <3>1. (i + 1) - 1 = i
      OBVIOUS
    <3>2. \A j : j \in 1 .. i <=> (j \in 1 .. (i - 1) \/ j = i)
      OBVIOUS
    <3>3. \A j \in 1 .. (i - 1) : j \in 1 .. n
      OBVIOUS
    <3>4. D(i + 1) = D(i) \cup {q[i]}
      BY <3>1, <3>2
    <3>5. QED
      BY <3>3, <3>4
  <2>2. QED
    BY <2>1
<1>3. R({}) = Rest(g, H) /\ Stable(R({}))
  BY RestStable, WroteStable
<1>4. \A S \in SUBSET Triggers : \A i \in 1 .. n : Brings(k, R(S), ss[i], R(S \cup {q[i]}))
  OBVIOUS
<1>5. \A i \in 1 .. (n + 1) : P[i] = R(D(i))
  OBVIOUS
<1> HIDE DEF D, R, P
<1>6. \A i \in 1 .. n : i \in 1 .. (n + 1) /\ i + 1 \in 1 .. (n + 1)
  OBVIOUS
<1>7. ASSUME NEW i \in 1 .. n PROVE Brings(k, P[i], ss[i], P[i + 1])
  <2>1. P[i] = R(D(i)) /\ P[i + 1] = R(D(i) \cup {q[i]}) /\ D(i) \in SUBSET Triggers
    BY <1>2, <1>5, <1>6
  <2>2. QED
    BY <1>4, <2>1
<1>8. P[1] = R({}) /\ P[n + 1] = R(O)
  <2>1. 1 \in 1 .. (n + 1) /\ n + 1 \in 1 .. (n + 1)
    OBVIOUS
  <2>2. P[1] = R(D(1)) /\ P[n + 1] = R(D(n + 1))
    BY <1>5, <2>1
  <2>3. QED
    BY <1>1, <2>2
<1>9. Brings(k, P[1], FlattenSeq(ss), P[Len(ss) + 1])
  <2>1. Stable(P[1]) /\ \A i \in 1 .. Len(ss) : Brings(k, P[i], ss[i], P[i + 1])
    BY <1>3, <1>7, <1>8
  <2>2. QED
    BY <2>1, FlatGoes
<1>10. Brings(k, R({}), FlattenSeq(ss), R(O))
  BY <1>8, <1>9
<1>11. QED
  BY <1>3, <1>10 DEF R

\* generate_triggers, after which the control of channel 0 is set.
LEMMA TriggersBring ==
    ASSUME NEW k, NEW g, NEW H, NEW s \in TestSettings
    PROVE  Brings(k, Rest(g, H), generate_triggers(s), Rest(g, H) \cap Wrote(Triggers, s))
<1> DEFINE q == SetToSeq(Triggers)
           ss == [i \in 1 .. Len(q) |-> setupTrigger(q[i], s)]
           P == Rest(g, H)
           Q == Rest(g, H) \cap Wrote(Triggers, s)
           off == Set(Control(0), {})
           on == Set(Control(0), {"enable"})
<1>1. generate_triggers(s) = (FlattenSeq(ss) \o off) \o on
  BY DEF generate_triggers, Each
<1>2. /\ Len(q) \in Nat /\ \A i \in 1 .. Len(q) : q[i] \in Triggers
      /\ \A t \in Triggers : \E i \in 1 .. Len(q) : q[i] = t
  <2>1. IsFiniteSet(Triggers)
    BY RunAssumption, FS_Subset
  <2>2. QED
    BY <2>1, Listed
<1> HIDE DEF q
<1>3. PICK n \in Nat : n = Len(q)
  BY <1>2
<1>4. \A S \in SUBSET Triggers : \A i \in 1 .. n :
        Brings(k, Rest(g, H) \cap Wrote(S, s), setupTrigger(q[i], s), Rest(g, H) \cap Wrote(S \cup {q[i]}, s))
  BY <1>2, <1>3, SetupBrings
<1>5. ss = [i \in 1 .. n |-> setupTrigger(q[i], s)]
  BY <1>3
<1> HIDE DEF ss
<1>6. IsSeq(ss) /\ Len(ss) = n /\ \A i \in 1 .. n : ss[i] = setupTrigger(q[i], s)
  <2>1. \A i \in 1 .. n : ss[i] = setupTrigger(q[i], s)
    BY <1>5
  <2>2. ss = [i \in 1 .. n |-> ss[i]]
    BY <1>5
  <2>3. QED
    BY <2>1, <2>2, ListIs
<1>7. Brings(k, Q, off, Q) /\ Brings(k, Q, on, Q)
  <2>1. {"enable"} \in SUBSET {"enable", "dma"} /\ {} \in SUBSET {"enable", "dma"} /\ "dma" \notin {"enable"} /\ "dma" \notin {}
    OBVIOUS
  <2>2. Brings(k, P, off, P) /\ Brings(k, P, on, P)
    BY <2>1, RunAssumption, SetBrings
  <2>3. NoTrig(off) /\ NoTrig(on)
    BY DEF NoTrig, Set
  <2>4. QED
    BY <2>2, <2>3, Frame
<1>8. Brings(k, P, FlattenSeq(ss), Q)
  <2>1. Adds(k, Rest(g, H), ss, q, n, s)
    BY <1>4, <1>6 DEF Adds
  <2>2. Lists(q, n, Triggers)
    BY <1>2, <1>3 DEF Lists
  <2>3. QED
    BY <2>1, <2>2, EachSets
<1> HIDE DEF P, Q, off, on
<1>9. Brings(k, P, FlattenSeq(ss) \o off, Q)
  BY <1>7, <1>8, Then
<1>10. Brings(k, P, generate_triggers(s), Q)
  BY <1>1, <1>7, <1>9, Then
<1>11. QED
  BY <1>10 DEF P, Q

LEMMA OutputsBring ==
    ASSUME NEW k, NEW g, NEW H, NEW r \in Runs, r.prog = "tprtrig"
    PROVE  Brings(k, Rest(g, H), Each(r.outputs, LAMBDA t : set_trigger(t, r.setting)),
                  Rest(g, H) \cap Wrote(r.outputs, r.setting))
<1> DEFINE s == r.setting
           q == SetToSeq(r.outputs)
           ss == [i \in 1 .. Len(q) |-> set_trigger(q[i], s)]
<1>1. Each(r.outputs, LAMBDA t : set_trigger(t, r.setting)) = FlattenSeq(ss)
  BY DEF Each
<1>2. r.outputs \subseteq Triggers /\ r.outputs \subseteq Trigged /\ s \in Settings
  <2>1. r.outputs \subseteq Triggers
    BY RunAssumption
  <2>2. r.outputs \subseteq Trigged
    <3>1. r.outputs \in {IF x.prog = "tprtrig" THEN x.outputs ELSE {} : x \in Runs}
      OBVIOUS
    <3>2. QED
      BY <3>1 DEF Trigged
  <2>3. s \in Settings
    BY DEF Settings
  <2>4. QED
    BY <2>1, <2>2, <2>3
<1>3. /\ Len(q) \in Nat /\ \A i \in 1 .. Len(q) : q[i] \in r.outputs
      /\ \A t \in r.outputs : \E i \in 1 .. Len(q) : q[i] = t
  <2>1. IsFiniteSet(r.outputs)
    <3>1. r.outputs \subseteq Channels
      BY <1>2, RunAssumption
    <3>2. QED
      BY <3>1, RunAssumption, FS_Subset
  <2>2. QED
    BY <2>1, Listed
<1> HIDE DEF q, s
<1>4. PICK n \in Nat : n = Len(q)
  BY <1>3
<1>5. \A S \in SUBSET Triggers : \A i \in 1 .. n :
        Brings(k, Rest(g, H) \cap Wrote(S, s), set_trigger(q[i], s), Rest(g, H) \cap Wrote(S \cup {q[i]}, s))
  <2>1. \A i \in 1 .. n : q[i] \in Triggers /\ q[i] \in Trigged
    BY <1>2, <1>3, <1>4
  <2>2. QED
    BY <1>2, <2>1, SetTriggerBrings
<1>6. ss = [i \in 1 .. n |-> set_trigger(q[i], s)]
  BY <1>4
<1> HIDE DEF ss
<1>7. IsSeq(ss) /\ Len(ss) = n /\ \A i \in 1 .. n : ss[i] = set_trigger(q[i], s)
  <2>1. \A i \in 1 .. n : ss[i] = set_trigger(q[i], s)
    BY <1>6
  <2>2. ss = [i \in 1 .. n |-> ss[i]]
    BY <1>6
  <2>3. QED
    BY <2>1, <2>2, ListIs
<1>8. Brings(k, Rest(g, H), FlattenSeq(ss), Rest(g, H) \cap Wrote(r.outputs, s))
  <2>1. Adds(k, Rest(g, H), ss, q, n, s)
    BY <1>5, <1>7 DEF Adds
  <2>2. Lists(q, n, r.outputs)
    BY <1>2, <1>3, <1>4 DEF Lists
  <2>3. QED
    BY <2>1, <2>2, EachSets
<1>9. QED
  BY <1>1, <1>8 DEF s

-----------------------------------------------------------------------------
(* The programs                                                             *)

\* What the program r is to leave when it ends, of the CSR x it started with.
Done(r, x) ==
    {l \in Local :
       /\ l.reg[CSR] \ Loss = (x \ Want(r)[2]) \cup Want(r)[1]
       /\ r.prog = "tprtest" => l.reg[Refclk] = IF r.refclk THEN {"refclk"} ELSE {}
       /\ r.prog = "tprtest" /\ r.ring => \A q \in Rings : l.reg[q] = {}
       /\ l \in Wrote(Sets(r), SetTo(r))}

\* The loss of the link does not undo what a program leaves.
LEMMA DoneStable ==
    ASSUME NEW r, NEW x
    PROVE  Stable(Done(r, x))
<1>1. ASSUME NEW l \in Done(r, x) PROVE Lost(l) \in Done(r, x) /\ l \in Local
  <2>1. l \in Local
    BY DEF Done
  <2>2. /\ Lost(l) \in Local /\ Lost(l).reg[CSR] \ Loss = l.reg[CSR] \ Loss
        /\ Lost(l).reg[Refclk] = l.reg[Refclk] /\ \A q \in Rings : Lost(l).reg[q] = l.reg[q]
    BY <2>1, LostLocal, RegFacts, FlagFacts
  <2>3. Lost(l) \in Wrote(Sets(r), SetTo(r))
    <3>1. l \in Wrote(Sets(r), SetTo(r))
      BY DEF Done
    <3>2. Lost(l) \in Local /\ Lost(l).trig = l.trig
      BY <2>1, LostLocal
    <3>3. QED
      BY <3>1, <3>2 DEF Wrote
  <2>4. QED
    BY <2>2, <2>3 DEF Done
<1>2. QED
  BY <1>1 DEF Stable

\* The modes as the programs ask for them, and the CSR that follows.
Tune(x, cl, ms) == Flip(Flip(Flip(x, "clkSel", cl), "modeSel", ms), "modeSelEn", TRUE)

LEMMA FlipAll ==
    ASSUME NEW x \in Clean(CSR), NEW f \in CsrFlag, NEW b \in BOOLEAN
    PROVE  Flip(x, f, b) \in Clean(CSR) /\ x \ {f} \in Clean(CSR)
<1>1. f \in RegVal(CSR) \ Loss
  BY FlagFacts
<1>2. Flip(x, f, b) \in Clean(CSR)
  BY <1>1, FlipClean
<1>3. QED
  BY <1>2 DEF Clean

LEMMA TuneTurns ==
    ASSUME NEW k, NEW H, NEW x \in Clean(CSR), NEW cl \in BOOLEAN, NEW ms \in BOOLEAN
    PROVE  /\ Turns(k, H, CSR, clkSel(cl) \o modeSel(ms) \o modeSelEn(TRUE), x, Tune(x, cl, ms))
           /\ Tune(x, cl, ms) \in Clean(CSR)
<1> DEFINE a == Flip(x, "clkSel", cl)
           b == Flip(a, "modeSel", ms)
           c == Flip(b, "modeSelEn", TRUE)
<1>1. Tune(x, cl, ms) = c /\ TRUE \in BOOLEAN
  BY DEF Tune
<1>2. {"clkSel", "modeSel", "modeSelEn"} \subseteq CsrFlag
  BY DEF CsrFlag
<1>3. a \in Clean(CSR) /\ Turns(k, H, CSR, clkSel(cl), x, a)
  BY <1>2, FlipAll, CsrTurns
<1> HIDE DEF a
<1>4. b \in Clean(CSR) /\ Turns(k, H, CSR, modeSel(ms), a, b)
  BY <1>2, <1>3, FlipAll, CsrTurns
<1> HIDE DEF b
<1>5. c \in Clean(CSR) /\ Turns(k, H, CSR, modeSelEn(TRUE), b, c)
  BY <1>1, <1>2, <1>4, FlipAll, CsrTurns
<1>6. Turns(k, H, CSR, clkSel(cl) \o modeSel(ms), x, b)
  BY <1>3, <1>4, TurnsThen
<1>7. Turns(k, H, CSR, clkSel(cl) \o modeSel(ms) \o modeSelEn(TRUE), x, c)
  BY <1>5, <1>6, TurnsThen
<1>8. QED
  BY <1>1, <1>5, <1>7

\* What tprtest and tprtrig do alike: the modes, polarity and a reset of the
\* receiver.
LEMMA PolarTurns ==
    ASSUME NEW k, NEW H, NEW x \in Clean(CSR), NEW cl \in BOOLEAN, NEW ms \in BOOLEAN
    PROVE  /\ Turns(k, H, CSR, clkSel(cl) \o modeSel(ms) \o modeSelEn(TRUE) \o rxPolarity(FALSE), x,
                    Tune(x, cl, ms) \ {"rxPolarity", "resetRx"})
           /\ Tune(x, cl, ms) \ {"rxPolarity", "resetRx"} \in Clean(CSR)
<1> DEFINE y == Tune(x, cl, ms)
           z == Flip(y, "rxPolarity", FALSE) \ {"resetRx"}
           s == clkSel(cl) \o modeSel(ms) \o modeSelEn(TRUE)
<1>1. Turns(k, H, CSR, s, x, y) /\ y \in Clean(CSR)
  BY TuneTurns
<1> HIDE DEF y, s
<1>2. Turns(k, H, CSR, rxPolarity(FALSE), y, z)
  BY <1>1, PolarityTurns
<1>3. z = y \ {"rxPolarity", "resetRx"}
  BY DEF Flip
<1> HIDE DEF z
<1>4. Turns(k, H, CSR, s \o rxPolarity(FALSE), x, z)
  BY <1>1, <1>2, TurnsThen
<1>5. z \in Clean(CSR)
  BY <1>4 DEF Turns
<1>6. QED
  BY <1>3, <1>4, <1>5 DEF y, s

\* The modes that the calls set are those the program is to leave.
LEMMA TuneWant ==
    ASSUME NEW x, NEW r \in Runs
    PROVE  /\ r.prog = "tprtest" =>
                (x \ Want(r)[2]) \cup Want(r)[1] =
                  (Tune(x, r.mode = "LCLS2", r.mode # "LCLS1") \ {"rxPolarity", "resetRx"}) \ {"countReset"}
           /\ r.prog = "tprtrig" =>
                (x \ Want(r)[2]) \cup Want(r)[1] = (Tune(x, TRUE, TRUE) \ {"rxPolarity", "resetRx"}) \ {"countReset"}
           /\ r.prog = "tprtool" =>
                LET y == IF r.resetRx THEN x \ {"resetRx"} ELSE x
                IN (x \ Want(r)[2]) \cup Want(r)[1] =
                     IF r.mode = Unset THEN y ELSE Tune(y, r.mode = "LCLS2", r.mode # "LCLS1")
<1>1. CASE r.prog = "tprtest"
  <2>1. r.mode \in Modes
    BY <1>1, RunAssumption
  <2>2. CASE r.mode = "LCLS1"
    BY <1>1, <2>2 DEF Want, Tune, Flip
  <2>3. CASE r.mode = "LCLS2"
    BY <1>1, <2>3 DEF Want, Tune, Flip
  <2>4. CASE r.mode = "UED"
    BY <1>1, <2>4 DEF Want, Tune, Flip
  <2>5. QED
    BY <2>1, <2>2, <2>3, <2>4 DEF Modes
<1>2. CASE r.prog = "tprtrig"
  BY <1>2 DEF Want, Tune, Flip
<1>3. CASE r.prog = "tprtool"
  <2>1. r.mode \in Modes \cup {Unset} /\ r.resetRx \in BOOLEAN
    BY <1>3, RunAssumption
  <2>2. CASE r.mode = Unset
    BY <1>3, <2>1, <2>2 DEF Want, Tune, Flip
  <2>3. CASE r.mode # Unset /\ r.mode = "LCLS1"
    BY <1>3, <2>1, <2>3 DEF Want, Tune, Flip
  <2>4. CASE r.mode # Unset /\ r.mode = "LCLS2"
    BY <1>3, <2>1, <2>4 DEF Want, Tune, Flip
  <2>5. CASE r.mode # Unset /\ r.mode = "UED"
    BY <1>3, <2>1, <2>5 DEF Want, Tune, Flip
  <2>6. QED
    BY <2>1, <2>2, <2>3, <2>4, <2>5 DEF Modes
<1>4. QED
  BY <1>1, <1>2, <1>3, RunAssumption

CleanVals == {g \in Vals : \A r \in Known : g[r] \in Clean(r)}

LEMMA CleanUpd ==
    ASSUME NEW g \in CleanVals, NEW r \in Known, NEW y \in Clean(r)
    PROVE  /\ Upd(g, r, y) \in CleanVals /\ Upd(g, r, y)[r] = y
           /\ \A q \in Known : q # r => Upd(g, r, y)[q] = g[q]
<1>1. y \in SUBSET (Flags \cup Bits)
  BY RegValSub DEF Clean
<1>2. /\ Upd(g, r, y) \in Vals /\ Upd(g, r, y)[r] = y
      /\ \A q \in Known : q # r => Upd(g, r, y)[q] = g[q]
  BY <1>1, UpdFacts DEF CleanVals
<1>3. \A q \in Known : Upd(g, r, y)[q] \in Clean(q)
  BY <1>2 DEF CleanVals
<1>4. QED
  BY <1>2, <1>3 DEF CleanVals

\* A list that turns the register r, from where it is.
LEMMA TurnsFrom ==
    ASSUME NEW k, NEW H, NEW r, NEW s, NEW y, NEW g \in CleanVals, Turns(k, H, r, s, g[r], y)
    PROVE  Brings(k, Rest(g, H), s, Rest(Upd(g, r, y), H)) /\ y \in Clean(r) /\ r \in Known
BY DEF Turns, CleanVals

\* What the registers are brought to: by the dumps of the rings, by the test
\* of the link and by the setting of the reference clock.
Dumped(k, H, g, h) ==
    /\ Brings(k, Rest(g, H), dumpRing(<<"ring", 0>>) \o dumpRing(<<"ring", 1>>), Rest(h, H))
    /\ h[CSR] = g[CSR] /\ h[Refclk] = g[Refclk] /\ \A q \in Rings : h[q] = {}

Tested(H, g, mode, ring, h) ==
    /\ Brings("tprtest", Rest(g, H), link_test(mode, ring), Rest(h, H))
    /\ h[CSR] = (Tune(g[CSR], mode = "LCLS2", mode # "LCLS1") \ {"rxPolarity", "resetRx"}) \ {"countReset"}
    /\ ring => \A q \in Rings : h[q] = {}

Clocked(k, H, g, b, h) ==
    /\ Brings(k, Rest(g, H), generate_refclk(b), Rest(h, H))
    /\ h[Refclk] = IF b THEN {"refclk"} ELSE {}
    /\ \A q \in Known : q # Refclk => h[q] = g[q]

LEMMA RingsBring ==
    ASSUME NEW k, NEW H, NEW g \in CleanVals
    PROVE  \E h \in CleanVals : Dumped(k, H, g, h)
<1> DEFINE a == <<"ring", 0>>
           b == <<"ring", 1>>
<1>1. a \in Rings /\ b \in Rings /\ a # b /\ \A q \in Rings : q = a \/ q = b
  BY DEF Rings
<1> HIDE DEF a, b
<1>2. \A q \in Rings : Clean(q) \subseteq SUBSET {"enable", "clear"}
  BY RegFacts DEF Clean, RegVal
<1>3. \A q \in Rings : q \in Known /\ q # CSR /\ q # Refclk
  BY RegFacts, FlagFacts
<1>4. \A q \in Rings : \A x \in Clean(q) : x \ {"enable", "clear"} = {}
  BY <1>2
<1>5. \A q \in Rings : \A x \in Clean(q) : Turns(k, H, q, dumpRing(q), x, {})
  BY <1>4, RingTurns
<1> DEFINE g1 == Upd(g, a, {})
           g2 == Upd(g1, b, {})
<1>6. Brings(k, Rest(g, H), dumpRing(a), Rest(g1, H)) /\ {} \in Clean(a)
  <2>1. g[a] \in Clean(a)
    BY <1>1, <1>3 DEF CleanVals
  <2>2. Turns(k, H, a, dumpRing(a), g[a], {})
    BY <1>1, <1>5, <2>1
  <2>3. QED
    BY <2>2, TurnsFrom
<1>7. g1 \in CleanVals /\ g1[a] = {} /\ g1[CSR] = g[CSR] /\ g1[Refclk] = g[Refclk]
  BY <1>1, <1>3, <1>6, CleanUpd, FlagFacts
<1> HIDE DEF g1
<1>8. Brings(k, Rest(g1, H), dumpRing(b), Rest(g2, H)) /\ {} \in Clean(b)
  <2>1. g1[b] \in Clean(b)
    BY <1>1, <1>3, <1>7 DEF CleanVals
  <2>2. Turns(k, H, b, dumpRing(b), g1[b], {})
    BY <1>1, <1>5, <2>1
  <2>3. QED
    BY <1>7, <2>2, TurnsFrom
<1>9. g2 \in CleanVals /\ g2[b] = {} /\ g2[a] = g1[a] /\ g2[CSR] = g1[CSR] /\ g2[Refclk] = g1[Refclk]
  BY <1>1, <1>3, <1>7, <1>8, CleanUpd, FlagFacts
<1> HIDE DEF g2
<1>10. Brings(k, Rest(g, H), dumpRing(a) \o dumpRing(b), Rest(g2, H))
  BY <1>6, <1>8, Then
<1>11. \A q \in Rings : g2[q] = {}
  BY <1>1, <1>7, <1>9
<1>12. QED
  BY <1>7, <1>9, <1>10, <1>11 DEF a, b, Dumped

LEMMA LinkTestBrings ==
    ASSUME NEW H, NEW g \in CleanVals, NEW mode \in Modes, NEW ring \in BOOLEAN
    PROVE  \E h \in CleanVals : Tested(H, g, mode, ring, h)
<1> DEFINE k == "tprtest"
           x == g[CSR]
           y == Tune(x, mode = "LCLS2", mode # "LCLS1") \ {"rxPolarity", "resetRx"}
           z == y \ {"countReset"}
           s == clkSel(mode = "LCLS2") \o modeSel(mode # "LCLS1") \o modeSelEn(TRUE) \o rxPolarity(FALSE)
           rings == IF ring THEN dumpRing(<<"ring", 0>>) \o dumpRing(<<"ring", 1>>) ELSE <<>>
           h == Upd(g, CSR, z)
<1>1. link_test(mode, ring) = (((s \o resetCounts) \o Get(CSR)) \o Put(CSR, {}, {"linkDownL"})) \o rings
  BY DEF link_test
<1>2. x \in Clean(CSR) /\ CSR \in Known
  BY FlagFacts DEF CleanVals
<1>3. Turns(k, H, CSR, s, x, y) /\ y \in Clean(CSR)
  <2>1. (mode = "LCLS2") \in BOOLEAN /\ (mode # "LCLS1") \in BOOLEAN
    OBVIOUS
  <2> HIDE DEF x
  <2>2. QED
    BY <1>2, <2>1, PolarTurns
<1> HIDE DEF s, y, rings
<1>4. Turns(k, H, CSR, resetCounts, y, z)
  BY <1>3, CsrTurns
<1>5. Turns(k, H, CSR, s \o resetCounts, x, z)
  BY <1>3, <1>4, TurnsThen
<1>6. Brings(k, Rest(g, H), s \o resetCounts, Rest(h, H)) /\ z \in Clean(CSR)
  BY <1>5, TurnsFrom
<1>7. h \in CleanVals /\ h \in Vals /\ h[CSR] = z /\ h[Refclk] = g[Refclk]
  <2> HIDE DEF z
  <2>1. h \in CleanVals /\ h[CSR] = z /\ \A q \in Known : q # CSR => h[q] = g[q]
    BY <1>2, <1>6, CleanUpd
  <2> HIDE DEF h
  <2>2. QED
    BY <2>1, FlagFacts, RegFacts DEF CleanVals
<1> HIDE DEF h
<1>8. Brings(k, Rest(h, H), Get(CSR), Read(h, H, CSR, z))
  BY <1>2, <1>7, GetBrings
<1>9. Brings(k, Read(h, H, CSR, z), Put(CSR, {}, {"linkDownL"}), Rest(h, H))
  <2>1. Upd(h, CSR, z) = h
    BY <1>2, <1>7, UpdSame
  <2>2. QED
    BY <1>7, <2>1, AcknowledgeBrings
<1>10. Brings(k, Rest(g, H), (s \o resetCounts) \o Get(CSR), Read(h, H, CSR, z))
  BY <1>6, <1>8, Then
<1>11. Brings(k, Rest(g, H), ((s \o resetCounts) \o Get(CSR)) \o Put(CSR, {}, {"linkDownL"}), Rest(h, H))
  BY <1>9, <1>10, Then
<1>12. PICK j \in CleanVals :
         /\ Brings(k, Rest(h, H), rings, Rest(j, H))
         /\ j[CSR] = h[CSR]
         /\ ring => \A q \in Rings : j[q] = {}
  <2>1. CASE ring
    <3>1. PICK j \in CleanVals : Dumped(k, H, h, j)
      BY <1>7, RingsBring
    <3>2. rings = dumpRing(<<"ring", 0>>) \o dumpRing(<<"ring", 1>>)
      BY <2>1 DEF rings
    <3>3. Brings(k, Rest(h, H), rings, Rest(j, H)) /\ j[CSR] = h[CSR] /\ \A q \in Rings : j[q] = {}
      BY <3>1, <3>2 DEF Dumped
    <3>4. QED
      BY <3>3, Zenon
  <2>2. CASE ~ring
    <3>1. Brings(k, Rest(h, H), rings, Rest(h, H)) /\ h \in CleanVals
      BY <1>7, <2>2, RestStable, Nothing DEF rings
    <3>2. QED
      BY <2>2, <3>1, Zenon
  <2>3. QED
    BY <2>1, <2>2
<1>13. Brings(k, Rest(g, H), link_test(mode, ring), Rest(j, H))
  BY <1>1, <1>11, <1>12, Then
<1>14. QED
  <2>1. j[CSR] = (Tune(g[CSR], mode = "LCLS2", mode # "LCLS1") \ {"rxPolarity", "resetRx"}) \ {"countReset"}
    BY <1>7, <1>12 DEF y
  <2>2. Tested(H, g, mode, ring, j)
    BY <1>12, <1>13, <2>1 DEF Tested
  <2>3. QED
    BY <2>2

LEMMA RefclkBrings ==
    ASSUME NEW k, NEW H, NEW g \in CleanVals, NEW b \in BOOLEAN
    PROVE  \E h \in CleanVals : Clocked(k, H, g, b, h)
<1> DEFINE x == g[Refclk]
           y == Flip(x, "refclk", b)
<1>1. x \in Clean(Refclk) /\ Refclk \in Known /\ Clean(Refclk) = SUBSET {"refclk"} /\ "refclk" \in RegVal(Refclk) \ Loss
  BY FlagFacts, RegFacts DEF CleanVals, Clean, RegVal, Loss
<1>2. y = (IF b THEN {"refclk"} ELSE {})
  BY <1>1 DEF Flip
<1> HIDE DEF x
<1>3. Turns(k, H, Refclk, generate_refclk(b), x, y)
  BY <1>1, RmwTurns DEF generate_refclk, enableRefClk
<1> HIDE DEF y
<1>4. Brings(k, Rest(g, H), generate_refclk(b), Rest(Upd(g, Refclk, y), H)) /\ y \in Clean(Refclk)
  BY <1>3, TurnsFrom DEF x
<1>5. QED
  <2> DEFINE h == Upd(g, Refclk, y)
  <2>1. h \in CleanVals /\ h[Refclk] = y /\ \A q \in Known : q # Refclk => h[q] = g[q]
    BY <1>1, <1>4, CleanUpd
  <2>2. Brings(k, Rest(g, H), generate_refclk(b), Rest(h, H))
    BY <1>4
  <2> HIDE DEF h
  <2>3. Clocked(k, H, g, b, h)
    BY <1>2, <2>1, <2>2 DEF Clocked
  <2>4. QED
    BY <2>1, <2>3

\* A change of a flag sets no trigger.
LEMMA RmwNoTrig ==
    ASSUME NEW r, NEW f, NEW b
    PROVE  NoTrig(Rmw(r, f, b))
<1> DEFINE x == IF b THEN {f} ELSE {}
           y == IF b THEN {} ELSE {f}
           one == [op |-> "get", reg |-> r]
           two == [op |-> "save", reg |-> r, on |-> x, off |-> y]
<1>1. Rmw(r, f, b) = <<one>> \o <<two>> /\ one.op = "get" /\ two.op = "save"
  BY DEF Rmw, Get, Save
<1> HIDE DEF one, two
<1>2. Len(<<one>> \o <<two>>) = 2 /\ (<<one>> \o <<two>>)[1] = one /\ (<<one>> \o <<two>>)[2] = two
  <2>1. IsSeq(<<one>>) /\ IsSeq(<<two>>) /\ Len(<<one>>) = 1 /\ Len(<<two>>) = 1 /\ <<one>>[1] = one /\ <<two>>[1] = two
    <3>1. <<one>> \in Seq({one}) /\ <<two>> \in Seq({two})
      OBVIOUS
    <3>2. IsSeq(<<one>>) /\ IsSeq(<<two>>)
      BY <3>1, Zenon DEF IsSeq
    <3>3. Len(<<one>>) = 1 /\ Len(<<two>>) = 1 /\ <<one>>[1] = one /\ <<two>>[1] = two
      OBVIOUS
    <3>4. QED
      BY <3>2, <3>3
  <2>2. QED
    BY <2>1, Concat
<1>3. QED
  BY <1>1, <1>2 DEF NoTrig

\* Each program, run from a clean state of the registers with no file open,
\* leaves them as it is to.
LEMMA TestBrings ==
    ASSUME NEW r \in Runs, r.prog = "tprtest", NEW g \in CleanVals
    PROVE  Brings("tprtest", Rest(g, {0}), tprtest(r), Done(r, g[CSR]))
<1> DEFINE k == "tprtest"
           link == link_test(r.mode, r.ring)
           frames == IF r.frames THEN frame_rates \o frame_capture ELSE <<>>
           trigs == IF r.triggers = Unset THEN <<>> ELSE generate_triggers(r.triggers)
           H == {0, 1}
           W == Wrote(Sets(r), SetTo(r))
<1>1. tprtest(r) = ((link \o frames) \o trigs) \o generate_refclk(r.refclk)
  BY DEF tprtest
<1>2. r.mode \in Modes /\ r.ring \in BOOLEAN /\ r.frames \in BOOLEAN /\ r.refclk \in BOOLEAN
  BY RunAssumption
<1>3. PICK h \in CleanVals : Tested({0}, g, r.mode, r.ring, h)
  BY <1>2, LinkTestBrings
<1>4. Brings(k, Rest(h, {0}), frames, Rest(h, H))
  <2>1. Rest(h, {0}) \subseteq Rest(h, H)
    BY DEF Rest
  <2>2. CASE r.frames
    <3>1. Brings(k, Rest(h, {0}), frame_rates \o frame_capture, Rest(h, H))
      BY RatesBrings, CaptureBrings, Then
    <3>2. QED
      BY <2>2, <3>1
  <2>3. CASE ~r.frames
    <3>1. Brings(k, Rest(h, {0}), <<>>, Rest(h, {0}))
      BY RestStable, Nothing
    <3>2. Brings(k, Rest(h, {0}), <<>>, Rest(h, H))
      BY <2>1, <3>1, RestStable, Weaken
    <3>3. QED
      BY <2>3, <3>2
  <2>4. QED
    BY <1>2, <2>2, <2>3
<1>5. Brings(k, Rest(h, H), trigs, Rest(h, H) \cap W)
  <2>1. r.triggers \in TestSettings /\ SetTo(r) = r.triggers /\ Sets(r) = IF r.triggers = Unset THEN {} ELSE Triggers
    BY DEF TestSettings, SetTo, Sets
  <2>2. CASE r.triggers = Unset
    <3>1. Rest(h, H) \cap W = Rest(h, H)
      BY <2>1, <2>2, RestStable, WroteStable
    <3>2. QED
      BY <2>2, <3>1, RestStable, Nothing
  <2>3. CASE r.triggers # Unset
    <3>1. Brings(k, Rest(h, H), generate_triggers(r.triggers), Rest(h, H) \cap Wrote(Triggers, r.triggers))
      BY <2>1, TriggersBring
    <3>2. QED
      BY <2>1, <2>3, <3>1
  <2>4. QED
    BY <2>2, <2>3
<1>6. PICK j \in CleanVals : Clocked(k, H, h, r.refclk, j)
  BY <1>2, RefclkBrings
<1> HIDE DEF link, frames, trigs, W
<1>7. Brings(k, Rest(g, {0}), link \o frames, Rest(h, H))
  <2>1. Brings(k, Rest(g, {0}), link, Rest(h, {0}))
    BY <1>3 DEF Tested, link
  <2>2. QED
    BY <1>4, <2>1, Then
<1>8. Brings(k, Rest(g, {0}), (link \o frames) \o trigs, Rest(h, H) \cap W)
  BY <1>5, <1>7, Then
<1>9. Brings(k, Rest(g, {0}), tprtest(r), Rest(j, H) \cap W)
  <2>1. Brings(k, Rest(h, H), generate_refclk(r.refclk), Rest(j, H))
    BY <1>6 DEF Clocked
  <2>2. NoTrig(generate_refclk(r.refclk))
    BY RmwNoTrig DEF generate_refclk, enableRefClk
  <2>3. Brings(k, Rest(h, H) \cap W, generate_refclk(r.refclk), Rest(j, H) \cap W)
    BY <2>1, <2>2, Frame DEF W
  <2>4. QED
    BY <1>1, <1>8, <2>3, Then
<1>10. ASSUME NEW l \in Rest(j, H) \cap W PROVE l \in Done(r, g[CSR])
  <2>1. l \in Local /\ \A q \in Known : l.reg[q] \ Loss = j[q]
    BY RestIs
  <2>2. \A q \in Known : q # CSR => "linkDownL" \notin RegVal(q)
    BY DEF RegVal, Bits
  <2>3. \A q \in Known : q # CSR => l.reg[q] = j[q]
    <3>1. \A q \in Known : l.reg[q] \subseteq RegVal(q)
      BY <2>1, LocalType
    <3>2. \A q \in Known : q # CSR => l.reg[q] \ Loss = l.reg[q]
      BY <2>2, <3>1 DEF Loss
    <3>3. QED
      BY <2>1, <3>2
  <2>4. l.reg[CSR] \ Loss = h[CSR]
    BY <1>6, <2>1, RegFacts, FlagFacts DEF Clocked
  <2>5. l.reg[CSR] \ Loss = (g[CSR] \ Want(r)[2]) \cup Want(r)[1]
    <3>1. h[CSR] = (Tune(g[CSR], r.mode = "LCLS2", r.mode # "LCLS1") \ {"rxPolarity", "resetRx"}) \ {"countReset"}
      BY <1>3 DEF Tested
    <3>2. QED
      BY <2>4, <3>1, TuneWant
  <2>6. l.reg[Refclk] = IF r.refclk THEN {"refclk"} ELSE {}
    <3>1. l.reg[Refclk] = j[Refclk]
      BY <2>3, RegFacts, FlagFacts
    <3>2. QED
      BY <1>6, <3>1 DEF Clocked
  <2>7. r.ring => \A q \in Rings : l.reg[q] = {}
    <3>1. \A q \in Rings : q \in Known /\ q # CSR /\ q # Refclk
      BY RegFacts, FlagFacts
    <3>2. \A q \in Rings : l.reg[q] = h[q]
      BY <1>6, <2>3, <3>1 DEF Clocked
    <3>3. QED
      BY <1>3, <3>2 DEF Tested
  <2>8. QED
    BY <2>1, <2>5, <2>6, <2>7 DEF Done, W
<1>11. QED
  BY <1>9, <1>10, DoneStable, Weaken DEF Brings

LEMMA DoneCsr ==
    ASSUME NEW r \in Runs, r.prog # "tprtest", NEW g \in CleanVals, NEW y, NEW l \in Rest(Upd(g, CSR, y), {0}),
           l \in Wrote(Sets(r), SetTo(r)), y \in Clean(CSR), y = (g[CSR] \ Want(r)[2]) \cup Want(r)[1]
    PROVE  l \in Done(r, g[CSR])
<1>1. l \in Local /\ l.reg[CSR] \ Loss = Upd(g, CSR, y)[CSR]
  BY RestIs, FlagFacts
<1>2. Upd(g, CSR, y)[CSR] = y
  BY CleanUpd, FlagFacts
<1>3. QED
  BY <1>1, <1>2 DEF Done

LEMMA ToolBrings ==
    ASSUME NEW r \in Runs, r.prog = "tprtool", NEW g \in CleanVals
    PROVE  Brings("tprtool", Rest(g, {0}), tprtool(r), Done(r, g[CSR]))
<1> DEFINE k == "tprtool"
           x == g[CSR]
           y == IF r.resetRx THEN x \ {"resetRx"} ELSE x
           z == IF r.mode = Unset THEN y ELSE Tune(y, r.mode = "LCLS2", r.mode # "LCLS1")
           reset == IF r.resetRx THEN resetRx ELSE <<>>
           tune == IF r.mode = Unset THEN <<>>
                   ELSE clkSel(r.mode = "LCLS2") \o modeSel(r.mode # "LCLS1") \o modeSelEn(TRUE)
<1>1. tprtool(r) = reset \o tune
  BY DEF tprtool
<1>2. x \in Clean(CSR) /\ CSR \in Known /\ r.resetRx \in BOOLEAN
  BY FlagFacts, RunAssumption DEF CleanVals
<1>3. z = (x \ Want(r)[2]) \cup Want(r)[1]
  BY TuneWant
<1> HIDE DEF x
<1>4. Turns(k, {0}, CSR, reset, x, y)
  <2>1. CASE r.resetRx
    <3>1. Turns(k, {0}, CSR, resetRx, x, x \ {"resetRx"})
      BY <1>2, CsrTurns
    <3>2. QED
      BY <2>1, <3>1
  <2>2. CASE ~r.resetRx
    <3>1. Turns(k, {0}, CSR, <<>>, x, x)
      BY <1>2, TurnsNothing
    <3>2. QED
      BY <2>2, <3>1
  <2>3. QED
    BY <1>2, <2>1, <2>2
<1>5. y \in Clean(CSR)
  BY <1>4 DEF Turns
<1> HIDE DEF reset, y
<1>6. Turns(k, {0}, CSR, tune, y, z)
  <2>1. CASE r.mode = Unset
    <3>1. Turns(k, {0}, CSR, <<>>, y, y)
      BY <1>2, <1>5, TurnsNothing
    <3>2. QED
      BY <2>1, <3>1
  <2>2. CASE r.mode # Unset
    <3>1. (r.mode = "LCLS2") \in BOOLEAN /\ (r.mode # "LCLS1") \in BOOLEAN
      OBVIOUS
    <3>2. Turns(k, {0}, CSR, clkSel(r.mode = "LCLS2") \o modeSel(r.mode # "LCLS1") \o modeSelEn(TRUE), y,
                Tune(y, r.mode = "LCLS2", r.mode # "LCLS1"))
      BY <1>5, <3>1, TuneTurns
    <3>3. QED
      BY <2>2, <3>2
  <2>3. QED
    BY <2>1, <2>2
<1> HIDE DEF tune, z
<1>7. Turns(k, {0}, CSR, tprtool(r), x, z)
  BY <1>1, <1>4, <1>6, TurnsThen
<1>8. Brings(k, Rest(g, {0}), tprtool(r), Rest(Upd(g, CSR, z), {0})) /\ z \in Clean(CSR)
  BY <1>7, TurnsFrom DEF x
<1>9. Rest(Upd(g, CSR, z), {0}) \subseteq Done(r, g[CSR])
  <2>1. Sets(r) = {}
    BY DEF Sets
  <2>2. \A l \in Rest(Upd(g, CSR, z), {0}) : l \in Wrote(Sets(r), SetTo(r))
    BY <2>1, RestIs DEF Wrote
  <2>3. QED
    BY <1>3, <1>8, <2>2, DoneCsr DEF x
<1>10. QED
  BY <1>8, <1>9, DoneStable, Weaken DEF Brings

LEMMA TrigBrings ==
    ASSUME NEW r \in Runs, r.prog = "tprtrig", NEW g \in CleanVals
    PROVE  Brings("tprtrig", Rest(g, {0}), tprtrig(r), Done(r, g[CSR]))
<1> DEFINE k == "tprtrig"
           x == g[CSR]
           y == Tune(x, TRUE, TRUE) \ {"rxPolarity", "resetRx"}
           z == y \ {"countReset"}
           polar == clkSel(TRUE) \o modeSel(TRUE) \o modeSelEn(TRUE) \o rxPolarity(FALSE)
           reset == IF r.resetRx THEN resetRx ELSE <<>>
           outs == Each(r.outputs, LAMBDA t : set_trigger(t, r.setting))
           W == Wrote(Sets(r), SetTo(r))
<1>1. tprtrig(r) = ((polar \o reset) \o resetCounts) \o outs
  BY DEF tprtrig
<1>2. x \in Clean(CSR) /\ CSR \in Known /\ r.resetRx \in BOOLEAN
  BY FlagFacts, RunAssumption DEF CleanVals
<1>3. z = (x \ Want(r)[2]) \cup Want(r)[1]
  BY TuneWant
<1>4. \A j : Brings(k, Rest(j, {0}), outs, Rest(j, {0}) \cap W)
  <2>1. W = Wrote(r.outputs, r.setting)
    BY DEF Sets, SetTo
  <2>2. QED
    BY <2>1, OutputsBring
<1> HIDE DEF x, outs, W
<1>5. Turns(k, {0}, CSR, polar, x, y) /\ y \in Clean(CSR)
  BY <1>2, PolarTurns
<1>6. y \ {"resetRx"} = y
  OBVIOUS
<1> HIDE DEF y, polar
<1>7. Turns(k, {0}, CSR, reset, y, y)
  <2>1. CASE r.resetRx
    <3>1. Turns(k, {0}, CSR, resetRx, y, y \ {"resetRx"})
      BY <1>5, CsrTurns
    <3>2. QED
      BY <1>6, <2>1, <3>1
  <2>2. CASE ~r.resetRx
    <3>1. Turns(k, {0}, CSR, <<>>, y, y)
      BY <1>2, <1>5, TurnsNothing
    <3>2. QED
      BY <2>2, <3>1
  <2>3. QED
    BY <1>2, <2>1, <2>2
<1>8. Turns(k, {0}, CSR, resetCounts, y, z)
  BY <1>5, CsrTurns
<1> HIDE DEF reset, z
<1>9. Turns(k, {0}, CSR, polar \o reset, x, y)
  BY <1>5, <1>7, TurnsThen
<1>10. Turns(k, {0}, CSR, (polar \o reset) \o resetCounts, x, z)
  BY <1>8, <1>9, TurnsThen
<1>11. Brings(k, Rest(g, {0}), (polar \o reset) \o resetCounts, Rest(Upd(g, CSR, z), {0})) /\ z \in Clean(CSR)
  BY <1>10, TurnsFrom DEF x
<1>12. Brings(k, Rest(g, {0}), tprtrig(r), Rest(Upd(g, CSR, z), {0}) \cap W)
  BY <1>1, <1>4, <1>11, Then
<1>13. Rest(Upd(g, CSR, z), {0}) \cap W \subseteq Done(r, g[CSR])
  BY <1>3, <1>11, DoneCsr DEF x, W
<1>14. QED
  BY <1>12, <1>13, DoneStable, Weaken DEF Brings

\* Every program, from whatever values it finds, ends in what it is to leave.
LEMMA ScriptBrings ==
    ASSUME NEW r \in Runs, NEW g \in CleanVals
    PROVE  Brings(r.prog, Rest(g, {0}), Scripts[r], Done(r, g[CSR]))
<1>1. Scripts[r] = Script(r)
  BY DEF Scripts
<1>2. CASE r.prog = "tprtest"
  BY <1>1, <1>2, TestBrings DEF Script
<1>3. CASE r.prog = "tprtool"
  BY <1>1, <1>3, ToolBrings DEF Script
<1>4. CASE r.prog = "tprtrig"
  BY <1>1, <1>4, TrigBrings DEF Script
<1>5. QED
  BY <1>2, <1>3, <1>4, RunAssumption

-----------------------------------------------------------------------------
(* The invariant                                                            *)

\* What the process p has of the card, fresh apart.
View(p, f) ==
    [reg |-> [r \in Known |-> reg[r]], v |-> v[p], held |-> files[p][0], fresh |-> f, trig |-> trig]

Typed ==
    /\ reg \in [FlagRegs -> SUBSET (Flags \cup Bits)] /\ \A r \in FlagRegs : reg[r] \subseteq RegVal(r)
    /\ trig \in [TrigRegs -> Settings] /\ Whole(trig)
    /\ run \in [Procs -> Runs \cup Dumps \cup {None, Exit}] /\ at \in [Procs -> Nat]
    /\ v \in [Procs -> SUBSET (Flags \cup Bits)] /\ files \in [Procs -> [Channels -> 0 .. 2]]
    /\ fresh \in BOOLEAN /\ before \in SUBSET Flags /\ ended \in Runs \cup {None}

OneTuner == \A p, q \in Tuners : p # q => run[p] = None \/ run[q] = None

\* A tuner is at a place of its program where an outline of it holds, which
\* ends in what the program is to leave.
Place(p, A) ==
    /\ Outline(run[p].prog, Scripts[run[p]], A)
    /\ at[p] \in 1 .. (Len(Scripts[run[p]]) + 1)
    /\ \E f \in BOOLEAN : View(p, f) \in A[at[p]] /\ (More(p) => f = fresh)
    /\ A[Len(Scripts[run[p]]) + 1] \subseteq Done(run[p], before \ Loss)

Follows(p) == \E A : Place(p, A)

TunerInv(p) ==
    /\ run[p] \in Runs \cup {None, Exit}
    /\ \A c \in Channels : c # 0 => files[p][c] = 0
    /\ run[p] = None => files[p][0] = 0 /\ at[p] = 1
    /\ Running(p) => Follows(p)

ReaderInv(p) ==
    /\ run[p] \in Dumps \cup {None, Exit} /\ at[p] \in {1, 2}
    /\ \A c \in Channels : files[p][c] <= 1
    /\ run[p] = None => at[p] = 1
    /\ run[p] # Exit /\ at[p] = 1 => \A c \in Channels : files[p][c] = 0

\* The registers are as the program that ended was to leave them.
Left ==
    /\ reg[CSR] \ Loss = ((before \ Loss) \ Want(ended)[2]) \cup Want(ended)[1]
    /\ ended.prog = "tprtest" => reg[Refclk] = IF ended.refclk THEN {"refclk"} ELSE {}
    /\ ended.prog = "tprtest" /\ ended.ring => \A q \in Rings : reg[q] = {}
    /\ \A t \in Sets(ended) : \A f \in Fields : trig[Trigger(f, t)] = SetTo(ended)

EndedInv == ended # None => (\A p \in Tuners : ~Running(p)) /\ Left

IInv ==
    /\ Typed /\ DmaWhileOpen /\ OneTuner /\ EndedInv
    /\ \A p \in Tuners : TunerInv(p)
    /\ \A p \in Readers : ReaderInv(p)

\* No program of one kind of process is one of another kind.
LEMMA Progs ==
    /\ None \notin Runs /\ Exit \notin Runs /\ None \notin Dumps /\ Exit \notin Dumps /\ None # Exit
    /\ Runs \cap Dumps = {} /\ Tuners \subseteq Procs /\ Readers \subseteq Procs
    /\ \A p \in Procs : p \in Tuners \/ p \in Readers
    /\ \A p \in Tuners : p \notin Readers
    /\ 0 \in Channels
<1>1. \A r \in Dumps : r.prog = "tprdump"
  BY DEF Dumps
<1>2. \A r \in Runs : r.prog \in {"tprtest", "tprtool", "tprtrig"}
  BY RunAssumption
<1>3. None.prog = "none" /\ Exit.prog = "exit"
  BY DEF None, Exit
<1>4. QED
  BY <1>1, <1>2, <1>3, RunAssumption DEF Procs

\* tprdump opens its channel and stays.
LEMMA DumpScript ==
    ASSUME NEW r \in Dumps
    PROVE  /\ r.channel \in Channels
           /\ Scripts[r] = <<[op |-> "open", channel |-> r.channel, skip |-> 0]>>
<1>1. r.prog = "tprdump" /\ r.channel \in Channels
  BY DEF Dumps
<1>2. Scripts[r] = Script(r)
  BY DEF Scripts
<1>3. Script(r) = tprdump(r)
  BY <1>1 DEF Script
<1>4. QED
  BY <1>1, <1>2, <1>3 DEF tprdump, Open

\* A view of a typed state is in Local.
LEMMA ViewLocal ==
    ASSUME Typed, NEW p \in Procs, NEW f \in BOOLEAN
    PROVE  View(p, f) \in Local
<1> DEFINE g == [r \in Known |-> reg[r]]
<1>1. Known \subseteq FlagRegs
  BY RegFacts
<1>2. g \in [Known -> SUBSET (Flags \cup Bits)] /\ \A r \in Known : g[r] \subseteq RegVal(r)
  BY <1>1 DEF Typed
<1> HIDE DEF g
<1>3. v[p] \in SUBSET (Flags \cup Bits) /\ files[p][0] \in 0 .. 2 /\ trig \in [TrigRegs -> Settings] /\ Whole(trig)
  BY Progs DEF Typed
<1>4. [reg |-> g, v |-> v[p], held |-> files[p][0], fresh |-> f, trig |-> trig] \in Local
  BY <1>2, <1>3, LocalIs
<1>5. QED
  BY <1>4 DEF View, g

LEMMA ViewFields ==
    ASSUME NEW p, NEW f
    PROVE  /\ \A r \in Known : View(p, f).reg[r] = reg[r]
           /\ View(p, f).reg = [r \in Known |-> reg[r]]
           /\ View(p, f).v = v[p] /\ View(p, f).held = files[p][0] /\ View(p, f).fresh = f /\ View(p, f).trig = trig
BY DEF View

LEMMA InitInv == Init => IInv
<1> SUFFICES ASSUME Init PROVE IInv
  OBVIOUS
<1> USE DEF Init
<1>1. Typed
  <2>1. reg \in [FlagRegs -> SUBSET (Flags \cup Bits)]
    BY DEF Flags
  <2>2. \A r \in FlagRegs : reg[r] \subseteq RegVal(r)
    BY DEF Flags, RegVal
  <2>3. trig \in [TrigRegs -> Settings]
    BY DEF Settings
  <2>4. Whole(trig)
    <3>1. \A t \in Triggers : trig[Trigger("trigger", t)] = "off"
      <4>1. \A t \in Triggers : Trigger("trigger", t) \in TrigRegs /\ Trigger("trigger", t)[1] = "trigger"
        <5>1. "trigger" \in Fields
          BY DEF Fields
        <5>2. QED
          BY <5>1 DEF Trigger, TrigRegs
      <4>2. QED
        BY <4>1
    <3>2. QED
      BY <3>1 DEF Whole
  <2>5. files \in [Procs -> [Channels -> 0 .. 2]]
    OBVIOUS
  <2>6. run \in [Procs -> Runs \cup Dumps \cup {None, Exit}] /\ at \in [Procs -> Nat] /\ v \in [Procs -> SUBSET (Flags \cup Bits)]
    OBVIOUS
  <2>7. QED
    BY <2>1, <2>2, <2>3, <2>4, <2>5, <2>6 DEF Typed
<1>2. DmaWhileOpen
  <2>1. ASSUME NEW c \in Channels PROVE reg[Control(c)] = {}
    <3>1. Control(c) \in FlagRegs /\ Control(c) # CSR
      BY RegFacts, FlagFacts
    <3>2. QED
      BY <3>1
  <2>2. QED
    BY <2>1 DEF DmaWhileOpen
<1>3. OneTuner /\ EndedInv
  BY Progs DEF OneTuner, EndedInv
<1>4. ASSUME NEW p \in Tuners PROVE TunerInv(p)
  BY Progs DEF TunerInv, Running
<1>5. ASSUME NEW p \in Readers PROVE ReaderInv(p)
  BY Progs DEF ReaderInv
<1>6. QED
  BY <1>1, <1>2, <1>3, <1>4, <1>5 DEF IInv

\* No program asks for linkDownL.
LEMMA WantClean == \A r \in Runs : "linkDownL" \notin Want(r)[1]
<1>1. ASSUME NEW r \in Runs PROVE "linkDownL" \notin Want(r)[1]
  <2>1. CASE r.prog = "tprtest"
    BY <2>1 DEF Want
  <2>2. CASE r.prog = "tprtrig"
    BY <2>2 DEF Want
  <2>3. CASE r.prog = "tprtool"
    <3>1. CASE r.mode = Unset
      BY <2>3, <3>1 DEF Want
    <3>2. CASE r.mode # Unset
      BY <2>3, <3>2 DEF Want
    <3>3. QED
      BY <3>1, <3>2
  <2>4. QED
    BY <2>1, <2>2, <2>3, RunAssumption
<1>2. QED
  BY <1>1

\* The invariant implies the properties.
LEMMA Holds == IInv => Tuned /\ TriggerWhole /\ DmaWhileOpen
<1> SUFFICES ASSUME IInv PROVE Tuned /\ TriggerWhole
  BY DEF IInv
<1>1. TriggerWhole
  <2>1. Whole(trig)
    BY DEF IInv, Typed
  <2>2. ended # None => \A t \in Sets(ended) : \A f \in Fields : trig[Trigger(f, t)] = SetTo(ended)
    BY DEF IInv, EndedInv, Left
  <2>3. QED
    BY <2>1, <2>2 DEF Whole, TriggerWhole
<1>2. TypeOK
  <2>1. \A r \in FlagRegs : reg[r] \subseteq (IF r = CSR THEN Flags ELSE {"refclk", "enable", "clear", "dma"})
    BY DEF IInv, Typed, RegVal, Bits
  <2>2. QED
    BY <2>1 DEF IInv, Typed, TypeOK, Bits
<1>3. ASSUME ended # None
      PROVE  /\ reg[CSR] \ {"linkDownL"} = ((before \ Want(ended)[2]) \cup Want(ended)[1]) \ {"linkDownL"}
             /\ ended.prog = "tprtest" => reg[Refclk] = IF ended.refclk THEN {"refclk"} ELSE {}
             /\ ended.prog = "tprtest" /\ ended.ring => \A r \in Rings : reg[r] = {}
  <2>1. ended \in Runs /\ Left
    BY <1>3 DEF IInv, Typed, EndedInv
  <2>2. "linkDownL" \notin Want(ended)[1]
    BY <2>1, WantClean
  <2>3. reg[CSR] \ {"linkDownL"} = ((before \ Want(ended)[2]) \cup Want(ended)[1]) \ {"linkDownL"}
    BY <2>1, <2>2 DEF Left, Loss
  <2>4. QED
    BY <2>1, <2>3 DEF Left
<1>4. QED
  BY <1>1, <1>2, <1>3 DEF Tuned

-----------------------------------------------------------------------------
(* What the driver's calls leave                                            *)

\* They change the controls of the channels only, and leave no channel
\* sending that nobody has open.
Driven ==
    /\ reg' \in [FlagRegs -> SUBSET (Flags \cup Bits)] /\ \A r \in FlagRegs : reg'[r] \subseteq RegVal(r)
    /\ \A r \in Known : reg'[r] = reg[r]
    /\ files' \in [Procs -> [Channels -> 0 .. 2]] /\ DmaWhileOpen'

\* The control of a channel is none of the registers that outlines speak of.
LEMMA ControlVal ==
    ASSUME NEW c \in Channels
    PROVE  /\ RegVal(Control(c)) = Bits /\ Control(c) \in FlagRegs
           /\ \A r \in Known : r # Control(c)
BY RegFacts, FlagFacts DEF RegVal

LEMMA FilesUp ==
    ASSUME Typed, NEW p \in Procs, NEW c \in Channels, NEW n \in 0 .. 2
    PROVE  LET f == [files EXCEPT ![p][c] = n]
           IN /\ f \in [Procs -> [Channels -> 0 .. 2]] /\ f[p][c] = n
              /\ \A q \in Procs, d \in Channels : (q # p \/ d # c) => f[q][d] = files[q][d]
BY DEF Typed

\* The driver's open and release, by any process.
LEMMA OpenDrives ==
    ASSUME Typed, DmaWhileOpen, NEW p \in Procs, NEW c \in Channels, files[p][c] <= 1, tpr_open(p, c)
    PROVE  /\ Driven /\ files'[p][c] = files[p][c] + 1
           /\ \A q \in Procs, d \in Channels : (q # p \/ d # c) => files'[q][d] = files[q][d]
<1>1. files[p][c] \in 0 .. 2 /\ files[p][c] + 1 \in 0 .. 2
  BY DEF Typed
<1>2. files' = [files EXCEPT ![p][c] = files[p][c] + 1]
  BY DEF tpr_open, Typed
<1>3. /\ files' \in [Procs -> [Channels -> 0 .. 2]] /\ files'[p][c] = files[p][c] + 1
      /\ \A q \in Procs, d \in Channels : (q # p \/ d # c) => files'[q][d] = files[q][d]
  BY <1>1, <1>2, FilesUp
<1>4. reg' = reg \/ reg' = [reg EXCEPT ![Control(c)] = reg[Control(c)] \cup {"dma"}]
  BY DEF tpr_open
<1>5. reg \in [FlagRegs -> SUBSET (Flags \cup Bits)] /\ \A r \in FlagRegs : reg[r] \subseteq RegVal(r)
  BY DEF Typed
<1>6. \A r \in FlagRegs : r # Control(c) => reg'[r] = reg[r]
  BY <1>4, <1>5
<1>7. reg' \in [FlagRegs -> SUBSET (Flags \cup Bits)] /\ reg'[Control(c)] \subseteq Bits
  <2>1. reg[Control(c)] \subseteq Bits /\ {"dma"} \subseteq Bits
    BY <1>5, ControlVal DEF Bits
  <2>2. QED
    BY <1>4, <1>5, <2>1, ControlVal
<1>8. \A r \in FlagRegs : reg'[r] \subseteq RegVal(r)
  BY <1>5, <1>6, <1>7, ControlVal
<1>9. \A r \in Known : reg'[r] = reg[r]
  BY <1>6, ControlVal, RegFacts
<1>10. DmaWhileOpen'
  <2>1. ASSUME NEW d \in Channels \ Trigged, "dma" \in reg'[Control(d)] PROVE Opened(d)'
    <3>1. CASE d = c
      <4>1. files'[p][d] > 0
        BY <1>1, <1>3, <3>1
      <4>2. QED
        BY <4>1 DEF Opened
    <3>2. CASE d # c
      <4>1. Control(d) # Control(c) /\ Control(d) \in FlagRegs
        BY <3>2, RegFacts
      <4>2. "dma" \in reg[Control(d)]
        BY <1>6, <2>1, <4>1
      <4>3. Opened(d)
        BY <4>2 DEF DmaWhileOpen
      <4>4. QED
        BY <1>3, <3>2, <4>3 DEF Opened
    <3>3. QED
      BY <3>1, <3>2
  <2>2. QED
    BY <2>1 DEF DmaWhileOpen
<1>11. QED
  BY <1>3, <1>7, <1>8, <1>9, <1>10 DEF Driven

LEMMA ReleaseDrives ==
    ASSUME Typed, DmaWhileOpen, NEW p \in Procs, NEW c \in Channels, files[p][c] > 0, tpr_release(p, c)
    PROVE  /\ Driven /\ files'[p][c] = files[p][c] - 1
           /\ \A q \in Procs, d \in Channels : (q # p \/ d # c) => files'[q][d] = files[q][d]
<1>1. files[p][c] \in 0 .. 2 /\ files[p][c] - 1 \in 0 .. 2
  BY DEF Typed
<1>2. files' = [files EXCEPT ![p][c] = files[p][c] - 1]
  BY DEF tpr_release, Typed
<1>3. /\ files' \in [Procs -> [Channels -> 0 .. 2]] /\ files'[p][c] = files[p][c] - 1
      /\ \A q \in Procs, d \in Channels : (q # p \/ d # c) => files'[q][d] = files[q][d]
  BY <1>1, <1>2, FilesUp
<1>4. \/ reg' = reg /\ ~LastFile(p, c)
      \/ reg' = [reg EXCEPT ![Control(c)] = reg[Control(0)] \ {"dma"}]
  BY DEF tpr_release
<1>5. reg \in [FlagRegs -> SUBSET (Flags \cup Bits)] /\ \A r \in FlagRegs : reg[r] \subseteq RegVal(r)
  BY DEF Typed
<1>6. \A r \in FlagRegs : r # Control(c) => reg'[r] = reg[r]
  BY <1>4, <1>5
<1>7. reg' \in [FlagRegs -> SUBSET (Flags \cup Bits)] /\ reg'[Control(c)] \subseteq Bits
  <2>1. reg[Control(c)] \subseteq Bits /\ reg[Control(0)] \subseteq Bits
    BY <1>5, ControlVal, Progs
  <2>2. QED
    BY <1>4, <1>5, <2>1, ControlVal
<1>8. \A r \in FlagRegs : reg'[r] \subseteq RegVal(r)
  BY <1>5, <1>6, <1>7, ControlVal
<1>9. \A r \in Known : reg'[r] = reg[r]
  BY <1>6, ControlVal, RegFacts
<1>10. DmaWhileOpen'
  <2>1. ASSUME NEW d \in Channels \ Trigged, "dma" \in reg'[Control(d)] PROVE Opened(d)'
    <3>1. CASE d = c
      <4>1. ~LastFile(p, c)
        <5>1. ASSUME reg' = [reg EXCEPT ![Control(c)] = reg[Control(0)] \ {"dma"}] PROVE FALSE
          BY <1>5, <2>1, <3>1, <5>1, ControlVal
        <5>2. QED
          BY <1>4, <5>1
      <4>2. CASE files[p][c] # 1
        <5>1. files'[p][c] > 0
          BY <1>1, <1>3, <4>2
        <5>2. QED
          BY <3>1, <5>1 DEF Opened
      <4>3. CASE files[p][c] = 1
        <5>1. PICK q \in Procs \ {p} : files[q][c] # 0
          BY <4>1, <4>3 DEF LastFile
        <5>2. files'[q][c] = files[q][c] /\ files[q][c] \in 0 .. 2
          BY <1>3, <5>1 DEF Typed
        <5>3. files'[q][c] > 0
          BY <5>1, <5>2
        <5>4. QED
          BY <3>1, <5>3 DEF Opened
      <4>4. QED
        BY <4>2, <4>3
    <3>2. CASE d # c
      <4>1. Control(d) # Control(c) /\ Control(d) \in FlagRegs
        BY <3>2, RegFacts
      <4>2. "dma" \in reg[Control(d)]
        BY <1>6, <2>1, <4>1
      <4>3. Opened(d)
        BY <4>2 DEF DmaWhileOpen
      <4>4. QED
        BY <1>3, <3>2, <4>3 DEF Opened
    <3>3. QED
      BY <3>1, <3>2
  <2>2. QED
    BY <2>1 DEF DmaWhileOpen
<1>11. QED
  BY <1>3, <1>7, <1>8, <1>9, <1>10 DEF Driven

-----------------------------------------------------------------------------
(* What other processes leave of a tuner's place                            *)

\* A step that leaves p, its place and what it knows alone.
Apart(p) ==
    /\ run'[p] = run[p] /\ at'[p] = at[p] /\ v'[p] = v[p] /\ \A c \in Channels : files'[p][c] = files[p][c]
    /\ \A r \in Known : reg'[r] = reg[r]
    /\ trig' = trig /\ fresh' = fresh /\ before' = before

LEMMA ViewApart ==
    ASSUME NEW p \in Tuners, Apart(p), NEW f
    PROVE  View(p, f)' = View(p, f)
<1>1. [r \in Known |-> reg[r]]' = [r \in Known |-> reg[r]]
  BY DEF Apart
<1>2. QED
  BY <1>1, Progs DEF View, Apart

\* Such a step keeps a tuner's place.
LEMMA TunerApart ==
    ASSUME NEW p \in Tuners, TunerInv(p), Apart(p)
    PROVE  TunerInv(p)'
<1>1. /\ run'[p] = run[p] /\ at'[p] = at[p] /\ \A c \in Channels : files'[p][c] = files[p][c]
      /\ fresh' = fresh /\ before' = before /\ 0 \in Channels
  BY Progs DEF Apart
<1>2. Running(p)' = Running(p) /\ More(p)' = More(p)
  BY <1>1 DEF Running, More, Scripts
<1>3. ASSUME NEW A, Place(p, A) PROVE Place(p, A)'
  <2>1. PICK f \in BOOLEAN : View(p, f) \in A[at[p]] /\ (More(p) => f = fresh)
    BY <1>3 DEF Place
  <2>2. View(p, f)' \in A[at'[p]] /\ (More(p)' => f = fresh')
    BY <1>1, <1>2, <2>1, ViewApart
  <2>3. \E e \in BOOLEAN : View(p, e)' \in A[at'[p]] /\ (More(p)' => e = fresh')
    BY <2>2
  <2>4. QED
    BY <1>1, <1>3, <2>3 DEF Place, Scripts
<1>4. Follows(p) => Follows(p)'
  BY <1>3 DEF Follows
<1>5. QED
  BY <1>1, <1>2, <1>4 DEF TunerInv

-----------------------------------------------------------------------------
(* The steps                                                                *)

\* A step of p leaves the other processes where they are.
OnlyMoves(p) ==
    \A q \in Procs : q # p =>
      /\ run'[q] = run[q] /\ at'[q] = at[q] /\ v'[q] = v[q]
      /\ \A c \in Channels : files'[q][c] = files[q][c]

LEMMA ReaderApart ==
    ASSUME NEW p \in Readers, ReaderInv(p), run'[p] = run[p], at'[p] = at[p],
           \A c \in Channels : files'[p][c] = files[p][c]
    PROVE  ReaderInv(p)'
BY DEF ReaderInv

\* A step of a tuner: no other tuner runs a program.
LEMMA TunerMoves ==
    ASSUME IInv, NEW p \in Tuners, run[p] # None, OnlyMoves(p)
    PROVE  /\ \A q \in Tuners : q # p => TunerInv(q)' /\ ~Running(q)'
           /\ \A q \in Readers : ReaderInv(q)'
           /\ OneTuner'
<1>1. \A q \in Tuners : q # p => run[q] = None /\ run'[q] = None /\ at'[q] = at[q] /\ \A c \in Channels : files'[q][c] = files[q][c]
  BY Progs DEF IInv, OneTuner, OnlyMoves
<1>2. ASSUME NEW q \in Tuners, q # p PROVE TunerInv(q)' /\ ~Running(q)'
  <2>1. TunerInv(q)
    BY DEF IInv
  <2>2. ~Running(q)'
    BY <1>1, <1>2 DEF Running
  <2>3. QED
    BY <1>1, <1>2, <2>1, <2>2, Progs DEF TunerInv
<1>3. ASSUME NEW q \in Readers PROVE ReaderInv(q)'
  <2>1. q # p /\ q \in Procs
    BY Progs
  <2>2. ReaderInv(q)
    BY DEF IInv
  <2>3. QED
    BY <2>1, <2>2, ReaderApart DEF OnlyMoves
<1>4. OneTuner'
  BY <1>1 DEF OneTuner
<1>5. QED
  BY <1>2, <1>3, <1>4

\* A step of a reader, which changes no register a tuner relies on.
LEMMA ReaderMoves ==
    ASSUME IInv, NEW p \in Readers, OnlyMoves(p), \A r \in Known : reg'[r] = reg[r],
           trig' = trig, fresh' = fresh, before' = before, ended' = ended
    PROVE  /\ \A q \in Tuners : TunerInv(q)'
           /\ \A q \in Readers : q # p => ReaderInv(q)'
           /\ OneTuner' /\ EndedInv'
<1>1. ASSUME NEW q \in Tuners PROVE Apart(q) /\ q # p
  BY Progs DEF OnlyMoves, Apart
<1>2. ASSUME NEW q \in Tuners PROVE TunerInv(q)'
  BY <1>1, TunerApart DEF IInv
<1>3. ASSUME NEW q \in Readers, q # p PROVE ReaderInv(q)'
  <2>1. q \in Procs /\ ReaderInv(q)
    BY Progs DEF IInv
  <2>2. QED
    BY <1>3, <2>1, ReaderApart DEF OnlyMoves
<1>4. \A q \in Tuners : run'[q] = run[q] /\ Running(q)' = Running(q)
  BY <1>1 DEF Apart, Running
<1>5. OneTuner'
  BY <1>4 DEF OneTuner, IInv
<1>6. EndedInv'
  <2>1. ASSUME ended' # None PROVE (\A q \in Tuners : ~Running(q)') /\ Left'
    <3>1. (\A q \in Tuners : ~Running(q)) /\ Left
      BY <2>1 DEF IInv, EndedInv
    <3>2. reg'[CSR] = reg[CSR] /\ reg'[Refclk] = reg[Refclk] /\ \A q \in Rings : reg'[q] = reg[q]
      BY FlagFacts
    <3>3. Left'
      BY <3>1, <3>2 DEF Left
    <3>4. QED
      BY <1>4, <3>1, <3>3
  <2>2. QED
    BY <2>1 DEF EndedInv
<1>7. QED
  BY <1>2, <1>3, <1>5, <1>6

\* A step that changes no register and no file keeps DmaWhileOpen.
LEMMA SameDma ==
    ASSUME DmaWhileOpen, reg' = reg, \A q \in Procs, c \in Channels : files'[q][c] = files[q][c]
    PROVE  DmaWhileOpen'
<1>1. \A c \in Channels : Opened(c)' = Opened(c)
  BY DEF Opened
<1>2. QED
  BY <1>1 DEF DmaWhileOpen

-----------------------------------------------------------------------------

\* A program that starts is at the first place of its outline.
LEMMA StartStep ==
    ASSUME IInv, NEW p \in Procs, Start(p)
    PROVE  IInv'
<1> USE DEF Start
<1>1. /\ run[p] = None /\ reg' = reg /\ trig' = trig /\ at' = at /\ v' = v /\ files' = files /\ fresh' = fresh
      /\ Typed /\ DmaWhileOpen
  BY DEF IInv
<1>2. DmaWhileOpen'
  BY <1>1, SameDma
<1>3. CASE p \in Readers
  <2>1. PICK d \in Dumps : run' = [run EXCEPT ![p] = d]
    BY <1>3
  <2>2. before' = before /\ starts' = starts /\ ended' = ended
    BY <1>3
  <2>3. OnlyMoves(p)
    BY <1>1, <2>1 DEF OnlyMoves, Typed
  <2>4. Typed'
    <3>1. run' \in [Procs -> Runs \cup Dumps \cup {None, Exit}]
      BY <1>1, <2>1 DEF Typed
    <3>2. QED
      BY <1>1, <2>2, <3>1 DEF Typed
  <2>5. run'[p] = d
    BY <1>1, <2>1 DEF Typed
  <2>6. ReaderInv(p)'
    <3>1. ReaderInv(p)
      BY <1>3 DEF IInv
    <3>2. QED
      BY <1>1, <2>5, <3>1, Progs DEF ReaderInv
  <2>7. /\ \A q \in Tuners : TunerInv(q)'
        /\ \A q \in Readers : q # p => ReaderInv(q)'
        /\ OneTuner' /\ EndedInv'
    BY <1>1, <1>3, <2>2, <2>3, ReaderMoves
  <2>8. QED
    BY <1>2, <2>4, <2>6, <2>7 DEF IInv
<1>4. CASE p \notin Readers
  <2>1. p \in Tuners /\ (\A q \in Tuners : run[q] = None) /\ before' = reg[CSR] /\ ended' = None
    BY <1>4, Progs
  <2>2. PICK r \in Runs : run' = [run EXCEPT ![p] = r]
    BY <1>4
  <2>3. run'[p] = r /\ \A q \in Procs : q # p => run'[q] = run[q]
    BY <1>1, <2>2 DEF Typed
  <2>4. Typed'
    <3>1. run' \in [Procs -> Runs \cup Dumps \cup {None, Exit}]
      BY <1>1, <2>2 DEF Typed
    <3>2. before' \in SUBSET Flags
      BY <1>1, <2>1, FlagFacts, RegFacts DEF Typed, RegVal
    <3>3. QED
      BY <1>1, <2>1, <3>1, <3>2 DEF Typed
  <2>5. OneTuner'
    BY <2>1, <2>3, Progs DEF OneTuner
  <2>6. EndedInv'
    BY <2>1 DEF EndedInv
  <2>7. ASSUME NEW q \in Readers PROVE ReaderInv(q)'
    <3>1. q # p /\ q \in Procs /\ ReaderInv(q)
      BY <1>4, Progs DEF IInv
    <3>2. QED
      BY <1>1, <2>3, <3>1, ReaderApart
  <2>8. ASSUME NEW q \in Tuners, q # p PROVE TunerInv(q)'
    <3>1. run'[q] = None /\ TunerInv(q) /\ run[q] = None
      BY <2>1, <2>3, <2>8, Progs DEF IInv
    <3>2. ~Running(q)'
      BY <3>1 DEF Running
    <3>3. QED
      BY <1>1, <3>1, <3>2 DEF TunerInv
  <2>9. TunerInv(p)'
    <3> DEFINE g == [x \in Known |-> reg[x] \ Loss]
    <3>1. g \in CleanVals
      <4>1. \A x \in Known : reg[x] \subseteq RegVal(x)
        BY <1>1, RegFacts DEF Typed
      <4>2. \A x \in Known : g[x] \in Clean(x) /\ g[x] \in SUBSET (Flags \cup Bits)
        BY <4>1, RegValSub DEF Clean
      <4>3. g \in Vals
        BY <4>2 DEF Vals
      <4>4. QED
        BY <4>2, <4>3 DEF CleanVals
    <3>2. \A x \in Known : g[x] = reg[x] \ Loss
      OBVIOUS
    <3> HIDE DEF g
    <3>3. files[p][0] = 0 /\ at[p] = 1 /\ \A c \in Channels : c # 0 => files[p][c] = 0
      BY <1>1, <2>1 DEF IInv, TunerInv
    <3>4. View(p, fresh) \in Rest(g, {0})
      <4>1. View(p, fresh) \in Local
        BY <1>1, <2>1, ViewLocal DEF Typed
      <4>2. ASSUME NEW x \in Known PROVE View(p, fresh).reg[x] \ Loss = g[x]
        <5>1. View(p, fresh).reg[x] = reg[x]
          BY DEF View
        <5>2. QED
          BY <3>2, <5>1
      <4>3. View(p, fresh).held = 0
        BY <3>3 DEF View
      <4>4. QED
        BY <4>1, <4>2, <4>3 DEF Rest
    <3>5. Brings(r.prog, Rest(g, {0}), Scripts[r], Done(r, g[CSR]))
      BY <3>1, ScriptBrings
    <3>6. PICK A : /\ Outline(r.prog, Scripts[r], A) /\ Rest(g, {0}) \subseteq A[1]
                   /\ A[Len(Scripts[r]) + 1] \subseteq Done(r, g[CSR])
      BY <3>5 DEF Brings
    <3>7. g[CSR] = before' \ Loss
      BY <2>1, <3>2, FlagFacts
    <3>8. Len(Scripts[r]) \in Nat
      BY <3>5, Concat DEF Brings
    <3>9. View(p, fresh)' = View(p, fresh)
      BY <1>1 DEF View
    <3>10. \E f \in BOOLEAN : View(p, f)' \in A[at'[p]] /\ (More(p)' => f = fresh')
      <4>1. fresh \in BOOLEAN /\ View(p, fresh) \in A[at'[p]]
        BY <1>1, <3>3, <3>4, <3>6 DEF Typed
      <4>2. View(p, fresh)' = [reg |-> [x \in Known |-> reg'[x]], v |-> v'[p], held |-> files'[p][0], fresh |-> fresh', trig |-> trig']
        BY DEF View
      <4>3. QED
        BY <1>1, <3>9, <4>1, <4>2 DEF View
    <3>11. at'[p] \in 1 .. (Len(Scripts[r]) + 1)
      BY <1>1, <3>3, <3>8
    <3>12. Place(p, A)'
      BY <2>3, <3>6, <3>7, <3>10, <3>11 DEF Place, Scripts
    <3>13. Follows(p)'
      BY <3>12 DEF Follows
    <3>14. QED
      BY <1>1, <2>3, <3>3, <3>13, Progs DEF TunerInv
  <2>10. QED
    BY <1>2, <2>4, <2>5, <2>6, <2>7, <2>8, <2>9 DEF IInv
<1>5. QED
  BY <1>3, <1>4

\* A script is a list.
LEMMA ScriptSeq ==
    ASSUME NEW r \in Runs
    PROVE  Len(Scripts[r]) \in Nat
<1> DEFINE g == [x \in Known |-> {}]
<1>1. \A x \in Known : g[x] \in Clean(x)
  BY DEF Clean
<1>2. g \in Vals
  BY DEF Vals
<1>3. g \in CleanVals
  BY <1>1, <1>2 DEF CleanVals
<1> HIDE DEF g
<1>4. Brings(r.prog, Rest(g, {0}), Scripts[r], Done(r, g[CSR]))
  BY <1>3, ScriptBrings
<1>5. QED
  BY <1>4, Concat DEF Brings

\* The place of a tuner that has steps left.
At(p, A) ==
    /\ Outline(run[p].prog, Scripts[run[p]], A)
    /\ Len(Scripts[run[p]]) \in Nat /\ at[p] \in 1 .. Len(Scripts[run[p]])
    /\ View(p, fresh) \in A[at[p]]
    /\ A[Len(Scripts[run[p]]) + 1] \subseteq Done(run[p], before \ Loss)

LEMMA Placed ==
    ASSUME IInv, NEW p \in Tuners, More(p)
    PROVE  run[p] \in Runs /\ \E A : At(p, A)
<1>1. Running(p) /\ at[p] <= Len(Scripts[run[p]]) /\ TunerInv(p)
  BY DEF More, IInv
<1>2. run[p] \in Runs
  BY <1>1 DEF TunerInv, Running
<1>3. Len(Scripts[run[p]]) \in Nat
  BY <1>2, ScriptSeq
<1>4. PICK A : Place(p, A)
  BY <1>1 DEF TunerInv, Follows
<1>5. View(p, fresh) \in A[at[p]]
  BY <1>4 DEF Place
<1>6. at[p] \in 1 .. Len(Scripts[run[p]])
  BY <1>1, <1>3, <1>4 DEF Place
<1>7. At(p, A)
  BY <1>3, <1>4, <1>5, <1>6 DEF Place, At
<1>8. QED
  BY <1>2, <1>7

\* A tuner that goes to a place where the outline holds keeps the invariant.
LEMMA Goes ==
    ASSUME IInv, NEW p \in Tuners, More(p), NEW A, At(p, A), OnlyMoves(p), Typed', DmaWhileOpen',
           run' = run, before' = before, ended' = ended, \A c \in Channels : c # 0 => files'[p][c] = files[p][c],
           at'[p] \in 1 .. (Len(Scripts[run[p]]) + 1), View(p, fresh)' \in A[at'[p]]
    PROVE  IInv'
<1>1. run[p] \in Runs /\ run[p] # None /\ run[p] # Exit /\ Running(p) /\ TunerInv(p)
  BY Placed, Progs DEF IInv, More
<1>2. /\ \A q \in Tuners : q # p => TunerInv(q)' /\ ~Running(q)'
      /\ \A q \in Readers : ReaderInv(q)'
      /\ OneTuner'
  BY <1>1, TunerMoves
<1>3. EndedInv'
  BY <1>1 DEF IInv, EndedInv
<1>4. \E f \in BOOLEAN : View(p, f)' \in A[at'[p]] /\ (More(p)' => f = fresh')
  <2>1. fresh' \in BOOLEAN
    BY DEF Typed
  <2>2. ASSUME NEW f \in BOOLEAN, f = fresh' PROVE View(p, f)' \in A[at'[p]]
    <3>1. View(p, f)' = View(p, fresh)'
      BY <2>2 DEF View
    <3>2. QED
      BY <3>1
  <2>3. QED
    BY <2>1, <2>2
<1>5. Outline(run[p].prog, Scripts[run[p]], A) /\ A[Len(Scripts[run[p]]) + 1] \subseteq Done(run[p], before \ Loss)
  BY DEF At
<1>6. Place(p, A)'
  BY <1>4, <1>5 DEF Place, Scripts
<1>7. TunerInv(p)'
  BY <1>1, <1>6 DEF TunerInv, Follows
<1>8. QED
  BY <1>2, <1>3, <1>7 DEF IInv

\* What an access does to the variables.
Accessed(p) ==
    /\ reg' = IF Step(p).op \in Writes
              THEN [reg EXCEPT ![Step(p).reg] = Written(Step(p).reg, Value(Step(p), v[p]))] ELSE reg
    /\ trig' = IF Step(p).op = "settrig" THEN [trig EXCEPT ![Step(p).reg] = Step(p).val] ELSE trig
    /\ v' = [v EXCEPT ![p] = IF Step(p).op = "get" THEN reg[Step(p).reg]
                             ELSE IF Step(p).op = "save" THEN Value(Step(p), v[p]) ELSE v[p]]
    /\ fresh' = (fresh /\ ~(Step(p).op = "get" /\ Step(p).reg = CSR))
    /\ at' = [at EXCEPT ![p] = at[p] + 1]
    /\ UNCHANGED <<run, files, before, starts, ended>>

LEMMA AccessIs ==
    ASSUME Typed, NEW p \in Procs, Access(p)
    PROVE  Accessed(p)
<1> DEFINE s == Step(p)
           val == CASE s.op = "set" -> s.val [] s.op \in {"put", "save"} -> (v[p] \ s.off) \cup s.on [] OTHER -> {}
<1>1. s.op \in Writes => val = Value(s, v[p])
  BY DEF Writes, Value
<1>2. /\ reg' = IF s.op \in {"put", "save", "set"} THEN [reg EXCEPT ![s.reg] = Written(s.reg, val)] ELSE reg
      /\ trig' = IF s.op = "settrig" THEN [trig EXCEPT ![s.reg] = s.val] ELSE trig
      /\ v' = CASE s.op = "get" -> [v EXCEPT ![p] = reg[s.reg]]
                [] s.op = "save" -> [v EXCEPT ![p] = val] [] OTHER -> v
      /\ fresh' = (fresh /\ ~(s.op = "get" /\ s.reg = CSR))
      /\ at' = [at EXCEPT ![p] = @ + 1]
      /\ UNCHANGED <<run, files, before, starts, ended>>
  BY DEF Access
<1> HIDE DEF val, s
<1>3. at' = [at EXCEPT ![p] = at[p] + 1]
  BY <1>2 DEF Typed
<1>4. v' = [v EXCEPT ![p] = IF s.op = "get" THEN reg[s.reg] ELSE IF s.op = "save" THEN Value(s, v[p]) ELSE v[p]]
  <2>1. v = [v EXCEPT ![p] = v[p]]
    BY DEF Typed
  <2>2. CASE s.op = "get"
    BY <1>2, <2>2
  <2>3. CASE s.op = "save"
    BY <1>1, <1>2, <2>3 DEF Writes
  <2>4. CASE s.op # "get" /\ s.op # "save"
    BY <1>2, <2>1, <2>4
  <2>5. QED
    BY <2>2, <2>3, <2>4
<1>5. reg' = IF s.op \in Writes THEN [reg EXCEPT ![s.reg] = Written(s.reg, Value(s, v[p]))] ELSE reg
  BY <1>1, <1>2 DEF Writes
<1>6. QED
  BY <1>2, <1>3, <1>4, <1>5 DEF Accessed, s

\* Only a program with a step list of accesses gets to one: not a reader.
LEMMA ReaderOpens ==
    ASSUME NEW p \in Readers, ReaderInv(p), More(p)
    PROVE  /\ run[p] \in Dumps /\ at[p] = 1 /\ Len(Scripts[run[p]]) = 1
           /\ Step(p).op = "open" /\ Step(p).channel = run[p].channel /\ Step(p).skip = 0
           /\ run[p].channel \in Channels
<1>1. run[p] \in Dumps /\ at[p] \in {1, 2} /\ at[p] <= Len(Scripts[run[p]])
  BY DEF ReaderInv, More, Running
<1>2. Scripts[run[p]] = <<[op |-> "open", channel |-> run[p].channel, skip |-> 0]>> /\ run[p].channel \in Channels
  BY <1>1, DumpScript
<1>3. at[p] = 1
  BY <1>1, <1>2
<1>4. QED
  BY <1>1, <1>2, <1>3 DEF Step

\* The value of a register that is written, and the rest.
LEMMA Writing ==
    ASSUME Typed, NEW r \in FlagRegs, NEW x, x \subseteq RegVal(r), reg' = [reg EXCEPT ![r] = Written(r, x)]
    PROVE  /\ reg' \in [FlagRegs -> SUBSET (Flags \cup Bits)] /\ \A y \in FlagRegs : reg'[y] \subseteq RegVal(y)
           /\ reg'[r] = Written(r, x) /\ \A y \in FlagRegs : y # r => reg'[y] = reg[y]
<1>1. Written(r, x) \subseteq x
  BY DEF Written
<1>2. Written(r, x) \subseteq RegVal(r) /\ Written(r, x) \in SUBSET (Flags \cup Bits)
  BY <1>1, RegValSub
<1>3. reg \in [FlagRegs -> SUBSET (Flags \cup Bits)] /\ \A y \in FlagRegs : reg[y] \subseteq RegVal(y)
  BY DEF Typed
<1> HIDE DEF Written
<1>4. reg'[r] = Written(r, x) /\ (\A y \in FlagRegs : y # r => reg'[y] = reg[y]) /\ reg' \in [FlagRegs -> SUBSET (Flags \cup Bits)]
  BY <1>2, <1>3
<1>5. QED
  BY <1>2, <1>3, <1>4

\* A safe access keeps the types, is what the outline calls the step, and
\* lets no channel send that nobody has open.
LEMMA AccessTyped ==
    ASSUME Typed, NEW p \in Procs, Accessed(p), NEW k, Safe(k, Step(p), View(p, fresh))
    PROVE  Typed'
<1> DEFINE s == Step(p)
           l == View(p, fresh)
<1>1. l.v = v[p] /\ l.trig = trig
  BY DEF View
<1>2. v[p] \in SUBSET (Flags \cup Bits) /\ reg \in [FlagRegs -> SUBSET (Flags \cup Bits)] /\ \A r \in FlagRegs : reg[r] \subseteq RegVal(r)
  BY DEF Typed
<1>3. Safe(k, s, l)
  OBVIOUS
<1>4. /\ s.op \in Writes \cup {"get"} => s.reg \in FlagRegs
      /\ s.op \in Writes => Value(s, v[p]) \subseteq RegVal(s.reg)
      /\ s.op = "settrig" => s.reg \in TrigRegs /\ s.val \in Settings /\ Whole([trig EXCEPT ![s.reg] = s.val])
  BY <1>1, <1>3 DEF Safe, SafeWrite
<1>5. /\ reg' = IF s.op \in Writes THEN [reg EXCEPT ![s.reg] = Written(s.reg, Value(s, v[p]))] ELSE reg
      /\ trig' = IF s.op = "settrig" THEN [trig EXCEPT ![s.reg] = s.val] ELSE trig
      /\ v' = [v EXCEPT ![p] = IF s.op = "get" THEN reg[s.reg] ELSE IF s.op = "save" THEN Value(s, v[p]) ELSE v[p]]
      /\ fresh' = (fresh /\ ~(s.op = "get" /\ s.reg = CSR))
      /\ at' = [at EXCEPT ![p] = at[p] + 1]
      /\ run' = run /\ files' = files /\ before' = before /\ ended' = ended
  BY DEF Accessed
<1> HIDE DEF s, l
<1>6. reg' \in [FlagRegs -> SUBSET (Flags \cup Bits)] /\ \A r \in FlagRegs : reg'[r] \subseteq RegVal(r)
  <2>1. CASE s.op \in Writes
    BY <1>4, <1>5, <2>1, Writing
  <2>2. CASE s.op \notin Writes
    BY <1>2, <1>5, <2>2
  <2>3. QED
    BY <2>1, <2>2
<1>7. trig' \in [TrigRegs -> Settings] /\ Whole(trig')
  <2>1. trig \in [TrigRegs -> Settings] /\ Whole(trig)
    BY DEF Typed
  <2>2. CASE s.op = "settrig"
    BY <1>4, <1>5, <2>1, <2>2
  <2>3. CASE s.op # "settrig"
    BY <1>5, <2>1, <2>3
  <2>4. QED
    BY <2>2, <2>3
<1>8. v' \in [Procs -> SUBSET (Flags \cup Bits)]
  <2> DEFINE w == IF s.op = "get" THEN reg[s.reg] ELSE IF s.op = "save" THEN Value(s, v[p]) ELSE v[p]
  <2>1. w \in SUBSET (Flags \cup Bits)
    <3>1. s.op = "save" => Value(s, v[p]) \subseteq Flags \cup Bits
      BY <1>4, RegValSub DEF Writes
    <3>2. s.op = "get" => reg[s.reg] \subseteq Flags \cup Bits
      BY <1>2, <1>4
    <3>3. QED
      BY <1>2, <3>1, <3>2
  <2>2. v' = [v EXCEPT ![p] = w]
    BY <1>5
  <2> HIDE DEF w
  <2>3. QED
    BY <2>1, <2>2 DEF Typed
<1>9. at' \in [Procs -> Nat] /\ fresh' \in BOOLEAN
  BY <1>5 DEF Typed
<1>10. QED
  BY <1>5, <1>6, <1>7, <1>8, <1>9 DEF Typed

LEMMA AccessDoes ==
    ASSUME Typed, NEW p \in Procs, Accessed(p), NEW k, Safe(k, Step(p), View(p, fresh)),
           Step(p).op \notin {"open", "close"}
    PROVE  Does(Step(p), View(p, fresh), View(p, fresh)')
<1> DEFINE s == Step(p)
           l == View(p, fresh)
           m == [reg |-> [r \in Known |-> reg'[r]], v |-> v'[p], held |-> files'[p][0], fresh |-> fresh', trig |-> trig']
<1>1. View(p, fresh)' = m
  BY DEF View
<1>2. l.v = v[p] /\ l.trig = trig /\ l.held = files[p][0] /\ l.fresh = fresh /\ l.reg = [r \in Known |-> reg[r]]
  BY ViewFields
<1>3. m.reg = [r \in Known |-> reg'[r]] /\ m.v = v'[p] /\ m.held = files'[p][0] /\ m.fresh = fresh' /\ m.trig = trig'
  OBVIOUS
<1>4. Safe(k, s, l) /\ s.op \notin {"open", "close"}
  OBVIOUS
<1>5. /\ reg' = IF s.op \in Writes THEN [reg EXCEPT ![s.reg] = Written(s.reg, Value(s, v[p]))] ELSE reg
      /\ trig' = IF s.op = "settrig" THEN [trig EXCEPT ![s.reg] = s.val] ELSE trig
      /\ v' = [v EXCEPT ![p] = IF s.op = "get" THEN reg[s.reg] ELSE IF s.op = "save" THEN Value(s, v[p]) ELSE v[p]]
      /\ fresh' = (fresh /\ ~(s.op = "get" /\ s.reg = CSR))
      /\ files' = files
  BY DEF Accessed
<1> HIDE DEF s, l, m
<1>6. s.op \in Writes \cup {"get"} => s.reg \in FlagRegs
  BY <1>4 DEF Safe
<1>7. v'[p] = IF s.op = "get" THEN reg[s.reg] ELSE IF s.op = "save" THEN Value(s, v[p]) ELSE v[p]
  BY <1>5 DEF Typed
<1>8. m.reg = IF s.op \in Writes /\ s.reg \in Known
              THEN [l.reg EXCEPT ![s.reg] = Stored(l, s.reg, Value(s, l.v))] ELSE l.reg
  <2>1. CASE s.op \in Writes
    <3> DEFINE x == Value(s, v[p])
    <3>1. s.reg \in FlagRegs /\ reg' = [reg EXCEPT ![s.reg] = Written(s.reg, x)] /\ x = Value(s, l.v)
      BY <1>2, <1>5, <1>6, <2>1
    <3>2. Stored(l, s.reg, x) = Written(s.reg, x)
      BY <1>2, FlagFacts DEF Stored, Written, Loss
    <3> HIDE DEF x
    <3>3. reg \in [FlagRegs -> SUBSET (Flags \cup Bits)] /\ Known \subseteq FlagRegs
      BY RegFacts DEF Typed
    <3>4. CASE s.reg \in Known
      <4>1. [r \in Known |-> reg'[r]] = [[r \in Known |-> reg[r]] EXCEPT ![s.reg] = Written(s.reg, x)]
        BY <3>1, <3>3, <3>4
      <4>2. QED
        BY <1>2, <1>3, <2>1, <3>1, <3>2, <3>4, <4>1
    <3>5. CASE s.reg \notin Known
      <4>1. [r \in Known |-> reg'[r]] = [r \in Known |-> reg[r]]
        BY <3>1, <3>3, <3>5
      <4>2. QED
        BY <1>2, <1>3, <3>5, <4>1
    <3>6. QED
      BY <3>4, <3>5
  <2>2. CASE s.op \notin Writes
    BY <1>2, <1>3, <1>5, <2>2
  <2>3. QED
    BY <2>1, <2>2
<1>9. /\ s.op \notin {"get", "save"} => m.v = l.v
      /\ s.op = "save" => m.v = Value(s, l.v)
      /\ s.op = "get" => IF s.reg \in Known THEN m.v = l.reg[s.reg] ELSE m.v \in SUBSET Bits
  <2>1. CASE s.op = "get"
    <3>1. m.v = reg[s.reg] /\ s.reg \in FlagRegs /\ reg[s.reg] \subseteq RegVal(s.reg)
      BY <1>3, <1>6, <1>7, <2>1 DEF Typed
    <3>2. s.reg \notin Known => RegVal(s.reg) = Bits
      BY FlagFacts DEF RegVal, Known
    <3>3. s.reg \in Known => l.reg[s.reg] = reg[s.reg]
      BY <1>2
    <3>4. QED
      BY <2>1, <3>1, <3>2, <3>3
  <2>2. CASE s.op # "get"
    BY <1>2, <1>3, <1>7, <2>2
  <2>3. QED
    BY <2>1, <2>2
<1>10. m.held = l.held /\ m.fresh = (l.fresh /\ ~(s.op = "get" /\ s.reg = CSR))
  BY <1>2, <1>3, <1>5
<1>11. m.trig = IF s.op = "settrig" THEN [l.trig EXCEPT ![s.reg] = s.val] ELSE l.trig
  BY <1>2, <1>3, <1>5
<1>12. Does(s, l, m)
  BY <1>4, <1>8, <1>9, <1>10, <1>11 DEF Does
<1>13. QED
  BY <1>1, <1>12 DEF s, l

LEMMA AccessDma ==
    ASSUME Typed, DmaWhileOpen, NEW p \in Procs, Accessed(p), NEW k, Safe(k, Step(p), View(p, fresh))
    PROVE  DmaWhileOpen'
<1> DEFINE s == Step(p)
           l == View(p, fresh)
           x == Value(s, v[p])
<1>1. l.v = v[p] /\ l.held = files[p][0]
  BY ViewFields
<1>2. files' = files /\ (s.op \in Writes \/ reg' = reg) /\ (s.op \in Writes => reg' = [reg EXCEPT ![s.reg] = Written(s.reg, x)])
  BY DEF Accessed
<1>3. s.op \in Writes => /\ s.reg \in FlagRegs /\ x \subseteq RegVal(s.reg)
                         /\ (s.reg \notin Known /\ "dma" \in x) =>
                              (s.reg \in {Control(c) : c \in Trigged} \/ (s.reg = Control(0) /\ files[p][0] > 0))
  BY <1>1 DEF Safe, SafeWrite
<1> HIDE DEF s, l, x
<1>4. CASE s.op \notin Writes
  <2>1. reg' = reg
    BY <1>2, <1>4
  <2>2. QED
    BY <1>2, <2>1, SameDma
<1>5. CASE s.op \in Writes
  <2>1. reg'[s.reg] = Written(s.reg, x) /\ \A y \in FlagRegs : y # s.reg => reg'[y] = reg[y]
    BY <1>2, <1>3, <1>5, Writing
  <2>2. ASSUME NEW c \in Channels \ Trigged, "dma" \in reg'[Control(c)] PROVE Opened(c)'
    <3>1. Control(c) \in FlagRegs /\ Control(c) \notin Known /\ Control(c) # CSR
      BY RegFacts, FlagFacts
    <3>2. CASE s.reg # Control(c)
      <4>1. Opened(c)
        BY <2>1, <2>2, <3>1, <3>2 DEF DmaWhileOpen
      <4>2. QED
        BY <1>2, <4>1 DEF Opened
    <3>3. CASE s.reg = Control(c)
      <4>1. "dma" \in x
        BY <2>1, <2>2, <3>1, <3>3 DEF Written
      <4>2. \A d \in Trigged : Control(c) # Control(d)
        BY <2>2 DEF Control
      <4>3. Control(c) = Control(0) /\ files[p][0] > 0
        BY <1>3, <1>5, <3>1, <3>3, <4>1, <4>2
      <4>4. c = 0
        BY <4>3 DEF Control
      <4>5. QED
        BY <1>2, <4>3, <4>4 DEF Opened
    <3>4. QED
      BY <3>2, <3>3
  <2>3. QED
    BY <2>2 DEF DmaWhileOpen
<1>6. QED
  BY <1>4, <1>5

\* A view of a typed state after a step is in Local.
LEMMA ViewNext ==
    ASSUME Typed', NEW p \in Procs
    PROVE  View(p, fresh)' \in Local
<1> DEFINE g == [r \in Known |-> reg'[r]]
<1>1. Known \subseteq FlagRegs
  BY RegFacts
<1>2. g \in [Known -> SUBSET (Flags \cup Bits)] /\ \A r \in Known : g[r] \subseteq RegVal(r)
  BY <1>1 DEF Typed
<1> HIDE DEF g
<1>3. /\ v'[p] \in SUBSET (Flags \cup Bits) /\ files'[p][0] \in 0 .. 2 /\ fresh' \in BOOLEAN
      /\ trig' \in [TrigRegs -> Settings] /\ Whole(trig')
  BY Progs DEF Typed
<1>4. [reg |-> g, v |-> v'[p], held |-> files'[p][0], fresh |-> fresh', trig |-> trig'] \in Local
  BY <1>2, <1>3, LocalIs
<1>5. QED
  BY <1>4 DEF View, g

\* The steps of Next, each of which keeps the invariant.
LEMMA AccessStep ==
    ASSUME IInv, NEW p \in Procs, Access(p)
    PROVE  IInv'
<1>1. Typed /\ DmaWhileOpen /\ More(p) /\ Step(p).op \in {"get", "put", "save", "set", "settrig"} /\ Accessed(p)
  BY AccessIs DEF IInv, Access
<1>2. p \in Tuners
  <2>1. ASSUME p \in Readers PROVE FALSE
    BY <1>1, <2>1, ReaderOpens DEF IInv
  <2>2. QED
    BY <2>1, Progs
<1>3. PICK A : At(p, A)
  BY <1>1, <1>2, Placed
<1>4. Len(Scripts[run[p]]) \in Nat /\ at[p] \in 1 .. Len(Scripts[run[p]])
  BY <1>3 DEF At
<1>5. Safe(run[p].prog, Step(p), View(p, fresh))
  BY <1>3 DEF At, Outline, Step
<1>6. Typed'
  BY <1>1, <1>5, AccessTyped
<1>7. DmaWhileOpen'
  BY <1>1, <1>5, AccessDma
<1>8. Does(Step(p), View(p, fresh), View(p, fresh)')
  BY <1>1, <1>5, AccessDoes
<1>9. View(p, fresh)' \in Local
  BY <1>6, ViewNext
<1>10. /\ at'[p] = at[p] + 1 /\ run' = run /\ files' = files /\ before' = before /\ ended' = ended
       /\ \A q \in Procs : q # p => at'[q] = at[q] /\ v'[q] = v[q]
  BY <1>1 DEF Accessed, Typed
<1>11. View(p, fresh)' \in A[at'[p]]
  BY <1>3, <1>8, <1>9, <1>10 DEF At, Outline, Step
<1>12. OnlyMoves(p)
  BY <1>10 DEF OnlyMoves
<1>13. at'[p] \in 1 .. (Len(Scripts[run[p]]) + 1)
  BY <1>4, <1>10
<1>14. QED
  BY <1>1, <1>2, <1>3, <1>6, <1>7, <1>10, <1>11, <1>12, <1>13, Goes

LEMMA DrivenTyped ==
    ASSUME Typed, Driven, UNCHANGED <<trig, v, fresh, before, ended>>, at' \in [Procs -> Nat],
           run' \in [Procs -> Runs \cup Dumps \cup {None, Exit}]
    PROVE  Typed'
BY DEF Typed, Driven

\* A call of the driver is, to the program, a step on its files of channel 0.
LEMMA DrivenDoes ==
    ASSUME NEW p \in Tuners, Driven, fresh \in BOOLEAN, UNCHANGED <<trig, v, fresh>>, NEW st, st.op \in {"open", "close"},
           files'[p][0] = IF st.op = "open" THEN files[p][0] + 1 ELSE files[p][0] - 1
    PROVE  Does(st, View(p, fresh), View(p, fresh)')
<1> DEFINE l == View(p, fresh)
           m == [reg |-> [r \in Known |-> reg'[r]], v |-> v'[p], held |-> files'[p][0], fresh |-> fresh', trig |-> trig']
<1>1. View(p, fresh)' = m
  BY DEF View
<1>2. [r \in Known |-> reg'[r]] = [r \in Known |-> reg[r]]
  BY DEF Driven
<1>3. /\ l.v = v[p] /\ l.trig = trig /\ l.held = files[p][0] /\ l.fresh = fresh /\ l.reg = [r \in Known |-> reg[r]]
      /\ m.reg = [r \in Known |-> reg'[r]] /\ m.v = v'[p] /\ m.held = files'[p][0] /\ m.fresh = fresh' /\ m.trig = trig'
  BY DEF View
<1> HIDE DEF l, m
<1>4. m.reg = l.reg /\ m.v = l.v /\ m.trig = l.trig /\ m.fresh = l.fresh
  BY <1>2, <1>3
<1>5. m.held = IF st.op = "open" THEN l.held + 1 ELSE IF st.op = "close" THEN l.held - 1 ELSE l.held
  BY <1>3
<1>6. st.op \notin Writes /\ st.op \notin {"get", "save"} /\ st.op # "settrig" /\ st.op # "get" /\ st.op # "save"
  BY DEF Writes
<1>7. m.fresh = (l.fresh /\ ~(st.op = "get" /\ st.reg = CSR))
  BY <1>3, <1>4, <1>6
<1>8. Does(st, l, m)
  BY <1>4, <1>5, <1>6, <1>7 DEF Does
<1>9. QED
  BY <1>1, <1>8 DEF l

LEMMA ReaderOpenStep ==
    ASSUME IInv, NEW p \in Readers, OpenFile(p)
    PROVE  IInv'
<1> DEFINE c == Step(p).channel
<1>1. /\ Typed /\ DmaWhileOpen /\ ReaderInv(p) /\ More(p) /\ p \in Procs
      /\ UNCHANGED <<trig, run, v, fresh, before, starts, ended>>
  BY Progs DEF IInv, OpenFile
<1>2. /\ run[p] \in Dumps /\ at[p] = 1 /\ c \in Channels /\ Step(p).skip = 0
  BY <1>1, ReaderOpens
<1>3. \A d \in Channels : files[p][d] = 0
  BY <1>1, <1>2, Progs DEF ReaderInv
<1>4. \/ tpr_open(p, c) /\ at' = [at EXCEPT ![p] = at[p] + 1]
      \/ files' = files /\ reg' = reg /\ at' = [at EXCEPT ![p] = at[p] + 1]
  BY <1>1, <1>2 DEF OpenFile, Typed
<1> HIDE DEF c
<1>5. at' \in [Procs -> Nat] /\ at'[p] = 2 /\ \A q \in Procs : q # p => at'[q] = at[q]
  BY <1>1, <1>2, <1>4 DEF Typed
<1>6. /\ Driven /\ \A d \in Channels : files'[p][d] <= 1
      /\ \A q \in Procs : q # p => \A d \in Channels : files'[q][d] = files[q][d]
  <2>1. CASE tpr_open(p, c)
    <3>1. files[p][c] <= 1
      BY <1>2, <1>3
    <3>2. /\ Driven /\ files'[p][c] = files[p][c] + 1
          /\ \A q \in Procs, d \in Channels : (q # p \/ d # c) => files'[q][d] = files[q][d]
      BY <1>1, <1>2, <2>1, <3>1, OpenDrives
    <3>3. QED
      BY <1>1, <1>2, <1>3, <3>2
  <2>2. CASE files' = files /\ reg' = reg
    <3>1. DmaWhileOpen'
      BY <1>1, <2>2, SameDma
    <3>2. QED
      BY <1>1, <1>3, <2>2, <3>1 DEF Driven, Typed
  <2>3. QED
    BY <1>4, <2>1, <2>2
<1>7. Typed'
  BY <1>1, <1>5, <1>6, DrivenTyped DEF Typed
<1>8. ReaderInv(p)'
  BY <1>1, <1>2, <1>5, <1>6, Progs DEF ReaderInv
<1>9. OnlyMoves(p)
  BY <1>1, <1>5, <1>6 DEF OnlyMoves
<1>10. /\ \A q \in Tuners : TunerInv(q)'
       /\ \A q \in Readers : q # p => ReaderInv(q)'
       /\ OneTuner' /\ EndedInv'
  BY <1>1, <1>6, <1>9, ReaderMoves DEF Driven
<1>11. DmaWhileOpen'
  BY <1>6 DEF Driven
<1>12. QED
  BY <1>7, <1>8, <1>10, <1>11 DEF IInv

LEMMA TunerOpenStep ==
    ASSUME IInv, NEW p \in Tuners, OpenFile(p)
    PROVE  IInv'
<1> DEFINE st == Step(p)
<1>1. /\ Typed /\ DmaWhileOpen /\ TunerInv(p) /\ More(p) /\ p \in Procs /\ st.op = "open" /\ fresh \in BOOLEAN
      /\ UNCHANGED <<trig, run, v, fresh, before, starts, ended>>
  BY Progs DEF IInv, OpenFile, Typed
<1>2. PICK A : At(p, A)
  BY <1>1, Placed
<1>3. Len(Scripts[run[p]]) \in Nat /\ at[p] \in 1 .. Len(Scripts[run[p]]) /\ st = Scripts[run[p]][at[p]]
  BY <1>2 DEF At, Step
<1>4. Safe(run[p].prog, st, View(p, fresh))
  BY <1>2 DEF At, Outline, Step
<1>5. st.channel = 0 /\ files[p][0] <= 1 /\ 0 \in Channels
  BY <1>1, <1>4, Progs DEF Safe, View
<1>6. \/ tpr_open(p, 0) /\ at' = [at EXCEPT ![p] = at[p] + 1]
      \/ files' = files /\ reg' = reg /\ at' = [at EXCEPT ![p] = at[p] + 1 + st.skip]
  BY <1>1, <1>5 DEF OpenFile, Typed
<1> HIDE DEF st
<1>7. CASE tpr_open(p, 0) /\ at' = [at EXCEPT ![p] = at[p] + 1]
  <2>1. /\ Driven /\ files'[p][0] = files[p][0] + 1
        /\ \A q \in Procs, d \in Channels : (q # p \/ d # 0) => files'[q][d] = files[q][d]
    BY <1>1, <1>5, <1>7, OpenDrives
  <2>2. at' \in [Procs -> Nat] /\ at'[p] = at[p] + 1 /\ \A q \in Procs : q # p => at'[q] = at[q]
    BY <1>1, <1>7 DEF Typed
  <2>3. Typed'
    BY <1>1, <2>1, <2>2, DrivenTyped DEF Typed
  <2>4. Does(st, View(p, fresh), View(p, fresh)')
    BY <1>1, <2>1, DrivenDoes
  <2>5. View(p, fresh)' \in Local
    BY <1>1, <2>3, ViewNext
  <2>6. View(p, fresh)' \in A[at'[p]]
    BY <1>2, <1>3, <2>2, <2>4, <2>5 DEF At, Outline
  <2>7. OnlyMoves(p)
    BY <1>1, <2>1, <2>2 DEF OnlyMoves
  <2>8. at'[p] \in 1 .. (Len(Scripts[run[p]]) + 1)
    BY <1>3, <2>2
  <2>9. DmaWhileOpen' /\ \A d \in Channels : d # 0 => files'[p][d] = files[p][d]
    BY <1>1, <2>1 DEF Driven
  <2>10. QED
    BY <1>1, <1>2, <2>3, <2>6, <2>7, <2>8, <2>9, Goes
<1>8. CASE files' = files /\ reg' = reg /\ at' = [at EXCEPT ![p] = at[p] + 1 + st.skip]
  <2>1. /\ st.skip \in Nat /\ at[p] + 1 + st.skip \in 1 .. (Len(Scripts[run[p]]) + 1)
        /\ A[at[p]] \subseteq A[at[p] + 1 + st.skip]
    BY <1>1, <1>2, <1>3 DEF At, Outline
  <2>2. /\ at' \in [Procs -> Nat] /\ at'[p] = at[p] + 1 + st.skip
        /\ \A q \in Procs : q # p => at'[q] = at[q]
    BY <1>1, <1>8, <2>1 DEF Typed
  <2>3. Typed'
    BY <1>1, <1>8, <2>2 DEF Typed
  <2>4. View(p, fresh)' = View(p, fresh)
    BY <1>1, <1>8 DEF View
  <2>5. View(p, fresh)' \in A[at'[p]]
    BY <1>2, <2>1, <2>2, <2>4 DEF At
  <2>6. OnlyMoves(p)
    BY <1>1, <1>8, <2>2 DEF OnlyMoves
  <2>7. DmaWhileOpen' /\ \A d \in Channels : d # 0 => files'[p][d] = files[p][d]
    BY <1>1, <1>8, SameDma
  <2>8. QED
    BY <1>1, <1>2, <2>1, <2>2, <2>3, <2>5, <2>6, <2>7, Goes
<1>9. QED
  BY <1>6, <1>7, <1>8

LEMMA CloseStep ==
    ASSUME IInv, NEW p \in Procs, CloseFile(p)
    PROVE  IInv'
<1> DEFINE st == Step(p)
<1>1. /\ Typed /\ DmaWhileOpen /\ More(p) /\ st.op = "close" /\ fresh \in BOOLEAN
      /\ UNCHANGED <<trig, run, v, fresh, before, starts, ended>>
      /\ at' = [at EXCEPT ![p] = at[p] + 1]
  BY Progs DEF IInv, CloseFile, Typed
<1>2. p \in Tuners
  <2>1. ASSUME p \in Readers PROVE FALSE
    BY <1>1, <2>1, ReaderOpens DEF IInv
  <2>2. QED
    BY <2>1, Progs
<1>3. PICK A : At(p, A)
  BY <1>1, <1>2, Placed
<1>4. Len(Scripts[run[p]]) \in Nat /\ at[p] \in 1 .. Len(Scripts[run[p]]) /\ st = Scripts[run[p]][at[p]]
  BY <1>3 DEF At, Step
<1>5. Safe(run[p].prog, st, View(p, fresh))
  BY <1>3 DEF At, Outline, Step
<1>6. st.channel = 0 /\ files[p][0] >= 1 /\ 0 \in Channels
  BY <1>1, <1>5, Progs DEF Safe, View
<1>7. tpr_release(p, 0)
  BY <1>6 DEF CloseFile
<1> HIDE DEF st
<1>8. files[p][0] > 0
  <2>1. files[p][0] \in 0 .. 2
    BY <1>1, <1>6 DEF Typed
  <2>2. QED
    BY <1>6, <2>1
<1>9. /\ Driven /\ files'[p][0] = files[p][0] - 1
      /\ \A q \in Procs, d \in Channels : (q # p \/ d # 0) => files'[q][d] = files[q][d]
  BY <1>1, <1>6, <1>7, <1>8, ReleaseDrives
<1>10. at' \in [Procs -> Nat] /\ at'[p] = at[p] + 1 /\ \A q \in Procs : q # p => at'[q] = at[q]
  BY <1>1 DEF Typed
<1>11. Typed'
  BY <1>1, <1>9, <1>10, DrivenTyped DEF Typed
<1>12. Does(st, View(p, fresh), View(p, fresh)')
  BY <1>1, <1>2, <1>9, DrivenDoes
<1>13. View(p, fresh)' \in Local
  BY <1>11, ViewNext
<1>14. View(p, fresh)' \in A[at'[p]]
  BY <1>3, <1>4, <1>10, <1>12, <1>13 DEF At, Outline
<1>15. OnlyMoves(p)
  BY <1>1, <1>9, <1>10 DEF OnlyMoves
<1>16. at'[p] \in 1 .. (Len(Scripts[run[p]]) + 1)
  BY <1>4, <1>10
<1>17. DmaWhileOpen' /\ \A d \in Channels : d # 0 => files'[p][d] = files[p][d]
  BY <1>9 DEF Driven
<1>18. QED
  BY <1>1, <1>2, <1>3, <1>11, <1>14, <1>15, <1>16, <1>17, Goes

\* The end of a program, run off its list of steps or ended by a signal.
Ends(p) ==
    /\ Running(p) /\ run' = [run EXCEPT ![p] = Exit]
    /\ UNCHANGED <<reg, trig, at, v, files, fresh, starts>>

LEMMA EndsTyped ==
    ASSUME Typed, NEW p \in Procs, Ends(p), before' \in SUBSET Flags, ended' \in Runs \cup {None}
    PROVE  /\ Typed' /\ run'[p] = Exit /\ ~Running(p)' /\ run[p] # None
           /\ \A q \in Procs : q # p => run'[q] = run[q]
           /\ OnlyMoves(p)
<1>1. run' \in [Procs -> Runs \cup Dumps \cup {None, Exit}] /\ run'[p] = Exit /\ \A q \in Procs : q # p => run'[q] = run[q]
  BY DEF Typed, Ends
<1>2. Typed'
  BY <1>1 DEF Typed, Ends
<1>3. OnlyMoves(p)
  BY <1>1 DEF OnlyMoves, Ends
<1>4. QED
  BY <1>1, <1>2, <1>3 DEF Running, Ends

LEMMA EndsReader ==
    ASSUME IInv, NEW p \in Readers, Ends(p), before' = before, ended' = ended
    PROVE  IInv'
<1>1. p \in Procs /\ Typed /\ DmaWhileOpen /\ ReaderInv(p)
  BY Progs DEF IInv
<1>2. before' \in SUBSET Flags /\ ended' \in Runs \cup {None}
  BY <1>1 DEF Typed
<1>3. Typed' /\ run'[p] = Exit /\ OnlyMoves(p)
  BY <1>1, <1>2, EndsTyped
<1>4. ReaderInv(p)'
  BY <1>1, <1>3, Progs DEF ReaderInv, Ends
<1>5. DmaWhileOpen'
  BY <1>1, SameDma DEF Ends
<1>6. /\ \A q \in Tuners : TunerInv(q)'
      /\ \A q \in Readers : q # p => ReaderInv(q)'
      /\ OneTuner' /\ EndedInv'
  BY <1>3, ReaderMoves DEF Ends
<1>7. QED
  BY <1>3, <1>4, <1>5, <1>6 DEF IInv

LEMMA EndsTuner ==
    ASSUME IInv, NEW p \in Tuners, Ends(p), before' \in SUBSET Flags, ended' \in Runs \cup {None},
           ended' # None => Left'
    PROVE  IInv'
<1>1. p \in Procs /\ Typed /\ DmaWhileOpen /\ TunerInv(p)
  BY Progs DEF IInv
<1>2. Typed' /\ run'[p] = Exit /\ ~Running(p)' /\ run[p] # None /\ OnlyMoves(p)
  BY <1>1, EndsTyped
<1>3. /\ \A q \in Tuners : q # p => TunerInv(q)' /\ ~Running(q)'
      /\ \A q \in Readers : ReaderInv(q)'
      /\ OneTuner'
  BY <1>2, TunerMoves
<1>4. EndedInv'
  BY <1>2, <1>3 DEF EndedInv
<1>5. TunerInv(p)'
  BY <1>1, <1>2, Progs DEF TunerInv, Ends
<1>6. DmaWhileOpen'
  BY <1>1, SameDma DEF Ends
<1>7. QED
  BY <1>2, <1>3, <1>4, <1>5, <1>6 DEF IInv

\* A tuner at the end of its list has what the last assertion says: the
\* registers are as it is to leave them.
LEMMA EndStep ==
    ASSUME IInv, NEW p \in Procs, End(p)
    PROVE  IInv'
<1>1. Ends(p) /\ ~More(p) /\ before' = before /\ ended' = IF p \in Tuners THEN run[p] ELSE ended
  BY DEF End, Ends
<1>2. CASE p \in Readers
  BY <1>1, <1>2, EndsReader, Progs
<1>3. CASE p \in Tuners
  <2>1. TunerInv(p) /\ Typed /\ Running(p)
    BY <1>1, <1>3 DEF IInv, Ends
  <2>2. run[p] \in Runs
    BY <2>1 DEF TunerInv, Running
  <2>3. PICK A : Place(p, A)
    BY <2>1 DEF TunerInv, Follows
  <2>4. Len(Scripts[run[p]]) \in Nat
    BY <2>2, ScriptSeq
  <2>5. at[p] = Len(Scripts[run[p]]) + 1
    BY <1>1, <2>1, <2>3, <2>4 DEF Place, More
  <2>6. PICK f \in BOOLEAN : View(p, f) \in Done(run[p], before \ Loss)
    BY <2>3, <2>5 DEF Place
  <2>7. /\ reg[CSR] \ Loss = ((before \ Loss) \ Want(run[p])[2]) \cup Want(run[p])[1]
        /\ run[p].prog = "tprtest" => reg[Refclk] = IF run[p].refclk THEN {"refclk"} ELSE {}
        /\ run[p].prog = "tprtest" /\ run[p].ring => \A q \in Rings : reg[q] = {}
        /\ \A t \in Sets(run[p]) : \A q \in Fields : trig[Trigger(q, t)] = SetTo(run[p])
    <3>1. (\A r \in Known : View(p, f).reg[r] = reg[r]) /\ View(p, f).trig = trig
      BY DEF View
    <3>2. CSR \in Known /\ Refclk \in Known /\ Rings \subseteq Known
      BY DEF Known
    <3> DEFINE l == View(p, f)
    <3> HIDE DEF l
    <3>3. l \in Done(run[p], before \ Loss) /\ (\A r \in Known : l.reg[r] = reg[r]) /\ l.trig = trig
      BY <2>6, <3>1 DEF l
    <3>4. QED
      BY <3>2, <3>3 DEF Done, Wrote
  <2>8. Left'
    BY <1>1, <1>3, <2>7 DEF Left, Ends
  <2>9. before' \in SUBSET Flags /\ ended' \in Runs \cup {None}
    BY <1>1, <1>3, <2>1, <2>2 DEF Typed
  <2>10. QED
    BY <1>1, <1>3, <2>8, <2>9, EndsTuner
<1>4. QED
  BY <1>2, <1>3, Progs

LEMMA KillStep ==
    ASSUME IInv, NEW p \in Procs, Kill(p)
    PROVE  IInv'
<1>1. Ends(p) /\ ended' = ended /\ before' = IF p \in Tuners THEN {} ELSE before
  BY DEF Kill, Ends, More
<1>2. CASE p \in Readers
  BY <1>1, <1>2, EndsReader, Progs
<1>3. CASE p \in Tuners
  <2>1. ended = None
    BY <1>1, <1>3 DEF IInv, EndedInv, Ends
  <2>2. before' \in SUBSET Flags
    BY <1>1, <1>3
  <2>3. QED
    BY <1>1, <1>3, <2>1, <2>2, EndsTuner
<1>4. QED
  BY <1>2, <1>3, Progs

LEMMA ExitCloseStep ==
    ASSUME IInv, NEW p \in Procs, ExitClose(p)
    PROVE  IInv'
<1>1. /\ Typed /\ DmaWhileOpen /\ run[p] = Exit /\ run[p] # None /\ trig' = trig
      /\ \A c \in Channels : files[p][c] \in 0 .. 2
  BY Progs DEF IInv, ExitClose, Typed
<1>2. IF p \in Tuners THEN fresh' = FALSE /\ before' = {} /\ ended' = None
      ELSE fresh' = fresh /\ before' = before /\ ended' = ended
  BY DEF ExitClose
<1>3. fresh' \in BOOLEAN /\ before' \in SUBSET Flags /\ ended' \in Runs \cup {None}
  BY <1>1, <1>2 DEF Typed
<1>4. /\ Driven /\ \A c \in Channels : files'[p][c] <= files[p][c]
      /\ \A q \in Procs : q # p => \A c \in Channels : files'[q][c] = files[q][c]
      /\ \/ run' = run /\ at' = at /\ v' = v
         \/ /\ run' = [run EXCEPT ![p] = None] /\ at' = [at EXCEPT ![p] = 1] /\ v' = [v EXCEPT ![p] = {}]
            /\ \A c \in Channels : files'[p][c] = 0
  <2>1. CASE \E c \in Channels : files[p][c] > 0
    <3>1. PICK c \in Channels : files[p][c] > 0 /\ tpr_release(p, c)
      BY <2>1 DEF ExitClose
    <3>2. run' = run /\ at' = at /\ v' = v
      BY <2>1 DEF ExitClose
    <3>3. /\ Driven /\ files'[p][c] = files[p][c] - 1
          /\ \A q \in Procs, d \in Channels : (q # p \/ d # c) => files'[q][d] = files[q][d]
      BY <1>1, <3>1, ReleaseDrives
    <3>4. \A d \in Channels : files'[p][d] <= files[p][d]
      BY <1>1, <3>3
    <3>5. QED
      BY <3>2, <3>3, <3>4
  <2>2. CASE ~ \E c \in Channels : files[p][c] > 0
    <3>1. /\ run' = [run EXCEPT ![p] = None] /\ at' = [at EXCEPT ![p] = 1] /\ v' = [v EXCEPT ![p] = {}]
          /\ reg' = reg /\ files' = files
      BY <2>2 DEF ExitClose
    <3>2. \A c \in Channels : files[p][c] = 0
      BY <1>1, <2>2
    <3>3. DmaWhileOpen'
      BY <1>1, <3>1, SameDma
    <3>4. Driven
      BY <1>1, <3>1, <3>3 DEF Driven, Typed
    <3>5. QED
      BY <3>1, <3>2, <3>4
  <2>3. QED
    BY <2>1, <2>2
<1>5. /\ run' \in [Procs -> Runs \cup Dumps \cup {None, Exit}] /\ at' \in [Procs -> Nat]
      /\ v' \in [Procs -> SUBSET (Flags \cup Bits)]
      /\ \A q \in Procs : q # p => run'[q] = run[q] /\ at'[q] = at[q] /\ v'[q] = v[q]
      /\ \/ run'[p] = Exit /\ at'[p] = at[p]
         \/ run'[p] = None /\ at'[p] = 1 /\ \A c \in Channels : files'[p][c] = 0
  <2>1. CASE run' = run /\ at' = at /\ v' = v
    BY <1>1, <2>1 DEF Typed
  <2>2. CASE /\ run' = [run EXCEPT ![p] = None] /\ at' = [at EXCEPT ![p] = 1] /\ v' = [v EXCEPT ![p] = {}]
             /\ \A c \in Channels : files'[p][c] = 0
    <3>1. run' \in [Procs -> Runs \cup Dumps \cup {None, Exit}] /\ at' \in [Procs -> Nat]
      BY <1>1, <2>2 DEF Typed
    <3>2. v' \in [Procs -> SUBSET (Flags \cup Bits)]
      BY <1>1, <2>2 DEF Typed
    <3>3. run'[p] = None /\ at'[p] = 1
      BY <1>1, <2>2 DEF Typed
    <3>4. \A q \in Procs : q # p => run'[q] = run[q] /\ at'[q] = at[q] /\ v'[q] = v[q]
      BY <1>1, <2>2 DEF Typed
    <3>5. QED
      BY <2>2, <3>1, <3>2, <3>3, <3>4
  <2>3. QED
    BY <1>4, <2>1, <2>2
<1>6. Typed'
  BY <1>1, <1>3, <1>4, <1>5 DEF Typed, Driven
<1>7. OnlyMoves(p)
  BY <1>4, <1>5 DEF OnlyMoves
<1>8. DmaWhileOpen'
  BY <1>4 DEF Driven
<1>9. files' \in [Procs -> [Channels -> 0 .. 2]]
  BY <1>4 DEF Driven
<1>10. CASE p \in Tuners
  <2>1. TunerInv(p) /\ ended' = None
    BY <1>2, <1>10 DEF IInv
  <2>2. /\ \A q \in Tuners : q # p => TunerInv(q)' /\ ~Running(q)'
        /\ \A q \in Readers : ReaderInv(q)'
        /\ OneTuner'
    BY <1>1, <1>7, <1>10, TunerMoves
  <2>3. \A c \in Channels : c # 0 => files'[p][c] = 0
    <3>1. \A c \in Channels : files'[p][c] \in 0 .. 2
      BY <1>9
    <3>2. QED
      BY <1>1, <1>4, <2>1, <3>1 DEF TunerInv
  <2>4. TunerInv(p)'
    BY <1>5, <2>3, Progs DEF TunerInv, Running
  <2>5. EndedInv'
    BY <2>1 DEF EndedInv
  <2>6. QED
    BY <1>6, <1>8, <2>2, <2>4, <2>5 DEF IInv
<1>11. CASE p \in Readers
  <2>1. ReaderInv(p) /\ fresh' = fresh /\ before' = before /\ ended' = ended
    BY <1>2, <1>11, Progs DEF IInv
  <2>2. \A c \in Channels : files'[p][c] <= 1
    BY <1>1, <1>4, <1>9, <2>1 DEF ReaderInv
  <2>3. ReaderInv(p)'
    BY <1>5, <2>1, <2>2, Progs DEF ReaderInv
  <2>4. /\ \A q \in Tuners : TunerInv(q)'
        /\ \A q \in Readers : q # p => ReaderInv(q)'
        /\ OneTuner' /\ EndedInv'
    BY <1>1, <1>4, <1>7, <1>11, <2>1, ReaderMoves DEF Driven
  <2>5. QED
    BY <1>6, <1>8, <2>3, <2>4 DEF IInv
<1>12. QED
  BY <1>10, <1>11, Progs

\* The loss of the link, which every assertion of an outline allows.
LEMMA LostStep ==
    ASSUME IInv, LinkLost
    PROVE  IInv'
<1>1. /\ Typed /\ DmaWhileOpen /\ OneTuner /\ EndedInv
      /\ reg' = [reg EXCEPT ![CSR] = reg[CSR] \cup Loss] /\ fresh' = (\E p \in Tuners : More(p))
      /\ UNCHANGED <<trig, run, at, v, files, before, starts, ended>>
      /\ CSR \in FlagRegs
  <2>1. CSR \in FlagRegs
    BY DEF FlagRegs
  <2>2. reg' = [reg EXCEPT ![CSR] = reg[CSR] \cup Loss]
    BY <2>1 DEF IInv, Typed, LinkLost, Loss
  <2>3. QED
    BY <2>1, <2>2 DEF IInv, LinkLost
<1>2. reg'[CSR] = reg[CSR] \cup Loss /\ \A r \in FlagRegs : r # CSR => reg'[r] = reg[r]
  BY <1>1 DEF Typed
<1>3. Typed'
  <2>1. Loss \subseteq Flags /\ RegVal(CSR) = Flags
    BY DEF Loss, Flags, RegVal
  <2>2. reg' \in [FlagRegs -> SUBSET (Flags \cup Bits)] /\ \A r \in FlagRegs : reg'[r] \subseteq RegVal(r)
    BY <1>1, <1>2, <2>1 DEF Typed
  <2>3. fresh' \in BOOLEAN
    BY <1>1, Zenon
  <2>4. QED
    BY <1>1, <2>2, <2>3 DEF Typed
<1>4. DmaWhileOpen'
  <2>1. \A c \in Channels : reg'[Control(c)] = reg[Control(c)]
    BY <1>2, RegFacts, FlagFacts
  <2>2. \A c \in Channels : Opened(c)' = Opened(c)
    BY <1>1 DEF Opened
  <2>3. QED
    BY <1>1, <2>1, <2>2 DEF DmaWhileOpen
<1>5. OneTuner' /\ \A p \in Readers : ReaderInv(p)'
  BY <1>1 DEF OneTuner, ReaderInv, IInv
<1>6. \A p \in Procs : Running(p)' = Running(p) /\ More(p)' = More(p)
  BY <1>1 DEF Running, More, Scripts
<1>7. EndedInv'
  <2>1. ASSUME ended' # None PROVE (\A p \in Tuners : ~Running(p)') /\ Left'
    <3>1. (\A q \in Tuners : ~Running(q)) /\ Left
      BY <1>1, <2>1 DEF EndedInv
    <3>2. /\ reg'[CSR] \ Loss = reg[CSR] \ Loss /\ reg'[Refclk] = reg[Refclk]
          /\ \A q \in Rings : reg'[q] = reg[q]
      BY <1>2, RegFacts, FlagFacts DEF Known
    <3>3. Left'
      BY <1>1, <3>1, <3>2 DEF Left
    <3>4. QED
      BY <1>6, <3>1, <3>3, Progs
  <2>2. QED
    BY <2>1 DEF EndedInv
<1>8. ASSUME NEW p \in Tuners PROVE TunerInv(p)'
  <2>1. ASSUME NEW A, Place(p, A) PROVE Place(p, A)'
    <3>1. PICK f \in BOOLEAN : View(p, f) \in A[at[p]]
      BY <2>1 DEF Place
    <3>2. View(p, TRUE)' = Lost(View(p, f))
      <4> DEFINE g == [r \in Known |-> reg[r]]
      <4>1. [r \in Known |-> reg'[r]] = [g EXCEPT ![CSR] = @ \cup Loss]
        <5>1. Known \subseteq FlagRegs /\ CSR \in Known
          BY RegFacts DEF Known
        <5>2. QED
          BY <1>2, <5>1
      <4>2. View(p, f).reg = g /\ View(p, f).v = v[p] /\ View(p, f).held = files[p][0] /\ View(p, f).trig = trig
        BY DEF View
      <4>3. View(p, TRUE)' = [reg |-> [r \in Known |-> reg'[r]], v |-> v[p], held |-> files[p][0], fresh |-> TRUE, trig |-> trig]
        BY <1>1 DEF View
      <4> HIDE DEF g
      <4>4. QED
        BY <4>1, <4>2, <4>3 DEF Lost
    <3>3. Lost(View(p, f)) \in A[at[p]]
      <4>1. Stable(A[at[p]])
        BY <2>1 DEF Place, Outline
      <4>2. QED
        BY <3>1, <4>1 DEF Stable
    <3>4. \E e \in BOOLEAN : View(p, e)' \in A[at'[p]] /\ (More(p)' => e = fresh')
      <4>1. More(p)' => TRUE = fresh'
        BY <1>1, <1>6, Progs
      <4>2. View(p, TRUE)' \in A[at'[p]]
        BY <1>1, <3>2, <3>3
      <4>3. QED
        BY <4>1, <4>2
    <3>5. QED
      BY <1>1, <2>1, <3>4 DEF Place, Scripts
  <2>2. TunerInv(p)
    BY DEF IInv
  <2>3. Follows(p) => Follows(p)'
    BY <2>1 DEF Follows
  <2>4. QED
    BY <1>1, <1>6, <2>2, <2>3, Progs DEF TunerInv
<1>9. QED
  BY <1>3, <1>4, <1>5, <1>7, <1>8 DEF IInv

LEMMA IdleStep == IInv /\ UNCHANGED vars => IInv'
<1> SUFFICES ASSUME IInv, UNCHANGED vars PROVE IInv'
  OBVIOUS
<1>1. UNCHANGED <<reg, trig, run, at, v, files, fresh, before, starts, ended>>
  BY DEF vars
<1>2. Typed' /\ OneTuner' /\ \A p \in Readers : ReaderInv(p)'
  BY <1>1 DEF IInv, Typed, OneTuner, ReaderInv
<1>3. DmaWhileOpen'
  BY <1>1, SameDma DEF IInv
<1>4. EndedInv'
  BY <1>1 DEF IInv, EndedInv, Left, Running
<1>5. ASSUME NEW p \in Tuners PROVE TunerInv(p)'
  <2>1. Apart(p)
    BY <1>1 DEF Apart
  <2>2. QED
    BY <2>1, TunerApart DEF IInv
<1>6. QED
  BY <1>2, <1>3, <1>4, <1>5 DEF IInv

LEMMA OpenStep ==
    ASSUME IInv, NEW p \in Procs, OpenFile(p)
    PROVE  IInv'
BY ReaderOpenStep, TunerOpenStep, Progs

LEMMA NextStep == IInv /\ [Next]_vars => IInv'
<1>1. ASSUME IInv, Next PROVE IInv'
  <2>1. CASE \E p \in Procs :
               Start(p) \/ Access(p) \/ OpenFile(p) \/ CloseFile(p) \/ End(p) \/ Kill(p) \/ ExitClose(p)
    BY <1>1, <2>1, StartStep, AccessStep, OpenStep, CloseStep, EndStep, KillStep, ExitCloseStep
  <2>2. CASE LinkLost
    BY <1>1, <2>2, LostStep
  <2>3. QED
    BY <1>1, <2>1, <2>2 DEF Next
<1>2. QED
  BY <1>1, IdleStep

-----------------------------------------------------------------------------
(* The theorems                                                             *)

\* Every reachable state is typed, has at most one tuner at work, at a place of
\* its program where the outline's assertion holds, and readers that hold at
\* most their own channel.
THEOREM Invariant == Spec => []IInv
  BY InitInv, NextStep, PTL DEF Spec

\* A tprtest, tprtool or tprtrig that ran to its end, whatever opens of it
\* failed, whatever readers did and however often the link was lost meanwhile,
\* has left the modes and resets of CSR as its options ask, every other flag as
\* it found it, and for tprtest the reference clock as asked and the ring
\* buffers that it dumped off.
THEOREM LeavesTuned == Spec => []Tuned
<1>1. IInv => Tuned
  BY Holds
<1>2. QED
  BY <1>1, Invariant, PTL

\* setupTrigger and set_trigger turn a trigger off before they change its delay
\* and width, and on after: a trigger that is on has the delay and the width of
\* one setting, and from tprtrig, which writes the tap of the delay before it
\* turns the trigger on, its tap too, also between two steps and after a signal
\* ended the program. tprtest writes the tap when the trigger is on already: a
\* trigger of its can have the tap of an older setting between the two writes
\* and after a kill there, and the theorem says of it that a tprtest that ran to
\* its end has left all parts of all triggers of its one setting, as a tprtrig
\* has of its outputs.
THEOREM TriggersWhole == Spec => []TriggerWhole
<1>1. IInv => TriggerWhole
  BY Holds
<1>2. QED
  BY <1>1, Invariant, PTL

\* Between the driver's first open and last release, and the programs that set
\* and put back the controls of channels themselves, no channel but those given
\* to tprtrig sends its events when nobody has it open.
THEOREM DmaOnlyOpen == Spec => []DmaWhileOpen
<1>1. IInv => DmaWhileOpen
  BY Holds
<1>2. QED
  BY <1>1, Invariant, PTL

\* What LossReported says of one step.
Reported ==
    "linkDownL" \in reg[CSR] /\ "linkDownL" \notin reg'[CSR] =>
      fresh \/ \E p \in Tuners : More(p) /\ run[p].prog = "tprtest" /\ Step(p).op = "put" /\ "linkDownL" \in Step(p).off

\* The calls of the driver do not write CSR.
LEMMA DriverSpares ==
    ASSUME Typed, NEW c \in Channels, NEW x,
           reg' = reg \/ reg' = [reg EXCEPT ![Control(c)] = x]
    PROVE  reg'[CSR] = reg[CSR]
<1>1. Control(c) # CSR
  BY RegFacts DEF Known
<1>2. QED
  BY <1>1 DEF Typed, FlagRegs

\* An access that clears linkDownL does so with a value that the outline says
\* it read, or is tprtest's acknowledgement.
LEMMA AccessReports ==
    ASSUME IInv, NEW p \in Procs, Access(p)
    PROVE  Reported
<1> SUFFICES ASSUME "linkDownL" \in reg[CSR], "linkDownL" \notin reg'[CSR] PROVE
      fresh \/ (p \in Tuners /\ More(p) /\ run[p].prog = "tprtest" /\ Step(p).op = "put" /\ "linkDownL" \in Step(p).off)
  BY DEF Reported
<1>1. Typed /\ More(p) /\ Step(p).op \in {"get", "put", "save", "set", "settrig"} /\ Accessed(p)
  BY AccessIs DEF IInv, Access
<1>2. p \in Tuners
  <2>1. ASSUME p \in Readers PROVE FALSE
    BY <1>1, <2>1, ReaderOpens DEF IInv
  <2>2. QED
    BY <2>1, Progs
<1>3. PICK A : At(p, A)
  BY <1>1, <1>2, Placed
<1>4. Safe(run[p].prog, Step(p), View(p, fresh))
  BY <1>3 DEF At, Outline, Step
<1> DEFINE s == Step(p)
           l == View(p, fresh)
<1>5. l.v = v[p] /\ l.fresh = fresh /\ l.reg[CSR] = reg[CSR]
  BY DEF View, Known
<1>6. /\ s.op \in Writes => reg' = [reg EXCEPT ![s.reg] = Written(s.reg, Value(s, v[p]))]
      /\ s.op \notin Writes => reg' = reg
  BY <1>1 DEF Accessed
<1>7. Safe(run[p].prog, s, l)
  BY <1>4
<1> HIDE DEF s, l
<1>8. s.op \in Writes
  BY <1>6
<1>9. s.reg = CSR
  BY <1>1, <1>6, <1>8 DEF Typed, FlagRegs
<1>10. "linkDownL" \notin Value(s, v[p])
  <2>1. reg'[CSR] = Written(CSR, Value(s, v[p]))
    BY <1>1, <1>6, <1>8, <1>9 DEF Typed, FlagRegs
  <2>2. QED
    BY <2>1 DEF Written
<1>11. l.fresh \/ (run[p].prog = "tprtest" /\ s.op = "put" /\ "linkDownL" \in s.off)
  BY <1>5, <1>7, <1>8, <1>9, <1>10 DEF Safe, SafeWrite
<1>12. QED
  BY <1>1, <1>2, <1>5, <1>11 DEF s

LEMMA NextReports == IInv /\ Next => Reported
<1> SUFFICES ASSUME IInv, Next PROVE Reported
  OBVIOUS
<1>1. ASSUME reg'[CSR] = reg[CSR] PROVE Reported
  BY <1>1 DEF Reported
<1>2. Typed
  BY DEF IInv
<1>3. ASSUME NEW p \in Procs, NEW c \in Channels, tpr_open(p, c) \/ tpr_release(p, c) PROVE reg'[CSR] = reg[CSR]
  <2>1. \E x : reg' = reg \/ reg' = [reg EXCEPT ![Control(c)] = x]
    BY <1>3 DEF tpr_open, tpr_release
  <2>2. QED
    BY <1>2, <2>1, DriverSpares
<1>4. ASSUME NEW p \in Procs, OpenFile(p) PROVE Reported
  <2>1. ReaderInv(p) \/ p \in Tuners
    BY Progs DEF IInv
  <2>2. Step(p).channel \in Channels
    <3>1. CASE p \in Readers
      BY <1>4, <3>1, ReaderOpens DEF IInv, OpenFile
    <3>2. CASE p \in Tuners
      <4>1. PICK A : At(p, A)
        BY <1>4, <3>2, Placed DEF OpenFile
      <4>2. Safe(run[p].prog, Step(p), View(p, fresh))
        BY <4>1 DEF At, Outline, Step
      <4>3. QED
        BY <1>4, <4>2, Progs DEF Safe, OpenFile
    <3>3. QED
      BY <3>1, <3>2, Progs
  <2>3. reg'[CSR] = reg[CSR]
    BY <1>3, <1>4, <2>2 DEF OpenFile
  <2>4. QED
    BY <1>1, <2>3
<1>5. ASSUME NEW p \in Procs, CloseFile(p) PROVE Reported
  <2>1. Step(p).channel \in Channels
    <3>1. CASE p \in Readers
      BY <1>5, <3>1, ReaderOpens DEF IInv, CloseFile
    <3>2. CASE p \in Tuners
      <4>1. PICK A : At(p, A)
        BY <1>5, <3>2, Placed DEF CloseFile
      <4>2. Safe(run[p].prog, Step(p), View(p, fresh))
        BY <4>1 DEF At, Outline, Step
      <4>3. QED
        BY <1>5, <4>2, Progs DEF Safe, CloseFile
    <3>3. QED
      BY <3>1, <3>2, Progs
  <2>2. reg'[CSR] = reg[CSR]
    BY <1>3, <1>5, <2>1 DEF CloseFile
  <2>3. QED
    BY <1>1, <2>2
<1>6. ASSUME NEW p \in Procs, ExitClose(p) PROVE Reported
  <2>1. reg' = reg \/ \E c \in Channels : tpr_release(p, c)
    BY <1>6 DEF ExitClose
  <2>2. reg'[CSR] = reg[CSR]
    BY <1>3, <2>1
  <2>3. QED
    BY <1>1, <2>2
<1>7. ASSUME NEW p \in Procs, Start(p) \/ End(p) \/ Kill(p) PROVE Reported
  BY <1>1, <1>7 DEF Start, End, Kill
<1>8. ASSUME LinkLost PROVE Reported
  BY <1>8 DEF LinkLost, Reported
<1>9. QED
  BY <1>4, <1>5, <1>6, <1>7, <1>8, AccessReports DEF Next

\* linkDownL is cleared by tprtest's acknowledgement alone: a read and write back
\* of CSR that sets or clears another flag clears it only if the link was lost
\* after the read.
THEOREM ReportsLoss == Spec => LossReported
<1>1. IInv /\ [Next]_vars => [Reported]_vars
  BY NextReports
<1>2. QED
  BY <1>1, Invariant, PTL DEF Spec, LossReported, Reported
=============================================================================
