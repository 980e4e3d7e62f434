------------------------- MODULE PromLoaderProofs -------------------------
(***************************************************************************)
(* Proofs about PromLoader, for every .mcs file that fits the PROM and every *)
(* size of buffer, block and PROM: Loaded, NoStray and Locked are            *)
(* invariants.                                                              *)
(*                                                                         *)
(* The argument: what is still to be read and what has been taken together   *)
(* are the file (ReadInv), so that a verification that comes to the end has  *)
(* compared every byte with the PROM, which a legacy PROM cannot change any  *)
(* more and a new one, busy, would not have shown (VerifyInv). The erased    *)
(* blocks of a legacy PROM are those below address (EraseInv), and a buffer  *)
(* that is sent has no entry that was never written, once the file fills     *)
(* one (CleanInv).                                                           *)
(***************************************************************************)
EXTENDS PromLoader, SequenceTheorems, WellFoundedInduction, TLAPS
USE SizeAssumption

-----------------------------------------------------------------------------
(* The invariant                                                            *)

Data     == {0, 1} \X {0, 1}
\* What a buffer may hold: words of the file.
Entries  == {a \in Addresses : 2 * a < Len(Bytes)} \X Data
Buffers  == [1 .. BufWords -> Entries \cup {None}]
Commands == [op : {"erase", "program"}, start : Addresses, words : Buffers]

Loading == {"writeopen", "write", "send", "sending"}
Reading == {"write", "send", "sending", "verify"}

TypeInv ==
    /\ prog \in {"load", "verify", "version"} /\ type \in {"legacy", "new", "other"}
    /\ file \in Files /\ gone \in BOOLEAN
    /\ last \in {0, 1} /\ endOfFile \in BOOLEAN /\ toggle \in BOOLEAN
    /\ buf \in Buffers /\ cmd \in Commands \cup {None}
    /\ busy \in BOOLEAN /\ sr \in {"ok", "fail"} /\ (busy => cmd \in Commands)
    /\ TypeOK

\* How far a program has come, and of which kind it is.
PhaseInv ==
    /\ ret # None => pc = "done"
    /\ pc \in {"size", "erase", "erasing"} \cup Loading => prog = "load"
    /\ pc \in {"verifyopen", "verify"} => prog # "version"
    /\ pc \in {"erasing", "sending"} => type = "legacy" /\ cmd \in Commands
    /\ pc \in {"erase"} \cup Loading => type \in {"legacy", "new"}
    /\ pc \in {"start", "size", "check", "writeopen"} => address = 0
    /\ pc = "erase" /\ type # "legacy" => address = 0
    /\ type = "legacy" /\ pc \notin {"erasing", "sending"} => ~busy

\* The buffer has what was put there since it was sent.
BufferInv ==
    /\ pc \notin {"write", "send", "done"} => bufSize = 0
    /\ pc = "write" => bufSize < BufWords
    /\ pc = "send" => bufSize > 0
    /\ pc \in {"write", "send"} => \A i \in 1 .. bufSize : buf[i] # None

\* Every block is locked but that of the command under way.
LockInv ==
    type = "legacy" =>
      IF pc \in {"erasing", "sending"} THEN locked \cup {Block(cmd.start)} = Blocks
      ELSE locked = Blocks

\* What is still to be read is what the file has beyond the bytes taken.
Taken     == 2 * address + (IF toggle THEN 1 ELSE 0)
Coming(n, rest) == n + Len(rest) = Len(Bytes) /\ \A k \in 1 .. Len(rest) : rest[k] = Bytes[n + k]
ReadInv ==
    pc \in Reading => IF endOfFile THEN 2 * address \in {Len(Bytes), Len(Bytes) + 1}
                      ELSE Coming(Taken, left \o Rest(file)[record])

\* The words compared so far are those of the file, and stay so: a PROM that
\* is busy would have been taken for a mismatch.
Same(i) == cell[(i - 1) \div 2][((i - 1) % 2) + 1] = Bytes[i]
VerifyInv ==
    /\ pc = "verify" => /\ \A i \in 1 .. Len(Bytes) : i <= 2 * address => Same(i)
                        /\ toggle /\ ~endOfFile => low = Bytes[2 * address + 1]
                        /\ address > 0 => ~busy
    /\ ret = 0 /\ prog # "version" /\ ~gone => Matches /\ (Len(Bytes) > 0 => ~busy)

\* The blocks below address are erased.
EraseInv ==
    type = "legacy" /\ pc \in {"erase", "erasing"} =>
      /\ address = Block(address) * BlockWords
      /\ \A a \in Addresses : a < address => cell[a] = Erased
      /\ pc = "erasing" =>
           /\ cmd.op = "erase" /\ cmd.start = address /\ address <= PromSize
           /\ ~busy /\ sr = "ok" =>
                \A a \in Addresses : Block(a) = Block(address) => cell[a] = Erased

\* A buffer that is sent has no entry that was never written.
Clean == \A a \in Reach : 2 * a >= Len(Bytes) => cell[a] = Erased
FullInv ==
    /\ pc = "write" => bufSize <= address /\ (address < BufWords => bufSize = address)
    /\ pc \in {"write", "send", "sending"} => \A i \in 1 .. BufWords : i <= address => buf[i] # None
    /\ pc = "send" => endOfFile \/ address >= BufWords
    /\ pc = "sending" => /\ cmd.op = "program" /\ (endOfFile \/ address >= BufWords)
                         /\ \A i \in 1 .. BufWords : cmd.words[i] # None
CleanInv ==
    type = "legacy" /\ prog = "load" /\ Len(Bytes) >= 2 * BufWords =>
      /\ pc \in Loading \cup {"verifyopen", "verify"} \/ ret = 0 => Clean
      /\ FullInv

IInv == TypeInv /\ PhaseInv /\ BufferInv /\ LockInv /\ ReadInv /\ VerifyInv /\ EraseInv /\ CleanInv

-----------------------------------------------------------------------------
(* The bytes of the file, from each record on                               *)

Below == {ss \in Nat \X Nat : ss[1] < ss[2]}

LEMMA BelowWF == IsWellFoundedOn(Below, Nat)
  BY NatLessThanWellFounded, Zenon DEF OpToRel, Below

\* Every set of natural numbers that is not empty has a least element: what
\* the proofs below use in place of induction.
LEMMA Least ==
    ASSUME NEW T \in SUBSET Nat, T # {}
    PROVE  \E n \in T : \A k \in T : n <= k
<1>1. PICK n \in T : \A k \in T : ~ (<<k, n>> \in Below)
  BY BelowWF, WFMin
<1>2. ASSUME NEW k \in T PROVE n <= k
  <2>1. ~(k < n)
    BY <1>1 DEF Below
  <2>2. QED
    BY <2>1
<1>3. QED
  BY <1>2

\* g is Rest(f), from the record n before the last on.
RestIs(f, n, g) ==
    g = [r \in (Len(f) + 1 - n) .. (Len(f) + 1) |->
           IF r > Len(f) THEN <<>>
           ELSE IF f[r].type = "eof" THEN <<>> ELSE f[r].bytes \o g[r + 1]]

LEMMA RestExists ==
    ASSUME NEW f, Len(f) \in Nat
    PROVE  \A n \in 0 .. Len(f) : \E g : RestIs(f, n, g)
<1> DEFINE T == {n \in 0 .. Len(f) : ~ \E g : RestIs(f, n, g)}
<1>1. T \in SUBSET Nat /\ T \subseteq 0 .. Len(f) /\ \A n \in 0 .. Len(f) : n \in T <=> ~ \E g : RestIs(f, n, g)
  OBVIOUS
<1> HIDE DEF T
<1> SUFFICES ASSUME T # {} PROVE FALSE
  BY <1>1
<1>2. PICK n \in T : \A k \in T : n <= k
  BY <1>1, Least
<1>3. CASE n = 0
  <2> DEFINE g == [r \in (Len(f) + 1) .. (Len(f) + 1) |-> <<>>]
  <2>1. Len(f) + 1 - n = Len(f) + 1 /\ \A r \in (Len(f) + 1) .. (Len(f) + 1) : r > Len(f)
    BY <1>3
  <2>2. RestIs(f, n, g)
    BY <2>1 DEF RestIs
  <2>3. QED
    BY <1>1, <1>3, <2>2
<1>4. CASE n # 0
  <2> DEFINE m == Len(f) + 1 - n
  <2>1. n \in Nat /\ n - 1 \in 0 .. Len(f) /\ n - 1 \notin T /\ m \in Nat /\ m + 1 = Len(f) + 1 - (n-1) /\ m <= Len(f)
    BY <1>1, <1>2, <1>4
  <2>2. PICK q : RestIs(f, n-1, q)
    BY <1>1, <2>1
  <2> DEFINE body(g, r) == IF r > Len(f) THEN <<>>
                           ELSE IF f[r].type = "eof" THEN <<>> ELSE f[r].bytes \o g[r + 1]
             g == [r \in m .. (Len(f) + 1) |-> IF r = m THEN body(q, m) ELSE q[r]]
             g2 == [r \in m .. (Len(f) + 1) |-> body(g, r)]
  <2>3. \A r \in (m+1) .. (Len(f)+1) : g[r] = q[r] /\ q[r] = body(q, r)
    <3>1. ASSUME NEW r \in (m+1) .. (Len(f)+1) PROVE g[r] = q[r]
      BY <2>1
    <3>2. ASSUME NEW r \in (m+1) .. (Len(f)+1) PROVE q[r] = body(q, r)
      BY <2>1, <2>2 DEF RestIs
    <3>3. QED
      BY <3>1, <3>2
  <2>4. ASSUME NEW r \in m .. (Len(f) + 1) PROVE g[r] = g2[r]
    <3>1. CASE r = m
      <4>1. g[r] = body(q, m)
        BY <3>1
      <4>2. g[m+1] = q[m+1]
        BY <2>1, <2>3
      <4> HIDE DEF g
      <4>3. QED
        BY <3>1, <4>1, <4>2
    <3>2. CASE r # m
      <4>1. r \in (m+1) .. (Len(f)+1)
        BY <2>1, <3>2
      <4>2. r <= Len(f) => g[r+1] = q[r+1]
        BY <2>1, <2>3, <4>1
      <4>3. g[r] = body(q, r)
        BY <2>3, <4>1
      <4> HIDE DEF g
      <4>4. QED
        BY <2>1, <4>1, <4>2, <4>3
    <3>3. QED
      BY <3>1, <3>2
  <2>5. g = [r \in m .. (Len(f) + 1) |-> g[r]] /\ g2 = [r \in m .. (Len(f) + 1) |-> g2[r]]
    OBVIOUS
  <2>6. g = g2
    <3> HIDE DEF g, g2
    <3>1. QED
      BY <2>4, <2>5
  <2>7. RestIs(f, n, g)
    BY <2>6 DEF RestIs
  <2>8. QED
    BY <1>1, <2>7
<1>5. QED
  BY <1>3, <1>4

LEMMA RestUnfolds ==
    ASSUME NEW f, Len(f) \in Nat
    PROVE  RestIs(f, Len(f), Rest(f))
<1>1. \E g : RestIs(f, Len(f), g)
  BY RestExists
<1>2. RestIs(f, Len(f), CHOOSE g : RestIs(f, Len(f), g))
  BY <1>1, Zenon
<1>3. Len(f) + 1 - Len(f) = 1
  OBVIOUS
<1>4. Rest(f) = CHOOSE g : RestIs(f, Len(f), g)
  BY <1>3, Zenon DEF Rest, RestIs
<1>5. QED
  BY <1>2, <1>4

\* The recursive definition holds of what it defines, and gives bytes.
LEMMA RestStep ==
    ASSUME NEW f \in Seq(Record), NEW r \in 1 .. (Len(f) + 1)
    PROVE  Rest(f)[r] = IF r > Len(f) THEN <<>>
                        ELSE IF f[r].type = "eof" THEN <<>> ELSE f[r].bytes \o Rest(f)[r + 1]
<1>1. Len(f) \in Nat /\ Len(f) + 1 - Len(f) = 1
  OBVIOUS
<1>2. Rest(f) = [q \in 1 .. (Len(f) + 1) |->
                   IF q > Len(f) THEN <<>>
                   ELSE IF f[q].type = "eof" THEN <<>> ELSE f[q].bytes \o Rest(f)[q + 1]]
  BY <1>1, RestUnfolds DEF RestIs
<1> DEFINE R == Rest(f)
<1> HIDE DEF R
<1>3. R = [q \in 1 .. (Len(f) + 1) |->
                   IF q > Len(f) THEN <<>>
                   ELSE IF f[q].type = "eof" THEN <<>> ELSE f[q].bytes \o R[q + 1]]
  BY <1>2 DEF R
<1>4. R[r] = IF r > Len(f) THEN <<>>
             ELSE IF f[r].type = "eof" THEN <<>> ELSE f[r].bytes \o R[r + 1]
  BY <1>3, Zenon
<1>5. QED
  BY <1>4 DEF R

LEMMA RestType ==
    ASSUME NEW f \in Seq(Record), NEW r \in 1 .. (Len(f) + 1)
    PROVE  Rest(f)[r] \in Seq({0, 1})
<1> DEFINE S == {k \in Nat : k <= Len(f) /\ Rest(f)[Len(f) + 1 - k] \notin Seq({0, 1})}
<1>1. S \in SUBSET Nat /\ \A k \in Nat : k \in S <=> k <= Len(f) /\ Rest(f)[Len(f) + 1 - k] \notin Seq({0, 1})
  OBVIOUS
<1> HIDE DEF S
<1>2. S = {}
  <2> SUFFICES ASSUME S # {} PROVE FALSE
    OBVIOUS
  <2>1. PICK k \in S : \A j \in S : k <= j
    BY <1>1, Least
  <2> DEFINE q == Len(f) + 1 - k
  <2>2. k \in Nat /\ q \in 1 .. (Len(f) + 1) /\ Rest(f)[q] \notin Seq({0, 1})
    BY <1>1, <2>1
  <2>3. q <= Len(f) => Rest(f)[q+1] \in Seq({0, 1})
    <3>1. ASSUME q <= Len(f) PROVE k - 1 \in Nat /\ k - 1 \notin S /\ k - 1 <= Len(f) /\ Len(f) + 1 - (k-1) = q + 1
      BY <2>1, <2>2, <3>1
    <3>2. QED
      BY <1>1, <3>1
  <2>4. q <= Len(f) => f[q].bytes \in Seq({0, 1})
    <3>1. q <= Len(f) => f[q] \in Record
      BY <2>2
    <3>2. ASSUME NEW e \in Record PROVE e.bytes \in Seq({0, 1})
      <4>1. e.bytes \in Seq({0, 1}) \/ e.bytes = <<>>
        BY DEF Record
      <4>2. <<>> \in Seq({0, 1})
        OBVIOUS
      <4>3. QED
        BY <4>1, <4>2
    <3>3. QED
      BY <3>1, <3>2
  <2> HIDE DEF q
  <2>5. Rest(f)[q] = IF q > Len(f) THEN <<>>
                        ELSE IF f[q].type = "eof" THEN <<>> ELSE f[q].bytes \o Rest(f)[q + 1]
    BY <2>2, RestStep
  <2>6. <<>> \in Seq({0, 1})
    OBVIOUS
  <2>7. q <= Len(f) => f[q].bytes \o Rest(f)[q+1] \in Seq({0, 1})
    BY <2>3, <2>4, ConcatProperties
  <2>8. QED
    BY <2>2, <2>5, <2>6, <2>7
<1>3. Len(f) + 1 - r \in Nat /\ Len(f) + 1 - r <= Len(f) /\ Len(f) + 1 - (Len(f) + 1 - r) = r
  OBVIOUS
<1>4. QED
  BY <1>1, <1>2, <1>3

LEMMA RecordIs ==
    ASSUME NEW e \in Record
    PROVE  /\ e.type \in {"data", "base", "eof", "bad"} /\ e.bytes \in Seq({0, 1})
           /\ e.type = "data" <=> e.bytes # <<>>
<1>1. CASE e \in [type : {"data"}, bytes : Seq({0, 1}) \ {<<>>}]
  BY <1>1
<1>2. CASE e \in [type : {"base", "eof", "bad"}, bytes : {<<>>}]
  <2>1. <<>> \in Seq({0, 1}) /\ e.bytes = <<>> /\ e.type \in {"base", "eof", "bad"}
    BY <1>2
  <2>2. QED
    BY <2>1
<1>3. QED
  BY <1>1, <1>2 DEF Record

\* Scan passes the extended addresses, which say nothing.
LEMMA ScanIs ==
    ASSUME file \in Seq(Record), NEW r \in 1 .. (Len(file) + 1)
    PROVE  /\ Scan(r) \in r .. (Len(file) + 1)
           /\ Scan(r) <= Len(file) => file[Scan(r)].type # "base"
           /\ Rest(file)[r] = Rest(file)[Scan(r)]
<1> DEFINE L == Len(file)
           First(q) == /\ q <= L => file[q].type # "base"
                       /\ \A i \in r .. (q - 1) : file[i].type = "base"
           T == {k \in r .. (L + 1) : k <= L => file[k].type # "base"}
<1>1. L \in Nat /\ r \in Nat /\ L + 1 \in T /\ T \in SUBSET Nat
  OBVIOUS
<1>2. \A k \in r .. (L + 1) : k \notin T => file[k].type = "base"
  OBVIOUS
<1>3. \A k \in T : k \in r .. (L + 1) /\ (k <= L => file[k].type # "base")
  OBVIOUS
<1> HIDE DEF T
<1>4. PICK m \in T : \A k \in T : m <= k
  BY <1>1, Least
<1>5. \A i \in r .. (m - 1) : file[i].type = "base"
  BY <1>1, <1>2, <1>3, <1>4
<1>6. \E q \in r .. (L + 1) : First(q)
  BY <1>3, <1>4, <1>5
<1> DEFINE q == Scan(r)
<1>7. q \in r .. (L + 1) /\ First(q)
  <2> HIDE DEF L
  <2>1. q = CHOOSE p \in r .. (L + 1) : First(p)
    BY Zenon DEF Scan, L
  <2> HIDE DEF First, q
  <2>2. QED
    BY <1>6, <2>1, Zenon
<1> DEFINE D == {d \in Nat : d <= q - r /\ Rest(file)[q - d] # Rest(file)[q]}
<1>8. D \in SUBSET Nat /\ \A d \in Nat : d \in D <=> d <= q - r /\ Rest(file)[q - d] # Rest(file)[q]
  OBVIOUS
<1> HIDE DEF D, q
<1>9. D = {}
  <2> SUFFICES ASSUME D # {} PROVE FALSE
    OBVIOUS
  <2>1. PICK d \in D : \A k \in D : d <= k
    BY <1>8, Least
  <2>2. d \in Nat /\ d <= q - r /\ Rest(file)[q - d] # Rest(file)[q] /\ d # 0
    BY <1>1, <1>7, <1>8, <2>1
  <2> DEFINE p == q - d
  <2>3. p \in 1 .. L /\ p + 1 \in 1 .. (L + 1) /\ p \in r .. (q - 1)
    BY <1>1, <1>7, <2>2
  <2>4. Rest(file)[p + 1] = Rest(file)[q]
    <3>1. d - 1 \in Nat /\ d - 1 \notin D /\ d - 1 <= q - r /\ q - (d - 1) = p + 1
      BY <1>7, <2>1, <2>2
    <3>2. QED
      BY <1>8, <3>1
  <2>5. file[p] \in Record /\ file[p].type = "base"
    BY <1>7, <2>3
  <2> HIDE DEF p
  <2>6. file[p].bytes = <<>>
    BY <2>5, RecordIs
  <2>7. Rest(file)[p] = file[p].bytes \o Rest(file)[p + 1]
    <3>1. p \in 1 .. (Len(file) + 1) /\ ~(p > Len(file)) /\ file[p].type # "eof"
      BY <2>3, <2>5
    <3>2. QED
      BY <3>1, RestStep
  <2>8. Rest(file)[p + 1] \in Seq({0, 1})
    BY <2>3, RestType
  <2>9. Rest(file)[p] = Rest(file)[p + 1]
    BY <2>6, <2>7, <2>8, ConcatEmptySeq
  <2>10. QED
    BY <2>2, <2>4, <2>9 DEF p
<1>10. q - r \in Nat /\ q - (q - r) = r
  BY <1>1, <1>7
<1>11. Rest(file)[r] = Rest(file)[q]
  BY <1>8, <1>9, <1>10
<1>12. QED
  BY <1>7, <1>11 DEF q

\* Taking the first element of s leaves what is coming, less one.
LEMMA Behead ==
    ASSUME NEW s \in Seq({0, 1}), NEW t \in Seq({0, 1}), s # <<>>
    PROVE  /\ s \o t \in Seq({0, 1}) /\ Tail(s) \o t \in Seq({0, 1}) /\ Len(s \o t) > 0
           /\ Head(s) \in {0, 1} /\ Tail(s) \in Seq({0, 1})
           /\ Len(Tail(s) \o t) = Len(s \o t) - 1
           /\ Head(s) = (s \o t)[1]
           /\ \A k \in 1 .. Len(Tail(s) \o t) : (Tail(s) \o t)[k] = (s \o t)[k + 1]
<1>1. Tail(s) \in Seq({0, 1}) /\ Len(Tail(s)) = Len(s) - 1 /\ Head(s) \in {0, 1} /\ Len(s) \in Nat \ {0} /\ Len(t) \in Nat
  BY HeadTailProperties, EmptySeq, LenProperties
<1>2. \A k \in 1 .. Len(Tail(s)) : Tail(s)[k] = s[k+1]
  BY HeadTailProperties
<1>3. Head(s) = s[1]
  OBVIOUS
<1>4. /\ s \o t \in Seq({0, 1}) /\ Len(s \o t) = Len(s) + Len(t)
      /\ \A i \in 1 .. Len(s) + Len(t) : (s \o t)[i] = IF i <= Len(s) THEN s[i] ELSE t[i - Len(s)]
  BY ConcatProperties
<1>5. /\ Tail(s) \o t \in Seq({0, 1}) /\ Len(Tail(s) \o t) = Len(Tail(s)) + Len(t)
      /\ \A i \in 1 .. Len(Tail(s)) + Len(t) : (Tail(s) \o t)[i] = IF i <= Len(Tail(s)) THEN Tail(s)[i] ELSE t[i - Len(Tail(s))]
  BY <1>1, ConcatProperties
<1> DEFINE c == s \o t
           d == Tail(s) \o t
           u == Tail(s)
<1> HIDE DEF c, d, u
<1>6. c[1] = Head(s)
  BY <1>1, <1>3, <1>4 DEF c
<1>7. \A k \in 1 .. (Len(s) - 1 + Len(t)) : d[k] = c[k + 1]
  <2> SUFFICES ASSUME NEW k \in 1 .. (Len(s) - 1 + Len(t)) PROVE d[k] = c[k + 1]
    OBVIOUS
  <2>1. d[k] = IF k <= Len(s) - 1 THEN u[k] ELSE t[k - (Len(s) - 1)]
    BY <1>1, <1>5 DEF d, u
  <2>2. k <= Len(s) - 1 => u[k] = s[k + 1]
    BY <1>1, <1>2 DEF u
  <2>3. c[k + 1] = IF k + 1 <= Len(s) THEN s[k + 1] ELSE t[(k + 1) - Len(s)]
    BY <1>1, <1>4 DEF c
  <2>4. (k + 1) - Len(s) = k - (Len(s) - 1) /\ (k + 1 <= Len(s) <=> k <= Len(s) - 1)
    BY <1>1
  <2>5. QED
    BY <2>1, <2>2, <2>3, <2>4
<1>8. Len(d) = Len(s) - 1 + Len(t)
  BY <1>1, <1>5 DEF d
<1>9. QED
  BY <1>1, <1>4, <1>5, <1>6, <1>7, <1>8 DEF c, d

LEMMA ComingNext ==
    ASSUME file \in Seq(Record), NEW n \in Nat, NEW s \in Seq({0, 1}), NEW t \in Seq({0, 1}), s # <<>>,
           Coming(n, s \o t)
    PROVE  n < Len(Bytes) /\ Head(s) = Bytes[n + 1] /\ Coming(n + 1, Tail(s) \o t)
<1> DEFINE c == s \o t
           d == Tail(s) \o t
<1>1. /\ c \in Seq({0, 1}) /\ d \in Seq({0, 1}) /\ Len(c) > 0 /\ Len(d) = Len(c) - 1
      /\ Head(s) = c[1] /\ \A k \in 1 .. Len(d) : d[k] = c[k + 1]
  BY Behead
<1>2. n + Len(c) = Len(Bytes) /\ \A k \in 1 .. Len(c) : c[k] = Bytes[n + k]
  BY DEF Coming
<1> HIDE DEF c, d
<1>3. Len(c) \in Nat /\ Len(d) \in Nat
  BY <1>1
<1>4. n < Len(Bytes) /\ c[1] = Bytes[n + 1]
  BY <1>1, <1>2, <1>3
<1>5. \A k \in 1 .. Len(d) : d[k] = Bytes[(n + 1) + k]
  <2> SUFFICES ASSUME NEW k \in 1 .. Len(d) PROVE d[k] = Bytes[(n + 1) + k]
    OBVIOUS
  <2>1. k + 1 \in 1 .. Len(c) /\ n + (k + 1) = (n + 1) + k
    BY <1>1, <1>3
  <2>2. QED
    BY <1>1, <1>2, <2>1
<1>6. QED
  BY <1>1, <1>2, <1>3, <1>4, <1>5 DEF Coming, c, d

\* A byte that read returns is the next of the file, and the end of the file is
\* read when there is none.
LEMMA ReadNext ==
    ASSUME file \in Seq(Record), left \in Seq({0, 1}), last \in {0, 1}, record \in 1 .. (Len(file) + 1),
           ~Fails, ReadByte, NEW n \in Nat, Coming(n, left \o Rest(file)[record])
    PROVE  /\ Byte \in {0, 1} /\ last' \in {0, 1} /\ endOfFile' \in BOOLEAN
           /\ left' \in Seq({0, 1}) /\ record' \in 1 .. (Len(file) + 1)
           /\ endOfFile' => n = Len(Bytes)
           /\ ~endOfFile' => /\ n < Len(Bytes) /\ Byte = Bytes[n + 1]
                             /\ Coming(n + 1, left' \o Rest(file)[record'])
<1> USE DEF ReadByte
<1>1. Rest(file)[record] \in Seq({0, 1})
  BY RestType
<1>2. CASE Pending
  <2>1. Byte = Head(left) /\ left' = Tail(left) /\ record' = record /\ endOfFile' = FALSE /\ left # <<>>
    BY <1>2 DEF Byte, Pending, EndRead
  <2>2. Head(left) \in {0, 1} /\ Tail(left) \in Seq({0, 1})
    BY <1>1, <2>1, Behead
  <2>3. QED
    BY <1>1, <2>1, <2>2, ComingNext
<1>3. CASE ~Pending
  <2>1. /\ At \in record .. (Len(file) + 1) /\ (At <= Len(file) => file[At].type # "base")
        /\ Rest(file)[record] = Rest(file)[At]
    BY ScanIs DEF At
  <2>2. left = <<>> /\ left \o Rest(file)[record] = Rest(file)[At]
    BY <1>1, <1>3, <2>1, ConcatEmptySeq DEF Pending
  <2>3. At \in 1 .. Len(file) /\ file[At].type # "bad"
    BY <1>3, <2>1 DEF Fails
  <2>4. file[At] \in Record
    BY <2>3
  <2>5. file[At].type \in {"data", "eof"} /\ (file[At].type = "data" => file[At].bytes \in Seq({0, 1}) \ {<<>>})
    BY <2>1, <2>3, <2>4, RecordIs
  <2>6. record' = At + 1 /\ record' \in 1 .. (Len(file) + 1)
    BY <1>3, <2>3
  <2>7. CASE file[At].type = "eof"
    <3>1. EndRead
      BY <1>3, <2>3, <2>7 DEF EndRead
    <3>2. Rest(file)[At] = <<>>
      BY <2>3, <2>7, RestStep
    <3>3. n = Len(Bytes)
      BY <2>2, <3>2 DEF Coming
    <3>4. Byte = last /\ left' = <<>> /\ endOfFile' = TRUE
      BY <1>3, <3>1 DEF Byte
    <3>5. <<>> \in Seq({0, 1})
      OBVIOUS
    <3>6. QED
      BY <2>6, <3>3, <3>4, <3>5
  <2>8. CASE file[At].type = "data"
    <3>1. ~EndRead
      BY <2>8 DEF EndRead
    <3>2. Rest(file)[At] = file[At].bytes \o Rest(file)[At + 1]
      <4>1. At \in 1 .. (Len(file) + 1) /\ ~(At > Len(file)) /\ file[At].type # "eof"
        BY <2>3, <2>8
      <4>2. QED
        BY <4>1, RestStep
    <3>3. Rest(file)[At + 1] \in Seq({0, 1})
      BY <2>6, RestType
    <3>4. Byte = Head(file[At].bytes) /\ left' = Tail(file[At].bytes) /\ endOfFile' = FALSE
      BY <1>3, <3>1 DEF Byte
    <3>5. Head(file[At].bytes) \in {0, 1} /\ Tail(file[At].bytes) \in Seq({0, 1})
      BY <2>5, <2>8, <3>3, Behead
    <3>6. /\ n < Len(Bytes) /\ Head(file[At].bytes) = Bytes[n + 1]
          /\ Coming(n + 1, Tail(file[At].bytes) \o Rest(file)[At + 1])
      BY <2>2, <2>5, <2>8, <3>2, <3>3, ComingNext
    <3>7. QED
      BY <2>6, <3>4, <3>5, <3>6
  <2>9. QED
    BY <2>5, <2>7, <2>8
<1>4. QED
  BY <1>2, <1>3

-----------------------------------------------------------------------------
(* Blocks, entries and the initial state                                    *)

LEMMA BlockIs ==
    ASSUME NEW a \in Nat
    PROVE  Block(a) \in Nat /\ Block(a) * BlockWords <= a /\ a < Block(a) * BlockWords + BlockWords
  BY SMTT(60) DEF Block

LEMMA Ordered ==
    ASSUME NEW i \in Nat, NEW j \in Nat, i < j
    PROVE  i * BlockWords + BlockWords <= j * BlockWords
<1>1. i + 1 <= j
  OBVIOUS
<1>2. (i + 1) * BlockWords <= j * BlockWords
  BY <1>1, SMTT(60)
<1>3. QED
  BY <1>2, SMTT(60)

\* The addresses from a block's first one up to the next block's are its own.
LEMMA BlockOf ==
    ASSUME NEW k \in Nat, NEW a \in Nat, k * BlockWords <= a, a < k * BlockWords + BlockWords
    PROVE  Block(a) = k
<1>1. Block(a) \in Nat /\ Block(a) * BlockWords <= a /\ a < Block(a) * BlockWords + BlockWords
  BY BlockIs
<1> DEFINE b == Block(a)
<1>2. b \in Nat /\ b * BlockWords \in Nat /\ k * BlockWords \in Nat
  BY <1>1
<1> HIDE DEF b
<1>3. ~(b < k)
  <2> SUFFICES ASSUME b < k PROVE FALSE
    OBVIOUS
  <2>1. b * BlockWords + BlockWords <= k * BlockWords
    BY <1>2, Ordered
  <2>2. QED
    BY <1>1, <1>2, <2>1 DEF b
<1>4. ~(k < b)
  <2> SUFFICES ASSUME k < b PROVE FALSE
    OBVIOUS
  <2>1. k * BlockWords + BlockWords <= b * BlockWords
    BY <1>2, Ordered
  <2>2. QED
    BY <1>1, <1>2, <2>1 DEF b
<1>5. QED
  BY <1>2, <1>3, <1>4 DEF b

LEMMA BlockNext ==
    ASSUME NEW a \in Nat, a = Block(a) * BlockWords
    PROVE  a + BlockWords = Block(a + BlockWords) * BlockWords
<1> DEFINE b == Block(a)
<1>1. b \in Nat /\ a = b * BlockWords
  BY BlockIs
<1> HIDE DEF b
<1>2. b * BlockWords \in Nat /\ (b + 1) * BlockWords = b * BlockWords + BlockWords
  BY <1>1, SMTT(60)
<1>3. Block(a + BlockWords) = b + 1
  BY <1>1, <1>2, BlockOf
<1>4. QED
  BY <1>1, <1>2, <1>3

LEMMA Zero == Block(0) * BlockWords = 0 /\ 0 \in Addresses
<1>1. Block(0) = 0
  <2>1. 0 * BlockWords = 0
    OBVIOUS
  <2>2. QED
    BY <2>1, BlockOf
<1>2. QED
  BY <1>1 DEF Addresses

\* A word of the file has its place in the PROM.
LEMMA HasPlace ==
    ASSUME file \in Files
    PROVE  /\ file \in Seq(Record) /\ Bytes \in Seq({0, 1}) /\ Len(Bytes) \in Nat
           /\ \A i \in 1 .. Len(Bytes) : Bytes[i] \in {0, 1}
           /\ Len(Bytes) <= 2 * Words
           /\ \A a \in Nat : 2 * a < Len(Bytes) => a \in Addresses
<1>1. file \in Seq(Record) /\ Len(Bytes) <= 2 * Words
  BY FileAssumption DEF Bytes
<1>2. Bytes \in Seq({0, 1})
  <2>1. 1 \in 1 .. (Len(file) + 1)
    BY <1>1
  <2>2. QED
    BY <1>1, <2>1, RestType DEF Bytes
<1> DEFINE b == Bytes
<1> HIDE DEF b
<1>3. Len(b) \in Nat /\ \A i \in 1 .. Len(b) : b[i] \in {0, 1}
  BY <1>2 DEF b
<1>4. \A a \in Nat : 2 * a < Len(b) => a \in Addresses
  BY <1>1, <1>3 DEF b, Addresses
<1>5. QED
  BY <1>1, <1>2, <1>3, <1>4 DEF b

LEMMA Greatest ==
    ASSUME NEW n \in Nat, NEW I \in SUBSET (1 .. n), I # {}
    PROVE  \E i \in I : \A j \in I : j <= i
<1> DEFINE T == {n - i : i \in I}
<1>1. T \in SUBSET Nat /\ T # {} /\ \A i \in I : n - i \in T
  <2>1. \A i \in I : n - i \in Nat
    OBVIOUS
  <2>2. QED
    BY <2>1
<1>2. \A t \in T : \E i \in I : t = n - i
  OBVIOUS
<1> HIDE DEF T
<1>3. PICK t \in T : \A k \in T : t <= k
  BY <1>1, Least
<1>4. PICK i \in I : t = n - i
  BY <1>2, <1>3
<1>5. ASSUME NEW j \in I PROVE j <= i
  <2>1. n - i <= n - j
    BY <1>1, <1>3, <1>4, <1>5
  <2>2. QED
    BY <2>1
<1>6. QED
  BY <1>5

\* Programming changes only the words that the buffer names.
LEMMA ProgramIs ==
    ASSUME cell \in [Addresses -> Data], NEW words \in Buffers
    PROVE  /\ Program(words) \in [Addresses -> Data]
           /\ \A a \in Addresses :
                (\A i \in 1 .. BufWords : words[i] # None => words[i][1] # a) => Program(words)[a] = cell[a]
<1> DEFINE I(a) == {i \in 1 .. BufWords : words[i] # None /\ words[i][1] = a}
           last_(a) == CHOOSE i \in I(a) : \A j \in I(a) : j <= i
           value(a) == IF I(a) = {} THEN cell[a] ELSE Both(cell[a], words[last_(a)][2])
<1>1. Program(words) = [a \in Addresses |-> value(a)]
  BY DEF Program
<1>2. ASSUME NEW a \in Addresses PROVE value(a) \in Data
  <2>1. CASE I(a) = {}
    BY <2>1
  <2>2. CASE I(a) # {}
    <3>1. I(a) \in SUBSET (1 .. BufWords)
      OBVIOUS
    <3>2. last_(a) \in I(a)
      <4>1. \E i \in I(a) : \A j \in I(a) : j <= i
        BY <2>2, <3>1, Greatest
      <4> HIDE DEF I
      <4>2. QED
        BY <4>1, Zenon
    <3>3. last_(a) \in 1 .. BufWords /\ words[last_(a)] # None
      BY <3>2
    <3> HIDE DEF last_
    <3>4. words[last_(a)] \in Entries
      BY <3>3 DEF Buffers
    <3>5. words[last_(a)][2] \in Data
      BY <3>4 DEF Entries
    <3>6. \A w, d \in Data : Both(w, d) \in Data
      BY DEF Both, Data
    <3>7. QED
      BY <2>2, <3>5, <3>6
  <2>3. QED
    BY <2>1, <2>2
<1>3. ASSUME NEW a \in Addresses, \A i \in 1 .. BufWords : words[i] # None => words[i][1] # a
      PROVE  value(a) = cell[a]
  <2>1. I(a) = {}
    BY <1>3
  <2>2. QED
    BY <2>1
<1> HIDE DEF value
<1>4. QED
  BY <1>1, <1>2, <1>3

LEMMA InvInit == Init => IInv
<1> SUFFICES ASSUME Init PROVE IInv
  OBVIOUS
<1> USE DEF Init
<1>1. file \in Seq(Record) /\ Len(file) \in Nat /\ Len(Bytes) \in Nat /\ \A i \in 1 .. Len(Bytes) : Bytes[i] \in {0, 1}
  BY HasPlace
<1>2. cell \in [Addresses -> Data]
  <2>1. ASSUME NEW x \in {0, 1} PROVE [a \in Addresses |-> <<x, x>>] \in [Addresses -> Data]
    BY <2>1 DEF Data
  <2>2. Image \in [Addresses -> Data]
    <3> DEFINE byte(i) == IF i <= Len(Bytes) THEN Bytes[i] ELSE 0
    <3>1. \A i \in Nat : i >= 1 => byte(i) \in {0, 1}
      BY <1>1
    <3>2. \A a \in Addresses : 2 * a + 1 \in Nat /\ 2 * a + 1 >= 1 /\ 2 * a + 2 \in Nat /\ 2 * a + 2 >= 1
      BY DEF Addresses
    <3> HIDE DEF byte
    <3>3. \A a \in Addresses : <<byte(2 * a + 1), byte(2 * a + 2)>> \in Data
      BY <3>1, <3>2 DEF Data
    <3>4. Image = [a \in Addresses |-> <<byte(2 * a + 1), byte(2 * a + 2)>>]
      BY Zenon DEF Image, byte
    <3>5. QED
      BY <3>3, <3>4
  <2>3. QED
    BY <2>1, <2>2
<1>3. TypeOK
  <2>1. <<>> \in Seq({0, 1})
    OBVIOUS
  <2>2. pc = "start" /\ ret = None /\ record = 1 /\ left = <<>> /\ address = 0 /\ bufSize = 0 /\ low = 0
        /\ locked = Blocks
    OBVIOUS
  <2>3. 1 \in 1 .. (Len(file) + 1) /\ 0 \in 0 .. (Words + BlockWords) /\ 0 \in 0 .. BufWords
    BY <1>1
  <2>4. QED
    BY <1>2, <2>1, <2>2, <2>3 DEF TypeOK, Data
<1>4. TypeInv
  <2>1. buf \in Buffers
    BY DEF Buffers
  <2>2. QED
    BY <1>3, <2>1 DEF TypeInv
<1>5. ret # 0
  BY NoneAssumption
<1>6. PhaseInv /\ BufferInv /\ LockInv /\ ReadInv /\ VerifyInv /\ EraseInv
  BY <1>5 DEF PhaseInv, BufferInv, LockInv, ReadInv, VerifyInv, EraseInv, Loading, Reading
<1>7. CleanInv
  BY <1>5 DEF CleanInv, FullInv, Loading
<1>8. QED
  BY <1>4, <1>6, <1>7 DEF IInv

-----------------------------------------------------------------------------
(* Types: what each step leaves the PROM and the program with               *)

\* What a command given to the PROM leaves right, and what it makes of cmd.
LEMMA Issued ==
    ASSUME NEW c \in Commands, locked \subseteq Blocks, Issue(c)
    PROVE  cmd' \in Commands /\ cmd' = c /\ busy' = TRUE /\ sr' = "ok" /\ cell' = cell
           /\ locked' = locked \ {Block(c.start)}
  BY DEF Issue

LEMMA Placed ==
    ASSUME NEW c \in Commands
    PROVE  Block(c.start) \in Blocks /\ c.start \in Addresses /\ c.words \in Buffers
  BY DEF Commands, Block, Blocks

LEMMA Facts ==
    ASSUME TypeInv
    PROVE  /\ address \in Nat /\ bufSize \in 0 .. BufWords /\ bufSize \in Nat /\ low \in {0, 1} /\ locked \subseteq Blocks
           /\ file \in Seq(Record) /\ record \in 1 .. (Len(file) + 1) /\ left \in Seq({0, 1})
           /\ cell \in [Addresses -> Data] /\ last \in {0, 1} /\ endOfFile \in BOOLEAN /\ toggle \in BOOLEAN
<1>1. address \in Nat /\ bufSize \in 0 .. BufWords /\ bufSize \in Nat
  BY DEF TypeInv, TypeOK
<1>2. file \in Seq(Record)
  BY FileAssumption DEF TypeInv
<1>3. QED
  BY <1>1, <1>2 DEF TypeInv, TypeOK, Data

\* fixed' = fixed: the sets of types that depend on the file are the same.
LEMMA SameSets ==
    ASSUME UNCHANGED fixed
    PROVE  /\ Bytes' = Bytes /\ Entries' = Entries /\ Buffers' = Buffers /\ Commands' = Commands
           /\ prog' = prog /\ type' = type /\ file' = file /\ strict' = strict
  BY DEF fixed, Bytes, Entries, Buffers, Commands

\* What the program does to the PROM.
PromTypeInv == /\ cmd \in Commands \cup {None} /\ busy \in BOOLEAN /\ (busy => cmd \in Commands)
               /\ sr \in {"ok", "fail"}
               /\ cell \in [Addresses -> Data] /\ locked \subseteq Blocks

\* What the program keeps for itself.
OwnTypeInv ==
    /\ prog \in {"load", "verify", "version"} /\ type \in {"legacy", "new", "other"} /\ file \in Files
    /\ gone \in BOOLEAN
    /\ pc \in {"start", "size", "hangs", "check", "erase", "erasing", "writeopen", "write", "send",
               "sending", "verifyopen", "verify", "done"}
    /\ ret \in {0, 1, None} /\ record \in 1 .. (Len(file) + 1) /\ left \in Seq({0, 1})
    /\ last \in {0, 1} /\ endOfFile \in BOOLEAN /\ toggle \in BOOLEAN
    /\ address \in 0 .. (Words + BlockWords) /\ bufSize \in 0 .. BufWords /\ low \in {0, 1}
    /\ buf \in Buffers

LEMMA TwoTypes == TypeInv <=> PromTypeInv /\ OwnTypeInv
  BY DEF TypeInv, TypeOK, PromTypeInv, OwnTypeInv, Data

LEMMA TwoTypesNext == TypeInv' <=> PromTypeInv' /\ OwnTypeInv'
  BY TwoTypes, PTL

LEMMA OwnKeeps ==
    ASSUME OwnTypeInv, UNCHANGED <<fixed, pc, ret, mcs, word, buffer>>, gone' \in BOOLEAN
    PROVE  OwnTypeInv'
<1>1. UNCHANGED fixed /\ UNCHANGED <<pc, ret, record, left, last, endOfFile, toggle, low, address, buf, bufSize>>
  BY DEF mcs, word, buffer
<1>2. QED
  BY <1>1, SameSets DEF OwnTypeInv

\* The PROM's own steps.
LEMMA PromSteps ==
    ASSUME TypeInv, PromSucceeds \/ PromFails
    PROVE  /\ UNCHANGED <<fixed, gone, pc, ret, mcs, word, buffer, cmd, locked>> /\ busy /\ busy' = FALSE
           /\ cell' # cell => sr' = "ok"
           /\ cell' \in [Addresses -> Data] /\ sr' \in {"ok", "fail"} /\ cmd \in Commands
<1>1. cell \in [Addresses -> Data] /\ (busy => cmd \in Commands)
  BY Facts DEF TypeInv
<1>2. CASE PromFails
  BY <1>1, <1>2 DEF PromFails
<1>3. CASE PromSucceeds
  <2>1. cell' \in [Addresses -> Data]
    <3>1. CASE cmd.op = "erase"
      <4>1. Erased \in Data
        BY DEF Erased, Data
      <4>2. QED
        BY <1>1, <1>3, <3>1, <4>1 DEF PromSucceeds
    <3>2. CASE cmd.op # "erase"
      <4>1. cmd.words \in Buffers
        BY <1>1, <1>3, Placed DEF PromSucceeds
      <4>2. Program(cmd.words) \in [Addresses -> Data]
        BY <1>1, <4>1, ProgramIs
      <4>3. PICK s \in Strays : cell' = [a \in Addresses |-> IF a = s THEN <<0, 0>> ELSE Program(cmd.words)[a]]
        BY <1>3, <3>2 DEF PromSucceeds
      <4>4. <<0, 0>> \in Data
        BY DEF Data
      <4>5. QED
        BY <4>2, <4>3, <4>4
    <3>3. QED
      BY <3>1, <3>2
  <2>2. UNCHANGED <<fixed, gone, pc, ret, mcs, word, buffer, cmd, locked>> /\ busy /\ busy' = FALSE /\ sr' = "ok"
    BY <1>3 DEF PromSucceeds
  <2>3. QED
    BY <1>1, <2>1, <2>2
<1>4. QED
  BY <1>2, <1>3

LEMMA PromTypes ==
    ASSUME TypeInv, PromSucceeds \/ PromFails
    PROVE  TypeInv'
<1>1. /\ UNCHANGED <<fixed, gone, pc, ret, mcs, word, buffer, cmd, locked>> /\ busy /\ busy' = FALSE
      /\ cell' \in [Addresses -> Data] /\ sr' \in {"ok", "fail"}
  BY PromSteps
<1>2. OwnTypeInv /\ PromTypeInv
  BY TwoTypes
<1>3. OwnTypeInv'
  <2>1. gone' \in BOOLEAN
    BY <1>1, <1>2 DEF OwnTypeInv
  <2>2. QED
    BY <1>1, <1>2, <2>1, OwnKeeps
<1>4. PromTypeInv'
  BY <1>1, <1>2, SameSets DEF PromTypeInv
<1>5. QED
  BY <1>3, <1>4, TwoTypesNext

LEMMA CommandsType ==
    ASSUME TypeInv, PhaseInv, BufferInv, EraseInv, Main
    PROVE  PromTypeInv' /\ UNCHANGED fixed
<1>1. UNCHANGED fixed
  BY DEF Main, Start, GetPromSize, CheckFirmwareVersion, Erase, EraseCommand, WriteOpen, Write, WriteError,
     WriteEnd, Send, BufferedProgramCommand, VerifyOpen, Verify, VerifyEnd
<1>2. PromTypeInv
  BY TwoTypes
<1>3. Commands' = Commands
  BY <1>1, SameSets
<1>4. CASE UNCHANGED prom
  BY <1>1, <1>2, <1>3, <1>4 DEF PromTypeInv, prom
<1>5. ASSUME NEW c \in Commands, Issue(c) \/ Give(c) PROVE PromTypeInv'
  BY <1>2, <1>3, <1>5 DEF PromTypeInv, Issue, Give, prom
<1>6. ASSUME Relock, UNCHANGED <<cmd, busy, sr, cell>>, cmd \in Commands PROVE PromTypeInv'
  BY <1>2, <1>3, <1>6, Placed DEF PromTypeInv, Relock
<1>7. CASE Erase
  <2>1. ASSUME NEW a \in Addresses PROVE EraseCmd(a) \in Commands
    BY <2>1 DEF EraseCmd, Commands, TypeInv
  <2>2. CASE type = "legacy" /\ address <= PromSize /\ Issue(EraseCmd(address))
    <3>1. address \in Addresses
      BY <2>2, Facts DEF Addresses
    <3>2. QED
      BY <1>1, <2>1, <2>2, <3>1, <1>5
  <2>3. CASE Give(EraseCmd(0))
    BY <1>1, <2>1, <2>3, <1>5, Zero
  <2>4. QED
    BY <1>4, <1>7, <2>2, <2>3 DEF Erase
<1>8. CASE EraseCommand \/ BufferedProgramCommand
  <2>1. cmd \in Commands
    BY <1>8 DEF EraseCommand, BufferedProgramCommand, PhaseInv, TypeInv
  <2>2. \/ Issue(cmd)
        \/ Relock /\ UNCHANGED <<cmd, busy, sr, cell>>
    BY <1>8 DEF EraseCommand, BufferedProgramCommand, Poll, Retry
  <2>3. QED
    BY <1>1, <1>5, <1>6, <2>1, <2>2
<1>9. CASE Send
  <2> DEFINE c == [op |-> "program", start |-> buf[1][1], words |-> buf]
  <2>1. 1 \in 1 .. BufWords /\ 1 \in 1 .. bufSize
    BY <1>9, Facts DEF Send, BufferInv
  <2>2. buf[1] \in Entries
    BY <1>9, <2>1 DEF Send, BufferInv, TypeInv, Buffers
  <2>3. c \in Commands
    BY <2>2 DEF Entries, Commands, TypeInv
  <2>4. QED
    BY <1>1, <1>5, <1>9, <2>3 DEF Send
<1>10. QED
  BY <1>1, <1>4, <1>7, <1>8, <1>9 DEF Main, Start, GetPromSize, CheckFirmwareVersion, WriteOpen, Write, WriteError,
     WriteEnd, VerifyOpen, Verify, VerifyEnd, prom

\* One turn of the loop of bufferedWriteBootProm or of verifyBootProm.
Turn == /\ ~endOfFile /\ ~Fails /\ ReadByte /\ UNCHANGED fixed
        /\ toggle' = ~toggle /\ address' = IF toggle THEN address + 1 ELSE address

LEMMA WriteTurns == ASSUME Write PROVE pc = "write" /\ Turn
  BY DEF Write, Turn
LEMMA VerifyTurns == ASSUME Verify PROVE pc = "verify" /\ Turn /\ UNCHANGED <<gone, buffer, prom>>
  BY DEF Verify, Turn

LEMMA Turns ==
    ASSUME TypeInv, ReadInv, pc \in {"write", "verify"}, Turn
    PROVE  /\ Byte \in {0, 1} /\ last' \in {0, 1} /\ endOfFile' \in BOOLEAN /\ toggle' \in BOOLEAN
           /\ left' \in Seq({0, 1}) /\ record' \in 1 .. (Len(file) + 1)
           /\ address' \in Nat /\ 2 * address' <= Len(Bytes) + 1
           /\ toggle => 2 * address < Len(Bytes) /\ address \in Addresses
           /\ Bytes' = Bytes /\ file' = file
           /\ endOfFile' => Taken = Len(Bytes) /\ 2 * address' \in {Len(Bytes), Len(Bytes) + 1}
           /\ ~endOfFile' => /\ Taken < Len(Bytes) /\ Byte = Bytes[Taken + 1]
                             /\ Coming(Taken', left' \o Rest(file)[record'])
<1>1. file \in Seq(Record) /\ Len(Bytes) \in Nat /\ \A a \in Nat : 2 * a < Len(Bytes) => a \in Addresses
  BY HasPlace DEF TypeInv
<1>2. address \in Nat /\ left \in Seq({0, 1}) /\ last \in {0, 1} /\ record \in 1 .. (Len(file) + 1) /\ toggle \in BOOLEAN
  BY Facts
<1>3. ~endOfFile /\ ~Fails /\ ReadByte
  BY DEF Turn
<1>4. Coming(Taken, left \o Rest(file)[record])
  BY <1>3 DEF ReadInv, Reading
<1>5. Taken \in Nat /\ Taken = IF toggle THEN 2 * address + 1 ELSE 2 * address
  BY <1>2 DEF Taken
<1>6. /\ Byte \in {0, 1} /\ last' \in {0, 1} /\ endOfFile' \in BOOLEAN
      /\ left' \in Seq({0, 1}) /\ record' \in 1 .. (Len(file) + 1)
      /\ endOfFile' => Taken = Len(Bytes)
      /\ ~endOfFile' => /\ Taken < Len(Bytes) /\ Byte = Bytes[Taken + 1]
                        /\ Coming(Taken + 1, left' \o Rest(file)[record'])
  BY <1>1, <1>2, <1>3, <1>4, <1>5, ReadNext
<1>7. Bytes' = Bytes /\ file' = file
  BY SameSets DEF Turn
<1>8. toggle' = ~toggle /\ address' = IF toggle THEN address + 1 ELSE address
  BY DEF Turn
<1>9. Taken' = Taken + 1
  <2>1. Taken' = 2 * address' + (IF toggle' THEN 1 ELSE 0)
    BY DEF Taken
  <2>2. CASE toggle
    <3>1. toggle' = FALSE /\ address' = address + 1
      BY <1>8, <2>2
    <3>2. QED
      BY <1>2, <1>5, <2>1, <2>2, <3>1
  <2>3. CASE ~toggle
    <3>1. toggle' = TRUE /\ address' = address
      BY <1>8, <2>3
    <3>2. QED
      BY <1>2, <1>5, <2>1, <2>3, <3>1
  <2>4. QED
    BY <2>2, <2>3
<1>10. toggle => 2 * address < Len(Bytes)
  BY <1>1, <1>2, <1>5, <1>6
<1>11. address' \in Nat /\ 2 * address' <= Len(Bytes) + 1
  BY <1>1, <1>2, <1>5, <1>6, <1>8
<1>12. endOfFile' => 2 * address' \in {Len(Bytes), Len(Bytes) + 1}
  BY <1>1, <1>2, <1>5, <1>6, <1>8
<1>13. toggle' \in BOOLEAN
  BY <1>2, <1>8
<1>14. QED
  BY <1>1, <1>2, <1>6, <1>7, <1>9, <1>10, <1>11, <1>12, <1>13

\* What the reader finds when the file is opened.
LEMMA Opens ==
    ASSUME TypeInv, OpenFile, UNCHANGED fixed, address' = 0, toggle' = FALSE
    PROVE  /\ left' \in Seq({0, 1}) /\ record' \in 1 .. (Len(file) + 1) /\ last' \in {0, 1} /\ endOfFile' = FALSE
           /\ Coming(Taken', left' \o Rest(file)[record']) /\ Bytes' = Bytes /\ file' = file
<1>1. record' = 1 /\ left' = <<>> /\ endOfFile' = FALSE /\ last' = last
  BY DEF OpenFile
<1>2. file \in Seq(Record) /\ Bytes \in Seq({0, 1}) /\ Len(Bytes) \in Nat
  BY HasPlace DEF TypeInv
<1>3. <<>> \o Bytes = Bytes /\ <<>> \in Seq({0, 1})
  BY <1>2, ConcatEmptySeq, EmptySeq
<1>4. Taken' = 0
  BY DEF Taken
<1>5. Coming(0, Bytes)
  <2> DEFINE b == Bytes
  <2> HIDE DEF b
  <2>1. \A k \in 1 .. Len(b) : b[0 + k] = b[k]
    OBVIOUS
  <2>2. 0 + Len(b) = Len(b)
    BY <1>2 DEF b
  <2>3. QED
    BY <2>1, <2>2 DEF Coming, b
<1>6. 1 \in 1 .. (Len(file) + 1) /\ last \in {0, 1}
  BY <1>2, Facts
<1>7. left' \o Rest(file)[record'] = Bytes
  BY <1>1, <1>3 DEF Bytes
<1>8. QED
  BY <1>1, <1>3, <1>4, <1>5, <1>6, <1>7, SameSets

LEMMA OwnTypes ==
    ASSUME TypeInv, PhaseInv, BufferInv, ReadInv, EraseInv, Main
    PROVE  OwnTypeInv'
<1>1. UNCHANGED fixed
  BY CommandsType
<1>2. OwnTypeInv
  BY TwoTypes
<1>3. gone' = gone /\ gone' \in BOOLEAN
  BY <1>2 DEF OwnTypeInv, Main, Start, GetPromSize, CheckFirmwareVersion, Erase, EraseCommand, WriteOpen, Write, WriteError,
     WriteEnd, Send, BufferedProgramCommand, VerifyOpen, Verify, VerifyEnd
<1>4. Buffers' = Buffers /\ file' = file
  BY <1>1, SameSets
<1>5. address \in Nat /\ bufSize \in 0 .. BufWords /\ 0 \in 0 .. BufWords /\ 0 \in 0 .. (Words + BlockWords)
  BY Facts
<1>6. Len(Bytes) \in Nat /\ Len(Bytes) <= 2 * Words /\ \A i \in 1 .. Len(Bytes) : Bytes[i] \in {0, 1}
  BY HasPlace DEF TypeInv
<1>7. ASSUME NEW a \in Nat, 2 * a <= Len(Bytes) + 1 PROVE a \in 0 .. (Words + BlockWords)
  <2>1. 2 * a <= 2 * Words + 1 /\ a <= Words
    BY <1>6, <1>7
  <2>2. QED
    BY <2>1
<1>8. CASE Start \/ GetPromSize \/ CheckFirmwareVersion \/ WriteError
  <2>1. UNCHANGED <<mcs, word, buffer>>
    BY <1>8 DEF Start, GetPromSize, CheckFirmwareVersion, WriteError
  <2>2. pc' \in {"size", "hangs", "check", "erase", "verifyopen", "done"} /\ ret' \in {0, 1, ret}
    BY <1>8 DEF Start, GetPromSize, CheckFirmwareVersion, WriteError, Return
  <2>3. UNCHANGED <<record, left, last, endOfFile, toggle, low, address, buf, bufSize>>
    BY <2>1 DEF mcs, word, buffer
  <2>4. QED
    BY <1>1, <1>2, <1>3, <1>4, <2>2, <2>3, SameSets DEF OwnTypeInv
<1>9. CASE Erase \/ EraseCommand
  <2>1. UNCHANGED <<ret, mcs, toggle, low, buffer>>
    BY <1>9 DEF Erase, EraseCommand
  <2>2. pc' \in {"erase", "erasing", "writeopen"}
    BY <1>9 DEF Erase, EraseCommand, Poll
  <2>3. address' \in 0 .. (Words + BlockWords)
    <3>1. CASE Erase
      BY <1>2, <1>5, <3>1 DEF Erase, OwnTypeInv
    <3>2. CASE EraseCommand
      <4>1. address <= PromSize
        BY <3>2 DEF EraseCommand, EraseInv, PhaseInv
      <4>2. PromSize \in 0 .. (Words - 1)
        BY DEF Addresses
      <4>3. address + BlockWords \in 0 .. (Words + BlockWords)
        BY <1>5, <4>1, <4>2
      <4>4. QED
        BY <1>2, <3>2, <4>3 DEF EraseCommand, OwnTypeInv
    <3>3. QED
      BY <1>9, <3>1, <3>2
  <2>4. UNCHANGED <<ret, record, left, last, endOfFile, toggle, low, buf, bufSize>>
    BY <2>1 DEF mcs, buffer
  <2>5. QED
    BY <1>1, <1>2, <1>3, <1>4, <2>2, <2>3, <2>4, SameSets DEF OwnTypeInv
<1>10. CASE WriteOpen
  <2>1. pc' \in {"write", "done"} /\ ret' \in {1, ret} /\ (OpenFile \/ UNCHANGED mcs) /\ toggle' = FALSE
        /\ UNCHANGED <<low, address, buffer>>
    BY <1>10 DEF WriteOpen, Return
  <2>2. UNCHANGED <<low, address, buf, bufSize>>
    BY <2>1 DEF buffer
  <2>3. address = 0
    BY <1>10 DEF WriteOpen, PhaseInv
  <2>4. /\ left' \in Seq({0, 1}) /\ record' \in 1 .. (Len(file) + 1) /\ last' \in {0, 1} /\ endOfFile' \in BOOLEAN
    BY <1>1, <1>2, <2>1, <2>2, <2>3, Opens DEF OwnTypeInv, mcs
  <2>5. QED
    BY <1>1, <1>2, <1>3, <1>4, <2>1, <2>2, <2>4, SameSets DEF OwnTypeInv
<1>11. CASE VerifyOpen
  <2>1. pc' \in {"verify", "done"} /\ ret' \in {0, ret} /\ (OpenFile \/ UNCHANGED mcs) /\ toggle' = FALSE
        /\ address' = 0 /\ UNCHANGED <<low, buffer>>
    BY <1>11 DEF VerifyOpen, Return
  <2>2. UNCHANGED <<low, buf, bufSize>>
    BY <2>1 DEF buffer
  <2>3. /\ left' \in Seq({0, 1}) /\ record' \in 1 .. (Len(file) + 1) /\ last' \in {0, 1} /\ endOfFile' \in BOOLEAN
    BY <1>1, <1>2, <2>1, Opens DEF OwnTypeInv, mcs
  <2>4. QED
    BY <1>1, <1>2, <1>3, <1>4, <1>5, <2>1, <2>2, <2>3, SameSets DEF OwnTypeInv
<1>12. CASE Write \/ Verify
  <2>1. pc \in {"write", "verify"} /\ Turn
    BY <1>12, WriteTurns, VerifyTurns
  <2>2. /\ Byte \in {0, 1} /\ last' \in {0, 1} /\ endOfFile' \in BOOLEAN /\ toggle' \in BOOLEAN
        /\ left' \in Seq({0, 1}) /\ record' \in 1 .. (Len(file) + 1)
        /\ address' \in 0 .. (Words + BlockWords) /\ (toggle => 2 * address < Len(Bytes) /\ address \in Addresses)
    BY <1>7, <2>1, Turns
  <2>3. low' \in {0, 1} /\ pc' \in {"write", "send", "verify", "done"} /\ ret' \in {1, ret}
    BY <1>2, <1>12, <2>2 DEF Write, Verify, Return, OwnTypeInv
  <2>4. buf' \in Buffers /\ bufSize' \in 0 .. BufWords
    <3>1. CASE Verify \/ ~toggle
      BY <1>2, <1>12, <3>1 DEF Verify, Write, buffer, OwnTypeInv
    <3>2. CASE Write /\ toggle
      <4>1. buf' = [buf EXCEPT ![bufSize + 1] = <<address, <<low, Byte>>>>] /\ bufSize' = bufSize + 1 /\ pc = "write"
        BY <3>2 DEF Write
      <4>2. <<address, <<low, Byte>>>> \in Entries
        BY <1>2, <2>2, <3>2 DEF Entries, Data, OwnTypeInv
      <4>3. bufSize < BufWords
        BY <4>1 DEF BufferInv
      <4>4. buf' \in Buffers
        BY <1>2, <4>1, <4>2 DEF Buffers, OwnTypeInv
      <4>5. QED
        BY <1>5, <4>1, <4>3, <4>4
    <3>3. QED
      BY <1>12, <3>1, <3>2
  <2>5. QED
    BY <1>1, <1>2, <1>3, <1>4, <2>2, <2>3, <2>4, SameSets DEF OwnTypeInv
<1>13. CASE WriteEnd
  <2>1. UNCHANGED <<ret, mcs, word, bufSize>> /\ pc' \in {"verifyopen", "send"} /\ buf' \in {buf, Pad}
    BY <1>13 DEF WriteEnd
  <2>2. Pad \in Buffers
    <3>1. buf \in Buffers
      BY <1>2 DEF OwnTypeInv
    <3>2. CASE bufSize + 1 \in 1 .. BufWords /\ buf[bufSize + 1] # None
      <4>1. buf[bufSize + 1] \in Entries
        BY <3>1, <3>2 DEF Buffers
      <4>2. <<buf[bufSize + 1][1], Erased>> \in Entries
        BY <4>1 DEF Entries, Erased, Data
      <4>3. Pad = [buf EXCEPT ![bufSize + 1] = <<buf[bufSize + 1][1], Erased>>]
        BY <3>2 DEF Pad
      <4>4. QED
        BY <3>1, <4>2, <4>3 DEF Buffers
    <3>3. CASE bufSize + 1 \in 1 .. BufWords /\ buf[bufSize + 1] = None
      BY <3>1, <3>3 DEF Buffers, Pad
    <3>4. CASE bufSize + 1 \notin 1 .. BufWords
      BY <3>1, <3>4 DEF Buffers, Pad
    <3>5. QED
      BY <3>2, <3>3, <3>4
  <2>3. UNCHANGED <<record, left, last, endOfFile, toggle, low, address>>
    BY <2>1 DEF mcs, word
  <2>4. buf' \in Buffers
    BY <1>2, <2>1, <2>2 DEF OwnTypeInv
  <2>5. QED
    BY <1>1, <1>2, <1>3, <1>4, <2>1, <2>3, <2>4, SameSets DEF OwnTypeInv
<1>14. CASE Send \/ BufferedProgramCommand \/ VerifyEnd
  <2>1. UNCHANGED <<mcs, word, buf>> /\ bufSize' \in {0, bufSize}
        /\ pc' \in {"sending", "verifyopen", "write", "done"} /\ ret' \in {0, 1, ret}
    BY <1>14 DEF Send, BufferedProgramCommand, VerifyEnd, Poll, After, Return, buffer
  <2>2. UNCHANGED <<record, left, last, endOfFile, toggle, low, address, buf>>
    BY <2>1 DEF mcs, word
  <2>3. QED
    BY <1>1, <1>2, <1>3, <1>4, <1>5, <2>1, <2>2, SameSets DEF OwnTypeInv
<1>15. QED
  BY <1>8, <1>9, <1>10, <1>11, <1>12, <1>13, <1>14 DEF Main

-----------------------------------------------------------------------------
(* The steps keep types, phases, buffer and locks                           *)

LEMMA TypeStep == ASSUME IInv, [Next]_vars PROVE TypeInv'
<1>1. CASE Main
  BY <1>1, CommandsType, OwnTypes, TwoTypesNext DEF IInv
<1>2. CASE PromSucceeds \/ PromFails
  BY <1>2, PromTypes DEF IInv
<1>3. CASE Vanish
  <2>1. UNCHANGED <<fixed, pc, ret, mcs, word, buffer, prom>> /\ gone' = TRUE
    BY <1>3 DEF Vanish
  <2>2. OwnTypeInv /\ PromTypeInv
    BY TwoTypes DEF IInv
  <2>3. OwnTypeInv'
    BY <2>1, <2>2, OwnKeeps
  <2>4. PromTypeInv'
    BY <2>1, <2>2, SameSets DEF PromTypeInv, prom
  <2>5. QED
    BY <2>3, <2>4, TwoTypesNext
<1>4. CASE UNCHANGED vars
  <2>1. UNCHANGED <<fixed, gone, pc, ret, mcs, word, buffer, prom>>
    BY <1>4 DEF vars
  <2>2. OwnTypeInv /\ PromTypeInv
    BY TwoTypes DEF IInv
  <2>3. OwnTypeInv'
    <3>1. gone' \in BOOLEAN
      BY <2>1, <2>2 DEF OwnTypeInv
    <3>2. QED
      BY <2>1, <2>2, <3>1, OwnKeeps
  <2>4. PromTypeInv'
    BY <2>1, <2>2, SameSets DEF PromTypeInv, prom
  <2>5. QED
    BY <2>3, <2>4, TwoTypesNext
<1>5. QED
  BY <1>1, <1>2, <1>3, <1>4 DEF Next

\* A step that is none of the program's.
Apart == \/ PromSucceeds \/ PromFails \/ Vanish \/ UNCHANGED vars
LEMMA ApartKeeps == ASSUME Apart PROVE UNCHANGED <<fixed, pc, ret, mcs, word, buffer, cmd, locked>> /\ (busy' => busy)
  BY DEF Apart, PromSucceeds, PromFails, Vanish, vars, prom

LEMMA MainOrApart == [Next]_vars => Main \/ Apart
  BY DEF Next, Apart

LEMMA PhaseStep == ASSUME IInv, TypeInv', [Next]_vars PROVE PhaseInv'
<1> USE DEF PhaseInv, Loading
<1>1. PhaseInv /\ (busy => cmd \in Commands)
  BY DEF IInv, TypeInv
<1>2. CASE Apart
  <2>1. UNCHANGED <<fixed, pc, ret, mcs, word, buffer, cmd, locked>> /\ (busy' => busy) /\ busy \in BOOLEAN
    BY <1>2, ApartKeeps DEF IInv, TypeInv
  <2>2. UNCHANGED <<prog, type, pc, ret, address, cmd>> /\ Commands' = Commands /\ (busy' => busy)
    BY <2>1, SameSets DEF word
  <2>3. QED
    BY <1>1, <2>2
<1>3. CASE Main
  <2>1. UNCHANGED <<prog, type>> /\ Commands' = Commands
    BY <1>3, CommandsType, SameSets DEF IInv
  <2>2. CASE Start \/ GetPromSize \/ CheckFirmwareVersion
    <3>1. UNCHANGED <<address, cmd, busy>>
      BY <2>2 DEF Start, GetPromSize, CheckFirmwareVersion, word, prom
    <3>2. QED
      BY <1>1, <2>1, <2>2, <3>1 DEF Start, GetPromSize, CheckFirmwareVersion, Return, IInv, TypeInv
  <2>3. CASE Erase
    <3>1. CASE type = "legacy" /\ address <= PromSize /\ Issue(EraseCmd(address)) /\ pc' = "erasing"
      <4>1. cmd' = EraseCmd(address) /\ busy' = TRUE /\ ret' = ret /\ pc = "erase"
        BY <2>3, <3>1 DEF Erase, Issue
      <4>2. address \in Addresses /\ buf \in Buffers
        BY <3>1, Facts DEF IInv, TypeInv, Addresses
      <4>3. cmd' \in Commands
        BY <4>1, <4>2 DEF EraseCmd, Commands
      <4>4. QED
        BY <1>1, <2>1, <3>1, <4>1, <4>3
    <3>2. CASE type = "legacy" /\ pc' = "writeopen" /\ address' = 0 /\ UNCHANGED prom
      BY <1>1, <2>1, <2>3, <3>2 DEF Erase, prom
    <3>3. CASE type = "new" /\ pc' = "writeopen" /\ UNCHANGED address
      BY <1>1, <2>1, <2>3, <3>3 DEF Erase
    <3>4. QED
      BY <2>3, <3>1, <3>2, <3>3 DEF Erase
  <2>4. CASE EraseCommand \/ BufferedProgramCommand
    <3>1. pc \in {"erasing", "sending"} /\ ret' = ret /\ cmd' = cmd /\ type = "legacy" /\ cmd \in Commands
          /\ pc' \in {pc, "erase", "write", "verifyopen"} /\ (pc' # pc => busy' = busy /\ ~busy)
          /\ prog = "load"
      BY <1>1, <2>4 DEF EraseCommand, BufferedProgramCommand, Poll, Retry, Issue, After
    <3>2. pc' # "erase" => prog # "version"
      BY <3>1
    <3>3. QED
      BY <1>1, <2>1, <3>1
  <2>5. CASE WriteOpen \/ Write \/ WriteError \/ WriteEnd
    <3>1. UNCHANGED <<cmd, busy>> /\ pc \in {"writeopen", "write"} /\ pc' \in {"write", "send", "verifyopen", "done"}
          /\ (ret' # ret => pc' = "done")
      BY <2>5 DEF WriteOpen, Write, WriteError, WriteEnd, Return, prom
    <3>2. QED
      BY <1>1, <2>1, <3>1
  <2>6. CASE Send
    <3>1. ret' = ret /\ pc = "send" /\ (pc' = "sending" => type = "legacy" /\ cmd' = [op |-> "program", start |-> buf[1][1], words |-> buf])
          /\ pc' \in {"sending", "write", "verifyopen"} /\ (type = "legacy" => pc' = "sending")
      BY <2>6 DEF Send, Issue, After
    <3>2. pc' = "sending" => cmd' \in Commands
      <4>1. 1 \in 1 .. BufWords /\ 1 \in 1 .. bufSize
        BY <3>1, Facts DEF IInv, BufferInv
      <4>2. buf[1] \in Entries
        BY <3>1, <4>1 DEF BufferInv, TypeInv, Buffers, IInv
      <4>3. QED
        BY <3>1, <4>2 DEF Entries, Commands, IInv, TypeInv
    <3>3. QED
      BY <1>1, <2>1, <3>1, <3>2
  <2>7. CASE VerifyOpen \/ Verify \/ VerifyEnd
    <3>1. UNCHANGED <<cmd, busy>> /\ pc \in {"verifyopen", "verify"} /\ pc' \in {"verify", "done"}
          /\ (ret' # ret => pc' = "done")
      BY <2>7 DEF VerifyOpen, Verify, VerifyEnd, Return, prom
    <3>2. QED
      BY <1>1, <2>1, <3>1
  <2>8. QED
    BY <1>3, <2>2, <2>3, <2>4, <2>5, <2>6, <2>7 DEF Main
<1>4. QED
  BY <1>2, <1>3, MainOrApart

LEMMA BufferStep == ASSUME IInv, [Next]_vars PROVE BufferInv'
<1> USE DEF BufferInv
<1>1. BufferInv /\ bufSize \in Nat /\ bufSize \in 0 .. BufWords
  BY Facts DEF IInv
<1>2. CASE Apart
  <2>1. UNCHANGED <<pc, buf, bufSize>>
    BY <1>2, ApartKeeps DEF buffer
  <2>2. QED
    BY <1>1, <2>1
<1>3. CASE Start \/ GetPromSize \/ CheckFirmwareVersion \/ Erase \/ EraseCommand \/ WriteOpen \/ WriteError
           \/ VerifyOpen \/ Verify \/ VerifyEnd \/ BufferedProgramCommand
  <2>1. UNCHANGED <<buf, bufSize>> /\ (pc' \in {"write", "send"} => bufSize = 0 /\ pc' = "write") /\ (pc = "write" => pc' = "done")
        /\ pc # "send"
    BY <1>1, <1>3 DEF Start, GetPromSize, CheckFirmwareVersion, Erase, EraseCommand, WriteOpen, WriteError,
       VerifyOpen, Verify, VerifyEnd, BufferedProgramCommand, Return, Poll, After, buffer
  <2>2. pc' # "done" => bufSize = 0 \/ pc = "done"
    BY <1>1, <2>1
  <2>3. pc # "done"
    BY <1>3 DEF Start, GetPromSize, CheckFirmwareVersion, Erase, EraseCommand, WriteOpen, WriteError,
       VerifyOpen, Verify, VerifyEnd, BufferedProgramCommand
  <2>4. \A i \in 1 .. 0 : FALSE
    OBVIOUS
  <2>5. QED
    BY <1>1, <2>1, <2>2, <2>3, <2>4
<1>4. CASE Write
  <2>1. CASE ~toggle
    BY <1>1, <1>4, <2>1 DEF Write, buffer
  <2>2. CASE toggle
    <3>1. buf' = [buf EXCEPT ![bufSize + 1] = <<address, <<low, Byte>>>>] /\ bufSize' = bufSize + 1 /\ pc = "write"
          /\ pc' = IF bufSize' = BufWords THEN "send" ELSE "write"
      BY <1>4, <2>2 DEF Write
    <3>2. <<address, <<low, Byte>>>> # None
      <4>1. <<address, <<low, Byte>>>> \in Addresses \X ({0, 1} \X {0, 1})
        BY <2>2, <1>4, WriteTurns, Turns, Facts DEF IInv
      <4>2. QED
        BY <4>1, NoneAssumption
    <3>3. \A i \in 1 .. bufSize : buf[i] # None
      BY <1>1, <3>1
    <3>4. buf \in Buffers
      BY DEF IInv, TypeInv
    <3>5. \A i \in 1 .. (bufSize + 1) : buf'[i] # None
      BY <1>1, <3>1, <3>2, <3>3, <3>4 DEF Buffers
    <3>6. QED
      BY <1>1, <3>1, <3>5
  <2>3. QED
    BY <2>1, <2>2
<1>5. CASE WriteEnd
  <2>1. pc = "write" /\ bufSize' = bufSize /\ (IF bufSize = 0 THEN pc' = "verifyopen" /\ UNCHANGED buf ELSE pc' = "send" /\ buf' = Pad)
    BY <1>5 DEF WriteEnd
  <2>2. \A i \in 1 .. bufSize : Pad[i] = buf[i]
    <3>1. buf \in Buffers
      BY DEF IInv, TypeInv
    <3>2. QED
      BY <1>1, <3>1 DEF Pad, Buffers
  <2>3. QED
    BY <1>1, <2>1, <2>2
<1>6. CASE Send
  BY <1>1, <1>6 DEF Send, After
<1>7. QED
  BY <1>2, <1>3, <1>4, <1>5, <1>6, MainOrApart DEF Main

LEMMA LockStep == ASSUME IInv, [Next]_vars PROVE LockInv'
<1>1. LockInv /\ locked \subseteq Blocks /\ (pc \in {"erasing", "sending"} => cmd \in Commands /\ type = "legacy")
  BY Facts DEF IInv, PhaseInv
<1>2. CASE Apart
  <2>1. UNCHANGED <<type, pc, cmd, locked>>
    BY <1>2, ApartKeeps DEF fixed
  <2>2. QED
    BY <1>1, <2>1 DEF LockInv, Block
<1>3. CASE Main
  <2>1. type' = type
    BY <1>3, CommandsType, SameSets DEF IInv
  <2>2. CASE UNCHANGED prom /\ pc \notin {"erasing", "sending"} /\ pc' \notin {"erasing", "sending"}
    BY <1>1, <2>1, <2>2 DEF LockInv, prom
  <2>3. ASSUME NEW c, Block(c.start) \in Blocks, Issue(c),
               locked \cup {Block(c.start)} = Blocks
        PROVE  locked' \cup {Block(cmd'.start)} = Blocks /\ cmd' = c
    <3>1. cmd' = c /\ locked' = locked \ {Block(c.start)}
      BY <2>3 DEF Issue
    <3>2. QED
      BY <2>3, <3>1
  <2>4. CASE Erase
    <3>1. CASE type = "legacy" /\ address <= PromSize /\ Issue(EraseCmd(address)) /\ pc' = "erasing"
      <4>1. address \in Addresses /\ EraseCmd(address).start = address
        BY <3>1, Facts DEF IInv, Addresses, EraseCmd
      <4>2. Block(address) \in Blocks
        BY <4>1 DEF Block, Blocks
      <4>3. locked = Blocks
        BY <1>1, <2>4, <3>1 DEF LockInv, Erase
      <4>4. locked' \cup {Block(cmd'.start)} = Blocks
        BY <2>3, <3>1, <4>1, <4>2, <4>3
      <4>5. QED
        BY <2>1, <3>1, <4>4 DEF LockInv, Block
    <3>2. CASE ~(type = "legacy" /\ address <= PromSize /\ Issue(EraseCmd(address)) /\ pc' = "erasing")
      <4>1. CASE type = "new"
        BY <2>1, <4>1 DEF LockInv
      <4>2. CASE type # "new"
        BY <2>2, <2>4, <3>2, <4>2 DEF Erase
      <4>3. QED
        BY <4>1, <4>2
    <3>3. QED
      BY <3>1, <3>2
  <2>5. CASE EraseCommand \/ BufferedProgramCommand
    <3>1. pc \in {"erasing", "sending"} /\ type = "legacy"
      BY <1>1, <2>5 DEF EraseCommand, BufferedProgramCommand
    <3>2. locked \cup {Block(cmd.start)} = Blocks /\ Block(cmd.start) \in Blocks
      BY <1>1, <3>1, Placed DEF LockInv
    <3>3. \/ Issue(cmd) /\ pc' = pc
          \/ Relock /\ cmd' = cmd /\ pc' \in {"erase", "write", "verifyopen"}
      BY <2>5 DEF EraseCommand, BufferedProgramCommand, Poll, Retry, After
    <3>4. CASE Issue(cmd) /\ pc' = pc
      <4>1. locked' \cup {Block(cmd'.start)} = Blocks
        BY <2>3, <3>2, <3>4
      <4>2. QED
        BY <2>1, <3>1, <3>4, <4>1 DEF LockInv, Block
    <3>5. CASE Relock /\ cmd' = cmd /\ pc' \in {"erase", "write", "verifyopen"}
      BY <2>1, <3>2, <3>5 DEF LockInv, Relock
    <3>6. QED
      BY <3>3, <3>4, <3>5
  <2>6. CASE Send
    <3> DEFINE c == [op |-> "program", start |-> buf[1][1], words |-> buf]
    <3>1. CASE type = "legacy" /\ Issue(c) /\ pc' = "sending"
      <4>1. 1 \in 1 .. BufWords /\ 1 \in 1 .. bufSize /\ buf \in Buffers
        BY <2>6, Facts DEF IInv, BufferInv, Send, TypeInv
      <4>2. buf[1] \in Entries
        BY <2>6, <4>1 DEF Send, IInv, BufferInv, Buffers
      <4>3. c.start \in Addresses
        BY <4>2 DEF Entries
      <4>4. Block(c.start) \in Blocks /\ locked = Blocks
        BY <1>1, <2>6, <3>1, <4>3 DEF Block, Blocks, LockInv, Send
      <4> HIDE DEF c
      <4>5. locked' \cup {Block(cmd'.start)} = Blocks
        BY <2>3, <3>1, <4>4
      <4>6. QED
        BY <2>1, <3>1, <4>5 DEF LockInv, Block
    <3>2. CASE type = "new"
      BY <2>1, <3>2 DEF LockInv
    <3>3. QED
      BY <2>6, <3>1, <3>2 DEF Send
  <2>7. CASE Start \/ GetPromSize \/ CheckFirmwareVersion \/ WriteOpen \/ Write \/ WriteError \/ WriteEnd
             \/ VerifyOpen \/ Verify \/ VerifyEnd
    BY <2>2, <2>7 DEF Start, GetPromSize, CheckFirmwareVersion, WriteOpen, Write, WriteError, WriteEnd,
       VerifyOpen, Verify, VerifyEnd, Return
  <2>8. QED
    BY <1>3, <2>4, <2>5, <2>6, <2>7 DEF Main
<1>4. QED
  BY <1>2, <1>3, MainOrApart

-----------------------------------------------------------------------------
(* Reading and comparing                                                    *)

LEMMA ReadStep == ASSUME IInv, [Next]_vars PROVE ReadInv'
<1> DEFINE here == <<file, endOfFile, toggle, address, left, record>>
<1>1. ASSUME UNCHANGED here, pc' \in Reading => pc \in Reading PROVE ReadInv'
  <2>1. UNCHANGED <<file, endOfFile, toggle, address, left, record>>
    BY <1>1
  <2>2. UNCHANGED <<Bytes, Taken>>
    BY <2>1 DEF Bytes, Taken
  <2>3. QED
    BY <1>1, <2>1, <2>2 DEF IInv, ReadInv, Coming, Reading
<1>2. CASE Apart
  BY <1>1, <1>2, ApartKeeps DEF fixed, mcs, word
<1>3. CASE Main
  <2>1. UNCHANGED fixed /\ file' = file
    BY <1>3, CommandsType, SameSets DEF IInv
  <2>2. CASE Start \/ GetPromSize \/ CheckFirmwareVersion \/ Erase \/ EraseCommand \/ WriteError \/ VerifyEnd
    <3>1. pc' \notin Reading \/ UNCHANGED pc
      BY <2>2 DEF Start, GetPromSize, CheckFirmwareVersion, Erase, EraseCommand, WriteError, VerifyEnd,
         Return, Poll, Reading
    <3>2. pc \notin Reading \/ pc' = "done"
      BY <2>2 DEF Start, GetPromSize, CheckFirmwareVersion, Erase, EraseCommand, WriteError, VerifyEnd, Return, Reading
    <3>3. QED
      BY <3>1, <3>2 DEF ReadInv, Reading
  <2>3. CASE WriteEnd \/ Send \/ BufferedProgramCommand
    BY <1>1, <2>1, <2>3 DEF WriteEnd, Send, BufferedProgramCommand, mcs, word, Reading
  <2>4. CASE WriteOpen \/ VerifyOpen
    <3>1. CASE pc' = "done"
      BY <3>1 DEF ReadInv, Reading
    <3>2. CASE pc' # "done"
      <4>1. OpenFile /\ toggle' = FALSE
        BY <2>4, <3>2 DEF WriteOpen, VerifyOpen, Return
      <4>2. address' = 0
        BY <2>4 DEF WriteOpen, VerifyOpen, IInv, PhaseInv
      <4>3. endOfFile' = FALSE /\ Coming(Taken', left' \o Rest(file)[record']) /\ Bytes' = Bytes
        BY <2>1, <4>1, <4>2, Opens DEF IInv
      <4>4. QED
        BY <2>1, <4>3 DEF ReadInv, Coming
    <3>3. QED
      BY <3>1, <3>2
  <2>5. CASE Write \/ Verify
    <3>1. pc \in {"write", "verify"} /\ Turn
      BY <2>5, WriteTurns, VerifyTurns
    <3>2. /\ Bytes' = Bytes /\ endOfFile' \in BOOLEAN
          /\ endOfFile' => 2 * address' \in {Len(Bytes), Len(Bytes) + 1}
          /\ ~endOfFile' => Coming(Taken', left' \o Rest(file)[record'])
      BY <3>1, Turns DEF IInv
    <3>3. QED
      BY <2>1, <3>2 DEF ReadInv, Coming
  <2>6. QED
    BY <1>3, <2>2, <2>3, <2>4, <2>5 DEF Main
<1>4. QED
  BY <1>2, <1>3, MainOrApart

LEMMA SameKept ==
    ASSUME cell' = cell, Bytes' = Bytes
    PROVE  (\A i \in Nat : Same(i)' <=> Same(i)) /\ (Matches' <=> (ret' = 0 /\ prog' # "version" => \A i \in 1 .. Len(Bytes) : Same(i)))
  BY DEF Same, Matches

\* A word that was read as the file has it.
LEMMA Compared ==
    ASSUME NEW a \in Nat, NEW x \in {0, 1}, NEW y \in {0, 1}, cell[a] = <<x, y>>
    PROVE  (Same(2 * a + 1) <=> x = Bytes[2 * a + 1]) /\ (Same(2 * a + 2) <=> y = Bytes[2 * a + 2])
<1>1. ((2 * a + 1) - 1) \div 2 = a /\ (((2 * a + 1) - 1) % 2) + 1 = 1
  OBVIOUS
<1>2. ((2 * a + 2) - 1) \div 2 = a /\ (((2 * a + 2) - 1) % 2) + 1 = 2
  OBVIOUS
<1>3. cell[a][1] = x /\ cell[a][2] = y
  OBVIOUS
<1>4. QED
  BY <1>1, <1>2, <1>3 DEF Same

LEMMA VerifyStep == ASSUME IInv, [Next]_vars PROVE VerifyInv'
<1>1. /\ address \in Nat /\ Len(Bytes) \in Nat /\ busy \in BOOLEAN /\ toggle \in BOOLEAN /\ gone \in BOOLEAN
      /\ low \in {0, 1} /\ endOfFile \in BOOLEAN /\ VerifyInv
  BY HasPlace, Facts DEF IInv, TypeInv
<1>2. UNCHANGED fixed /\ Bytes' = Bytes /\ prog' = prog
  <2>1. UNCHANGED fixed
    BY CommandsType, ApartKeeps, MainOrApart DEF IInv
  <2>2. QED
    BY <2>1, SameSets
<1>3. CASE Apart
  <2>1. UNCHANGED <<pc, ret, endOfFile, toggle, low, address>>
    BY <1>3, ApartKeeps DEF mcs, word
  <2>2. CASE cell' = cell
    <3>1. (busy' => busy) /\ (~gone' => ~gone)
      BY <1>1, <1>3, ApartKeeps DEF Apart, PromSucceeds, PromFails, Vanish, vars
    <3>2. QED
      BY <1>1, <1>2, <2>1, <2>2, <3>1, SameKept DEF VerifyInv, Matches, Same
  <2>3. CASE cell' # cell
    <3>1. PromSucceeds
      BY <1>3, <2>3 DEF Apart, PromFails, Vanish, vars, prom
    <3>2. busy /\ busy' = FALSE /\ gone' = gone
      BY <3>1 DEF PromSucceeds
    <3>3. pc = "verify" => address = 0
      BY <1>1, <3>2 DEF VerifyInv
    <3>4. ret = 0 /\ prog # "version" /\ ~gone => Len(Bytes) = 0
      BY <1>1, <3>2 DEF VerifyInv
    <3>5. \A i \in 1 .. Len(Bytes) : ~(i <= 2 * 0)
      OBVIOUS
    <3>6. Len(Bytes) = 0 => Matches'
      BY <1>2 DEF Matches
    <3>7. QED
      BY <1>1, <1>2, <2>1, <3>2, <3>3, <3>4, <3>5, <3>6 DEF VerifyInv
  <2>4. QED
    BY <2>2, <2>3
<1>4. CASE Main
  <2>1. ret # 0 /\ pc # "done"
    <3>1. pc # "done"
      BY <1>4 DEF Main, Start, GetPromSize, CheckFirmwareVersion, Erase, EraseCommand, WriteOpen, Write, WriteError,
         WriteEnd, Send, BufferedProgramCommand, VerifyOpen, Verify, VerifyEnd
    <3>2. QED
      BY <3>1, NoneAssumption DEF IInv, PhaseInv
  <2>2. CASE Start \/ GetPromSize \/ CheckFirmwareVersion \/ Erase \/ EraseCommand \/ WriteOpen \/ Write \/ WriteError
             \/ WriteEnd \/ Send \/ BufferedProgramCommand
    <3>1. pc' # "verify"
      BY <2>2 DEF Start, GetPromSize, CheckFirmwareVersion, Erase, EraseCommand, WriteOpen, Write, WriteError,
         WriteEnd, Send, BufferedProgramCommand, Poll, After, Return
    <3>2. ret' = 0 => prog = "version"
      BY <2>1, <2>2 DEF Start, GetPromSize, CheckFirmwareVersion, Erase, EraseCommand, WriteOpen, Write, WriteError,
         WriteEnd, Send, BufferedProgramCommand, Poll, After, Return
    <3>3. QED
      BY <1>2, <3>1, <3>2 DEF VerifyInv
  <2>3. CASE VerifyOpen
    <3>1. \/ gone' /\ pc' = "done"
          \/ ret' = ret /\ address' = 0 /\ toggle' = FALSE
      BY <2>3 DEF VerifyOpen, Return
    <3>2. \A i \in 1 .. Len(Bytes) : ~(i <= 2 * 0)
      OBVIOUS
    <3>3. QED
      BY <1>2, <2>1, <3>1, <3>2 DEF VerifyInv
  <2>4. CASE VerifyEnd
    <3>1. pc' = "done" /\ (ret' = 0 => endOfFile) /\ UNCHANGED <<cell, busy>> /\ pc = "verify"
      BY <2>1, <2>4 DEF VerifyEnd, Return, prom
    <3>2. endOfFile => 2 * address >= Len(Bytes)
      BY <1>1, <3>1 DEF IInv, ReadInv, Reading
    <3>3. endOfFile => \A i \in 1 .. Len(Bytes) : Same(i)
      BY <1>1, <3>1, <3>2 DEF VerifyInv
    <3>4. endOfFile => Matches'
      BY <1>2, <3>1, <3>3, SameKept
    <3>5. endOfFile /\ Len(Bytes) > 0 => ~busy
      BY <1>1, <3>1, <3>2 DEF VerifyInv
    <3>6. QED
      BY <1>2, <3>1, <3>4, <3>5 DEF VerifyInv
  <2>5. CASE Verify
    <3>1. pc = "verify" /\ Turn /\ UNCHANGED <<gone, buffer, prom>>
      BY <2>5, VerifyTurns
    <3>2. cell' = cell /\ busy' = busy /\ gone' = gone
      BY <3>1 DEF prom
    <3>3. /\ Byte \in {0, 1} /\ endOfFile' \in BOOLEAN
          /\ endOfFile' => Taken = Len(Bytes)
          /\ ~endOfFile' => Byte = Bytes[Taken + 1]
      BY <3>1, Turns DEF IInv
    <3>4. toggle' = ~toggle /\ address' = (IF toggle THEN address + 1 ELSE address) /\ ~endOfFile
      BY <3>1 DEF Turn
    <3>5. ret' # 0
      BY <2>1, <2>5 DEF Verify, Return
    <3>6. /\ \A i \in 1 .. Len(Bytes) : i <= 2 * address => Same(i)
          /\ toggle => low = Bytes[2 * address + 1]
          /\ address > 0 => ~busy
      BY <1>1, <3>1, <3>4 DEF VerifyInv
    <3>7. \A i \in Nat : Same(i)' <=> Same(i)
      BY <1>2, <3>2, SameKept
    <3>8. CASE ~toggle
      <4>1. low' = Byte /\ address' = address /\ Taken = 2 * address
        BY <1>1, <2>5, <3>4, <3>8 DEF Verify, Taken
      <4>2. \A i \in 1 .. Len(Bytes) : i <= 2 * address => Same(i)'
        BY <3>6, <3>7
      <4>3. QED
        BY <1>1, <1>2, <3>2, <3>3, <3>5, <3>6, <4>1, <4>2 DEF VerifyInv
    <3>9. CASE toggle
      <4>1. address' = address + 1 /\ Taken = 2 * address + 1 /\ toggle' = FALSE
        BY <1>1, <3>4, <3>9 DEF Taken
      <4>2. CASE pc' # "verify"
        BY <3>5, <4>2 DEF VerifyInv
      <4>3. CASE pc' = "verify"
        <5>1. ReadWord(address) = <<low, Byte>>
          BY <2>5, <3>9, <4>3 DEF Verify, Return
        <5>2. ~busy /\ cell[address] = <<low, Byte>>
          <6>1. <<low, Byte>> \in {0, 1} \X {0, 1}
            BY <1>1, <3>3
          <6>2. <<low, Byte>> # None
            BY <6>1, NoneAssumption
          <6>3. QED
            BY <5>1, <6>2 DEF ReadWord
        <5>3. Same(2 * address + 1) /\ (~endOfFile' => Same(2 * address + 2))
          <6>1. Taken + 1 = 2 * address + 2
            BY <1>1, <4>1
          <6>2. QED
            BY <1>1, <3>3, <3>6, <3>9, <5>2, <6>1, Compared
        <5>4. ASSUME NEW i \in 1 .. Len(Bytes), i <= 2 * address' PROVE Same(i)'
          <6>1. i \in Nat /\ (i <= 2 * address \/ i = 2 * address + 1 \/ i = 2 * address + 2)
            BY <1>1, <4>1, <5>4
          <6>2. i = 2 * address + 2 => ~endOfFile'
            BY <1>1, <3>3, <4>1, <5>4
          <6>3. Same(i)
            BY <3>6, <5>3, <6>1, <6>2
          <6>4. QED
            BY <3>7, <6>1, <6>3
        <5>5. QED
          BY <1>2, <3>2, <3>5, <4>1, <5>2, <5>4 DEF VerifyInv
      <4>4. QED
        BY <4>2, <4>3
    <3>10. QED
      BY <1>1, <3>8, <3>9
  <2>6. QED
    BY <1>4, <2>2, <2>3, <2>4, <2>5 DEF Main
<1>5. QED
  BY <1>3, <1>4, MainOrApart

-----------------------------------------------------------------------------
(* Erasing, and what is programmed beyond the file                          *)

\* Where the erasing of a legacy PROM stands: what one step must keep.
LEMMA EraseStep == ASSUME IInv, [Next]_vars PROVE EraseInv'
<1>1. /\ address \in Nat /\ cell \in [Addresses -> Data] /\ busy \in BOOLEAN /\ EraseInv
      /\ (busy => cmd \in Commands) /\ \A a \in Addresses : a \in Nat
  BY Facts DEF IInv, TypeInv, Addresses
<1>2. UNCHANGED fixed /\ type' = type
  <2>1. UNCHANGED fixed
    BY CommandsType, ApartKeeps, MainOrApart DEF IInv
  <2>2. QED
    BY <2>1, SameSets
<1>3. CASE Apart
  <2>1. UNCHANGED <<type, pc, cmd, address>>
    BY <1>2, <1>3, ApartKeeps DEF word
  <2>2. CASE UNCHANGED <<cell, busy, sr>>
    BY <1>1, <2>1, <2>2 DEF EraseInv, Block
  <2>3. CASE PromFails
    <3>1. cell' = cell /\ sr' = "fail"
      BY <2>3 DEF PromFails
    <3>2. QED
      BY <1>1, <2>1, <3>1 DEF EraseInv, Block
  <2>4. CASE PromSucceeds
    <3>1. CASE type = "legacy" /\ pc = "erase"
      BY <2>4, <3>1 DEF PromSucceeds, IInv, PhaseInv
    <3>2. CASE type = "legacy" /\ pc = "erasing"
      <4>1. cmd.op = "erase" /\ cmd.start = address /\ address = Block(address) * BlockWords /\ address <= PromSize
            /\ \A a \in Addresses : a < address => cell[a] = Erased
        BY <1>1, <3>2 DEF EraseInv
      <4>2. cell' = [a \in Addresses |-> IF type = "new" \/ Block(a) = Block(cmd.start) THEN Erased ELSE cell[a]]
        BY <2>4, <4>1 DEF PromSucceeds
      <4>3. \A a \in Addresses : cell'[a] = IF Block(a) = Block(address) THEN Erased ELSE cell[a]
        BY <3>2, <4>1, <4>2
      <4>4. QED
        BY <2>1, <4>1, <4>3 DEF EraseInv, Block
    <3>3. QED
      BY <2>1, <3>1, <3>2 DEF EraseInv
  <2>5. CASE Vanish
    BY <2>2, <2>5 DEF Vanish, prom
  <2>6. QED
    BY <1>3, <2>2, <2>3, <2>4, <2>5 DEF Apart, vars, prom
<1>4. CASE CheckFirmwareVersion
  <2>1. pc = "check" /\ address' = address
    BY <1>4 DEF CheckFirmwareVersion, word
  <2>2. address' = 0 /\ pc' # "erasing"
    BY <1>4, <2>1 DEF CheckFirmwareVersion, IInv, PhaseInv, Return
  <2>3. \A a \in Addresses : ~(a < 0)
    BY <1>1
  <2>4. 0 = Block(0) * BlockWords
    BY Zero
  <2>5. QED
    BY <2>2, <2>3, <2>4 DEF EraseInv, Block
<1>5. CASE Erase
  <2>1. CASE type = "legacy" /\ address <= PromSize /\ Issue(EraseCmd(address)) /\ pc' = "erasing" /\ UNCHANGED address
    <3>1. cmd' = EraseCmd(address) /\ busy' = TRUE /\ cell' = cell /\ pc = "erase"
      BY <1>5, <2>1 DEF Issue, Erase
    <3>2. cmd'.op = "erase" /\ cmd'.start = address
      BY <3>1 DEF EraseCmd
    <3>3. QED
      BY <1>1, <1>2, <2>1, <3>1, <3>2 DEF EraseInv, Block
  <2>2. CASE pc' = "writeopen"
    BY <2>2 DEF EraseInv
  <2>3. QED
    BY <1>5, <2>1, <2>2 DEF Erase
<1>6. CASE EraseCommand
  <2>1. pc = "erasing" /\ type = "legacy"
    BY <1>6 DEF EraseCommand, IInv, PhaseInv
  <2>2. cmd.op = "erase" /\ cmd.start = address /\ address = Block(address) * BlockWords /\ address <= PromSize
        /\ \A a \in Addresses : a < address => cell[a] = Erased
    BY <1>1, <2>1 DEF EraseInv
  <2>3. CASE Retry /\ UNCHANGED pc
    <3>1. UNCHANGED <<cmd, cell, address>> /\ busy' = TRUE /\ pc' = "erasing"
      BY <1>6, <2>1, <2>3 DEF EraseCommand, Retry, Issue
    <3>2. QED
      BY <1>1, <2>2, <3>1 DEF EraseInv, Block
  <2>4. CASE sr = "ok" /\ pc' = "erase" /\ cell' = cell /\ ~busy
    <3>1. address' = address + BlockWords
      BY <1>6, <2>4 DEF EraseCommand
    <3>2. address' = Block(address') * BlockWords
      BY <1>1, <2>2, <3>1, BlockNext
    <3>3. ASSUME NEW a \in Addresses, a < address' PROVE cell[a] = Erased
      <4>1. CASE a < address
        BY <2>2, <4>1
      <4>2. CASE ~(a < address)
        <5> DEFINE b == Block(address)
        <5>1. b \in Nat
          BY <1>1, BlockIs
        <5>2. b * BlockWords <= a /\ a < b * BlockWords + BlockWords /\ a \in Nat
          <6> DEFINE m == b * BlockWords
          <6>1. address = m
            BY <2>2
          <6> HIDE DEF m
          <6>2. QED
            <7>1. m <= a /\ a < m + BlockWords /\ a \in Nat
              BY <1>1, <3>1, <3>3, <4>2, <6>1
            <7>2. QED
              BY <7>1 DEF m
        <5> HIDE DEF b
        <5>3. Block(a) = b
          BY <5>1, <5>2, BlockOf
        <5>4. QED
          BY <1>1, <2>1, <2>4, <5>3 DEF EraseInv, b
      <4>3. QED
        BY <4>1, <4>2
    <3>4. QED
      BY <2>4, <3>2, <3>3 DEF EraseInv, Block
  <2>5. QED
    BY <1>6, <2>3, <2>4 DEF EraseCommand, Poll
<1>7. CASE Start \/ GetPromSize \/ WriteOpen \/ Write \/ WriteError \/ WriteEnd \/ Send
           \/ BufferedProgramCommand \/ VerifyOpen \/ Verify \/ VerifyEnd
  <2>1. pc' \notin {"erase", "erasing"}
    BY <1>7 DEF Start, GetPromSize, WriteOpen, Write, WriteError, WriteEnd, Send,
       BufferedProgramCommand, VerifyOpen, Verify, VerifyEnd, Return, Poll, After
  <2>2. QED
    BY <2>1 DEF EraseInv
<1>8. QED
  BY <1>3, <1>4, <1>5, <1>6, <1>7, MainOrApart DEF Main

\* When eraseBootProm is through, all that PROM_SIZE reaches is below address.
LEMMA WholeErased ==
    ASSUME NEW n \in Nat, n = Block(n) * BlockWords, n > PromSize, NEW a \in Reach
    PROVE  a < n
<1> DEFINE p == Block(PromSize)
           b == Block(n)
           k == Block(a)
<1>1. a \in Nat /\ PromSize \in Nat /\ k <= p
  BY DEF Reach, Addresses
<1>2. /\ p \in Nat /\ p * BlockWords <= PromSize
      /\ b \in Nat /\ k \in Nat /\ a < k * BlockWords + BlockWords
  BY <1>1, BlockIs
<1>3. n = b * BlockWords
  OBVIOUS
<1> HIDE DEF p, b, k
<1>4. p < b
  <2>1. CASE b < p
    <3>1. b * BlockWords + BlockWords <= p * BlockWords
      BY <1>2, <2>1, Ordered
    <3> DEFINE x == b * BlockWords
               y == p * BlockWords
    <3>2. x \in Nat /\ y \in Nat /\ x + BlockWords <= y /\ y <= PromSize /\ n = x
      BY <1>2, <1>3, <3>1
    <3> HIDE DEF x, y
    <3>3. QED
      BY <1>1, <3>2
  <2>2. CASE b = p
    <3>1. n <= PromSize
      BY <1>2, <1>3, <2>2
    <3>2. QED
      BY <1>1, <3>1
  <2>3. QED
    BY <1>2, <2>1, <2>2
<1>5. k * BlockWords + BlockWords <= b * BlockWords
  <2>1. k < b
    BY <1>1, <1>2, <1>4
  <2>2. QED
    BY <1>2, <2>1, Ordered
<1> DEFINE y == k * BlockWords + BlockWords
<1>6. y \in Nat /\ a < y /\ y <= n
  BY <1>2, <1>3, <1>5
<1> HIDE DEF y
<1>7. QED
  BY <1>1, <1>6

\* What a buffer without an entry that was never written programs, and what it
\* leaves alone.
LEMMA CleanProgram ==
    ASSUME TypeInv, NEW words \in Buffers, \A i \in 1 .. BufWords : words[i] # None,
           NEW a \in Addresses, 2 * a >= Len(Bytes)
    PROVE  Program(words)[a] = cell[a]
<1>1. cell \in [Addresses -> Data] /\ Len(Bytes) \in Nat /\ a \in Nat
  BY Facts, HasPlace DEF TypeInv, Addresses
<1>2. ASSUME NEW i \in 1 .. BufWords PROVE words[i][1] # a
  <2>1. words[i] \in Entries
    BY DEF Buffers
  <2>2. words[i][1] \in Addresses /\ 2 * words[i][1] < Len(Bytes)
    BY <2>1 DEF Entries
  <2>3. QED
    BY <1>1, <2>2
<1>3. QED
  BY <1>1, <1>2, ProgramIs

LEMMA CleanKept == ASSUME Clean, cell' = cell, Bytes' = Bytes PROVE Clean'
  BY DEF Clean, Reach

LEMMA CellKept == ASSUME Main PROVE cell' = cell
  BY DEF Main, Start, GetPromSize, CheckFirmwareVersion, Erase, EraseCommand, WriteOpen, Write, WriteError,
     WriteEnd, Send, BufferedProgramCommand, VerifyOpen, Verify, VerifyEnd, Poll, Retry, Issue, Give, prom

LEMMA CleanNext ==
    ASSUME IInv, [Next]_vars, type = "legacy", prog = "load", Len(Bytes) >= 2 * BufWords,
           pc' \in Loading \cup {"verifyopen", "verify"} \/ ret' = 0
    PROVE  Clean'
<1>1. UNCHANGED fixed /\ Bytes' = Bytes
  <2>1. UNCHANGED fixed
    BY CommandsType, ApartKeeps, MainOrApart DEF IInv
  <2>2. QED
    BY <2>1, SameSets
<1>2. pc \in Loading \cup {"verifyopen", "verify"} \/ ret = 0 => Clean /\ FullInv
  BY DEF IInv, CleanInv
<1>3. CASE Apart
  <2>1. UNCHANGED <<pc, ret>>
    BY <1>3, ApartKeeps
  <2>2. Clean /\ FullInv
    BY <1>2, <2>1
  <2>3. CASE cell' = cell
    BY <1>1, <2>2, <2>3, CleanKept
  <2>4. CASE cell' # cell
    <3>1. PromSucceeds
      BY <1>3, <2>4 DEF Apart, PromFails, Vanish, vars, prom
    <3>2. pc = "sending"
      <4>1. busy
        BY <3>1 DEF PromSucceeds
      <4>2. pc \in {"erasing", "sending"}
        BY <4>1 DEF IInv, PhaseInv
      <4>3. ret # 0
        BY <4>2, NoneAssumption DEF IInv, PhaseInv
      <4>4. QED
        BY <2>1, <4>2, <4>3 DEF Loading
    <3>3. cmd.op = "program" /\ \A i \in 1 .. BufWords : cmd.words[i] # None
      BY <2>2, <3>2 DEF FullInv
    <3>4. cmd.words \in Buffers
      BY <3>2, Placed DEF IInv, PhaseInv
    <3>5. Strays = {None}
      BY <3>3 DEF Strays
    <3>6. cell' = [a \in Addresses |-> IF a = None THEN <<0, 0>> ELSE Program(cmd.words)[a]]
      <4>1. \E s \in Strays : cell' = [a \in Addresses |-> IF a = s THEN <<0, 0>> ELSE Program(cmd.words)[a]]
        BY <3>1, <3>3 DEF PromSucceeds
      <4>2. QED
        BY <3>5, <4>1
    <3>7. ASSUME NEW a \in Reach, 2 * a >= Len(Bytes) PROVE cell'[a] = Erased
      <4>1. a \in Addresses /\ a # None
        BY NoneAssumption DEF Reach
      <4>2. cell'[a] = Program(cmd.words)[a]
        BY <3>6, <4>1
      <4>3. Program(cmd.words)[a] = cell[a]
        BY <3>3, <3>4, <3>7, <4>1, CleanProgram DEF IInv
      <4>4. cell[a] = Erased
        BY <2>2, <3>7 DEF Clean
      <4>5. QED
        BY <4>2, <4>3, <4>4
    <3>8. QED
      BY <1>1, <3>7 DEF Clean, Reach
  <2>5. QED
    BY <2>3, <2>4
<1>4. CASE Main
  <2>1. cell' = cell
    BY <1>4, CellKept
  <2>2. CASE Clean
    BY <1>1, <2>1, <2>2, CleanKept
  <2>3. CASE ~Clean
    <3>1. pc \notin Loading \cup {"verifyopen", "verify"} /\ ret # 0
      BY <1>2, <2>3
    <3>2. Erase /\ pc' = "writeopen"
      BY <1>4, <3>1 DEF Main, Start, GetPromSize, CheckFirmwareVersion, Erase, EraseCommand, WriteOpen, Write, WriteError,
         WriteEnd, Send, BufferedProgramCommand, VerifyOpen, Verify, VerifyEnd, Poll, Return, Loading
    <3>3. address > PromSize /\ pc = "erase"
      BY <3>2 DEF Erase
    <3>4. address = Block(address) * BlockWords /\ \A a \in Addresses : a < address => cell[a] = Erased
      BY <3>3 DEF IInv, EraseInv
    <3>5. address \in Nat
      BY Facts DEF IInv
    <3>6. \A a \in Reach : a \in Addresses /\ a < address
      BY <3>3, <3>4, <3>5, WholeErased DEF Reach
    <3>7. QED
      BY <2>3, <3>4, <3>6 DEF Clean
  <2>4. QED
    BY <2>2, <2>3
<1>5. QED
  BY <1>3, <1>4, MainOrApart

LEMMA FullNext ==
    ASSUME IInv, [Next]_vars, type = "legacy", prog = "load", Len(Bytes) >= 2 * BufWords
    PROVE  FullInv'
<1>1. /\ address \in Nat /\ bufSize \in Nat /\ Len(Bytes) \in Nat /\ buf \in Buffers /\ endOfFile \in BOOLEAN
      /\ toggle \in BOOLEAN /\ FullInv
  BY Facts, HasPlace DEF IInv, TypeInv, CleanInv
<1>2. CASE Apart
  <2>1. UNCHANGED <<pc, cmd, endOfFile, address, buf, bufSize>>
    BY <1>2, ApartKeeps DEF mcs, word, buffer
  <2>2. QED
    BY <1>1, <2>1 DEF FullInv
<1>3. CASE Start \/ GetPromSize \/ CheckFirmwareVersion \/ Erase \/ EraseCommand \/ WriteError \/ VerifyOpen \/ Verify \/ VerifyEnd
  <2>1. pc' \notin {"write", "send", "sending"}
    BY <1>3 DEF Start, GetPromSize, CheckFirmwareVersion, Erase, EraseCommand, WriteError, VerifyOpen, Verify, VerifyEnd,
       Poll, Return
  <2>2. QED
    BY <2>1 DEF FullInv
<1>4. CASE WriteOpen
  <2>1. pc' \in {"write", "done"} /\ UNCHANGED <<address, buf, bufSize>> /\ pc = "writeopen"
    BY <1>4 DEF WriteOpen, Return, buffer
  <2>2. address = 0 /\ bufSize = 0
    BY <2>1 DEF IInv, PhaseInv, BufferInv
  <2>3. \A i \in 1 .. BufWords : ~(i <= 0)
    OBVIOUS
  <2>4. QED
    BY <2>1, <2>2, <2>3 DEF FullInv
<1>5. CASE Write
  <2>1. pc = "write"
    BY <1>5 DEF Write
  <2>2. /\ bufSize <= address /\ (address < BufWords => bufSize = address)
        /\ \A i \in 1 .. BufWords : i <= address => buf[i] # None
    BY <1>1, <2>1 DEF FullInv
  <2>3. CASE ~toggle
    <3>1. pc' = pc /\ UNCHANGED <<address, buf, bufSize>>
      BY <1>5, <2>3 DEF Write, buffer
    <3>2. QED
      BY <2>1, <2>2, <3>1 DEF FullInv
  <2>4. CASE toggle
    <3> DEFINE e == <<address, <<low, Byte>>>>
    <3>1. buf' = [buf EXCEPT ![bufSize + 1] = e] /\ bufSize' = bufSize + 1
          /\ address' = address + 1 /\ pc' = IF bufSize' = BufWords THEN "send" ELSE "write"
      BY <1>5, <2>4 DEF Write
    <3>2. e # None
      <4>1. e \in Addresses \X ({0, 1} \X {0, 1})
        BY <2>4, <1>5, WriteTurns, Turns, Facts DEF IInv
      <4>2. QED
        BY <4>1, NoneAssumption
    <3> HIDE DEF e
    <3>3. bufSize + 1 \in 1 .. BufWords
      BY <1>1, <2>1 DEF IInv, BufferInv
    <3>4. ASSUME NEW i \in 1 .. BufWords, i <= address + 1 PROVE buf'[i] # None
      <4>1. CASE i = bufSize + 1
        BY <1>1, <3>1, <3>2, <4>1 DEF Buffers
      <4>2. CASE i # bufSize + 1
        <5>1. i <= address
          BY <1>1, <2>2, <3>4, <4>2
        <5>2. buf'[i] = buf[i]
          BY <1>1, <3>1, <4>2 DEF Buffers
        <5>3. QED
          BY <2>2, <5>1, <5>2
      <4>3. QED
        BY <4>1, <4>2
    <3>5. bufSize' <= address' /\ (address' < BufWords => bufSize' = address') /\ (bufSize' = BufWords => address' >= BufWords)
      BY <1>1, <2>2, <3>1
    <3>6. pc' # "sending" /\ (pc' = "send" => bufSize' = BufWords)
      BY <3>1
    <3>7. \A i \in 1 .. BufWords : i <= address' => buf'[i] # None
      BY <3>1, <3>4
    <3>8. QED
      BY <3>5, <3>6, <3>7 DEF FullInv
  <2>5. QED
    BY <2>3, <2>4
<1>6. CASE WriteEnd
  <2>1. pc = "write" /\ endOfFile /\ endOfFile' = endOfFile /\ address' = address
        /\ (IF bufSize = 0 THEN pc' = "verifyopen" /\ UNCHANGED buf ELSE pc' = "send" /\ buf' = Pad)
    BY <1>6 DEF WriteEnd, mcs, word
  <2>2. CASE bufSize = 0
    BY <2>1, <2>2 DEF FullInv
  <2>3. CASE bufSize # 0
    <3>1. ASSUME NEW i \in 1 .. BufWords, buf[i] # None PROVE Pad[i] # None
      <4>1. buf[i] \in Entries
        BY <1>1, <3>1 DEF Buffers
      <4>2. <<buf[i][1], Erased>> \in Addresses \X ({0, 1} \X {0, 1})
        BY <4>1 DEF Entries, Erased
      <4>3. <<buf[i][1], Erased>> # None
        BY <4>2, NoneAssumption
      <4>4. CASE i = bufSize + 1
        BY <1>1, <3>1, <4>3, <4>4 DEF Pad, Buffers
      <4>5. CASE i # bufSize + 1
        BY <1>1, <3>1, <4>5 DEF Pad, Buffers
      <4>6. QED
        BY <4>4, <4>5
    <3>2. \A i \in 1 .. BufWords : i <= address => buf[i] # None
      BY <1>1, <2>1 DEF FullInv
    <3>3. \A i \in 1 .. BufWords : i <= address' => buf'[i] # None
      BY <2>1, <2>3, <3>1, <3>2
    <3>4. QED
      BY <2>1, <2>3, <3>3 DEF FullInv
  <2>4. QED
    BY <2>2, <2>3
<1>7. CASE Send
  <2>1. /\ pc = "send" /\ pc' = "sending" /\ UNCHANGED <<buf, endOfFile, address>>
        /\ cmd' = [op |-> "program", start |-> buf[1][1], words |-> buf]
    BY <1>7 DEF Send, Issue, mcs, word
  <2>2. /\ endOfFile \/ address >= BufWords
        /\ \A i \in 1 .. BufWords : i <= address => buf[i] # None
    BY <1>1, <2>1 DEF FullInv
  <2>3. address >= BufWords
    <3>1. endOfFile => 2 * address \in {Len(Bytes), Len(Bytes) + 1}
      BY <2>1 DEF IInv, ReadInv, Reading
    <3>2. QED
      BY <1>1, <2>2, <3>1
  <2>4. \A i \in 1 .. BufWords : buf[i] # None
    BY <1>1, <2>2, <2>3
  <2>5. cmd'.op = "program" /\ cmd'.words = buf
    BY <2>1
  <2>6. QED
    BY <2>1, <2>2, <2>4, <2>5 DEF FullInv
<1>8. CASE BufferedProgramCommand
  <2>1. pc = "sending" /\ UNCHANGED <<buf, bufSize, endOfFile, address, cmd>>
    BY <1>8 DEF BufferedProgramCommand, Poll, Retry, Issue, mcs, word, buffer
  <2>2. pc' = pc \/ pc' = After
    BY <1>8 DEF BufferedProgramCommand, Poll
  <2>3. /\ endOfFile \/ address >= BufWords
        /\ \A i \in 1 .. BufWords : i <= address => buf[i] # None
        /\ cmd.op = "program" /\ \A i \in 1 .. BufWords : cmd.words[i] # None
    BY <1>1, <2>1 DEF FullInv
  <2>4. bufSize = 0
    BY <2>1 DEF IInv, BufferInv
  <2>5. pc' \in {"sending", "write", "verifyopen"} /\ (pc' = "write" => address >= BufWords)
    BY <2>1, <2>2, <2>3 DEF After
  <2>6. bufSize' <= address' /\ (pc' = "write" => ~(address' < BufWords))
    BY <1>1, <2>1, <2>4, <2>5
  <2>7. QED
    BY <2>1, <2>3, <2>5, <2>6 DEF FullInv
<1>9. QED
  BY <1>2, <1>3, <1>4, <1>5, <1>6, <1>7, <1>8, MainOrApart DEF Main

LEMMA CleanStep == ASSUME IInv, [Next]_vars PROVE CleanInv'
<1>1. UNCHANGED fixed
  BY CommandsType, ApartKeeps, MainOrApart DEF IInv
<1>2. UNCHANGED <<type, prog, Bytes>>
  BY <1>1, SameSets
<1>3. CASE type = "legacy" /\ prog = "load" /\ Len(Bytes) >= 2 * BufWords
  <2>1. FullInv'
    BY <1>3, FullNext
  <2>2. pc' \in Loading \cup {"verifyopen", "verify"} \/ ret' = 0 => Clean'
    BY <1>3, CleanNext
  <2>3. QED
    BY <2>1, <2>2 DEF CleanInv, Loading
<1>4. CASE ~(type = "legacy" /\ prog = "load" /\ Len(Bytes) >= 2 * BufWords)
  BY <1>2, <1>4 DEF CleanInv
<1>5. QED
  BY <1>3, <1>4

\* The invariant of PromLoader, and what it is for.
LEMMA InvNext == IInv /\ [Next]_vars => IInv'
<1>1. ASSUME IInv, [Next]_vars PROVE IInv'
  <2>1. TypeInv'
    BY <1>1, TypeStep
  <2>2. PhaseInv'
    BY <1>1, <2>1, PhaseStep
  <2>3. QED
    BY <1>1, <2>1, <2>2, BufferStep, LockStep, ReadStep, VerifyStep, EraseStep, CleanStep DEF IInv
<1>2. QED
  BY <1>1

-----------------------------------------------------------------------------

\* The parts above hold together in every state of the loader.
THEOREM Invariant == Spec => []IInv
  BY InvInit, InvNext, PTL DEF Spec

\* PromLoad and PromVerify return 0 only when the PROM holds every byte of the
\* file, as long as the file can be opened: Loaded. Together with TypeOK it is
\* the type of the loader's state.
THEOREM LoadsRight == Spec => []Loaded
<1>1. IInv => Loaded
  <2>1. ASSUME IInv PROVE Loaded
    BY <2>1 DEF IInv, TypeInv, VerifyInv, Loaded, Matches
  <2>2. QED
    BY <2>1
<1>2. QED
  BY <1>1, Invariant, PTL

\* After a PromLoad of a legacy PROM that returns 0 what lies beyond a file of
\* at least one buffer is erased, as far as PROM_SIZE reaches: NoStray.
THEOREM NothingStray == Spec => []NoStray
<1>1. IInv => NoStray
  BY DEF IInv, CleanInv, Clean, NoStray
<1>2. QED
  BY <1>1, Invariant, PTL

\* Whenever eraseCommand and bufferedProgramCommand are not under way every
\* block of a legacy PROM is locked again, retries or not: Locked.
THEOREM LocksAgain == Spec => []Locked
<1>1. IInv => Locked
  BY DEF IInv, LockInv, Locked
<1>2. QED
  BY <1>1, Invariant, PTL
=============================================================================
