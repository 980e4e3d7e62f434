---------------------------- MODULE PromLoader ----------------------------
(***************************************************************************)
(* PromLoad, PromVerify and PromVersion: one of the three programs run       *)
(* against the boot PROM of a card, through EvrCardG2Prom, on an .mcs file   *)
(* read by McsRead. The PROM is of the legacy type, polled by its status     *)
(* register, or of the new type, which the program only waits for; both may *)
(* fail to program a buffer.                                                *)
(*                                                                         *)
(* A byte is 1 when erased, else 0; programming a bit can only clear it. A   *)
(* word of the PROM is a pair of bytes, low one first.                      *)
(*                                                                         *)
(* A definition whose name ends in a capital X is a plausible slip in the    *)
(* definition after it; nothing else uses it.                               *)
(***************************************************************************)
EXTENDS Integers, Sequences

CONSTANTS
    Files,     \* the .mcs files: sequences of records
    BufWords,  \* words in a programming buffer (256)
    BlockWords,\* words in an erase block (PROM_BLOCK_SIZE)
    Words,     \* words in the PROM
    PromSize,  \* promSize_, which PromLoad leaves at PROM_SIZE
    None       \* nothing, or what an array that was never written holds

Addresses == 0 .. (Words - 1)
Blocks    == {a \div BlockWords : a \in Addresses}
Block(a)  == a \div BlockWords
Erased    == <<1, 1>>
Both(w, d) == <<IF d[1] = 0 THEN 0 ELSE w[1], IF d[2] = 0 THEN 0 ELSE w[2]>>

ASSUME SizeAssumption ==
    /\ BufWords \in Nat \ {0} /\ BlockWords \in Nat \ {0} /\ Words \in Nat
    /\ BlockWords % BufWords = 0 /\ Words % BlockWords = 0 /\ PromSize \in Addresses
ASSUME NoneAssumption ==
    None \notin {0, 1} \cup Addresses \cup ({0, 1} \X {0, 1}) \cup (Addresses \X ({0, 1} \X {0, 1}))

\* A record is data, an extended address, the end of the file, or one that
\* McsRead::next refuses, such as data without a byte.
Record == [type : {"data"}, bytes : Seq({0, 1}) \ {<<>>}]
          \cup [type : {"base", "eof", "bad"}, bytes : {<<>>}]

\* The bytes of f from each of its records on, up to its end record.
Rest(f) == LET from[r \in 1 .. (Len(f) + 1)] ==
                 IF r > Len(f) THEN <<>>
                 ELSE IF f[r].type = "eof" THEN <<>> ELSE f[r].bytes \o from[r + 1]
           IN from

\* Nobody looks whether the PROM has room for the file.
ASSUME FileAssumption ==
    /\ Files \subseteq Seq(Record)
    /\ \A f \in Files : Len(Rest(f)[1]) <= 2 * Words

VARIABLES
    prog, type, file,     \* which program, card and file: fixed
    gone,                 \* the file cannot be opened any more
    pc, ret,              \* where the program is; what it returned
    record, left, last, endOfFile, \* McsRead: next record, bytes not yet read, mem.data
    toggle, low, address, \* the word being put together, and its address
    buf, bufSize,         \* bufAddr and bufData as one array
    cmd,                  \* the command the PROM was given last
    busy, sr, cell, locked, strict \* the PROM; strict: it refuses buffers that
                          \* leave the page they start in

Bytes == Rest(file)[1]

\* A PROM that holds the file already.
Image == LET byte(i) == IF i <= Len(Bytes) THEN Bytes[i] ELSE 0
         IN [a \in Addresses |-> <<byte(2 * a + 1), byte(2 * a + 2)>>]

fixed  == <<prog, type, file, strict>>
mcs    == <<record, left, last, endOfFile>>
word   == <<toggle, low, address>>
buffer == <<buf, bufSize>>
prom   == <<cmd, busy, sr, cell, locked>>
vars   == <<fixed, gone, pc, ret, mcs, word, buffer, prom>>

Init ==
    /\ prog \in {"load", "verify", "version"} /\ type \in {"legacy", "new", "other"}
    /\ file \in Files /\ strict \in BOOLEAN
    /\ gone = FALSE /\ pc = "start" /\ ret = None
    /\ record = 1 /\ left = <<>> /\ last = 0 /\ endOfFile = FALSE
    /\ toggle = FALSE /\ low = 0 /\ address = 0
    /\ buf = [i \in 1 .. BufWords |-> None] /\ bufSize = 0
    /\ cmd = None /\ busy = FALSE /\ sr = "ok"
    /\ cell \in {[a \in Addresses |-> <<x, x>>] : x \in {0, 1}} \cup {Image}
    /\ locked = Blocks

-----------------------------------------------------------------------------
(* McsRead                                                                  *)

\* open: a stream at the first record, and no bytes left of an earlier one.
OpenFile == record' = 1 /\ left' = <<>> /\ endOfFile' = FALSE /\ last' = last

\* The loop of read over next, from record r: the first record that is not an
\* extended address. Past the end of the file next fails.
Scan(r) == CHOOSE q \in r .. (Len(file) + 1) :
             /\ q <= Len(file) => file[q].type # "base"
             /\ \A i \in r .. (q - 1) : file[i].type = "base"

\* read: a byte, the end of the file (which leaves mem.data as it was), or an
\* error; Byte and Fails say what the call returns.
Pending   == left # <<>>
At        == Scan(record)
EndRead   == ~Pending /\ At <= Len(file) /\ file[At].type = "eof"
Fails     == ~Pending /\ (At <= Len(file) => file[At].type = "bad")
Byte      == IF Pending THEN Head(left) ELSE IF EndRead THEN last ELSE Head(file[At].bytes)
ReadByte  ==
    /\ last' = Byte
    /\ endOfFile' = EndRead
    /\ left' = IF Pending THEN Tail(left) ELSE IF EndRead THEN <<>> ELSE Tail(file[At].bytes)
    /\ record' = IF Pending THEN record ELSE At + 1

\* addrSize: endAddr goes on until it meets the end record, startAddr until it
\* meets data, both past any error: without such a record they do not return.
HasType(t) == \E i \in DOMAIN file : file[i].type = t
Sizable    == ~gone /\ HasType("eof") /\ HasType("data")

-----------------------------------------------------------------------------
(* The PROM (external): what the commands of EvrCardG2Prom make it do.      *)

Outside == \E i \in 1 .. BufWords : cmd.words[i] # None /\
              cmd.words[i][1] \div BufWords # cmd.start \div BufWords

Program(words) ==
    [a \in Addresses |-> LET I == {i \in 1 .. BufWords : words[i] # None /\ words[i][1] = a}
                         IN IF I = {} THEN cell[a]
                            ELSE Both(cell[a], words[CHOOSE i \in I : \A j \in I : j <= i][2])]

\* An entry of the buffer that was never written has any address and data.
Strays == IF \E i \in 1 .. BufWords : cmd.words[i] = None THEN Addresses \cup {None} ELSE {None}

PromSucceeds ==
    /\ busy /\ (cmd.op = "program" => ~(strict /\ Outside))
    /\ type = "legacy" => Block(cmd.start) \notin locked
    /\ IF cmd.op = "erase"
       THEN cell' = [a \in Addresses |-> IF type = "new" \/ Block(a) = Block(cmd.start) THEN Erased ELSE cell[a]]
       ELSE \E s \in Strays :
              cell' = [a \in Addresses |-> IF a = s THEN <<0, 0>> ELSE Program(cmd.words)[a]]
    /\ busy' = FALSE /\ sr' = "ok"
    /\ UNCHANGED <<fixed, gone, pc, ret, mcs, word, buffer, cmd, locked>>

PromFails ==
    /\ busy
    /\ busy' = FALSE /\ sr' = "fail"
    /\ UNCHANGED <<fixed, gone, pc, ret, mcs, word, buffer, cmd, cell, locked>>

\* The file can no longer be opened; a stream on it goes on.
Vanish ==
    /\ ~gone /\ pc # "done"
    /\ gone' = TRUE
    /\ UNCHANGED <<fixed, pc, ret, mcs, word, buffer, prom>>

-----------------------------------------------------------------------------
(* The programs                                                             *)

Return(v) == pc' = "done" /\ ret' = v

\* fileExist, but in PromVersion, and checkFirmwareVersion; PromLoad calls
\* getPromSize in between.
Start ==
    /\ pc = "start"
    /\ \/ prog # "version" /\ gone /\ Return(1)
       \/ prog = "load" /\ ~gone /\ pc' = "size" /\ UNCHANGED ret
       \/ prog = "verify" /\ ~gone /\ pc' = "check" /\ UNCHANGED ret
       \/ prog = "version" /\ pc' = "check" /\ UNCHANGED ret
    /\ UNCHANGED <<fixed, gone, mcs, word, buffer, prom>>

GetPromSize ==
    /\ pc = "size"
    /\ pc' = IF Sizable THEN "check" ELSE "hangs"
    /\ UNCHANGED <<fixed, gone, ret, mcs, word, buffer, prom>>

CheckFirmwareVersion ==
    /\ pc = "check"
    /\ \/ type = "other" /\ Return(1)
       \/ type # "other" /\ prog = "version" /\ Return(0)
       \/ type # "other" /\ prog = "verify" /\ pc' = "verifyopen" /\ UNCHANGED ret
       \/ type # "other" /\ prog = "load" /\ pc' = "erase" /\ UNCHANGED ret
    /\ UNCHANGED <<fixed, gone, mcs, word, buffer, prom>>

\* A new PROM that is busy ignores commands.
Give(c) == IF busy THEN UNCHANGED prom
           ELSE /\ cmd' = c /\ busy' = TRUE
                /\ UNCHANGED <<sr, cell, locked>>

\* A legacy command: unlock the block, clear the status, give the command.
Issue(c) == /\ cmd' = c /\ busy' = TRUE /\ sr' = "ok"
            /\ locked' = locked \ {Block(c.start)} /\ UNCHANGED cell

EraseCmd(a) == [op |-> "erase", start |-> a, words |-> buf]

\* eraseBootProm: block by block, or the whole chip and a fixed sleep.
Erase ==
    /\ pc = "erase"
    /\ \/ type = "legacy" /\ address <= PromSize
          /\ Issue(EraseCmd(address)) /\ pc' = "erasing" /\ UNCHANGED address
       \/ type = "legacy" /\ address > PromSize
          /\ pc' = "writeopen" /\ address' = 0 /\ UNCHANGED prom
       \/ type = "new" /\ Give(EraseCmd(0)) /\ pc' = "writeopen" /\ UNCHANGED address
    /\ UNCHANGED <<fixed, gone, ret, mcs, toggle, low, buffer>>

\* The loop on the status register that ends eraseCommand and
\* bufferedProgramCommand: a failed command is given again, and when the PROM
\* is ready the block is locked.
Relock == locked' = locked \cup {Block(cmd.start)}
RetryX == sr = "fail" /\ UNCHANGED prom
Retry  == sr = "fail" /\ Issue(cmd)
PollX(next) ==
    /\ ~busy
    /\ \/ Retry /\ UNCHANGED pc
       \/ sr = "ok" /\ pc' = next /\ UNCHANGED prom
Poll(next) ==
    /\ ~busy
    /\ \/ Retry /\ UNCHANGED pc
       \/ sr = "ok" /\ Relock /\ pc' = next /\ UNCHANGED <<cmd, busy, sr, cell>>

EraseCommand ==
    /\ pc = "erasing"
    /\ Poll("erase")
    /\ address' = IF pc' = "erase" THEN address + BlockWords ELSE address
    /\ UNCHANGED <<fixed, gone, ret, mcs, toggle, low, buffer>>

WriteOpen ==
    /\ pc = "writeopen"
    /\ \/ gone /\ Return(1) /\ UNCHANGED mcs
       \/ ~gone /\ pc' = "write" /\ OpenFile /\ UNCHANGED ret
    /\ toggle' = FALSE
    /\ UNCHANGED <<fixed, gone, low, address, buffer, prom>>

\* The body of the loop of bufferedWriteBootProm, up to the call of
\* bufferedProgramCommand; it runs for the end of the file too.
Write ==
    /\ pc = "write" /\ ~endOfFile /\ ~Fails
    /\ ReadByte
    /\ toggle' = ~toggle
    /\ IF toggle
       THEN /\ buf' = [buf EXCEPT ![bufSize + 1] = <<address, <<low, Byte>>>>]
            /\ bufSize' = bufSize + 1
            /\ address' = address + 1 /\ low' = low
            /\ pc' = IF bufSize' = BufWords THEN "send" ELSE "write"
       ELSE low' = Byte /\ UNCHANGED <<address, buffer, pc>>
    /\ UNCHANGED <<fixed, gone, ret, prom>>

WriteError ==
    /\ pc = "write" /\ ~endOfFile /\ Fails
    /\ Return(1)
    /\ UNCHANGED <<fixed, gone, mcs, word, buffer, prom>>

\* The end: a part of a buffer is padded, and sent whole. The padding loop
\* writes one and the same element, so that the others are still those of the
\* buffer sent before.
PadX == [i \in 1 .. BufWords |->
           IF i <= bufSize THEN buf[i] ELSE <<address + i - bufSize - 1, IF buf[i] = None THEN Erased ELSE buf[i][2]>>]
Pad  == [buf EXCEPT ![bufSize + 1] = IF @ = None THEN None ELSE <<@[1], Erased>>]

WriteEnd ==
    /\ pc = "write" /\ endOfFile
    /\ IF bufSize = 0 THEN pc' = "verifyopen" /\ UNCHANGED buf ELSE pc' = "send" /\ buf' = Pad
    /\ UNCHANGED <<fixed, gone, ret, mcs, word, bufSize, prom>>

After == IF endOfFile THEN "verifyopen" ELSE "write"

\* bufferedProgramCommand; the new PROM is given time, not asked.
Send ==
    /\ pc = "send"
    /\ LET c == [op |-> "program", start |-> buf[1][1], words |-> buf]
       IN \/ type = "legacy" /\ Issue(c) /\ pc' = "sending"
          \/ type = "new" /\ Give(c) /\ pc' = After
    /\ bufSize' = 0
    /\ UNCHANGED <<fixed, gone, ret, mcs, word, buf>>

BufferedProgramCommand ==
    /\ pc = "sending"
    /\ Poll(After)
    /\ UNCHANGED <<fixed, gone, ret, mcs, word, buffer>>

\* A file that cannot be opened verifies: the error return is return(1).
VerifyOpen ==
    /\ pc = "verifyopen"
    /\ \/ gone /\ Return(0) /\ UNCHANGED mcs
       \/ ~gone /\ pc' = "verify" /\ OpenFile /\ UNCHANGED ret
    /\ toggle' = FALSE /\ address' = 0
    /\ UNCHANGED <<fixed, gone, low, buffer, prom>>

\* What a read of the PROM returns: a busy one gives its status.
ReadWord(a) == IF busy THEN None ELSE cell[a]

VerifyX ==
    /\ pc = "verify" /\ ~endOfFile /\ ~Fails
    /\ ReadByte
    /\ toggle' = ~toggle
    /\ IF toggle THEN address' = address + 1 /\ low' = low ELSE low' = Byte /\ UNCHANGED address
    /\ UNCHANGED <<fixed, gone, buffer, prom, pc, ret>>

Verify ==
    /\ pc = "verify" /\ ~endOfFile /\ ~Fails
    /\ ReadByte
    /\ toggle' = ~toggle
    /\ IF toggle THEN address' = address + 1 /\ low' = low ELSE low' = Byte /\ UNCHANGED address
    /\ IF toggle /\ ReadWord(address) # <<low, Byte>> THEN Return(1) ELSE UNCHANGED <<pc, ret>>
    /\ UNCHANGED <<fixed, gone, buffer, prom>>

VerifyEnd ==
    /\ pc = "verify"
    /\ \/ endOfFile /\ Return(0)
       \/ ~endOfFile /\ Fails /\ Return(1)
    /\ UNCHANGED <<fixed, gone, mcs, word, buffer, prom>>

Main ==
    \/ Start \/ GetPromSize \/ CheckFirmwareVersion \/ Erase \/ EraseCommand
    \/ WriteOpen \/ Write \/ WriteError \/ WriteEnd \/ Send \/ BufferedProgramCommand
    \/ VerifyOpen \/ Verify \/ VerifyEnd

Next == Main \/ PromSucceeds \/ PromFails \/ Vanish

Spec == Init /\ [][Next]_vars

\* The program runs; a command the PROM can carry out succeeds when it is
\* given often enough.
FairSpec == Spec /\ WF_vars(Main) /\ SF_vars(PromSucceeds) /\ WF_vars(PromSucceeds \/ PromFails)

-----------------------------------------------------------------------------
(* Properties                                                               *)

TypeOK ==
    /\ pc \in {"start", "size", "hangs", "check", "erase", "erasing", "writeopen", "write", "send",
               "sending", "verifyopen", "verify", "done"}
    /\ ret \in {0, 1, None} /\ record \in 1 .. (Len(file) + 1) /\ left \in Seq({0, 1})
    /\ address \in 0 .. (Words + BlockWords) /\ bufSize \in 0 .. BufWords /\ low \in {0, 1}
    /\ cell \in [Addresses -> {0, 1} \X {0, 1}] /\ locked \subseteq Blocks

\* A program other than PromVersion that returns 0 leaves a PROM that holds
\* every byte of the file, whatever failed on the way ("true=matches").
Matches ==
    ret = 0 /\ prog # "version" =>
      \A i \in 1 .. Len(Bytes) : cell[(i - 1) \div 2][((i - 1) % 2) + 1] = Bytes[i]

\* So it is as long as the file can be opened.
Loaded == TypeOK /\ (gone \/ Matches)

\* After a load of a legacy PROM that returns 0 what lies beyond the file is
\* erased, as far as PROM_SIZE reaches, if the file fills at least one buffer:
\* the stale part of the last buffer only repeats words already there. (Whether
\* the chip erase of a new PROM worked is not asked.)
Reach == {a \in Addresses : Block(a) <= Block(PromSize)}
NoStray ==
    ret = 0 /\ prog = "load" /\ type = "legacy" /\ Len(Bytes) >= 2 * BufWords =>
      \A a \in Reach : 2 * a >= Len(Bytes) => cell[a] = Erased

\* Whenever no command is under way every block of a legacy PROM is locked
\* again, retries or not.
Locked == type = "legacy" /\ pc \notin {"erasing", "sending"} => locked = Blocks

\* The program ends, however often the PROM fails a command that it can carry
\* out, if the file has an end and data, and no part of a buffer is left over
\* for a PROM that refuses buffers that leave their page.
Ends == (Sizable /\ (strict => ((Len(Bytes) + 1) \div 2) % BufWords = 0)) ~> (pc = "done" \/ gone)
=============================================================================
