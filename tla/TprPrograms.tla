---------------------------- MODULE TprPrograms ----------------------------
(***************************************************************************)
(* The programs of software/app on one card: each opens the card, maps its   *)
(* register page and runs down a list of reads and writes of registers,      *)
(* which other programs, the card and a signal may come between. Channel     *)
(* files go through the driver, which turns a channel's DMA on at the first  *)
(* open and off at the last release.                                        *)
(*                                                                         *)
(* A program is a sequence of steps (Script). A register of flags is the set *)
(* of those that are on. Rates, BSA windows, the crossbar,     *)
(* sleeps (any step may be late) and what is only printed are left out.      *)
(* Driver calls are atomic here; TprClients splits them.                    *)
(*                                                                         *)
(* A definition whose name ends in a capital X is a plausible slip in the    *)
(* definition after it; nothing else uses it.                               *)
(***************************************************************************)
EXTENDS Integers, Sequences, FiniteSets, SequencesExt

CONSTANTS
    Tuners,    \* processes that run tprtest, tprtool or tprtrig, one at a time
    Readers,   \* processes that run tprdump
    Channels, Triggers,
    MaxStarts, \* bound on how many programs the tuners start
    Runs,      \* command lines of the tuners: records with a field prog
    Unset      \* an option that was not given, a register never written

Modes == {"LCLS1", "LCLS2", "UED"}

ASSUME RunAssumption ==
    /\ 0 \in Channels /\ Triggers \subseteq Channels /\ IsFiniteSet(Channels)
    /\ Tuners \cap Readers = {}
    /\ \A r \in Runs :
         \/ r.prog = "tprtest" /\ r.mode \in Modes /\ {r.ring, r.frames, r.refclk} \subseteq BOOLEAN
         \/ r.prog = "tprtool" /\ r.mode \in Modes \cup {Unset} /\ r.resetRx \in BOOLEAN
         \/ r.prog = "tprtrig" /\ r.outputs \subseteq Triggers /\ r.resetRx \in BOOLEAN

Procs  == Tuners \cup Readers
Flags  == {"countReset", "rxPolarity", "resetRx", "clkSel", "linkDownL", "modeSel", "modeSelEn"}
CSR    == <<"CSR", 0>>
Refclk == <<"countReset", 0>>
Rings  == {<<"ring", k>> : k \in {0, 1}}
Control(c) == <<"control", c>>
\* A trigger's registers; a value names the setting that it is a part of. The
\* control is off or a setting's source and polarity; the tap is the fine part
\* of the delay.
Trigger(f, t) == <<f, t>>
Fields == {"trigger", "delay", "width", "delayTap"}
FlagRegs == {CSR, Refclk} \cup Rings \cup {Control(c) : c \in Channels}
TrigRegs == {Trigger(f, t) : f \in Fields, t \in Triggers}

VARIABLES
    reg,      \* the registers of flags
    trig,     \* the registers of triggers
    run, at,  \* each process's program, and its next step
    v,        \* the local of the library call it is in
    files,    \* how many files it has open on each channel
    fresh,    \* the link was lost after the running tuner last read CSR
    before,   \* CSR when the running tuner started
    starts,   \* how many programs the tuners have started
    ended     \* the tuner's program that ran to its end, until another starts

vars == <<reg, trig, run, at, v, files, fresh, before, starts, ended>>

-----------------------------------------------------------------------------
(* Steps, and the library calls of tpr.cc made of them                      *)

\* Read a register into the local; write it from the local, changed or not;
\* do so and keep what was written; write it whole.
Get(r)           == <<[op |-> "get", reg |-> r]>>
Put(r, on, off)  == <<[op |-> "put", reg |-> r, on |-> on, off |-> off]>>
Save(r, on, off) == <<[op |-> "save", reg |-> r, on |-> on, off |-> off]>>
Set(r, val)      == <<[op |-> "set", reg |-> r, val |-> val]>>
SetTrig(r, val)  == <<[op |-> "settrig", reg |-> r, val |-> val]>>
\* An open that, when it fails, leaves the next n steps out.
Open(c, n)       == <<[op |-> "open", channel |-> c, skip |-> n]>>
Close(c)         == <<[op |-> "close", channel |-> c]>>

RmwX(r, f, b) == Get(r) \o Save(r, IF b THEN {f} ELSE {}, IF b THEN {} ELSE Flags)
Rmw(r, f, b)  == Get(r) \o Save(r, IF b THEN {f} ELSE {}, IF b THEN {} ELSE {f})

clkSel(b)     == Rmw(CSR, "clkSel", b)
modeSel(b)    == Rmw(CSR, "modeSel", b)
modeSelEn(b)  == Rmw(CSR, "modeSelEn", b)
PulseX(r, f)  == Put(r, {f}, {})
Pulse(r, f)   == Put(r, {f}, {}) \o Put(r, {}, {f})
rxPolarity(b) == Rmw(CSR, "rxPolarity", b) \o Pulse(CSR, "resetRx")
resetRx       == Get(CSR) \o Pulse(CSR, "resetRx")
resetCounts   == Get(CSR) \o Pulse(CSR, "countReset")
enableRefClk(b) == Rmw(Refclk, "refclk", b)
enable(r, b)  == Rmw(r, "enable", b)
clear(r)      == Get(r) \o Pulse(r, "clear")

setupTriggerX(t, s) ==
    SetTrig(Trigger("delay", t), s) \o SetTrig(Trigger("width", t), s)
    \o SetTrig(Trigger("trigger", t), s) \o SetTrig(Trigger("delayTap", t), s)
\* The tap comes after the trigger is on.
setupTrigger(t, s) == SetTrig(Trigger("trigger", t), "off") \o setupTriggerX(t, s)

\* The same of tprtrig.cc, which sets the channel to DMA as well.
set_trigger(t, s) ==
    Set(Control(t), {"enable", "dma"}) \o SetTrig(Trigger("trigger", t), "off")
    \o SetTrig(Trigger("delay", t), s) \o SetTrig(Trigger("delayTap", t), s)
    \o SetTrig(Trigger("width", t), s) \o SetTrig(Trigger("trigger", t), s)

Each(S, Op(_)) == FlattenSeq([i \in 1 .. Len(SetToSeq(S)) |-> Op(SetToSeq(S)[i])])

-----------------------------------------------------------------------------
(* The programs                                                             *)

\* The dump of a ring buffer, after which it is disabled.
dumpRing(r) ==
    enable(r, FALSE) \o clear(r) \o enable(r, TRUE) \o enable(r, FALSE)

\* Up to the acknowledgement of linkDownL, with the value read to print it.
link_test(mode, lring) ==
    clkSel(mode = "LCLS2") \o modeSel(mode # "LCLS1") \o modeSelEn(TRUE)
    \o rxPolarity(FALSE) \o resetCounts
    \o Get(CSR) \o Put(CSR, {}, {"linkDownL"})
    \o (IF lring THEN dumpRing(<<"ring", 0>>) \o dumpRing(<<"ring", 1>>) ELSE <<>>)

\* Every channel counts for two seconds and is then switched off.
frame_rates ==
    Each(Channels, LAMBDA c : Set(Control(c), {"enable"}))
    \o Each(Channels, LAMBDA c : Set(Control(c), {}))

\* Captures on channel 0 with the DMA on, then puts back the control that it
\* read; the file meant for BSA is a second one of channel 0. When that open
\* fails the control stays and the file is left to the exit of the program.
CaptureEndX == Close(0) \o Close(0) \o Put(Control(0), {}, {})
CaptureEnd  == Put(Control(0), {}, {}) \o Close(0) \o Close(0)
frame_capture ==
    LET body == Get(Control(0)) \o Set(Control(0), {}) \o Put(Control(0), {"enable", "dma"}, {})
                \o Open(0, Len(CaptureEnd)) \o CaptureEnd
    IN Open(0, Len(body)) \o body

generate_triggers(s) ==
    Each(Triggers, LAMBDA t : setupTrigger(t, s))
    \o Set(Control(0), {}) \o Set(Control(0), {"enable"})

generate_refclk(b) == enableRefClk(b)

tprtest(r) ==
    link_test(r.mode, r.ring) \o (IF r.frames THEN frame_rates \o frame_capture ELSE <<>>)
    \o (IF r.triggers = Unset THEN <<>> ELSE generate_triggers(r.triggers)) \o generate_refclk(r.refclk)

tprtool(r) ==
    (IF r.resetRx THEN resetRx ELSE <<>>)
    \o (IF r.mode = Unset THEN <<>>
        ELSE clkSel(r.mode = "LCLS2") \o modeSel(r.mode # "LCLS1") \o modeSelEn(TRUE))

\* Options -1 and -2 are tested as the numbers 1 and 2 and end in the usage,
\* so that clkSel is always 1.
tprtrig(r) ==
    clkSel(TRUE) \o modeSel(TRUE) \o modeSelEn(TRUE) \o rxPolarity(FALSE)
    \o (IF r.resetRx THEN resetRx ELSE <<>>) \o resetCounts
    \o Each(r.outputs, LAMBDA t : set_trigger(t, r.setting))

tprdump(r) == Open(r.channel, 0)

Script(r) == CASE r.prog = "tprtest" -> tprtest(r) [] r.prog = "tprtool" -> tprtool(r)
               [] r.prog = "tprtrig" -> tprtrig(r) [] r.prog = "tprdump" -> tprdump(r)

Dumps   == {[prog |-> "tprdump", channel |-> c] : c \in Channels}
Scripts == [r \in Runs \cup Dumps |-> Script(r)]

\* A process with no program, and one that ended with its files still open.
None  == [prog |-> "none"]
Exit  == [prog |-> "exit"]
Running(p) == run[p] \notin {None, Exit}
More(p)    == Running(p) /\ at[p] <= Len(Scripts[run[p]])
Step(p)    == Scripts[run[p]][at[p]]

-----------------------------------------------------------------------------
(* The driver: the first open of a channel and the last release (the code    *)
(* takes the control of channel 0, whichever channel it is)                 *)

Opened(c)  == \E p \in Procs : files[p][c] > 0
LastFile(p, c) == files[p][c] = 1 /\ \A q \in Procs \ {p} : files[q][c] = 0

tpr_open(p, c) ==
    /\ files' = [files EXCEPT ![p][c] = @ + 1]
    /\ reg' = IF Opened(c) THEN reg ELSE [reg EXCEPT ![Control(c)] = @ \cup {"dma"}]

tpr_releaseX(p, c) ==
    /\ files' = [files EXCEPT ![p][c] = @ - 1]
    /\ reg' = IF LastFile(p, c) THEN [reg EXCEPT ![Control(c)] = reg[Control(0)]] ELSE reg
tpr_release(p, c) ==
    /\ files' = [files EXCEPT ![p][c] = @ - 1]
    /\ reg' = IF LastFile(p, c) THEN [reg EXCEPT ![Control(c)] = reg[Control(0)] \ {"dma"}] ELSE reg

-----------------------------------------------------------------------------
(* Processes                                                                *)

Init ==
    /\ reg = [r \in FlagRegs |-> IF r = CSR THEN {"rxPolarity", "clkSel"} ELSE {}]
    /\ trig = [r \in TrigRegs |-> IF r[1] = "trigger" THEN "off" ELSE Unset]
    /\ run = [p \in Procs |-> None] /\ at = [p \in Procs |-> 1] /\ v = [p \in Procs |-> {}]
    /\ files = [p \in Procs |-> [c \in Channels |-> 0]]
    /\ fresh = FALSE /\ before = {} /\ starts = 0 /\ ended = None

Start(p) ==
    /\ run[p] = None
    /\ IF p \in Readers
       THEN (\E r \in Dumps : run' = [run EXCEPT ![p] = r]) /\ UNCHANGED <<before, starts, ended>>
       ELSE /\ starts < MaxStarts /\ starts' = starts + 1
            /\ \A q \in Tuners : run[q] = None
            /\ \E r \in Runs : run' = [run EXCEPT ![p] = r]
            /\ before' = reg[CSR] /\ ended' = None
    /\ UNCHANGED <<reg, trig, at, v, files, fresh>>

\* Only a write of 1 leaves linkDownL latched; loss of the link may come
\* between any two steps.
Written(r, val) ==
    IF r # CSR THEN val
    ELSE (val \ {"linkDownL"}) \cup (reg[CSR] \cap val \cap {"linkDownL"})

Access(p) ==
    /\ More(p) /\ Step(p).op \in {"get", "put", "save", "set", "settrig"}
    /\ LET s   == Step(p)
           val == CASE s.op = "set" -> s.val [] s.op \in {"put", "save"} -> (v[p] \ s.off) \cup s.on
                    [] OTHER -> {}
       IN /\ reg' = IF s.op \in {"put", "save", "set"} THEN [reg EXCEPT ![s.reg] = Written(s.reg, val)] ELSE reg
          /\ trig' = IF s.op = "settrig" THEN [trig EXCEPT ![s.reg] = s.val] ELSE trig
          /\ v' = CASE s.op = "get" -> [v EXCEPT ![p] = reg[s.reg]]
                    [] s.op = "save" -> [v EXCEPT ![p] = val] [] OTHER -> v
          /\ fresh' = (fresh /\ ~(s.op = "get" /\ s.reg = CSR))
    /\ at' = [at EXCEPT ![p] = @ + 1]
    /\ UNCHANGED <<run, files, before, starts, ended>>

\* Every file the driver can give may be taken.
OpenFile(p) ==
    /\ More(p) /\ Step(p).op = "open"
    /\ \/ tpr_open(p, Step(p).channel) /\ at' = [at EXCEPT ![p] = @ + 1]
       \/ UNCHANGED <<files, reg>> /\ at' = [at EXCEPT ![p] = @ + 1 + Step(p).skip]
    /\ UNCHANGED <<trig, run, v, fresh, before, starts, ended>>

CloseFile(p) ==
    /\ More(p) /\ Step(p).op = "close"
    /\ tpr_release(p, Step(p).channel) /\ at' = [at EXCEPT ![p] = @ + 1]
    /\ UNCHANGED <<trig, run, v, fresh, before, starts, ended>>

\* The program is over; or a signal ends it wherever it is.
End(p) ==
    /\ Running(p) /\ ~More(p)
    /\ run' = [run EXCEPT ![p] = Exit]
    /\ ended' = IF p \in Tuners THEN run[p] ELSE ended
    /\ UNCHANGED <<reg, trig, at, v, files, fresh, before, starts>>
Kill(p) ==
    /\ More(p)
    /\ run' = [run EXCEPT ![p] = Exit]
    /\ before' = IF p \in Tuners THEN {} ELSE before
    /\ UNCHANGED <<reg, trig, at, v, files, fresh, starts, ended>>

\* The system closes the files of a process that is over, one by one.
ExitClose(p) ==
    /\ run[p] = Exit
    /\ IF \E c \in Channels : files[p][c] > 0
       THEN (\E c \in Channels : files[p][c] > 0 /\ tpr_release(p, c)) /\ UNCHANGED <<run, at, v>>
       ELSE run' = [run EXCEPT ![p] = None] /\ at' = [at EXCEPT ![p] = 1]
            /\ v' = [v EXCEPT ![p] = {}] /\ UNCHANGED <<reg, files>>
    /\ IF p \in Tuners THEN fresh' = FALSE /\ before' = {} /\ ended' = None ELSE UNCHANGED <<fresh, before, ended>>
    /\ UNCHANGED <<trig, starts>>

LinkLost ==
    /\ "linkDownL" \notin reg[CSR]
    /\ reg' = [reg EXCEPT ![CSR] = @ \cup {"linkDownL"}] /\ fresh' = (\E p \in Tuners : More(p))
    /\ UNCHANGED <<trig, run, at, v, files, before, starts, ended>>

Next ==
    \/ \E p \in Procs :
          Start(p) \/ Access(p) \/ OpenFile(p) \/ CloseFile(p) \/ End(p) \/ Kill(p) \/ ExitClose(p)
    \/ LinkLost

Spec == Init /\ [][Next]_vars

-----------------------------------------------------------------------------
(* Properties                                                               *)

TypeOK ==
    /\ \A r \in FlagRegs : reg[r] \subseteq (IF r = CSR THEN Flags ELSE {"refclk", "enable", "clear", "dma"})
    /\ \A p \in Procs : run[p] \in Runs \cup Dumps \cup {None, Exit} /\ v[p] \subseteq Flags \cup {"enable", "clear", "dma", "refclk"}
    /\ files \in [Procs -> [Channels -> 0 .. 2]]
    /\ fresh \in BOOLEAN /\ before \subseteq Flags

\* What a program asks of CSR: <<on, off>>.
Want(r) ==
    LET on(m) == (IF m = "LCLS2" THEN {"clkSel"} ELSE {}) \cup (IF m # "LCLS1" THEN {"modeSel"} ELSE {})
                 \cup {"modeSelEn"}
        set(O) == <<O, {"clkSel", "modeSel", "modeSelEn"} \ O>>
        also(w, O) == <<w[1], w[2] \cup O>>
    IN CASE r.prog = "tprtest" -> also(set(on(r.mode)), {"rxPolarity", "resetRx", "countReset"})
         [] r.prog = "tprtrig" -> also(set(on("LCLS2")), {"rxPolarity", "resetRx", "countReset"})
         [] r.prog = "tprtool" -> also(IF r.mode = Unset THEN <<{}, {}>> ELSE set(on(r.mode)),
                                       IF r.resetRx THEN {"resetRx"} ELSE {})

\* A program that ran to its end has left CSR as it asks, every other flag as it
\* found it, and no reset of its own, whatever programs killed before it left
\* behind. tprtest has the reference clock as asked, and leaves the ring buffers
\* that it dumps disabled.
Tuned ==
    TypeOK /\ (ended # None =>
      /\ reg[CSR] \ {"linkDownL"} = ((before \ Want(ended)[2]) \cup Want(ended)[1]) \ {"linkDownL"}
      /\ ended.prog = "tprtest" => reg[Refclk] = IF ended.refclk THEN {"refclk"} ELSE {}
      /\ ended.prog = "tprtest" /\ ended.ring => \A r \in Rings : reg[r] = {})

\* The triggers that a program sets, and to what; what tprtest sets some to.
Sets(r) == IF r.prog = "tprtest" THEN IF r.triggers = Unset THEN {} ELSE Triggers
           ELSE IF r.prog = "tprtrig" THEN r.outputs ELSE {}
SetTo(r) == IF r.prog = "tprtest" THEN r.triggers ELSE r.setting
TestSettings == {r.triggers : r \in {q \in Runs : q.prog = "tprtest"}}

\* A trigger that is on has the delay and the width of its own setting, and one
\* set by tprtrig the tap too, also between the steps of a program and after it
\* was killed. tprtest's may be on with the tap of before, but a program that
\* ran to its end has left each trigger it sets on and all of one setting.
TriggerWhole ==
    /\ \A t \in Triggers :
         LET s == trig[Trigger("trigger", t)]
         IN s # "off" => /\ trig[Trigger("delay", t)] = s /\ trig[Trigger("width", t)] = s
                         /\ s \in TestSettings \/ trig[Trigger("delayTap", t)] = s
    /\ ended # None => \A t \in Sets(ended), f \in Fields : trig[Trigger(f, t)] = SetTo(ended)

\* No card sends the events of a channel that nobody has open, but for those
\* that tprtrig has set to.
Trigged == UNION {IF r.prog = "tprtrig" THEN r.outputs ELSE {} : r \in Runs}
DmaWhileOpen ==
    \A c \in Channels \ Trigged : "dma" \in reg[Control(c)] => Opened(c)

\* A latched loss of the link is cleared only by tprtest, which has reported it,
\* or if it came after the program read CSR for the write that clears it.
LossReported ==
    [][ "linkDownL" \in reg[CSR] /\ "linkDownL" \notin reg'[CSR] =>
          fresh \/ \E p \in Tuners : More(p) /\ run[p].prog = "tprtest" /\ Step(p).op = "put" /\ "linkDownL" \in Step(p).off ]_vars
=============================================================================
