----------------------------- MODULE EvrFrames -----------------------------
(***************************************************************************)
(* The event path of the card, clock by clock: three producers of messages   *)
(* that a pulse's strobe starts one after another (EvrV2DmaModule), the      *)
(* assembly of what they say into a frame (EvrV2Dma), the FIFO before the    *)
(* engine with its pause threshold, the transactions in which a frame leaves *)
(* it (SsiPcieRxDmaTransFifo, EvrV2PcieRxDma), and the parser of the frame's *)
(* words in tpr_handle_dma. The ring of buffers in between is TprDma's.      *)
(*                                                                         *)
(* The clock counts from strobe_o, the aligned strobe of a pulse. A pause    *)
(* threshold of all ones, with which the engine throws frames away, is       *)
(* TprDma's too.                                                           *)
(*                                                                         *)
(* A definition whose name ends in a capital X is a plausible slip in the    *)
(* definition after it; nothing else uses it.                               *)
(***************************************************************************)
EXTENDS Integers, Sequences

CONSTANTS
    Period,           \* clocks between strobes
    ReadoutChannels,
    Channels,         \* channels whose DMA is enabled
    NoBsa,            \* those whose bsaEnabled is clear
    Thr,              \* dmaFullThr, in beats
    Depth,            \* beats that the FIFO holds
    ModeSel,          \* the timing is that of LCLS-II
    EngineAt,         \* bound: the clocks at which the engine may move a transaction
    None              \* no word

\* The taps of the shift register that delays strobe_o.
ControlAt == 0
SummaryAt == ReadoutChannels * 12 + 15
EventAtX  == ReadoutChannels * 12 + 29
EventAt   == ReadoutChannels * 12 + 30
FrameEndAtX == 197
FrameEndAt  == 198

\* Words of each producer's message, counted by its states.
Words == [control |-> 11, summary |-> 11, event |-> 23]

\* The engine's stream has four words to the card's one; the FIFO holds beats of
\* that size, each but the last of a frame full.
BeatWords  == 4
FrameBeats == 12

ASSUME PeriodAssumption  == Period \in Nat /\ Period >= FrameEndAt + 2
\* EvrV2DmaModule asserts ReadoutChannels * 12 + 34 < 200, which 13 would pass.
ASSUME ChannelAssumption == ReadoutChannels \in 0 .. 12 /\ NoBsa \subseteq Channels
ASSUME DepthAssumption   == Thr \in Nat /\ Depth \in Nat /\ Thr + 1 + FrameBeats <= Depth
ASSUME ModeAssumption    == ModeSel \in BOOLEAN

VARIABLES
    clock,                  \* since strobe_o
    bsaInit, bsaOn, dmaSel, \* the pulse: BSA to start; BSA going on; channels
    ctl, ctlOut,            \* EvrV2BsaControl: its next word, its output
    sum, sumOut, evtSelect, newOr, op,  \* EvrV2BsaChannelSummary
    evt, evtOut, channels,  \* EvrV2EventDma
    idle, paused, dropped, smaster,     \* EvrV2Dma
    beat, fifo, overrun,    \* the FIFO, the beat being packed; a beat found it full
    buf,                    \* the beats that the engine has moved of a frame
    read,                   \* the frame tpr_handle_dma has just read: what it
                            \* found, and what was due
    said, lost, due         \* history: the pulse's messages so far; messages were
                            \* lost to a pause; frames that are still to be read

Kinds   == {"control", "summary", "event", "end"}
AnyWord == [kind : Kinds, i : 1 .. 23, channels : SUBSET Channels, lcls : BOOLEAN, drop : BOOLEAN]

\* A message that a producer set out to say, and a frame of them that is due.
Messages == [kind : {"control", "summary", "event"}, channels : SUBSET Channels]
AnyFrame == [messages : Seq(Messages), lost : BOOLEAN]

ASSUME NoneAssumption == None \notin AnyWord /\ None \notin AnyFrame

TypeOK ==
    /\ clock \in 0 .. (Period - 1) /\ bsaInit \in BOOLEAN /\ bsaOn \in BOOLEAN /\ dmaSel \subseteq Channels
    /\ ctl \in 0 .. 11 /\ sum \in 0 .. 11 /\ evt \in 0 .. 23
    /\ {ctlOut, sumOut, evtOut, smaster} \subseteq AnyWord \cup {None}
    /\ evtSelect \subseteq Channels /\ channels \subseteq Channels
    /\ newOr \in BOOLEAN /\ op \in {"clear", "A", "hold"}
    /\ idle \in BOOLEAN /\ paused \in BOOLEAN /\ dropped \in BOOLEAN
    /\ beat \in Seq(AnyWord) /\ fifo \in Seq(Seq(AnyWord)) /\ buf \in Seq(Seq(AnyWord))
    /\ overrun \in BOOLEAN /\ lost \in BOOLEAN

pulseVars == <<clock, bsaInit, bsaOn, dmaSel>>
ctlVars == <<ctl, ctlOut>>
sumVars == <<sum, sumOut, evtSelect, newOr, op>>
evtVars == <<evt, evtOut, channels>>
asmVars == <<idle, paused, dropped, smaster>>
fifoVars == <<beat, fifo, overrun>>
history == <<said, lost, due>>
vars == <<pulseVars, ctlVars, sumVars, evtVars, asmVars, fifoVars, buf, read, history>>

Init ==
    /\ clock = 0 /\ bsaInit = FALSE /\ bsaOn = FALSE /\ dmaSel = {}
    /\ ctl = 0 /\ ctlOut = None
    /\ sum = 0 /\ sumOut = None /\ evtSelect = {} /\ newOr = FALSE /\ op = "clear"
    /\ evt = 0 /\ evtOut = None /\ channels = {}
    /\ idle = TRUE /\ paused = FALSE /\ dropped = FALSE /\ smaster = None
    /\ beat = <<>> /\ fifo = <<>> /\ overrun = FALSE /\ buf = <<>>
    /\ read = None /\ said = <<>> /\ lost = FALSE /\ due = <<>>

-----------------------------------------------------------------------------
(* The producers. Each is at its next word, 0 when idle, and shows the word  *)
(* before. The pulse's data stay for its whole period.                       *)

\* A word: which of which message, and of a first word the channels and the
\* bits that EvrV2Dma adds.
Word(kind, i, set) == [kind |-> kind, i |-> i, channels |-> set, lcls |-> FALSE, drop |-> FALSE]

Strobe(tap) == clock = tap + 1
After(kind, i) == IF i = Words[kind] THEN 0 ELSE i + 1

\* bsaInit is that of the message, and some channel's DMA is enabled.
Control ==
    /\ ctlOut' = IF ctl = 0 THEN None ELSE Word("control", ctl, {})
    /\ ctl' = IF ctl # 0 THEN After("control", ctl)
              ELSE IF Strobe(ControlAt) /\ bsaInit THEN 1 ELSE 0

\* The DSP slice is loaded at the strobe if some channel was selected, and
\* looked at two clocks later.
SummaryStarts == sum = 0 /\ Strobe(SummaryAt + 2) /\ newOr
Summary ==
    /\ op' = IF sum = Words.summary THEN "clear"
             ELSE IF Strobe(SummaryAt) /\ evtSelect # {} THEN "A" ELSE "hold"
    /\ newOr' = IF op = "A" THEN bsaOn ELSE newOr /\ op = "hold"
    /\ sumOut' = IF sum = 0 THEN None ELSE Word("summary", sum, IF sum = 1 THEN evtSelect ELSE {})
    /\ sum' = IF sum # 0 THEN After("summary", sum) ELSE IF SummaryStarts THEN 1 ELSE 0
    /\ evtSelect' = IF sum = 1 THEN {} ELSE evtSelect \cup (dmaSel \cap NoBsa)

\* The tag is put out at once, and the channels are those selected since the
\* pulse's strobe.
EventStarts == evt = 0 /\ Strobe(EventAt) /\ channels # {}
Event ==
    /\ evtOut' = IF evt # 0 THEN Word("event", evt, {})
                 ELSE IF EventStarts THEN Word("event", 1, channels) ELSE None
    /\ evt' = IF evt # 0 THEN After("event", evt) ELSE IF EventStarts THEN 2 ELSE 0
    /\ channels' = IF EventStarts \/ clock = 0 THEN {} ELSE channels \cup dmaSel

-----------------------------------------------------------------------------
(* EvrV2Dma and the FIFO                                                    *)

EndWord == Word("end", 1, {})

\* The loop over the producers leaves the last one that is valid.
Valid == IF sumOut # None THEN sumOut ELSE IF evtOut # None THEN evtOut ELSE ctlOut

Pause == Len(fifo) >= Thr

\* A message's first word is taken to be one that follows a clock without a word.
Accept    == Valid # None /\ ~paused
FrameEndX == Strobe(FrameEndAt)
FrameEnd  == Strobe(FrameEndAt) /\ ~idle
Assemble ==
    /\ smaster' = IF FrameEnd THEN EndWord
                  ELSE IF Accept THEN [Valid EXCEPT !.lcls = ~ModeSel /\ smaster = None,
                                                    !.drop = idle /\ dropped]
                  ELSE None
    /\ idle' = (FrameEnd \/ (idle /\ ~Accept))
    /\ dropped' = ((Valid # None /\ paused) \/ (dropped /\ ~(Accept /\ idle)))
    /\ paused' = IF Strobe(FrameEndAt) THEN Pause ELSE paused

\* A beat goes in when it is full or ends a frame. EvrV2Dma does not look at the
\* FIFO's tReady.
Full == smaster # None /\ (Len(beat) = BeatWords - 1 \/ smaster.kind = "end")
Push ==
    /\ beat' = IF smaster = None THEN beat ELSE IF Full THEN <<>> ELSE Append(beat, smaster)
    /\ fifo' = IF Full /\ Len(fifo) < Depth THEN Append(fifo, Append(beat, smaster)) ELSE fifo
    /\ overrun' = (overrun \/ (Full /\ Len(fifo) >= Depth))

-----------------------------------------------------------------------------
(* A clock                                                                  *)

Message(kind, set) == [kind |-> kind, channels |-> set]

\* What the producers set out to say, and what is due when the frame ends.
Record ==
    LET add == (IF ctl = 0 /\ ctl' = 1 THEN <<Message("control", {})>> ELSE <<>>)
               \o (IF sum = 1 THEN <<Message("summary", evtSelect)>> ELSE <<>>)
               \o (IF EventStarts THEN <<Message("event", dmaSel)>> ELSE <<>>)
        end == Strobe(FrameEndAt)
    IN
    /\ said' = IF end THEN <<>> ELSE said \o add
    /\ lost' = IF end /\ said # <<>> THEN paused ELSE lost
    /\ due' = IF end /\ said # <<>> /\ ~paused THEN Append(due, [messages |-> said, lost |-> lost]) ELSE due

\* The timing message changes with strobe_o, the selection a clock later.
Pulse ==
    /\ clock' = IF clock = Period - 1 THEN 0 ELSE clock + 1
    /\ IF clock' = 0 THEN bsaInit' \in BOOLEAN /\ bsaOn' \in BOOLEAN ELSE UNCHANGED <<bsaInit, bsaOn>>
    /\ IF clock = 0 THEN dmaSel' \in SUBSET Channels ELSE UNCHANGED dmaSel

Tick ==
    /\ Pulse /\ Control /\ Summary /\ Event /\ Assemble /\ Push /\ Record
    /\ read' = None
    /\ UNCHANGED buf

-----------------------------------------------------------------------------
(* The parser of tpr_handle_dma                                             *)

\* BSACNTL_MSGSZ, BSAEVNT_MSGSZ and EVENT_MSGSZ in words.
MsgSize == [control |-> 44 \div 4, summary |-> 44 \div 4, event |-> 92 \div 4]

\* The words of a frame.
Flat(bs) == [i \in 1 .. (BeatWords * (Len(bs) - 1) + Len(bs[Len(bs)])) |->
               bs[(i - 1) \div BeatWords + 1][((i - 1) % BeatWords) + 1]]

\* The message copied from w's words from the i-th on.
Entry(w, i) ==
    [kind |-> w[i].kind, channels |-> w[i].channels, lcls |-> w[i].lcls, drop |-> w[i].drop,
     whole |-> /\ i + MsgSize[w[i].kind] - 1 <= Len(w)
               /\ \A j \in 1 .. MsgSize[w[i].kind] :
                    w[i + j - 1].kind = w[i].kind /\ w[i + j - 1].i = j]

\* A payload word where a first word belongs, and an event whose second word is
\* not its size, end the frame.
Strange(w, i) ==
    \/ w[i].i # 1
    \/ w[i].kind = "event" /\ (i = Len(w) \/ w[i + 1].kind # "event" \/ w[i + 1].i # 2)
Parse(w) ==
    LET from[i \in 1 .. (Len(w) + Words.event)] ==
          IF i > Len(w) THEN <<"overrun">>
          ELSE IF w[i].kind = "end" THEN <<>>
          ELSE IF Strange(w, i) THEN <<"unknown">>
          ELSE <<Entry(w, i)>> \o from[i + MsgSize[w[i].kind]]
    IN from[1]

-----------------------------------------------------------------------------
(* The engine                                                               *)

\* PCIE_MAX_RX_TRANS_LENGTH_C words
TranBeats == 32 \div BeatWords

IsLast(b) == b[Len(b)].kind = "end"

\* A transaction is eight beats, or what is left of the frame; with the last the
\* frame is in memory, and the tasklet reads it.
Move ==
    \E n \in 1 .. TranBeats :
      LET b == buf \o SubSeq(fifo, 1, n)
      IN
      /\ clock \in EngineAt
      /\ n <= Len(fifo)
      /\ \A i \in 1 .. (n - 1) : ~IsLast(fifo[i])
      /\ IsLast(fifo[n]) \/ n = TranBeats
      /\ fifo' = SubSeq(fifo, n + 1, Len(fifo))
      /\ IF IsLast(fifo[n])
         THEN buf' = <<>> /\ read' = [found |-> Parse(Flat(b)), due |-> IF due = <<>> THEN None ELSE due[1]]
              /\ due' = SubSeq(due, 2, Len(due))
         ELSE buf' = b /\ read' = None /\ UNCHANGED due
      /\ UNCHANGED <<pulseVars, ctlVars, sumVars, evtVars, asmVars, beat, overrun, said, lost>>

Next == Tick \/ Move

Spec == Init /\ [][Next]_vars

-----------------------------------------------------------------------------
(* Properties                                                               *)

\* The driver reads each frame exactly as the producers said it: every message
\* whole and with its channels, the LCLS-I bit on each, and the drop bit on the
\* first of a frame that follows messages lost to a pause.
Found(m, i, l) == [kind |-> m.kind, channels |-> m.channels,
                   lcls |-> ~ModeSel, drop |-> l /\ i = 1, whole |-> TRUE]
FramesRead ==
    read # None =>
      /\ read.due # None
      /\ read.found = [i \in DOMAIN read.due.messages |-> Found(read.due.messages[i], i, read.due.lost)]

\* EvrV2Dma arbitrates nothing: it relies on the taps to keep the producers
\* apart, and the end of the frame apart from all of them.
OneSpeaker ==
    /\ ctlOut = None \/ sumOut = None
    /\ ctlOut = None \/ evtOut = None
    /\ sumOut = None \/ evtOut = None
    /\ Strobe(FrameEndAt) => Valid = None

\* The pause, sampled once a frame, leaves room for all that may follow: no beat
\* finds the FIFO full, though nobody looks whether it is.
NoWordLost == ~overrun
=============================================================================
