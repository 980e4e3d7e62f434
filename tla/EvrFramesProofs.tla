-------------------------- MODULE EvrFramesProofs --------------------------
(***************************************************************************)
(* Proofs about EvrFrames, for every period, number of readout channels,     *)
(* threshold and depth the assumptions allow, and an engine that may move at *)
(* any set of clocks: OneSpeaker, NoWordLost and FramesRead are invariants.  *)
(*                                                                         *)
(* The argument for the first two: each producer speaks in a window of       *)
(* clocks that its tap fixes, and the windows are apart. So what may still   *)
(* come in a frame is bounded by the clocks that are left, and the beats in  *)
(* the FIFO, the beat being packed and the words to come are together        *)
(* bounded from the moment the pause is sampled.                             *)
(*                                                                         *)
(* For FramesRead the state is related to the messages said: which clock     *)
(* finds each producer at which word of which of them (SpeechInv), what the  *)
(* assembly remembers of them (HeardInv), and how the beats of buf and fifo  *)
(* and the one being packed divide into the frames due, each whole, and the  *)
(* words told of the frame that is under way (StreamInv). What the engine    *)
(* hands over is then the first of the frames due, and the parser finds in   *)
(* a whole frame the messages it was made of (ParseWhole).                   *)
(***************************************************************************)
EXTENDS EvrFrames, TLAPS, SequenceTheorems, WellFoundedInduction

-----------------------------------------------------------------------------
(* The producers' windows                                                   *)

ControlInv ==
    /\ ctl # 0 => clock = ctl + 1
    /\ ctlOut # None => clock \in 3 .. 13 /\ ctlOut.kind = "control"

SummaryInv ==
    /\ sum # 0 => clock = sum + SummaryAt + 3
    /\ sumOut # None => clock \in (SummaryAt + 5) .. (SummaryAt + 15) /\ sumOut.kind = "summary"

EventInv ==
    /\ evt # 0 => clock = evt + EventAt
    /\ evtOut # None => clock \in (EventAt + 2) .. (EventAt + 24) /\ evtOut.kind = "event"

WindowInv == ControlInv /\ SummaryInv /\ EventInv

LEMMA Taps ==
    /\ SummaryAt \in Nat /\ EventAt \in Nat /\ EventAt = SummaryAt + 15
    /\ SummaryAt >= 15 /\ EventAt <= 174
    /\ Period \in Nat /\ Period >= 200
    /\ FrameEndAt = 198
BY ChannelAssumption, PeriodAssumption DEF SummaryAt, EventAt, FrameEndAt

LEMMA Afters ==
    /\ \A i \in 1 .. 11 : After("control", i) = IF i = 11 THEN 0 ELSE i + 1
    /\ \A i \in 1 .. 11 : After("summary", i) = IF i = 11 THEN 0 ELSE i + 1
    /\ \A i \in 1 .. 23 : After("event", i) = IF i = 23 THEN 0 ELSE i + 1
BY DEF After, Words

LEMMA WordType ==
    ASSUME NEW kind \in Kinds, NEW i \in 1 .. 23, NEW set \in SUBSET Channels
    PROVE  Word(kind, i, set) \in AnyWord /\ Word(kind, i, set).kind = kind
BY DEF Word, AnyWord

\* What each producer and the clock do in a step.
LEMMA ClockStep ==
    ASSUME TypeOK, Tick
    PROVE  clock' \in 0 .. (Period - 1) /\ clock' = IF clock = Period - 1 THEN 0 ELSE clock + 1
BY Taps DEF TypeOK, Tick, Pulse

LEMMA ControlStep ==
    ASSUME TypeOK, Tick
    PROVE  /\ ctl = 0 => ctlOut' = None /\ (ctl' = 0 \/ (ctl' = 1 /\ clock = 1))
           /\ ctl # 0 => /\ ctlOut' \in AnyWord /\ ctlOut'.kind = "control"
                         /\ ctl' = IF ctl = 11 THEN 0 ELSE ctl + 1
<1>1. ASSUME ctl = 0
      PROVE  ctlOut' = None /\ (ctl' = 0 \/ (ctl' = 1 /\ clock = 1))
  <2>1. ctlOut' = None /\ ctl' = IF clock = 1 /\ bsaInit THEN 1 ELSE 0
    BY <1>1 DEF Tick, Control, Strobe, ControlAt
  <2>2. QED
    BY <2>1
<1>2. ASSUME ctl # 0
      PROVE  /\ ctlOut' \in AnyWord /\ ctlOut'.kind = "control"
             /\ ctl' = IF ctl = 11 THEN 0 ELSE ctl + 1
  <2>1. ctl \in 1 .. 11 /\ ctl \in 1 .. 23 /\ "control" \in Kinds /\ {} \in SUBSET Channels
    BY <1>2 DEF TypeOK, Kinds
  <2>2. ctlOut' = Word("control", ctl, {}) /\ ctl' = After("control", ctl)
    BY <1>2 DEF Tick, Control
  <2>3. ctlOut' \in AnyWord /\ ctlOut'.kind = "control"
    BY <2>1, <2>2, WordType
  <2>4. QED
    BY <2>1, <2>2, <2>3, Afters
<1>3. QED
  BY <1>1, <1>2

LEMMA SummaryStep ==
    ASSUME TypeOK, Tick
    PROVE  /\ sum = 0 => sumOut' = None /\ (sum' = 0 \/ (sum' = 1 /\ clock = SummaryAt + 3))
           /\ sum # 0 => /\ sumOut' \in AnyWord /\ sumOut'.kind = "summary"
                         /\ sum' = IF sum = 11 THEN 0 ELSE sum + 1
<1>1. ASSUME sum = 0
      PROVE  sumOut' = None /\ (sum' = 0 \/ (sum' = 1 /\ clock = SummaryAt + 3))
  <2>1. sumOut' = None /\ sum' = IF clock = SummaryAt + 3 /\ newOr THEN 1 ELSE 0
    BY <1>1, Taps DEF Tick, Summary, SummaryStarts, Strobe
  <2>2. QED
    BY <2>1
<1>2. ASSUME sum # 0
      PROVE  /\ sumOut' \in AnyWord /\ sumOut'.kind = "summary"
             /\ sum' = IF sum = 11 THEN 0 ELSE sum + 1
  <2> DEFINE set == IF sum = 1 THEN evtSelect ELSE {}
  <2>1. sum \in 1 .. 11 /\ sum \in 1 .. 23 /\ "summary" \in Kinds /\ set \in SUBSET Channels
    BY <1>2 DEF TypeOK, Kinds
  <2>2. sumOut' = Word("summary", sum, set) /\ sum' = After("summary", sum)
    BY <1>2 DEF Tick, Summary
  <2>3. sumOut' \in AnyWord /\ sumOut'.kind = "summary"
    BY <2>1, <2>2, WordType
  <2>4. QED
    BY <2>1, <2>2, <2>3, Afters
<1>3. QED
  BY <1>1, <1>2

LEMMA EventStep ==
    ASSUME TypeOK, Tick
    PROVE  \/ evt = 0 /\ evt' = 0 /\ evtOut' = None
           \/ /\ evt = 0 /\ evt' = 2 /\ clock = EventAt + 1
              /\ evtOut' \in AnyWord /\ evtOut'.kind = "event"
           \/ /\ evt # 0 /\ evt' = IF evt = 23 THEN 0 ELSE evt + 1
              /\ evtOut' \in AnyWord /\ evtOut'.kind = "event"
<1>0. "event" \in Kinds /\ {} \in SUBSET Channels /\ channels \in SUBSET Channels
  BY DEF TypeOK, Kinds
<1>1. CASE evt = 0 /\ EventStarts
  <2>1. evtOut' = Word("event", 1, channels) /\ evt' = 2 /\ clock = EventAt + 1
    BY <1>1 DEF Tick, Event, EventStarts, Strobe
  <2>2. evtOut' \in AnyWord /\ evtOut'.kind = "event"
    BY <1>0, <2>1, WordType
  <2>3. QED
    BY <1>1, <2>1, <2>2
<1>2. CASE evt = 0 /\ ~EventStarts
  BY <1>2 DEF Tick, Event
<1>3. CASE evt # 0
  <2>1. evt \in 1 .. 23
    BY <1>3 DEF TypeOK
  <2>2. evtOut' = Word("event", evt, {}) /\ evt' = After("event", evt)
    BY <1>3 DEF Tick, Event
  <2>3. evtOut' \in AnyWord /\ evtOut'.kind = "event"
    BY <1>0, <2>1, <2>2, WordType
  <2>4. QED
    BY <1>3, <2>1, <2>2, <2>3, Afters
<1>4. QED
  BY <1>1, <1>2, <1>3

LEMMA WindowStep ==
    ASSUME TypeOK, WindowInv, Tick
    PROVE  WindowInv'
<1>0. /\ clock \in 0 .. (Period - 1) /\ ctl \in 0 .. 11 /\ sum \in 0 .. 11 /\ evt \in 0 .. 23
      /\ clock' = IF clock = Period - 1 THEN 0 ELSE clock + 1
  BY ClockStep DEF TypeOK
<1>1. ControlInv'
  <2>1. CASE ctl = 0
    <3>1. ctlOut' = None /\ (ctl' = 0 \/ (ctl' = 1 /\ clock = 1))
      BY <2>1, ControlStep
    <3>2. QED
      BY <1>0, <3>1, Taps DEF ControlInv
  <2>2. CASE ctl # 0
    <3>1. ctlOut'.kind = "control" /\ ctl' = IF ctl = 11 THEN 0 ELSE ctl + 1
      BY <2>2, ControlStep
    <3>2. clock = ctl + 1
      BY <2>2 DEF WindowInv, ControlInv
    <3>3. QED
      BY <1>0, <2>2, <3>1, <3>2, Taps DEF ControlInv
  <2>3. QED
    BY <2>1, <2>2
<1>2. SummaryInv'
  <2>1. CASE sum = 0
    <3>1. sumOut' = None /\ (sum' = 0 \/ (sum' = 1 /\ clock = SummaryAt + 3))
      BY <2>1, SummaryStep
    <3>2. QED
      BY <1>0, <3>1, Taps DEF SummaryInv
  <2>2. CASE sum # 0
    <3>1. sumOut'.kind = "summary" /\ sum' = IF sum = 11 THEN 0 ELSE sum + 1
      BY <2>2, SummaryStep
    <3>2. clock = sum + SummaryAt + 3
      BY <2>2 DEF WindowInv, SummaryInv
    <3>3. QED
      BY <1>0, <2>2, <3>1, <3>2, Taps DEF SummaryInv
  <2>3. QED
    BY <2>1, <2>2
<1>3. EventInv'
  <2>1. CASE evt = 0 /\ evt' = 0 /\ evtOut' = None
    BY <2>1 DEF EventInv
  <2>2. CASE evt = 0 /\ evt' = 2 /\ clock = EventAt + 1 /\ evtOut'.kind = "event"
    BY <1>0, <2>2, Taps DEF EventInv
  <2>3. CASE evt # 0 /\ evt' = (IF evt = 23 THEN 0 ELSE evt + 1) /\ evtOut'.kind = "event"
    <3>1. clock = evt + EventAt
      BY <2>3 DEF WindowInv, EventInv
    <3>2. QED
      BY <1>0, <2>3, <3>1, Taps DEF EventInv
  <2>4. QED
    BY <2>1, <2>2, <2>3, EventStep
<1>4. QED
  BY <1>1, <1>2, <1>3 DEF WindowInv

\* The producers and the end of the frame are never at the stream together.
LEMMA Speakers ==
    ASSUME TypeOK, WindowInv
    PROVE  OneSpeaker
BY Taps DEF TypeOK, WindowInv, ControlInv, SummaryInv, EventInv, OneSpeaker, Strobe, Valid

-----------------------------------------------------------------------------
(* Room in the FIFO                                                         *)

\* The clocks left of a window of n clocks that ends with the clock last.
LeftOf(last, n) ==
    IF clock > last THEN 0 ELSE IF clock + n > last THEN last + 1 - clock ELSE n

\* The words that may still come to the stream until the pause is next sampled,
\* the frame's end counted as a beat; after the sample, those of the next pulse.
Left ==
    IF clock > FrameEndAt + 1 THEN 49
    ELSE LeftOf(13, 11) + LeftOf(SummaryAt + 15, 11) + LeftOf(EventAt + 24, 23) + 4

\* What the word at the stream's input may take.
Weight == IF smaster = None THEN 0 ELSE IF smaster.kind = "end" THEN 4 ELSE 1

Held == BeatWords * Len(fifo) + Len(beat)
Owed == IF paused THEN 0 ELSE Left
Room == 4 * Thr + 53

RoomInv ==
    /\ Len(beat) < BeatWords
    /\ Held + Weight + Owed <= Room
    /\ Weight = 4 => clock \notin 1 .. 199
    /\ paused => idle
    /\ ~overrun

IInv == TypeOK /\ WindowInv /\ RoomInv

\* The FIFO takes no more than the word at its input.
LEMMA PushStep ==
    ASSUME TypeOK, Len(beat) < BeatWords, Push
    PROVE  /\ beat' \in Seq(AnyWord) /\ fifo' \in Seq(Seq(AnyWord)) /\ overrun' \in BOOLEAN
           /\ Len(beat') < BeatWords
           /\ Held' <= Held + Weight
<1>a. /\ beat \in Seq(AnyWord) /\ fifo \in Seq(Seq(AnyWord)) /\ smaster \in AnyWord \cup {None}
      /\ overrun \in BOOLEAN
  BY DEF TypeOK
<1>b. Len(beat) \in Nat /\ Len(fifo) \in Nat
  BY <1>a
<1>0. Len(beat) <= 3
  BY <1>a, <1>b DEF BeatWords
<1>1. CASE smaster = None
  BY <1>a, <1>b, <1>0, <1>1 DEF Push, Full, Held, Weight, BeatWords
<1>2. CASE smaster # None /\ ~Full
  <2>1. beat' = Append(beat, smaster) /\ fifo' = fifo /\ overrun' = overrun /\ smaster \in AnyWord
    BY <1>a, <1>2 DEF Push
  <2>2. Len(beat) # 3 /\ smaster.kind # "end"
    BY <1>2 DEF Full, BeatWords
  <2>3. beat' \in Seq(AnyWord) /\ Len(beat') = Len(beat) + 1
    BY <1>a, <2>1
  <2>4. Weight = 1
    BY <1>2, <2>2 DEF Weight
  <2>5. Len(beat') < BeatWords
    <3>1. PICK n \in Nat : n = Len(beat)
      BY <1>b
    <3>2. n < 3
      BY <1>0, <2>2, <3>1
    <3>3. QED
      BY <2>3, <3>1, <3>2 DEF BeatWords
  <2>6. Held' = BeatWords * Len(fifo) + Len(beat) + 1
    BY <2>1, <2>3, <1>a DEF Held, BeatWords
  <2>7. Held' <= Held + Weight
    BY <1>a, <2>4, <2>6 DEF Held, BeatWords
  <2>8. fifo' \in Seq(Seq(AnyWord)) /\ overrun' \in BOOLEAN
    BY <1>a, <2>1
  <2>9. QED
    BY <2>3, <2>5, <2>7, <2>8
<1>3. CASE smaster # None /\ Full
  <2>1. smaster \in AnyWord /\ Append(beat, smaster) \in Seq(AnyWord)
    BY <1>a, <1>3
  <2>2. beat' = <<>> /\ overrun' \in BOOLEAN
    BY <1>a, <1>3 DEF Push
  <2>3. fifo' \in Seq(Seq(AnyWord)) /\ Len(fifo') <= Len(fifo) + 1 /\ Len(fifo') \in Nat
    BY <1>a, <1>b, <1>3, <2>1 DEF Push
  <2>4. Len(beat) + Weight >= 4 /\ Weight \in Nat
    <3>1. CASE smaster.kind = "end"
      BY <1>0, <1>3, <3>1 DEF Weight
    <3>2. CASE smaster.kind # "end"
      <4>1. Len(beat) = 3
        BY <1>3, <3>2 DEF Full, BeatWords
      <4>2. Weight = 1
        BY <1>3, <3>2 DEF Weight
      <4>3. QED
        BY <4>1, <4>2
    <3>3. QED
      BY <3>1, <3>2
  <2>5. QED
    BY <1>b, <1>0, <2>2, <2>3, <2>4 DEF Held, BeatWords
<1>4. QED
  BY <1>1, <1>2, <1>3

\* A word that no producer is at is not valid; one that is, is no end.
LEMMA ValidWord ==
    ASSUME TypeOK, WindowInv, Valid # None
    PROVE  /\ Valid \in AnyWord /\ Valid.kind # "end"
           /\ \/ clock \in 3 .. 13
              \/ clock \in (SummaryAt + 5) .. (SummaryAt + 15)
              \/ clock \in (EventAt + 2) .. (EventAt + 24)
<1>1. CASE sumOut # None
  BY <1>1 DEF TypeOK, WindowInv, SummaryInv, Valid
<1>2. CASE sumOut = None /\ evtOut # None
  BY <1>2 DEF TypeOK, WindowInv, EventInv, Valid
<1>3. CASE sumOut = None /\ evtOut = None
  BY <1>3 DEF TypeOK, WindowInv, ControlInv, Valid
<1>4. QED
  BY <1>1, <1>2, <1>3

LEMMA EndType == EndWord \in AnyWord /\ EndWord.kind = "end"
BY WordType DEF EndWord, Kinds

\* The stream's next word.
LEMMA AssembleStep ==
    ASSUME TypeOK, WindowInv, RoomInv, Assemble
    PROVE  /\ smaster' \in AnyWord \cup {None} /\ Weight' \in {0, 1, 4}
           /\ idle' \in BOOLEAN /\ paused' \in BOOLEAN /\ dropped' \in BOOLEAN
           /\ clock # 199 => /\ paused' = paused
                             /\ Weight' = 0 \/ (Weight' = 1 /\ Accept)
           /\ clock = 199 => /\ Weight' = 0 \/ (Weight' = 4 /\ ~paused)
                             /\ ~paused' => Len(fifo) < Thr
           /\ paused' => idle'
<1>0. /\ idle \in BOOLEAN /\ paused \in BOOLEAN /\ dropped \in BOOLEAN
      /\ clock \in Int /\ Len(fifo) \in Nat /\ Thr \in Nat /\ (paused => idle)
      /\ Strobe(FrameEndAt) <=> clock = 199
  BY Taps, DepthAssumption DEF TypeOK, RoomInv, Strobe
<1>1. idle' \in BOOLEAN /\ paused' \in BOOLEAN /\ dropped' \in BOOLEAN
  <2>1. Pause \in BOOLEAN
    BY DEF Pause
  <2>2. paused' = IF Strobe(FrameEndAt) THEN Pause ELSE paused
    BY DEF Assemble
  <2>3. paused' \in BOOLEAN
    BY <1>0, <2>1, <2>2
  <2>4. idle' \in BOOLEAN /\ dropped' \in BOOLEAN
    BY DEF Assemble
  <2>5. QED
    BY <2>3, <2>4
<1>2. CASE clock = 199
  <2>1. Valid = None
    BY <1>0, <1>2, Speakers DEF OneSpeaker
  <2>2. smaster' = IF ~idle THEN EndWord ELSE None
    BY <1>0, <1>2, <2>1 DEF Assemble, FrameEnd, Accept
  <2>3. smaster' \in AnyWord \cup {None} /\ Weight' \in {0, 1, 4}
    BY <2>2, EndType DEF Weight
  <2>4. Weight' = 0 \/ (Weight' = 4 /\ ~paused)
    BY <1>0, <2>2, EndType DEF Weight
  <2>5. idle'
    BY <1>0, <1>2, <2>1 DEF Assemble, FrameEnd, Accept
  <2>6. paused' <=> Len(fifo) >= Thr
    BY <1>0, <1>2 DEF Assemble, Pause
  <2>7. QED
    BY <1>0, <1>1, <1>2, <2>3, <2>4, <2>5, <2>6
<1>3. CASE clock # 199
  <2>1. paused' = paused /\ ~FrameEnd /\ (idle' <=> idle /\ ~Accept)
    BY <1>0, <1>3 DEF Assemble, FrameEnd
  <2>2. paused' => idle'
    BY <1>0, <2>1 DEF Accept
  <2>3. CASE Accept
    <3>1. Valid \in AnyWord /\ Valid.kind # "end"
      BY <2>3, ValidWord DEF Accept
    <3>2. smaster' = [Valid EXCEPT !.lcls = ~ModeSel /\ smaster = None, !.drop = idle /\ dropped]
      BY <2>1, <2>3 DEF Assemble
    <3>3. smaster' \in AnyWord /\ smaster'.kind = Valid.kind
      BY <3>1, <3>2 DEF AnyWord
    <3>4. QED
      BY <1>1, <1>3, <2>1, <2>2, <2>3, <3>1, <3>3 DEF Weight
  <2>4. CASE ~Accept
    <3>1. smaster' = None
      BY <2>1, <2>4 DEF Assemble
    <3>2. QED
      BY <1>1, <1>3, <2>1, <2>2, <3>1 DEF Weight
  <2>5. QED
    BY <2>3, <2>4
<1>4. QED
  BY <1>2, <1>3

\* As the clocks go by, less may come; at the sample it starts again.
LEMMA LeftStep ==
    ASSUME TypeOK, clock' = IF clock = Period - 1 THEN 0 ELSE clock + 1
    PROVE  /\ Left \in Nat /\ Left' \in Nat
           /\ clock # 199 => Left' <= Left
           /\ \/ clock \in 3 .. 13
              \/ clock \in (SummaryAt + 5) .. (SummaryAt + 15)
              \/ clock \in (EventAt + 2) .. (EventAt + 24)
              => Left' <= Left - 1
           /\ clock = 199 => Left = 4 /\ Left' = 49 /\ clock' \notin 1 .. 199
<1> clock \in 0 .. (Period - 1)
  BY DEF TypeOK
<1> USE Taps
<1>1. Left \in Nat
  BY DEF Left, LeftOf
<1>2. Left' \in Nat
  BY DEF Left, LeftOf
<1>3. clock # 199 => Left' <= Left
  BY DEF Left, LeftOf
<1>4. clock \in 3 .. 13 => Left' <= Left - 1
  BY DEF Left, LeftOf
<1>5. clock \in (SummaryAt + 5) .. (SummaryAt + 15) => Left' <= Left - 1
  BY DEF Left, LeftOf
<1>6. clock \in (EventAt + 2) .. (EventAt + 24) => Left' <= Left - 1
  BY DEF Left, LeftOf
<1>7. clock = 199 => Left = 4 /\ Left' = 49 /\ clock' \notin 1 .. 199
  BY DEF Left, LeftOf
<1>8. QED
  BY <1>1, <1>2, <1>3, <1>4, <1>5, <1>6, <1>7

\* Whatever goes into the FIFO finds room.
LEMMA Roomy ==
    ASSUME TypeOK, RoomInv, Left \in Nat, Full
    PROVE  Len(fifo) < Depth
<1>1. beat \in Seq(AnyWord) /\ fifo \in Seq(Seq(AnyWord))
  BY DEF TypeOK
<1>2. PICK n \in Nat, m \in Nat : n = Len(fifo) /\ m = Len(beat)
  BY <1>1
<1>3. m + Weight >= 4 /\ Weight \in Nat
  <2>1. CASE smaster.kind = "end"
    BY <1>2, <2>1 DEF Full, Weight
  <2>2. CASE smaster.kind # "end"
    <3>1. m = 3
      BY <1>2, <2>2 DEF Full, BeatWords
    <3>2. Weight = 1
      BY <2>2 DEF Full, Weight
    <3>3. QED
      BY <3>1, <3>2
  <2>3. QED
    BY <2>1, <2>2
<1>4. 4 * n + m + Weight <= 4 * Thr + 53
  <2>1. Owed \in Nat
    BY DEF Owed
  <2>2. 4 * n + m + Weight + Owed <= 4 * Thr + 53
    BY <1>2, <1>3, DepthAssumption DEF RoomInv, Held, Room, BeatWords
  <2>3. QED
    BY <1>2, <1>3, <2>1, <2>2, DepthAssumption
<1>5. n <= Thr + 12
  BY <1>2, <1>3, <1>4, DepthAssumption
<1>6. QED
  BY <1>2, <1>5, DepthAssumption DEF FrameBeats

\* What goes in was owed, and what is owed was owed.
LEMMA Balance ==
    ASSUME NEW h \in Int, NEW w \in Int, NEW o \in Int, NEW h2 \in Int, NEW w2 \in Int, NEW o2 \in Int,
           NEW r \in Int, h + w + o <= r, h2 <= h + w, o2 <= o - w2
    PROVE  h2 + w2 + o2 <= r
OBVIOUS

LEMMA Sampled ==
    ASSUME NEW h \in Int, NEW w \in Int, NEW o \in Int, NEW t \in Nat, h <= 4 * t, w <= 4, o <= 49
    PROVE  h + w + o <= 4 * t + 53
OBVIOUS

LEMMA RoomStep ==
    ASSUME TypeOK, WindowInv, RoomInv, Tick
    PROVE  RoomInv'
<1>1. clock' = IF clock = Period - 1 THEN 0 ELSE clock + 1
  BY ClockStep
<1>2. Len(beat') < BeatWords /\ Held' <= Held + Weight /\ beat' \in Seq(AnyWord) /\ fifo' \in Seq(Seq(AnyWord))
  BY PushStep DEF Tick, RoomInv
<1>3. beat \in Seq(AnyWord) /\ fifo \in Seq(Seq(AnyWord)) /\ clock \in Int /\ paused \in BOOLEAN
  BY Taps DEF TypeOK
<1>4. Held \in Int /\ Held' \in Int
  BY <1>2, <1>3 DEF Held, BeatWords
<1>5. Weight \in {0, 1, 4} /\ (clock = 199 => Weight \in {0, 1})
  BY DEF Weight, RoomInv
<1>6. Left \in Nat /\ Left' \in Nat
  BY <1>1, LeftStep
<1>7. paused' => idle'
  BY AssembleStep DEF Tick
<1>8. Weight' = 4 => clock' \notin 1 .. 199
  <2>1. Weight' = 4 => clock = 199
    BY <1>3, AssembleStep DEF Tick
  <2>2. QED
    BY <1>1, <2>1, LeftStep
<1>9. ~overrun'
  <2>1. Full => Len(fifo) < Depth
    BY <1>6, Roomy
  <2>2. ~(Full /\ Len(fifo) >= Depth)
    <3>1. PICK n \in Nat : n = Len(fifo)
      BY <1>3
    <3>2. QED
      BY <2>1, <3>1, DepthAssumption
  <2>3. QED
    BY <2>2 DEF Tick, Push, RoomInv
<1>10. Held + Weight + Owed <= Room /\ Room \in Int /\ Owed \in Int /\ Owed' \in Int
  BY <1>6, DepthAssumption DEF RoomInv, Room, Owed
<1>11. Held' + Weight' + Owed' <= Room
  <2>0. Weight' \in Int /\ Weight \in Int /\ Held' <= Held + Weight
    BY <1>2, <1>5, AssembleStep DEF Tick
  <2>1. CASE Owed' <= Owed - Weight'
    BY <1>4, <1>10, <2>0, <2>1, Balance
  <2>2. CASE clock # 199
    <3>1. paused' = paused /\ (Weight' = 0 \/ (Weight' = 1 /\ Accept)) /\ Left' <= Left
      BY <1>1, <2>2, AssembleStep, LeftStep DEF Tick
    <3>2. CASE Weight' = 0
      <4>1. Owed' <= Owed
        BY <1>6, <3>1 DEF Owed
      <4>2. Owed' <= Owed - Weight'
        BY <1>10, <3>2, <4>1
      <4>3. QED
        BY <2>1, <4>2
    <3>3. CASE Weight' = 1 /\ Accept
      <4>1. ~paused /\ Left' <= Left - 1
        BY <1>1, <3>3, ValidWord, LeftStep DEF Accept
      <4>2. Owed' <= Owed - 1
        BY <1>6, <3>1, <4>1 DEF Owed
      <4>3. Owed' <= Owed - Weight'
        BY <1>10, <3>3, <4>2
      <4>4. QED
        BY <2>1, <4>3
    <3>4. QED
      BY <3>1, <3>2, <3>3
  <2>3. CASE clock = 199
    <3>1. /\ Weight' = 0 \/ (Weight' = 4 /\ ~paused)
          /\ ~paused' => Len(fifo) < Thr
          /\ Left = 4 /\ Left' = 49 /\ Weight \in {0, 1}
      BY <1>1, <1>5, <2>3, AssembleStep, LeftStep DEF Tick
    <3>2. CASE paused'
      <4>1. Owed' = 0
        BY <3>2 DEF Owed
      <4>2. CASE Weight' = 0
        BY <2>1, <3>1, <4>1, <4>2 DEF Owed
      <4>3. CASE Weight' = 4 /\ ~paused
        BY <2>1, <3>1, <4>1, <4>3 DEF Owed
      <4>4. QED
        BY <3>1, <4>2, <4>3
    <3>3. CASE ~paused'
      <4>1. Len(fifo) < Thr /\ Len(beat) < 4
        BY <3>1, <3>3 DEF RoomInv, BeatWords
      <4>2. Held <= 4 * Thr - 1
        <5>1. PICK n \in Nat, m \in Nat : n = Len(fifo) /\ m = Len(beat)
          BY <1>3
        <5>2. n < Thr /\ m < 4 /\ Held = 4 * n + m
          BY <4>1, <5>1 DEF Held, BeatWords
        <5>3. QED
          BY <5>1, <5>2, DepthAssumption
      <4>3. Owed' = 49 /\ Weight <= 1 /\ Weight' <= 4
        BY <3>1, <3>3 DEF Owed
      <4>4. Held' <= 4 * Thr
        BY <1>4, <2>0, <4>2, <4>3, DepthAssumption
      <4>5. Owed' <= 49 /\ Owed' \in Int /\ Thr \in Nat
        BY <4>3, DepthAssumption
      <4>6. QED
        BY <1>4, <2>0, <4>3, <4>4, <4>5, Sampled DEF Room
    <3>4. QED
      BY <3>2, <3>3
  <2>4. QED
    BY <2>2, <2>3
<1>12. QED
  BY <1>2, <1>7, <1>8, <1>9, <1>11 DEF RoomInv

-----------------------------------------------------------------------------
(* The engine                                                               *)

LEMMA MoveStep ==
    ASSUME IInv, Move
    PROVE  IInv'
<1>1. PICK n \in 1 .. TranBeats :
        /\ n <= Len(fifo)
        /\ fifo' = SubSeq(fifo, n + 1, Len(fifo))
        /\ buf' = <<>> \/ buf' = buf \o SubSeq(fifo, 1, n)
  BY DEF Move
<1>2. /\ fifo \in Seq(Seq(AnyWord)) /\ buf \in Seq(Seq(AnyWord)) /\ beat \in Seq(AnyWord)
      /\ n \in Nat /\ n >= 1
  BY DEF IInv, TypeOK, TranBeats, BeatWords
<1>3. PICK m \in Nat, k \in Nat : m = Len(fifo) /\ k = Len(beat)
  BY <1>2
<1>4. SubSeq(fifo, 1, n) \in Seq(Seq(AnyWord)) /\ SubSeq(fifo, n + 1, m) \in Seq(Seq(AnyWord))
  <2>1. \A i \in 1 .. m : fifo[i] \in Seq(AnyWord)
    BY <1>2, <1>3
  <2>2. QED
    BY <1>1, <1>2, <1>3, <2>1, SubSeqProperties
<1>5. Len(fifo') = m - n
  BY <1>1, <1>2, <1>3, SubSeqProperties
<1>6. fifo' \in Seq(Seq(AnyWord)) /\ buf' \in Seq(Seq(AnyWord))
  <2>1. fifo' \in Seq(Seq(AnyWord))
    BY <1>1, <1>3, <1>4
  <2>2. <<>> \in Seq(Seq(AnyWord)) /\ buf \o SubSeq(fifo, 1, n) \in Seq(Seq(AnyWord))
    BY <1>2, <1>4, ConcatProperties
  <2>3. QED
    BY <1>1, <2>1, <2>2
<1>7. UNCHANGED <<pulseVars, ctlVars, sumVars, evtVars, asmVars, beat, overrun, said, lost>>
  BY DEF Move
<1>8. TypeOK'
  BY <1>6, <1>7 DEF IInv, TypeOK, pulseVars, ctlVars, sumVars, evtVars, asmVars
<1>9. WindowInv'
  BY <1>7 DEF IInv, WindowInv, ControlInv, SummaryInv, EventInv, pulseVars, ctlVars, sumVars, evtVars
<1>10. RoomInv'
  <2>1. /\ Weight' = Weight /\ Owed' = Owed
        /\ clock' = clock /\ paused' = paused /\ idle' = idle /\ overrun' = overrun /\ beat' = beat
    BY <1>7 DEF Weight, Owed, Left, LeftOf, pulseVars, asmVars
  <2>2. Held' = 4 * (m - n) + k /\ Held = 4 * m + k
    BY <1>3, <1>5, <2>1 DEF Held, BeatWords
  <2>3. Weight \in Int /\ Owed \in Int
    BY Taps DEF Weight, Owed, Left, LeftOf, IInv, TypeOK
  <2>4. Held + Weight + Owed <= Room /\ Room \in Int
    BY DepthAssumption DEF IInv, RoomInv, Room
  <2>5. Held' + Weight' + Owed' <= Room
    BY <1>2, <1>3, <2>1, <2>2, <2>3, <2>4
  <2>6. QED
    BY <2>1, <2>5 DEF IInv, RoomInv
<1>11. QED
  BY <1>8, <1>9, <1>10 DEF IInv

-----------------------------------------------------------------------------
(* The specification                                                        *)

LEMMA TypeStep ==
    ASSUME TypeOK, WindowInv, RoomInv, Tick
    PROVE  TypeOK'
<1>1. clock' \in 0 .. (Period - 1) /\ bsaInit' \in BOOLEAN /\ bsaOn' \in BOOLEAN /\ dmaSel' \subseteq Channels
  BY ClockStep DEF TypeOK, Tick, Pulse
<1>2. ctl' \in 0 .. 11 /\ ctlOut' \in AnyWord \cup {None}
  <2>1. ctl \in 0 .. 11
    BY DEF TypeOK
  <2>2. QED
    BY <2>1, ControlStep
<1>3. sum' \in 0 .. 11 /\ sumOut' \in AnyWord \cup {None}
  <2>1. sum \in 0 .. 11
    BY DEF TypeOK
  <2>2. QED
    BY <2>1, SummaryStep
<1>4. evt' \in 0 .. 23 /\ evtOut' \in AnyWord \cup {None}
  <2>1. evt \in 0 .. 23
    BY DEF TypeOK
  <2>2. QED
    BY <2>1, EventStep
<1>5. evtSelect' \subseteq Channels /\ channels' \subseteq Channels
  BY DEF TypeOK, Tick, Summary, Event
<1>6. op' \in {"clear", "A", "hold"}
  BY DEF Tick, Summary
<1>7. newOr' \in BOOLEAN
  BY DEF TypeOK, Tick, Summary
<1>8. smaster' \in AnyWord \cup {None} /\ idle' \in BOOLEAN /\ paused' \in BOOLEAN /\ dropped' \in BOOLEAN
  BY AssembleStep DEF Tick
<1>9. beat' \in Seq(AnyWord) /\ fifo' \in Seq(Seq(AnyWord)) /\ overrun' \in BOOLEAN
  BY PushStep DEF Tick, RoomInv
<1>10. buf' \in Seq(Seq(AnyWord))
  BY DEF TypeOK, Tick
<1>11. lost' \in BOOLEAN
  BY DEF TypeOK, Tick, Record
<1>12. QED
  BY <1>1, <1>2, <1>3, <1>4, <1>5, <1>6, <1>7, <1>8, <1>9, <1>10, <1>11 DEF TypeOK

LEMMA InitInv == Init => IInv
<1> SUFFICES ASSUME Init PROVE IInv
  OBVIOUS
<1> USE Taps DEF Init
<1>1. TypeOK
  <2>1. <<>> \in Seq(AnyWord) /\ <<>> \in Seq(Seq(AnyWord))
    OBVIOUS
  <2>2. {ctlOut, sumOut, evtOut, smaster} \subseteq AnyWord \cup {None}
    OBVIOUS
  <2>3. clock \in 0 .. (Period - 1)
    OBVIOUS
  <2>4. /\ bsaInit \in BOOLEAN /\ bsaOn \in BOOLEAN /\ newOr \in BOOLEAN /\ idle \in BOOLEAN
        /\ paused \in BOOLEAN /\ dropped \in BOOLEAN /\ overrun \in BOOLEAN /\ lost \in BOOLEAN
    OBVIOUS
  <2>5. /\ dmaSel \subseteq Channels /\ evtSelect \subseteq Channels /\ channels \subseteq Channels
        /\ op \in {"clear", "A", "hold"}
    OBVIOUS
  <2>6. ctl \in 0 .. 11 /\ sum \in 0 .. 11 /\ evt \in 0 .. 23
    OBVIOUS
  <2>7. beat \in Seq(AnyWord) /\ fifo \in Seq(Seq(AnyWord)) /\ buf \in Seq(Seq(AnyWord))
    BY <2>1
  <2> HIDE DEF Init
  <2>8. QED
    BY <2>2, <2>3, <2>4, <2>5, <2>6, <2>7 DEF TypeOK
<1>2. WindowInv
  BY DEF WindowInv, ControlInv, SummaryInv, EventInv
<1>3. RoomInv
  <2>1. Len(beat) = 0 /\ Len(fifo) = 0 /\ Weight = 0 /\ Left = 49
    BY DEF Weight, Left, LeftOf
  <2>2. QED
    BY <2>1, DepthAssumption DEF RoomInv, Held, Owed, Room, BeatWords
<1>4. QED
  BY <1>1, <1>2, <1>3 DEF IInv

LEMMA InvStutter == ASSUME IInv, UNCHANGED vars PROVE IInv'
<1>1. TypeOK'
  BY DEF IInv, TypeOK, vars, pulseVars, ctlVars, sumVars, evtVars, asmVars, fifoVars, history
<1>2. WindowInv'
  BY DEF IInv, WindowInv, ControlInv, SummaryInv, EventInv, vars, pulseVars, ctlVars, sumVars, evtVars
<1>3. RoomInv'
  BY DEF IInv, RoomInv, Held, Owed, Weight, Left, LeftOf, vars, pulseVars, asmVars, fifoVars
<1>4. QED
  BY <1>1, <1>2, <1>3 DEF IInv

\* IInv is an inductive invariant.
THEOREM Invariant == Spec => []IInv
<1>1. IInv /\ [Next]_vars => IInv'
  <2> SUFFICES ASSUME IInv, [Next]_vars PROVE IInv'
    OBVIOUS
  <2>1. CASE Tick
    BY <2>1, TypeStep, WindowStep, RoomStep DEF IInv
  <2>2. CASE Move
    BY <2>2, MoveStep
  <2>3. CASE UNCHANGED vars
    BY <2>3, InvStutter
  <2>4. QED
    BY <2>1, <2>2, <2>3 DEF Next
<1>2. QED
  BY InitInv, <1>1, PTL DEF Spec

\* Every variable keeps its type.
THEOREM TypeCorrect == Spec => []TypeOK
<1>1. IInv => TypeOK
  BY DEF IInv
<1>2. QED
  BY <1>1, Invariant, PTL

\* The taps keep the producers and the frame's end apart, for any period of 200
\* clocks or more and up to twelve readout channels.
THEOREM Apart == Spec => []OneSpeaker
<1>1. IInv => OneSpeaker
  BY Speakers DEF IInv
<1>2. QED
  BY <1>1, Invariant, PTL

\* With room for thirteen beats above the threshold the FIFO never overflows.
THEOREM NothingLost == Spec => []NoWordLost
<1>1. IInv => NoWordLost
  BY DEF IInv, RoomInv, NoWordLost
<1>2. QED
  BY <1>1, Invariant, PTL

-----------------------------------------------------------------------------
(* The parser, its recursion unfolded                                       *)

Below == {ss \in Nat \X Nat : ss[1] < ss[2]}

LEMMA BelowWF == IsWellFoundedOn(Below, Nat)
  BY NatLessThanWellFounded, Zenon DEF OpToRel, Below

\* Every set of natural numbers that is not empty has a least element: what
\* the proofs below use in place of induction.
LEMMA Least ==
    ASSUME NEW T \in SUBSET Nat, T # {}
    PROVE  \E n \in T : \A k \in T : n <= k
<1>1. PICK n \in T : \A k \in T : ~ (<<k, n>> \in Below)
  BY BelowWF, WFMin
<1>2. ASSUME NEW k \in T PROVE n <= k
  <2>1. ~(k < n)
    BY <1>1 DEF Below
  <2>2. QED
    BY <2>1
<1>3. QED
  BY <1>2

\* g is what Parse defines by recursion, from the word n before the last on.
ParseIs(w, n, g) ==
    g = [i \in (Len(w) + 1 - n) .. (Len(w) + Words.event) |->
           IF i > Len(w) THEN <<"overrun">>
           ELSE IF w[i].kind = "end" THEN <<>>
           ELSE IF Strange(w, i) THEN <<"unknown">>
           ELSE <<Entry(w, i)>> \o g[i + MsgSize[w[i].kind]]]

LEMMA Sizes ==
    /\ Words.event = 23 /\ \A k \in {"control", "summary", "event"} : MsgSize[k] \in {11, 23}
    /\ MsgSize["control"] = 11 /\ MsgSize["summary"] = 11 /\ MsgSize["event"] = 23
<1>1. 44 \div 4 = 11 /\ 92 \div 4 = 23
  OBVIOUS
<1>2. QED
  BY <1>1 DEF Words, MsgSize

LEMMA ParseExists ==
    ASSUME NEW w, Len(w) \in Nat, \A i \in 1 .. Len(w) : w[i].kind \in Kinds
    PROVE  \A n \in 0 .. Len(w) : \E g : ParseIs(w, n, g)
<1> DEFINE L == Len(w)
           E == L + 23
           T == {n \in 0 .. L : ~ \E g : ParseIs(w, n, g)}
           body(g, i) == IF i > L THEN <<"overrun">>
                         ELSE IF w[i].kind = "end" THEN <<>>
                         ELSE IF Strange(w, i) THEN <<"unknown">>
                         ELSE <<Entry(w, i)>> \o g[i + MsgSize[w[i].kind]]
<1>1. T \in SUBSET Nat /\ T \subseteq 0 .. L /\ \A n \in 0 .. L : n \in T <=> ~ \E g : ParseIs(w, n, g)
  OBVIOUS
<1>2. \A n, g : ParseIs(w, n, g) <=> g = [i \in (L + 1 - n) .. E |-> body(g, i)]
  BY Sizes DEF ParseIs
<1>3. ASSUME NEW i \in Nat, i <= L, i > 0, w[i].kind # "end"
      PROVE  i + MsgSize[w[i].kind] \in (i + 1) .. E
  <2>1. w[i].kind \in {"control", "summary", "event"}
    BY <1>3 DEF Kinds
  <2>2. MsgSize[w[i].kind] \in {11, 23}
    BY <2>1, Sizes
  <2> DEFINE z == MsgSize[w[i].kind]
  <2> HIDE DEF z
  <2>3. z \in {11, 23} => i + z \in (i + 1) .. E
    BY <1>3
  <2>4. QED
    BY <2>2, <2>3 DEF z
<1> HIDE DEF T
<1> SUFFICES ASSUME T # {} PROVE FALSE
  BY <1>1
<1>4. PICK n \in T : \A k \in T : n <= k
  BY <1>1, Least
<1>5. CASE n = 0
  <2> DEFINE g == [i \in (L + 1 - n) .. E |-> <<"overrun">>]
  <2>1. L + 1 - n = L + 1 /\ \A i \in (L + 1) .. E : i > L
    BY <1>5
  <2>2. g = [i \in (L + 1 - n) .. E |-> body(g, i)]
    BY <2>1
  <2>3. ParseIs(w, n, g)
    BY <1>2, <2>2, Zenon
  <2>4. QED
    BY <1>1, <1>5, <2>3
<1>6. CASE n # 0
  <2> DEFINE m == L + 1 - n
  <2>1. n \in Nat /\ n - 1 \in 0 .. L /\ n - 1 \notin T /\ m \in Nat /\ m + 1 = L + 1 - (n - 1) /\ m <= L /\ m > 0
    BY <1>1, <1>4, <1>6
  <2>2. PICK q : ParseIs(w, n - 1, q)
    BY <1>1, <2>1
  <2>3. q = [i \in (m + 1) .. E |-> body(q, i)]
    <3>1. q = [i \in (L + 1 - (n - 1)) .. E |-> body(q, i)]
      BY <1>2, <2>2, Zenon
    <3>2. QED
      BY <2>1, <3>1
  <2> DEFINE g  == [i \in m .. E |-> IF i = m THEN body(q, m) ELSE q[i]]
             g2 == [i \in m .. E |-> body(g, i)]
  <2>4. \A i \in (m + 1) .. E : g[i] = q[i] /\ q[i] = body(q, i)
    <3>1. ASSUME NEW i \in (m + 1) .. E PROVE g[i] = q[i]
      BY <2>1
    <3>2. ASSUME NEW i \in (m + 1) .. E PROVE q[i] = body(q, i)
      BY <2>3, Zenon
    <3>3. QED
      BY <3>1, <3>2
  <2>5. ASSUME NEW i \in m .. E PROVE g[i] = g2[i]
    <3> DEFINE j == i + MsgSize[w[i].kind]
    <3>1. ASSUME i <= L, w[i].kind # "end" PROVE g[j] = q[j]
      <4>1. i \in Nat /\ i > 0 /\ i >= m
        BY <2>1
      <4>2. j \in (i + 1) .. E
        BY <1>3, <3>1, <4>1
      <4> HIDE DEF j, g
      <4>3. j \in (m + 1) .. E
        BY <2>1, <4>1, <4>2
      <4>4. QED
        BY <2>4, <4>3
    <3>2. body(g, i) = body(q, i)
      <4> HIDE DEF g
      <4>1. CASE i > L
        BY <4>1
      <4>2. CASE ~(i > L) /\ w[i].kind = "end"
        BY <4>2
      <4>3. CASE ~(i > L) /\ w[i].kind # "end"
        <5>1. g[j] = q[j]
          BY <2>1, <3>1, <4>3
        <5>2. QED
          BY <5>1, Zenon
      <4>4. QED
        BY <4>1, <4>2, <4>3
    <3>3. g2[i] = body(g, i)
      OBVIOUS
    <3>4. g[i] = body(q, i)
      <4>1. CASE i = m
        BY <4>1
      <4>2. CASE i # m
        <5> HIDE DEF g, m, body
        <5>1. i \in (m + 1) .. E
          BY <2>1, <4>2
        <5> USE DEF body
        <5>2. QED
          BY <2>4, <5>1
      <4>3. QED
        BY <4>1, <4>2
    <3>5. QED
      BY <3>2, <3>3, <3>4
  <2>6. g = [i \in m .. E |-> g[i]] /\ g2 = [i \in m .. E |-> g2[i]]
    OBVIOUS
  <2>7. g = g2
    <3> HIDE DEF g, g2
    <3>1. QED
      BY <2>5, <2>6
  <2>8. ParseIs(w, n, g)
    <3>1. g = [i \in (L + 1 - n) .. E |-> body(g, i)]
      BY <2>7
    <3> HIDE DEF g
    <3>2. QED
      BY <1>2, <3>1, Zenon
  <2>9. QED
    BY <1>1, <2>8
<1>7. QED
  BY <1>5, <1>6

\* Parse, from each word on.
From(w) == CHOOSE g : ParseIs(w, Len(w), g)

LEMMA ParseStep ==
    ASSUME NEW w, Len(w) \in Nat, \A i \in 1 .. Len(w) : w[i].kind \in Kinds
    PROVE  /\ Parse(w) = From(w)[1]
           /\ \A i \in 1 .. Len(w) :
                From(w)[i] = IF w[i].kind = "end" THEN <<>>
                             ELSE IF Strange(w, i) THEN <<"unknown">>
                             ELSE <<Entry(w, i)>> \o From(w)[i + MsgSize[w[i].kind]]
<1>1. ParseIs(w, Len(w), From(w))
  <2>1. \E g : ParseIs(w, Len(w), g)
    BY ParseExists
  <2>2. QED
    BY <2>1, Zenon DEF From
<1>2. Len(w) + 1 - Len(w) = 1
  OBVIOUS
<1>3. Parse(w) = From(w)[1]
  BY <1>2, Zenon DEF Parse, From, ParseIs
<1> DEFINE R == From(w)
<1> HIDE DEF R
<1>4. R = [i \in 1 .. (Len(w) + Words.event) |->
           IF i > Len(w) THEN <<"overrun">>
           ELSE IF w[i].kind = "end" THEN <<>>
           ELSE IF Strange(w, i) THEN <<"unknown">>
           ELSE <<Entry(w, i)>> \o R[i + MsgSize[w[i].kind]]]
  BY <1>1, <1>2 DEF ParseIs, R
<1>5. ASSUME NEW i \in 1 .. Len(w)
      PROVE  R[i] = IF w[i].kind = "end" THEN <<>>
                    ELSE IF Strange(w, i) THEN <<"unknown">>
                    ELSE <<Entry(w, i)>> \o R[i + MsgSize[w[i].kind]]
  <2>1. i \in 1 .. (Len(w) + Words.event) /\ ~(i > Len(w))
    BY Sizes
  <2>2. QED
    BY <1>4, <2>1, Zenon
<1>6. QED
  BY <1>3, <1>5 DEF R

-----------------------------------------------------------------------------
(* A whole frame, and what the parser makes of it                           *)

Size(kind) == IF kind = "event" THEN 23 ELSE 11

\* The j-th word of a message m; d: it starts a frame that follows a loss.
WordOf(m, j, d) == [kind |-> m.kind, i |-> j, channels |-> IF j = 1 THEN m.channels ELSE {},
                    lcls |-> ~ModeSel /\ j = 1, drop |-> d /\ j = 1]

\* w is as much of the messages ms as it is long. All but an event are of eleven words.
Spoken(w, ms, l) ==
    \A i \in 1 .. Len(ms) : \A j \in 1 .. Size(ms[i].kind) :
      11 * (i - 1) + j <= Len(w) => w[11 * (i - 1) + j] = WordOf(ms[i], j, l /\ i = 1)

Total(ms) == 11 * (Len(ms) - 1) + Size(ms[Len(ms)].kind)

\* w is the frame that is due as d.
Whole(w, d) ==
    /\ d.messages \in Seq(Messages) /\ Len(d.messages) \in 1 .. 3 /\ d.lost \in BOOLEAN
    /\ \A i \in 1 .. (Len(d.messages) - 1) : d.messages[i].kind # "event"
    /\ Len(w) = Total(d.messages) + 1 /\ Spoken(w, d.messages, d.lost)
    /\ w[Len(w)].kind = "end"

LEMMA Positions ==
    ASSUME NEW n \in 1 .. 3, NEW s \in {11, 23}, NEW p \in 1 .. (11 * (n - 1) + s)
    PROVE  \E k \in 1 .. n : p - 11 * (k - 1) \in 1 .. (IF k = n THEN s ELSE 11)
<1>1. CASE p <= 11 \/ n = 1
  <2>1. p - 11 * (1 - 1) \in 1 .. (IF 1 = n THEN s ELSE 11) /\ 1 \in 1 .. n
    BY <1>1
  <2>2. QED
    BY <2>1
<1>2. CASE p > 11 /\ n # 1 /\ (p <= 22 \/ n = 2)
  <2>1. p - 11 * (2 - 1) \in 1 .. (IF 2 = n THEN s ELSE 11) /\ 2 \in 1 .. n
    BY <1>2
  <2>2. QED
    BY <2>1
<1>3. CASE p > 22 /\ n = 3
  <2>1. p - 11 * (3 - 1) \in 1 .. (IF 3 = n THEN s ELSE 11) /\ 3 \in 1 .. n
    BY <1>3
  <2>2. QED
    BY <2>1
<1>4. QED
  BY <1>1, <1>2, <1>3

LEMMA WordIs ==
    ASSUME NEW m, NEW j, NEW d
    PROVE  WordOf(m, j, d).kind = m.kind /\ WordOf(m, j, d).i = j
  BY DEF WordOf

LEMMA MessageIs ==
    ASSUME NEW m \in Messages
    PROVE  /\ m.kind \in {"control", "summary", "event"} /\ m.kind \in Kinds /\ m.kind # "end"
           /\ m.channels \subseteq Channels
           /\ Size(m.kind) \in {11, 23} /\ MsgSize[m.kind] = Size(m.kind) /\ (m.kind # "event" => Size(m.kind) = 11)
  BY Sizes DEF Messages, Kinds, Size

\* A whole frame's words, and what the parser makes of them.
LEMMA WholeWords ==
    ASSUME NEW w, NEW d, Whole(w, d)
    PROVE  /\ Len(w) \in Nat /\ \A i \in 1 .. Len(w) : w[i].kind \in Kinds
           /\ \A i \in 1 .. Len(d.messages) :
                LET q == 11 * (i - 1) + 1
                    m == d.messages[i]
                IN /\ q \in 1 .. Len(w) /\ ~Strange(w, q) /\ w[q].kind = m.kind /\ m.kind # "end"
                   /\ Entry(w, q) = Found(m, i, d.lost)
                   /\ q + MsgSize[m.kind] = IF i = Len(d.messages) THEN Len(w) ELSE 11 * i + 1
<1> DEFINE ms == d.messages
           n == Len(ms)
           L == Len(w)
           s == Size(ms[n].kind)
<1>1. n \in 1 .. 3 /\ \A i \in 1 .. n : ms[i] \in Messages
  BY DEF Whole
<1>2. s \in {11, 23} /\ L = 11 * (n - 1) + s + 1 /\ L \in Nat
  <2>1. s \in {11, 23}
    BY <1>1, MessageIs
  <2>2. L = 11 * (n - 1) + s + 1
    BY DEF Whole, Total
  <2> HIDE DEF s, n, L
  <2>3. L \in Nat
    BY <1>1, <2>1, <2>2
  <2>4. QED
    BY <2>1, <2>2, <2>3
<1>3. \A i \in 1 .. n : Size(ms[i].kind) = IF i = n THEN s ELSE 11
  <2>1. \A i \in 1 .. (n - 1) : ms[i].kind # "event"
    BY DEF Whole
  <2>2. QED
    BY <1>1, <2>1, MessageIs
<1>4. ASSUME NEW i \in 1 .. n, NEW j \in 1 .. (IF i = n THEN s ELSE 11)
      PROVE  11 * (i - 1) + j \in 1 .. (L - 1) /\ w[11 * (i - 1) + j] = WordOf(ms[i], j, d.lost /\ i = 1)
  <2>1. 11 * (i - 1) + j \in 1 .. (L - 1) /\ 11 * (i - 1) + j <= L
    <3> HIDE DEF s, n, L
    <3>1. QED
      BY <1>1, <1>2
  <2>2. j \in 1 .. Size(ms[i].kind)
    BY <1>3
  <2>3. QED
    BY <2>1, <2>2 DEF Whole, Spoken
<1>5. ASSUME NEW p \in 1 .. L PROVE w[p].kind \in Kinds
  <2>1. CASE p = L
    BY <2>1 DEF Whole, Kinds
  <2>2. CASE p # L
    <3>0. p \in 1 .. (11 * (n - 1) + s)
      <4> HIDE DEF s, n, L
      <4>1. QED
        BY <1>1, <1>2, <2>2
    <3>1. PICK k \in 1 .. n : p - 11 * (k - 1) \in 1 .. (IF k = n THEN s ELSE 11)
      <4> HIDE DEF s, n, L
      <4>1. QED
        BY <1>1, <1>2, <3>0, Positions
    <3> DEFINE j == p - 11 * (k - 1)
    <3>2. w[11 * (k - 1) + j] = WordOf(ms[k], j, d.lost /\ k = 1)
      <4> HIDE DEF j
      <4>1. j \in 1 .. (IF k = n THEN s ELSE 11)
        BY <3>1 DEF j
      <4>2. QED
        BY <1>4, <4>1
    <3>3. 11 * (k - 1) + j = p
      BY <1>1
    <3> HIDE DEF j, ms
    <3>4. w[p].kind = ms[k].kind
      BY <3>2, <3>3, WordIs
    <3> USE DEF ms
    <3>5. QED
      BY <1>1, <3>4, MessageIs
  <2>3. QED
    BY <2>1, <2>2
<1>6. ASSUME NEW i \in 1 .. n
      PROVE  LET q == 11 * (i - 1) + 1
                 m == ms[i]
             IN /\ q \in 1 .. L /\ ~Strange(w, q) /\ w[q].kind = m.kind /\ m.kind # "end"
                /\ Entry(w, q) = Found(m, i, d.lost)
                /\ q + MsgSize[m.kind] = IF i = n THEN L ELSE 11 * i + 1
  <2> DEFINE q == 11 * (i - 1) + 1
             m == ms[i]
             z == IF i = n THEN s ELSE 11
  <2>1. m \in Messages /\ MsgSize[m.kind] = z /\ z \in {11, 23} /\ Size(m.kind) = z /\ m.kind # "end"
    BY <1>1, <1>2, <1>3, MessageIs
  <2>2. q \in 1 .. L /\ q # L /\ q + z = (IF i = n THEN L ELSE 11 * i + 1) /\ q + z - 1 <= L /\ q \in Nat /\ L \in Nat
    <3> HIDE DEF s, n, L
    <3>1. QED
      BY <1>1, <1>2
  <2>3. \A j \in 1 .. z : w[q + j - 1] = WordOf(m, j, d.lost /\ i = 1)
    <3>1. \A j \in 1 .. z : q + j - 1 = 11 * (i - 1) + j
      BY <1>1, <2>1
    <3>2. QED
      BY <1>4, <3>1
  <2>4. w[q] = WordOf(m, 1, d.lost /\ i = 1)
    <3>1. 1 \in 1 .. z /\ q + 1 - 1 = q
      BY <2>1, <2>2
    <3>2. QED
      BY <2>3, <3>1
  <2>5. w[q + 1] = WordOf(m, 2, d.lost /\ i = 1)
    <3>1. 2 \in 1 .. z /\ q + 2 - 1 = q + 1
      BY <2>1, <2>2
    <3>2. QED
      BY <2>3, <3>1
  <2> HIDE DEF q, z, m, L
  <2>6. ~Strange(w, q)
    BY <2>2, <2>4, <2>5 DEF Strange, WordOf, L
  <2>7. /\ w[q].kind = m.kind /\ w[q].channels = m.channels /\ w[q].lcls = ~ModeSel
        /\ w[q].drop = (d.lost /\ i = 1)
    <3>1. (d.lost /\ i = 1) \in BOOLEAN
      OBVIOUS
    <3>2. QED
      BY <2>4, ModeAssumption DEF WordOf
  <2>8. Entry(w, q) = Found(m, i, d.lost)
    <3>1. \A j \in 1 .. MsgSize[w[q].kind] : w[q + j - 1].kind = w[q].kind /\ w[q + j - 1].i = j
      <4>1. MsgSize[w[q].kind] = z
        BY <2>1, <2>7
      <4>2. \A j \in 1 .. z : w[q + j - 1].kind = m.kind /\ w[q + j - 1].i = j
        BY <2>3, WordIs
      <4>3. QED
        BY <2>7, <4>1, <4>2
    <3>2. q + MsgSize[w[q].kind] - 1 <= Len(w)
      BY <2>1, <2>2, <2>7 DEF L
    <3>3. QED
      BY <2>7, <3>1, <3>2 DEF Entry, Found
  <2>9. QED
    BY <2>1, <2>2, <2>6, <2>7, <2>8 DEF q, m, L
<1>7. QED
  BY <1>2, <1>5, <1>6

LEMMA ConsTwo == ASSUME NEW a, NEW b PROVE <<a>> \o <<b>> = <<a, b>>
<1> DEFINE S == {a, b}
           l == <<a>> \o <<b>>
           r == <<a, b>>
<1>1. <<a>> \in Seq(S) /\ <<b>> \in Seq(S) /\ r \in Seq(S) /\ Len(r) = 2 /\ r[1] = a /\ r[2] = b
  OBVIOUS
<1>2. l \in Seq(S) /\ Len(l) = 2 /\ l[1] = a /\ l[2] = b
  BY <1>1, ConcatProperties
<1> HIDE DEF l, r
<1>3. \A i \in 1 .. 2 : l[i] = r[i]
  BY <1>1, <1>2
<1>4. l = r
  BY <1>1, <1>2, <1>3, SeqEqual
<1>5. QED
  BY <1>4 DEF l, r

LEMMA ConsThree == ASSUME NEW a, NEW b, NEW c PROVE <<a>> \o <<b, c>> = <<a, b, c>>
<1> DEFINE S == {a, b, c}
           l == <<a>> \o <<b, c>>
           r == <<a, b, c>>
<1>1. <<a>> \in Seq(S) /\ <<b, c>> \in Seq(S) /\ r \in Seq(S) /\ Len(r) = 3 /\ r[1] = a /\ r[2] = b /\ r[3] = c
  OBVIOUS
<1>2. l \in Seq(S) /\ Len(l) = 3 /\ l[1] = a /\ l[2] = b /\ l[3] = c
  BY <1>1, ConcatProperties
<1> HIDE DEF l, r
<1>3. \A i \in 1 .. 3 : l[i] = r[i]
  BY <1>1, <1>2
<1>4. l = r
  BY <1>1, <1>2, <1>3, SeqEqual
<1>5. QED
  BY <1>4 DEF l, r

LEMMA ParseWhole ==
    ASSUME NEW w, NEW d, Whole(w, d)
    PROVE  Parse(w) = [i \in DOMAIN d.messages |-> Found(d.messages[i], i, d.lost)]
<1> DEFINE ms == d.messages
           n == Len(ms)
           R == From(w)
           f(i) == Found(ms[i], i, d.lost)
<1>1. n \in 1 .. 3 /\ DOMAIN ms = 1 .. n
  BY DEF Whole
<1>2. R[Len(w)] = <<>>
  <2>1. w[Len(w)].kind = "end" /\ Len(w) \in Nat /\ Len(w) > 0 /\ \A i \in 1 .. Len(w) : w[i].kind \in Kinds
    <3>1. 1 \in 1 .. n
      BY <1>1
    <3>2. Len(w) \in Nat /\ \A i \in 1 .. Len(w) : w[i].kind \in Kinds
      BY WholeWords
    <3>3. 11 * (1 - 1) + 1 \in 1 .. Len(w)
      BY <3>1, WholeWords
    <3>4. QED
      BY <3>2, <3>3 DEF Whole
  <2>2. Len(w) \in 1 .. Len(w)
    BY <2>1
  <2>3. QED
    BY <2>1, <2>2, ParseStep
<1>3. ASSUME NEW i \in 1 .. n
      PROVE  R[11 * (i - 1) + 1] = <<f(i)>> \o R[IF i = n THEN Len(w) ELSE 11 * i + 1]
  <2> DEFINE q == 11 * (i - 1) + 1
  <2>1. /\ q \in 1 .. Len(w) /\ ~Strange(w, q) /\ w[q].kind = ms[i].kind /\ ms[i].kind # "end"
        /\ Entry(w, q) = f(i)
        /\ q + MsgSize[ms[i].kind] = IF i = n THEN Len(w) ELSE 11 * i + 1
    BY WholeWords
  <2>2. Len(w) \in Nat /\ \A k \in 1 .. Len(w) : w[k].kind \in Kinds
    BY WholeWords
  <2> HIDE DEF q, f
  <2>3. R[q] = <<Entry(w, q)>> \o R[q + MsgSize[w[q].kind]]
    BY <2>1, <2>2, ParseStep
  <2>4. QED
    BY <2>1, <2>3 DEF q
<1>4. Parse(w) = R[1]
  BY WholeWords, ParseStep
<1> HIDE DEF R, f, n
<1>5. CASE n = 1
  <2>1. R[1] = <<f(1)>> \o <<>>
    BY <1>2, <1>3, <1>5
  <2>2. <<f(1)>> \o <<>> = <<f(1)>>
    OBVIOUS
  <2>3. <<f(1)>> = [i \in 1 .. 1 |-> f(i)]
    OBVIOUS
  <2>4. QED
    BY <1>1, <1>4, <1>5, <2>1, <2>2, <2>3 DEF f
<1>6. CASE n = 2
  <2>1. R[1] = <<f(1)>> \o (<<f(2)>> \o <<>>)
    <3>1. R[12] = <<f(2)>> \o <<>>
      BY <1>2, <1>3, <1>6
    <3>2. R[1] = <<f(1)>> \o R[12]
      BY <1>3, <1>6
    <3>3. QED
      BY <3>1, <3>2
  <2>2. <<f(1)>> \o (<<f(2)>> \o <<>>) = <<f(1), f(2)>>
    <3>1. <<f(2)>> \o <<>> = <<f(2)>>
      OBVIOUS
    <3>2. <<f(1)>> \o <<f(2)>> = <<f(1), f(2)>>
      BY ConsTwo
    <3>3. QED
      BY <3>1, <3>2
  <2>3. <<f(1), f(2)>> = [i \in 1 .. 2 |-> f(i)]
    OBVIOUS
  <2>4. QED
    BY <1>1, <1>4, <1>6, <2>1, <2>2, <2>3 DEF f
<1>7. CASE n = 3
  <2>1. R[1] = <<f(1)>> \o (<<f(2)>> \o (<<f(3)>> \o <<>>))
    <3>1. R[23] = <<f(3)>> \o <<>>
      BY <1>2, <1>3, <1>7
    <3>2. R[12] = <<f(2)>> \o R[23]
      BY <1>3, <1>7
    <3>3. R[1] = <<f(1)>> \o R[12]
      BY <1>3, <1>7
    <3>4. QED
      BY <3>1, <3>2, <3>3
  <2>2. <<f(1)>> \o (<<f(2)>> \o (<<f(3)>> \o <<>>)) = <<f(1), f(2), f(3)>>
    <3>1. <<f(3)>> \o <<>> = <<f(3)>>
      OBVIOUS
    <3>2. <<f(2)>> \o <<f(3)>> = <<f(2), f(3)>>
      BY ConsTwo
    <3>3. <<f(1)>> \o <<f(2), f(3)>> = <<f(1), f(2), f(3)>>
      BY ConsThree
    <3>4. QED
      BY <3>1, <3>2, <3>3
  <2>3. <<f(1), f(2), f(3)>> = [i \in 1 .. 3 |-> f(i)]
    OBVIOUS
  <2>4. QED
    BY <1>1, <1>4, <1>7, <2>1, <2>2, <2>3 DEF f
<1>8. QED
  BY <1>1, <1>5, <1>6, <1>7

-----------------------------------------------------------------------------
(* What the producers say, and what is heard of it                          *)

\* The clock at which a message's first word is at its producer's output.
Start(kind) == IF kind = "control" THEN 3 ELSE IF kind = "summary" THEN SummaryAt + 5 ELSE EventAt + 2
Said == said[Len(said)]
Speaking(kind) == said # <<>> /\ Said.kind = kind

SaidInv ==
    /\ said \in Seq(Messages)
    /\ said # <<>> => clock \in 2 .. 199
    /\ Len(said) <= IF clock < SummaryAt + 5 THEN 1 ELSE IF clock < EventAt + 2 THEN 2 ELSE 3
    /\ \A i \in 1 .. Len(said) : said[i].kind # "control" => clock >= Start(said[i].kind)
    /\ \A i \in 1 .. Len(said) : i < Len(said) => Start(said[i].kind) < Start(Said.kind) /\ said[i].kind # "event"

ControlTells ==
    /\ clock \in 2 .. 12 => ctl = IF Speaking("control") THEN clock - 1 ELSE 0
    /\ clock \in 3 .. 13 => ctlOut = IF Speaking("control") THEN Word("control", clock - 2, {}) ELSE None
    /\ Speaking("control") => Said.channels = {}
SummaryTells ==
    /\ clock \in (SummaryAt + 5) .. (SummaryAt + 14) => sum = IF Speaking("summary") THEN clock - SummaryAt - 3 ELSE 0
    /\ clock \in (SummaryAt + 5) .. (SummaryAt + 15) =>
         sumOut = IF Speaking("summary")
                  THEN Word("summary", clock - SummaryAt - 4, IF clock = SummaryAt + 5 THEN Said.channels ELSE {})
                  ELSE None
EventTells ==
    /\ evt # 1
    /\ clock = 1 => channels = {}
    /\ clock \in 2 .. (EventAt + 1) => channels = dmaSel
    /\ clock \in (EventAt + 2) .. (EventAt + 23) => evt = IF Speaking("event") THEN clock - EventAt ELSE 0
    /\ clock \in (EventAt + 2) .. (EventAt + 24) =>
         evtOut = IF Speaking("event")
                  THEN Word("event", clock - EventAt - 1, IF clock = EventAt + 2 THEN Said.channels ELSE {})
                  ELSE None
SpeechInv == SaidInv /\ ControlTells /\ SummaryTells /\ EventTells

\* Where in its message the word is that comes to the stream.
Turn == clock - Start(Said.kind) + 1

Ending == smaster # None /\ smaster.kind = "end"
Heard  == said # <<>> /\ clock > Start(said[1].kind)
HeardInv ==
    /\ smaster # None /\ ~Ending => \/ clock \in 4 .. 14
                                    \/ clock \in (SummaryAt + 6) .. (SummaryAt + 16)
                                    \/ clock \in (EventAt + 3) .. (EventAt + 25)
    /\ said # <<>> /\ ~paused /\ Turn \in 2 .. (Size(Said.kind) + 1) => smaster # None
    /\ idle <=> paused \/ ~Heard
    /\ dropped <=> IF Heard THEN paused ELSE lost

\* The words of said that have come to the stream.
Told == IF paused \/ said = <<>> \/ Turn < 1 THEN 0
        ELSE 11 * (Len(said) - 1) + IF Turn > Size(Said.kind) THEN Size(Said.kind) ELSE Turn - 1

LEMMA SaidIs ==
    ASSUME TypeOK, SaidInv
    PROVE  /\ Len(said) \in Nat /\ clock \in Nat /\ (said = <<>> <=> Len(said) = 0)
           /\ said # <<>> => /\ Said \in Messages /\ Len(said) \in 1 .. 3 /\ said[1] \in Messages
                             /\ Start(Said.kind) \in Nat /\ Start(said[1].kind) \in Nat
                             /\ clock \in 2 .. 199 /\ (Said.kind # "control" => clock >= Start(Said.kind))
                             /\ Turn \in Int /\ (Len(said) = 1 => said[1] = Said)
<1>1. clock \in Nat /\ said \in Seq(Messages) /\ Len(said) \in Nat /\ (said = <<>> <=> Len(said) = 0)
  BY Taps DEF TypeOK, SaidInv
<1>2. ASSUME said # <<>>
      PROVE  /\ Said \in Messages /\ Len(said) \in 1 .. 3 /\ said[1] \in Messages
             /\ clock \in 2 .. 199 /\ (Said.kind # "control" => clock >= Start(Said.kind))
             /\ (Len(said) = 1 => said[1] = Said)
  <2>1. Len(said) <= 3
    BY <1>1 DEF SaidInv
  <2>2. Len(said) \in 1 .. 3 /\ Len(said) \in 1 .. Len(said) /\ 1 \in 1 .. Len(said)
    <3>1. PICK n \in Nat : n = Len(said)
      BY <1>1
    <3>2. n # 0 /\ n <= 3
      BY <1>1, <1>2, <2>1, <3>1
    <3>3. QED
      BY <3>1, <3>2
  <2>3. QED
    BY <1>1, <1>2, <2>2 DEF SaidInv, Said
<1>3. \A k : Start(k) \in Nat
  BY Taps DEF Start
<1>4. said # <<>> => Turn \in Int
  BY <1>1, <1>3 DEF Turn
<1>5. QED
  BY <1>1, <1>2, <1>3, <1>4

\* What the stream's input is at a clock: the current word of the message being said.
LEMMA ValidIs ==
    ASSUME TypeOK, WindowInv, SpeechInv
    PROVE  Valid = IF said # <<>> /\ Turn \in 1 .. Size(Said.kind)
                   THEN Word(Said.kind, Turn, IF Turn = 1 THEN Said.channels ELSE {}) ELSE None
<1>1. clock \in Nat /\ SummaryAt \in Nat /\ EventAt = SummaryAt + 15 /\ SummaryAt >= 15
  BY SaidIs, Taps DEF SpeechInv
<1>2. /\ ctlOut # None => clock \in 3 .. 13
      /\ sumOut # None => clock \in (SummaryAt + 5) .. (SummaryAt + 15)
      /\ evtOut # None => clock \in (EventAt + 2) .. (EventAt + 24)
  BY DEF WindowInv, ControlInv, SummaryInv, EventInv
<1>3. said # <<>> => /\ Said.kind \in {"control", "summary", "event"}
                     /\ (Said.kind # "control" => clock >= Start(Said.kind))
  BY SaidIs, MessageIs DEF SpeechInv
<1>4. /\ Speaking("control") => Turn = clock - 2 /\ Size(Said.kind) = 11 /\ Said.channels = {}
      /\ Speaking("summary") => Turn = clock - SummaryAt - 4 /\ Size(Said.kind) = 11
      /\ Speaking("event") => Turn = clock - EventAt - 1 /\ Size(Said.kind) = 23
  BY <1>1 DEF Speaking, Turn, Start, Size, SpeechInv, ControlTells
<1>5. CASE clock \in 3 .. 13
  <2>1. sumOut = None /\ evtOut = None
    BY <1>1, <1>2, <1>5
  <2>2. said # <<>> => Speaking("control")
    BY <1>1, <1>3, <1>5 DEF Speaking, Start
  <2>3. Valid = ctlOut
    BY <2>1 DEF Valid
  <2>4. ctlOut = IF Speaking("control") THEN Word("control", clock - 2, {}) ELSE None
    BY <1>5 DEF SpeechInv, ControlTells
  <2>5. CASE said = <<>>
    BY <2>3, <2>4, <2>5 DEF Speaking
  <2>6. CASE said # <<>>
    <3>1. Speaking("control") /\ Said.kind = "control" /\ Turn \in 1 .. Size(Said.kind) /\ Turn = clock - 2
      BY <1>1, <1>4, <1>5, <2>2, <2>6 DEF Speaking
    <3>2. Valid = Word(Said.kind, Turn, {})
      BY <2>3, <2>4, <3>1
    <3>3. (IF Turn = 1 THEN Said.channels ELSE {}) = {}
      BY <1>4, <3>1
    <3>4. QED
      BY <2>6, <3>1, <3>2, <3>3
  <2>7. QED
    BY <2>5, <2>6
<1>6. CASE clock \in (SummaryAt + 5) .. (SummaryAt + 15)
  <2>1. ctlOut = None /\ evtOut = None
    BY <1>1, <1>2, <1>6
  <2>2. Valid = sumOut
    BY <2>1 DEF Valid
  <2>3. sumOut = IF Speaking("summary")
                 THEN Word("summary", clock - SummaryAt - 4, IF clock = SummaryAt + 5 THEN Said.channels ELSE {})
                 ELSE None
    BY <1>6 DEF SpeechInv, SummaryTells
  <2>4. CASE Speaking("summary")
    <3>1. Said.kind = "summary" /\ said # <<>> /\ Turn \in 1 .. Size(Said.kind) /\ Turn = clock - SummaryAt - 4
          /\ (Turn = 1 <=> clock = SummaryAt + 5)
      BY <1>1, <1>4, <1>6, <2>4 DEF Speaking
    <3>2. QED
      BY <2>2, <2>3, <2>4, <3>1
  <2>5. CASE ~Speaking("summary")
    <3>1. ~(said # <<>> /\ Turn \in 1 .. Size(Said.kind))
      BY <1>1, <1>3, <1>4, <1>6, <2>5 DEF Speaking, Start
    <3>2. QED
      BY <2>2, <2>3, <2>5, <3>1
  <2>6. QED
    BY <2>4, <2>5
<1>7. CASE clock \in (EventAt + 2) .. (EventAt + 24)
  <2>1. ctlOut = None /\ sumOut = None
    BY <1>1, <1>2, <1>7
  <2>2. Valid = evtOut
    BY <2>1 DEF Valid
  <2>3. evtOut = IF Speaking("event")
                 THEN Word("event", clock - EventAt - 1, IF clock = EventAt + 2 THEN Said.channels ELSE {})
                 ELSE None
    BY <1>7 DEF SpeechInv, EventTells
  <2>4. CASE Speaking("event")
    <3>1. Said.kind = "event" /\ said # <<>> /\ Turn \in 1 .. Size(Said.kind) /\ Turn = clock - EventAt - 1
          /\ (Turn = 1 <=> clock = EventAt + 2)
      BY <1>1, <1>4, <1>7, <2>4 DEF Speaking
    <3>2. QED
      BY <2>2, <2>3, <2>4, <3>1
  <2>5. CASE ~Speaking("event")
    <3>1. ~(said # <<>> /\ Turn \in 1 .. Size(Said.kind))
      BY <1>1, <1>3, <1>4, <1>7, <2>5 DEF Speaking, Start
    <3>2. QED
      BY <2>2, <2>3, <2>5, <3>1
  <2>6. QED
    BY <2>4, <2>5
<1>8. CASE clock \notin 3 .. 13 /\ clock \notin (SummaryAt + 5) .. (SummaryAt + 15) /\ clock \notin (EventAt + 2) .. (EventAt + 24)
  <2>1. Valid = None
    BY <1>2, <1>8 DEF Valid
  <2>2. ~(said # <<>> /\ Turn \in 1 .. Size(Said.kind))
    BY <1>1, <1>3, <1>4, <1>8 DEF Speaking
  <2>3. QED
    BY <2>1, <2>2
<1>9. QED
  BY <1>5, <1>6, <1>7, <1>8

\* What a clock makes of the messages said: none at the frame's end, one more
\* when a producer sets out.
Adds(m) == said' = Append(said, m) /\ m \in Messages

LEMMA SaidStep ==
    ASSUME TypeOK, WindowInv, SpeechInv, Tick
    PROVE  /\ clock = 199 => said' = <<>>
           /\ clock # 199 => \/ /\ said' = said
                                /\ ctl = 0 => ctl' = 0
                                /\ sum # 1
                                /\ ~EventStarts
                             \/ Adds(Message("control", {})) /\ clock = 1 /\ ctl = 0 /\ ctl' = 1
                             \/ Adds(Message("summary", evtSelect)) /\ clock = SummaryAt + 4 /\ sum = 1
                             \/ Adds(Message("event", dmaSel)) /\ clock = EventAt + 1 /\ EventStarts
<1>1. /\ clock \in Nat /\ SummaryAt \in Nat /\ EventAt = SummaryAt + 15 /\ SummaryAt >= 15
      /\ (Strobe(FrameEndAt) <=> clock = 199) /\ said \in Seq(Messages)
      /\ ctl \in 0 .. 11 /\ EventAt <= 174
  BY SaidIs, Taps DEF SpeechInv, SaidInv, Strobe, TypeOK
<1>2. Record
  BY DEF Tick
<1>3. clock = 199 => said' = <<>>
  BY <1>1, <1>2 DEF Record
<1>4. ctl = 0 /\ ctl' = 1 => clock = 1
  BY ControlStep
<1>5. ctl = 0 => ctl' = 0 \/ ctl' = 1
  BY ControlStep
<1>6. sum = 1 => clock = SummaryAt + 4
  BY <1>1 DEF WindowInv, SummaryInv
<1>7. EventStarts => clock = EventAt + 1
  BY <1>1 DEF EventStarts, Strobe
<1>8. /\ Message("control", {}) \in Messages
      /\ Message("summary", evtSelect) \in Messages /\ Message("event", dmaSel) \in Messages
  BY DEF Message, Messages, TypeOK
<1>9. ASSUME clock # 199
      PROVE  said' = said \o ((IF ctl = 0 /\ ctl' = 1 THEN <<Message("control", {})>> ELSE <<>>)
               \o (IF sum = 1 THEN <<Message("summary", evtSelect)>> ELSE <<>>)
               \o (IF EventStarts THEN <<Message("event", dmaSel)>> ELSE <<>>))
  BY <1>1, <1>2, <1>9 DEF Record
<1>10. ASSUME NEW m \in Messages, clock # 199,
              said' = said \o <<m>>
       PROVE  Adds(m)
  <2>1. said \o <<m>> = Append(said, m)
    BY <1>1
  <2>2. QED
    BY <1>10, <2>1 DEF Adds
<1>11. ASSUME NEW x PROVE <<>> \o <<x>> \o <<>> = <<x>> /\ <<x>> \o <<>> \o <<>> = <<x>> /\ <<>> \o <<>> \o <<x>> = <<x>>
                          /\ <<>> \o <<>> \o <<>> = <<>>
  OBVIOUS
<1>12. ASSUME clock # 199
       PROVE  \/ said' = said /\ (ctl = 0 => ctl' = 0) /\ sum # 1 /\ ~EventStarts
              \/ Adds(Message("control", {})) /\ clock = 1 /\ ctl = 0 /\ ctl' = 1
              \/ Adds(Message("summary", evtSelect)) /\ clock = SummaryAt + 4 /\ sum = 1
              \/ Adds(Message("event", dmaSel)) /\ clock = EventAt + 1 /\ EventStarts
  <2>1. CASE ctl = 0 /\ ctl' = 1
    <3>1. clock = 1 /\ sum # 1 /\ ~EventStarts
      BY <1>1, <1>4, <1>6, <1>7, <2>1
    <3>2. said' = said \o (<<Message("control", {})>> \o <<>> \o <<>>)
      BY <1>9, <1>12, <2>1, <3>1
    <3>3. said' = said \o <<Message("control", {})>>
      BY <1>11, <3>2
    <3>4. QED
      BY <1>8, <1>10, <1>12, <2>1, <3>1, <3>3
  <2>2. CASE ~(ctl = 0 /\ ctl' = 1) /\ sum = 1
    <3>1. clock = SummaryAt + 4 /\ ~EventStarts
      BY <1>1, <1>6, <1>7, <2>2
    <3>2. said' = said \o (<<>> \o <<Message("summary", evtSelect)>> \o <<>>)
      BY <1>9, <1>12, <2>2, <3>1
    <3>3. said' = said \o <<Message("summary", evtSelect)>>
      BY <1>11, <3>2
    <3>4. QED
      BY <1>8, <1>10, <1>12, <2>2, <3>1, <3>3
  <2>3. CASE ~(ctl = 0 /\ ctl' = 1) /\ sum # 1 /\ EventStarts
    <3>1. said' = said \o (<<>> \o <<>> \o <<Message("event", dmaSel)>>)
      BY <1>9, <1>12, <2>3
    <3>2. said' = said \o <<Message("event", dmaSel)>>
      BY <1>11, <3>1
    <3>3. QED
      BY <1>7, <1>8, <1>10, <1>12, <2>3, <3>2
  <2>4. CASE ~(ctl = 0 /\ ctl' = 1) /\ sum # 1 /\ ~EventStarts
    <3>1. said' = said \o (<<>> \o <<>> \o <<>>)
      BY <1>9, <1>12, <2>4
    <3>2. said' = said
      BY <1>1, <1>11, <3>1
    <3>3. ctl = 0 => ctl' = 0
      BY <1>5, <2>4
    <3>4. QED
      BY <2>4, <3>2, <3>3
  <2>5. QED
    BY <2>1, <2>2, <2>3, <2>4
<1>13. QED
  BY <1>3, <1>12

LEMMA Added ==
    ASSUME SaidInv, NEW m, Adds(m)
    PROVE  /\ said' \in Seq(Messages) /\ said' # <<>> /\ Len(said') = Len(said) + 1
           /\ Said' = m /\ \A i \in 1 .. Len(said) : said'[i] = said[i]
<1>1. said \in Seq(Messages) /\ m \in Messages /\ said' = Append(said, m)
  BY DEF SaidInv, Adds
<1>2. PICK n \in Nat : n = Len(said)
  BY <1>1
<1>3. said' \in Seq(Messages) /\ Len(said') = n + 1 /\ said'[n + 1] = m /\ \A i \in 1 .. n : said'[i] = said[i]
  BY <1>1, <1>2, AppendProperties
<1>4. said' # <<>>
  BY <1>2, <1>3
<1>5. QED
  BY <1>2, <1>3, <1>4 DEF Said

\* When a message is added, those before it are complete.
LEMMA Complete ==
    ASSUME TypeOK, SaidInv, said # <<>>, clock \in {1, SummaryAt + 4, EventAt + 1}
    PROVE  /\ Turn > Size(Said.kind) /\ Said.kind # "event"
           /\ Start(Said.kind) < Start(IF clock = EventAt + 1 THEN "event" ELSE "summary") /\ clock > 1
           /\ Len(said) <= IF clock = EventAt + 1 THEN 2 ELSE 1
<1>1. /\ clock \in 2 .. 199 /\ SummaryAt \in Nat /\ EventAt = SummaryAt + 15 /\ SummaryAt >= 15 /\ Said \in Messages
      /\ Said.kind # "control" => clock >= Start(Said.kind)
  BY SaidIs, Taps
<1>2. Said.kind \in {"control", "summary", "event"}
  BY <1>1, MessageIs
<1>3. Len(said) <= IF clock = EventAt + 1 THEN 2 ELSE 1
  BY <1>1 DEF SaidInv
<1>4. CASE clock = SummaryAt + 4
  <2>1. Said.kind = "control"
    BY <1>1, <1>2, <1>4 DEF Start
  <2>2. QED
    BY <1>1, <1>3, <1>4, <2>1 DEF Start, Turn, Size
<1>5. CASE clock = EventAt + 1
  <2>1. Said.kind \in {"control", "summary"}
    BY <1>1, <1>2, <1>5 DEF Start
  <2>2. QED
    BY <1>1, <1>3, <1>5, <2>1 DEF Start, Turn, Size
<1>6. QED
  BY <1>1, <1>4, <1>5

LEMMA ClockNext ==
    ASSUME TypeOK, Tick
    PROVE  clock \in Nat /\ clock' \in Nat /\ (clock' > 0 => clock' = clock + 1) /\ (clock \in 0 .. 198 => clock' = clock + 1)
           /\ (clock' = 0 => clock >= 199)
  BY ClockStep, Taps DEF TypeOK

LEMMA SaidNext == ASSUME TypeOK, WindowInv, SpeechInv, Tick PROVE SaidInv'
<1>1. SummaryAt \in Nat /\ EventAt = SummaryAt + 15 /\ SummaryAt >= 15 /\ EventAt <= 174 /\ SaidInv
  BY Taps DEF SpeechInv
<1>2. clock \in Nat /\ clock' \in Nat /\ (clock \in 0 .. 198 => clock' = clock + 1)
  BY ClockNext
<1>3. CASE said' = <<>>
  <2>1. <<>> \in Seq(Messages) /\ Len(<<>>) = 0 /\ \A i \in 1 .. 0 : FALSE
    OBVIOUS
  <2>2. QED
    BY <1>1, <1>3, <2>1 DEF SaidInv
<1>4. CASE said' = said /\ said # <<>> /\ clock # 199
  <2>1. clock \in 2 .. 198 /\ clock' = clock + 1 /\ said \in Seq(Messages)
    BY <1>1, <1>2, <1>4 DEF SaidInv
  <2>2. Said' = Said
    BY <1>4 DEF Said
  <2>3. ASSUME NEW i \in 1 .. Len(said), said[i].kind # "control" PROVE clock' >= Start(said[i].kind)
    <3>1. clock >= Start(said[i].kind)
      BY <1>1, <2>3 DEF SaidInv
    <3>2. Start(said[i].kind) \in Nat
      BY Taps DEF Start
    <3>3. QED
      BY <2>1, <3>1, <3>2
  <2>4. Len(said) <= IF clock' < SummaryAt + 5 THEN 1 ELSE IF clock' < EventAt + 2 THEN 2 ELSE 3
    <3>1. PICK n \in Nat : n = Len(said)
      BY <2>1
    <3>2. n <= IF clock < SummaryAt + 5 THEN 1 ELSE IF clock < EventAt + 2 THEN 2 ELSE 3
      BY <1>1, <3>1 DEF SaidInv
    <3>3. n <= IF clock' < SummaryAt + 5 THEN 1 ELSE IF clock' < EventAt + 2 THEN 2 ELSE 3
      BY <1>1, <2>1, <3>2
    <3>4. QED
      BY <3>1, <3>3
  <2>5. \A i \in 1 .. Len(said) : i < Len(said) => Start(said[i].kind) < Start(Said.kind) /\ said[i].kind # "event"
    BY <1>1 DEF SaidInv
  <2>6. \A i \in 1 .. Len(said') : i < Len(said') => (Start(said[i].kind) < Start(Said.kind))' /\ said'[i].kind # "event"
    BY <1>4, <2>2, <2>5 DEF Start, SummaryAt, EventAt
  <2>7. \A i \in 1 .. Len(said') : said'[i].kind # "control" => (clock >= Start(said[i].kind))'
    BY <1>4, <2>3 DEF Start, SummaryAt, EventAt
  <2>8. QED
    BY <1>4, <2>1, <2>4, <2>6, <2>7 DEF SaidInv
<1>5. ASSUME NEW m \in Messages, Adds(m), clock \in {1, SummaryAt + 4, EventAt + 1},
             m.kind = IF clock = 1 THEN "control" ELSE IF clock = SummaryAt + 4 THEN "summary" ELSE "event"
      PROVE  SaidInv'
  <2>1. /\ said' \in Seq(Messages) /\ said' # <<>> /\ Len(said') = Len(said) + 1
        /\ Said' = m /\ \A i \in 1 .. Len(said) : said'[i] = said[i]
    BY <1>1, <1>5, Added
  <2>2. PICK n \in Nat : n = Len(said)
    BY <1>1 DEF SaidInv
  <2>3. clock' = clock + 1 /\ clock' \in 2 .. 199
    BY <1>1, <1>2, <1>5
  <2>4. said # <<>> => /\ Said.kind # "event" /\ clock # 1
                       /\ Start(Said.kind) < Start(m.kind)
                       /\ n <= IF clock = EventAt + 1 THEN 2 ELSE 1
    BY <1>1, <1>5, <2>2, Complete
  <2>5. said = <<>> <=> n = 0
    BY <1>1, <2>2 DEF SaidInv
  <2>6. n + 1 <= IF clock' < SummaryAt + 5 THEN 1 ELSE IF clock' < EventAt + 2 THEN 2 ELSE 3
    BY <1>1, <1>5, <2>2, <2>3, <2>4, <2>5
  <2>7. clock' >= Start(m.kind) \/ m.kind = "control"
    BY <1>1, <1>5, <2>3 DEF Start
  <2>8. ASSUME NEW i \in 1 .. n PROVE said'[i] = said[i] /\ (said[i].kind # "control" => clock' >= Start(said[i].kind))
                                      /\ Start(said[i].kind) < Start(m.kind) /\ said[i].kind # "event"
    <3>1. said[i].kind # "control" => clock >= Start(said[i].kind)
      BY <1>1, <2>2 DEF SaidInv
    <3>2. Start(said[i].kind) \in Nat /\ Start(Said.kind) \in Nat /\ Start(m.kind) \in Nat
      BY Taps DEF Start
    <3>3. said[i].kind # "control" => clock' >= Start(said[i].kind)
      BY <1>2, <2>3, <3>1, <3>2
    <3>4. i = n \/ (i < n /\ Start(said[i].kind) < Start(Said.kind) /\ said[i].kind # "event")
      BY <1>1, <2>2 DEF SaidInv
    <3>5. i = n => said[i] = Said
      BY <2>2 DEF Said
    <3>6. said # <<>>
      BY <2>2, <2>5
    <3>7. Start(said[i].kind) < Start(m.kind) /\ said[i].kind # "event"
      BY <2>4, <3>2, <3>4, <3>5, <3>6
    <3>8. said'[i] = said[i]
      BY <2>1, <2>2
    <3>9. QED
      BY <3>3, <3>7, <3>8
  <2>9. said'[n + 1] = m
    BY <2>1, <2>2 DEF Said
  <2>10. \A i \in 1 .. (n + 1) : said'[i].kind # "control" => clock' >= Start(said'[i].kind)
    <3>1. TAKE i \in 1 .. (n + 1)
    <3>2. CASE i = n + 1
      BY <2>7, <2>9, <3>2
    <3>3. CASE i # n + 1
      <4>1. i \in 1 .. n
        BY <3>3
      <4>2. QED
        BY <2>8, <4>1
    <3>4. QED
      BY <3>2, <3>3
  <2>11. \A i \in 1 .. (n + 1) : i < n + 1 => Start(said'[i].kind) < Start(m.kind) /\ said'[i].kind # "event"
    <3>1. \A i \in 1 .. (n + 1) : i < n + 1 => i \in 1 .. n
      OBVIOUS
    <3>2. QED
      BY <2>8, <3>1
  <2>12. QED
    BY <2>1, <2>2, <2>3, <2>6, <2>10, <2>11 DEF SaidInv, Start, SummaryAt, EventAt
<1>6. CASE clock = 199
  BY <1>3, <1>6, SaidStep
<1>7. CASE clock # 199
  <2>1. /\ Message("control", {}).kind = "control" /\ Message("summary", evtSelect).kind = "summary"
        /\ Message("event", dmaSel).kind = "event"
    BY DEF Message
  <2>2. CASE said' = said
    BY <1>3, <1>4, <1>7, <2>2
  <2>3. CASE Adds(Message("control", {})) /\ clock = 1
    BY <1>5, <2>1, <2>3 DEF Adds
  <2>4. CASE Adds(Message("summary", evtSelect)) /\ clock = SummaryAt + 4
    <3>1. clock # 1
      BY <1>1, <2>4
    <3>2. QED
      BY <1>5, <2>1, <2>4, <3>1 DEF Adds
  <2>5. CASE Adds(Message("event", dmaSel)) /\ clock = EventAt + 1
    <3>1. clock # 1 /\ clock # SummaryAt + 4
      BY <1>1, <2>5
    <3>2. QED
      BY <1>5, <2>1, <2>5, <3>1 DEF Adds
  <2>6. QED
    BY <1>7, <2>2, <2>3, <2>4, <2>5, SaidStep
<1>8. QED
  BY <1>6, <1>7

\* At the clock of a step, said stays as it is but where a producer sets out.
LEMMA Silent ==
    ASSUME TypeOK, WindowInv, SpeechInv, Tick, clock \notin {1, SummaryAt + 4, EventAt + 1, 199}
    PROVE  said' = said
BY SaidStep

LEMMA ControlTellsStep ==
    ASSUME TypeOK, WindowInv, SpeechInv, Tick
    PROVE  ControlTells'
<1>1. /\ clock \in Nat /\ clock' \in Nat /\ (clock' > 0 => clock' = clock + 1)
      /\ SummaryAt \in Nat /\ EventAt = SummaryAt + 15 /\ SummaryAt >= 15
      /\ ctl \in 0 .. 11
  BY ClockNext, Taps DEF TypeOK
<1>2. \A k : Speaking(k)' <=> said' # <<>> /\ Said'.kind = k
  BY DEF Speaking
<1>3. clock \in 2 .. 12 => said' = said /\ (\A k : Speaking(k)' <=> Speaking(k)) /\ Said' = Said
  BY <1>1, Silent DEF Speaking, Said
<1>4. CASE clock = 1
  <2>1. ctl = 0 /\ said = <<>>
    BY <1>1, <1>4 DEF WindowInv, ControlInv, SpeechInv, SaidInv
  <2>2. CASE said' = said /\ ctl' = 0
    BY <1>1, <1>2, <1>4, <2>1, <2>2 DEF ControlTells
  <2>3. CASE Adds(Message("control", {})) /\ ctl' = 1
    <3>1. said' # <<>> /\ Said' = Message("control", {})
      BY <2>3, Added DEF SpeechInv
    <3>2. Said'.kind = "control" /\ Said'.channels = {}
      BY <3>1 DEF Message
    <3>3. Speaking("control")'
      BY <1>2, <3>1, <3>2
    <3>4. QED
      BY <1>1, <1>4, <2>3, <3>2, <3>3 DEF ControlTells
  <2>4. QED
    BY <1>1, <1>4, <2>1, <2>2, <2>3, SaidStep
<1>5. CASE clock \in 2 .. 12
  <2>1. ctlOut' = IF ctl = 0 THEN None ELSE Word("control", ctl, {})
    BY DEF Tick, Control
  <2>2. ctl = IF Speaking("control") THEN clock - 1 ELSE 0
    BY <1>5 DEF SpeechInv, ControlTells
  <2>3. Speaking("control") => Said.channels = {}
    BY DEF SpeechInv, ControlTells
  <2>4. clock' = clock + 1
    BY <1>5, <1>1, ClockNext
  <2>5. CASE Speaking("control")
    <3>1. ctl = clock - 1 /\ ctl # 0 /\ ctl' = IF ctl = 11 THEN 0 ELSE ctl + 1
      BY <1>1, <1>5, <2>2, <2>5, ControlStep
    <3>2. ctlOut' = Word("control", clock' - 2, {})
      BY <1>1, <2>1, <2>4, <3>1
    <3>3. clock' \in 2 .. 12 => ctl' = clock' - 1
      BY <1>1, <2>4, <3>1
    <3>4. Speaking("control")' /\ Said'.channels = {}
      BY <1>3, <1>5, <2>3, <2>5
    <3>5. QED
      BY <3>2, <3>3, <3>4 DEF ControlTells
  <2>6. CASE ~Speaking("control")
    <3>1. ctl = 0 /\ ctl' = 0 /\ ctlOut' = None
      BY <1>1, <1>5, <2>2, <2>6, ControlStep
    <3>2. ~Speaking("control")'
      BY <1>3, <1>5, <2>6
    <3>3. QED
      BY <3>1, <3>2 DEF ControlTells
  <2>7. QED
    BY <2>5, <2>6
<1>6. CASE clock \notin 1 .. 12
  <2>1. clock' \notin 2 .. 13
    BY <1>1, <1>6
  <2>2. Speaking("control")' => Said'.channels = {}
    <3>1. CASE said' = <<>>
      BY <1>2, <3>1
    <3>2. CASE said' = said
      <4>1. (Speaking("control")' <=> Speaking("control")) /\ Said' = Said
        BY <3>2 DEF Speaking, Said
      <4>2. QED
        BY <4>1 DEF SpeechInv, ControlTells
    <3>3. ASSUME NEW m, Adds(m), m.kind # "control" PROVE ~Speaking("control")'
      BY <1>2, <3>3, Added DEF SpeechInv
    <3>4. Message("summary", evtSelect).kind # "control" /\ Message("event", dmaSel).kind # "control"
      BY DEF Message
    <3>5. QED
      BY <1>1, <1>6, <3>1, <3>2, <3>3, <3>4, SaidStep
  <2>3. clock' \notin 2 .. 12 /\ clock' \notin 3 .. 13
    BY <2>1
  <2>4. QED
    BY <2>2, <2>3 DEF ControlTells
<1>7. QED
  BY <1>1, <1>4, <1>5, <1>6

LEMMA SummaryTellsStep ==
    ASSUME TypeOK, WindowInv, SpeechInv, Tick
    PROVE  SummaryTells'
<1>1. /\ clock \in Nat /\ clock' \in Nat /\ (clock' > 0 => clock' = clock + 1) /\ (clock \in 0 .. 198 => clock' = clock + 1)
      /\ SummaryAt \in Nat /\ EventAt = SummaryAt + 15 /\ SummaryAt >= 15 /\ EventAt <= 174
      /\ sum \in 0 .. 11 /\ SummaryAt' = SummaryAt
  BY ClockNext, Taps DEF TypeOK, SummaryAt
<1>2. \A k : Speaking(k)' <=> said' # <<>> /\ Said'.kind = k
  BY DEF Speaking
<1>3. sumOut' = IF sum = 0 THEN None ELSE Word("summary", sum, IF sum = 1 THEN evtSelect ELSE {})
  BY DEF Tick, Summary
<1>4. CASE clock = SummaryAt + 4
  <2>1. sum \in {0, 1} /\ clock' = SummaryAt + 5
    BY <1>1, <1>4 DEF WindowInv, SummaryInv
  <2>2. CASE sum = 1
    <3>1. Adds(Message("summary", evtSelect))
      BY <1>1, <1>4, <2>2, SaidStep
    <3>2. said' # <<>> /\ Said' = Message("summary", evtSelect)
      BY <3>1, Added DEF SpeechInv
    <3>3. Said'.kind = "summary" /\ Said'.channels = evtSelect
      BY <3>2 DEF Message
    <3>4. Speaking("summary")'
      BY <1>2, <3>2, <3>3
    <3>5. sum' = 2 /\ clock' - SummaryAt - 3 = 2 /\ clock' - SummaryAt - 4 = 1
      BY <1>1, <2>1, <2>2, SummaryStep
    <3>6. sumOut' = Word("summary", 1, Said'.channels)
      BY <1>3, <2>2, <3>3
    <3>7. QED
      BY <1>1, <2>1, <3>4, <3>5, <3>6 DEF SummaryTells
  <2>3. CASE sum = 0
    <3>1. said' = said
      BY <1>1, <1>4, <2>3, SaidStep
    <3>2. ~Speaking("summary")
      <4>1. said # <<>> /\ Said.kind # "control" => clock >= Start(Said.kind)
        BY SaidIs DEF SpeechInv
      <4>2. QED
        BY <1>1, <1>4, <4>1 DEF Speaking, Start
    <3>3. ~Speaking("summary")'
      BY <3>1, <3>2 DEF Speaking, Said
    <3>4. sum' = 0 /\ sumOut' = None
      BY <1>1, <1>4, <2>3, SummaryStep
    <3>5. QED
      BY <3>3, <3>4 DEF SummaryTells
  <2>4. QED
    BY <2>1, <2>2, <2>3
<1>5. CASE clock \in (SummaryAt + 5) .. (SummaryAt + 14)
  <2>1. sum = IF Speaking("summary") THEN clock - SummaryAt - 3 ELSE 0
    BY <1>5 DEF SpeechInv, SummaryTells
  <2>2. clock' = clock + 1 /\ clock' # SummaryAt + 5
    BY <1>1, <1>5
  <2>3. said' = said
    BY <1>1, <1>5, Silent
  <2>4. Speaking("summary")' <=> Speaking("summary")
    BY <2>3 DEF Speaking, Said
  <2>5. CASE Speaking("summary")
    <3>1. sum = clock - SummaryAt - 3 /\ sum # 0 /\ sum # 1 /\ sum' = IF sum = 11 THEN 0 ELSE sum + 1
      BY <1>1, <1>5, <2>1, <2>5, SummaryStep
    <3>2. sum = clock' - SummaryAt - 4
      BY <1>1, <2>2, <3>1
    <3>3. sumOut' = Word("summary", clock' - SummaryAt - 4, {})
      BY <1>3, <3>1, <3>2
    <3>4. clock' \in (SummaryAt + 5) .. (SummaryAt + 14) => sum' = clock' - SummaryAt - 3
      BY <1>1, <2>2, <3>1
    <3>5. QED
      BY <1>1, <2>2, <2>4, <2>5, <3>3, <3>4 DEF SummaryTells
  <2>6. CASE ~Speaking("summary")
    <3>1. sum = 0 /\ sum' = 0 /\ sumOut' = None
      BY <1>1, <1>5, <2>1, <2>6, SummaryStep
    <3>2. QED
      BY <2>4, <2>6, <3>1 DEF SummaryTells
  <2>7. QED
    BY <2>5, <2>6
<1>6. CASE clock \notin (SummaryAt + 4) .. (SummaryAt + 14)
  <2>1. clock' \notin (SummaryAt + 5) .. (SummaryAt + 15)
    BY <1>1, <1>6
  <2>2. clock' \notin (SummaryAt + 5) .. (SummaryAt + 14)
    BY <1>1, <2>1
  <2>3. QED
    BY <1>1, <2>1, <2>2 DEF SummaryTells
<1>7. QED
  BY <1>1, <1>4, <1>5, <1>6

LEMMA EventTellsStep ==
    ASSUME TypeOK, WindowInv, SpeechInv, Tick
    PROVE  EventTells'
<1>1. /\ clock \in Nat /\ clock' \in Nat /\ (clock' > 0 => clock' = clock + 1) /\ (clock \in 0 .. 198 => clock' = clock + 1)
      /\ SummaryAt \in Nat /\ EventAt = SummaryAt + 15 /\ SummaryAt >= 15 /\ EventAt <= 174
      /\ evt \in 0 .. 23 /\ evt # 1 /\ EventAt' = EventAt
  BY ClockNext, Taps DEF TypeOK, EventAt, SpeechInv, EventTells
<1>2. \A k : Speaking(k)' <=> said' # <<>> /\ Said'.kind = k
  BY DEF Speaking
<1>3. /\ evtOut' = IF evt # 0 THEN Word("event", evt, {})
                   ELSE IF EventStarts THEN Word("event", 1, channels) ELSE None
      /\ evt' = IF evt # 0 THEN After("event", evt) ELSE IF EventStarts THEN 2 ELSE 0
      /\ channels' = IF EventStarts \/ clock = 0 THEN {} ELSE channels \cup dmaSel
      /\ clock # 0 => dmaSel' = dmaSel
  BY DEF Tick, Event, Pulse
<1>4. evt # 0 => evt' = IF evt = 23 THEN 0 ELSE evt + 1
  <2>1. evt # 0 => evt \in 1 .. 23
    BY <1>1
  <2>2. QED
    BY <1>3, <2>1, Afters
<1>5. EventStarts => clock = EventAt + 1 /\ evt = 0
  BY <1>1 DEF EventStarts, Strobe
<1>6. evt' # 1
  BY <1>1, <1>3, <1>4
<1>7. clock' = 1 => channels' = {}
  <2>1. clock' = 1 => clock = 0
    BY <1>1
  <2>2. QED
    BY <1>3, <2>1
<1>8. clock' \in 2 .. (EventAt + 1) => channels' = dmaSel'
  <2>1. ASSUME clock' \in 2 .. (EventAt + 1) PROVE clock \in 1 .. EventAt /\ clock # 0
    BY <1>1, <2>1
  <2>2. ASSUME clock' \in 2 .. (EventAt + 1) PROVE ~EventStarts
    BY <1>1, <1>5, <2>1, <2>2
  <2>3. ASSUME clock' \in 2 .. (EventAt + 1) PROVE channels = {} \/ channels = dmaSel
    <3>1. clock = 1 \/ clock \in 2 .. (EventAt + 1)
      BY <1>1, <2>1, <2>3
    <3>2. QED
      BY <3>1 DEF SpeechInv, EventTells
  <2>4. QED
    BY <1>3, <2>1, <2>2, <2>3
<1>9. CASE clock = EventAt + 1
  <2>1. evt = 0 /\ clock' = EventAt + 2 /\ channels = dmaSel
    BY <1>1, <1>9 DEF WindowInv, EventInv, SpeechInv, EventTells
  <2>2. CASE EventStarts
    <3>1. Adds(Message("event", dmaSel))
      BY <1>1, <1>9, <2>2, SaidStep
    <3>2. said' # <<>> /\ Said' = Message("event", dmaSel)
      BY <3>1, Added DEF SpeechInv
    <3>3. Said'.kind = "event" /\ Said'.channels = dmaSel
      BY <3>2 DEF Message
    <3>4. Speaking("event")'
      BY <1>2, <3>2, <3>3
    <3>5. evt' = clock' - EventAt /\ clock' - EventAt - 1 = 1
      BY <1>1, <1>3, <2>1, <2>2
    <3>6. evtOut' = Word("event", 1, Said'.channels)
      BY <1>3, <2>1, <2>2, <3>3
    <3>7. QED
      BY <1>1, <1>6, <1>7, <1>8, <2>1, <3>4, <3>5, <3>6 DEF EventTells
  <2>3. CASE ~EventStarts
    <3>1. said' = said
      BY <1>1, <1>9, <2>3, SaidStep
    <3>2. ~Speaking("event")
      <4>1. said # <<>> /\ Said.kind # "control" => clock >= Start(Said.kind)
        BY SaidIs DEF SpeechInv
      <4>2. QED
        BY <1>1, <1>9, <4>1 DEF Speaking, Start
    <3>3. ~Speaking("event")'
      BY <3>1, <3>2 DEF Speaking, Said
    <3>4. evt' = 0 /\ evtOut' = None
      BY <1>3, <2>1, <2>3
    <3>5. QED
      BY <1>1, <1>6, <1>7, <1>8, <3>3, <3>4 DEF EventTells
  <2>4. QED
    BY <2>2, <2>3
<1>10. CASE clock \in (EventAt + 2) .. (EventAt + 23)
  <2>1. evt = IF Speaking("event") THEN clock - EventAt ELSE 0
    BY <1>10 DEF SpeechInv, EventTells
  <2>2. clock' = clock + 1 /\ clock' # EventAt + 2
    BY <1>1, <1>10
  <2>3. said' = said
    BY <1>1, <1>10, Silent
  <2>4. Speaking("event")' <=> Speaking("event")
    BY <2>3 DEF Speaking, Said
  <2>5. CASE Speaking("event")
    <3>1. evt = clock - EventAt /\ evt # 0 /\ evt' = IF evt = 23 THEN 0 ELSE evt + 1
      BY <1>1, <1>4, <1>10, <2>1, <2>5
    <3>2. evt = clock' - EventAt - 1
      BY <1>1, <2>2, <3>1
    <3>3. evtOut' = Word("event", clock' - EventAt - 1, {})
      BY <1>3, <3>1, <3>2
    <3>4. clock' \in (EventAt + 2) .. (EventAt + 23) => evt' = clock' - EventAt
      BY <1>1, <2>2, <3>1
    <3>5. QED
      BY <1>1, <1>6, <1>7, <1>8, <2>2, <2>4, <2>5, <3>3, <3>4 DEF EventTells
  <2>6. CASE ~Speaking("event")
    <3>1. evt' = 0 /\ evtOut' = None
      BY <1>1, <1>3, <1>5, <1>10, <2>1, <2>6
    <3>2. QED
      BY <1>1, <1>6, <1>7, <1>8, <2>4, <2>6, <3>1 DEF EventTells
  <2>7. QED
    BY <2>5, <2>6
<1>11. CASE clock \notin (EventAt + 1) .. (EventAt + 23)
  <2>1. clock' \notin (EventAt + 2) .. (EventAt + 24)
    BY <1>1, <1>11
  <2>2. clock' \notin (EventAt + 2) .. (EventAt + 23)
    BY <1>1, <2>1
  <2>3. QED
    BY <1>1, <1>6, <1>7, <1>8, <2>1, <2>2 DEF EventTells
<1>12. QED
  BY <1>1, <1>9, <1>10, <1>11

LEMMA SpeechStep == ASSUME TypeOK, WindowInv, SpeechInv, Tick PROVE SpeechInv'
BY SaidNext, ControlTellsStep, SummaryTellsStep, EventTellsStep DEF SpeechInv

\* The first message said is the first heard.
LEMMA FirstHeard ==
    ASSUME TypeOK, SaidInv, said # <<>>
    PROVE  /\ Start(said[1].kind) \in Nat /\ Start(Said.kind) \in Nat
           /\ Len(said) > 1 => /\ Start(said[1].kind) < Start(Said.kind) /\ clock >= Start(Said.kind)
                               /\ Said.kind # "control"
           /\ Len(said) = 1 => said[1] = Said
           /\ (Turn < 1 => Len(said) = 1 /\ Said.kind = "control")
<1>1. /\ Len(said) \in 1 .. 3 /\ Start(Said.kind) \in Nat /\ Start(said[1].kind) \in Nat
      /\ (Len(said) = 1 => said[1] = Said) /\ clock \in Nat
      /\ (Said.kind # "control" => clock >= Start(Said.kind))
  BY SaidIs
<1>2. ASSUME Len(said) > 1 PROVE Start(said[1].kind) < Start(Said.kind)
  <2>1. 1 \in 1 .. Len(said) /\ 1 < Len(said)
    BY <1>1, <1>2
  <2>2. QED
    BY <2>1 DEF SaidInv
<1>3. Start(said[1].kind) >= 3 /\ Start("control") = 3
  BY Taps DEF Start
<1>4. Len(said) > 1 => Said.kind # "control"
  BY <1>1, <1>2, <1>3
<1>5. Turn < 1 => Len(said) = 1 /\ Said.kind = "control"
  <2>1. Turn < 1 => clock < Start(Said.kind)
    BY <1>1 DEF Turn
  <2>2. Turn < 1 => Said.kind = "control"
    BY <1>1, <2>1
  <2>3. Len(said) > 1 \/ Len(said) = 1
    <3>1. PICK n \in 1 .. 3 : n = Len(said)
      BY <1>1
    <3>2. n > 1 \/ n = 1
      BY <3>1
    <3>3. QED
      BY <3>1, <3>2
  <2>4. QED
    BY <1>4, <2>2, <2>3
<1>6. QED
  BY <1>1, <1>2, <1>4, <1>5

LEMMA AcceptIs ==
    ASSUME TypeOK, WindowInv, SpeechInv
    PROVE  /\ Valid # None <=> said # <<>> /\ Turn \in 1 .. Size(Said.kind)
           /\ Valid # None => Valid = Word(Said.kind, Turn, IF Turn = 1 THEN Said.channels ELSE {})
<1>1. ASSUME said # <<>>, Turn \in 1 .. Size(Said.kind)
      PROVE  Word(Said.kind, Turn, IF Turn = 1 THEN Said.channels ELSE {}) # None
  <2>1. /\ Said.kind \in {"control", "summary", "event"} /\ Said.channels \in SUBSET Channels
        /\ Size(Said.kind) \in {11, 23}
    BY <1>1, SaidIs, MessageIs DEF SpeechInv
  <2>2. Turn \in 1 .. 23
    BY <1>1, <2>1
  <2>3. (IF Turn = 1 THEN Said.channels ELSE {}) \in SUBSET Channels
    BY <2>1
  <2> HIDE DEF Said, Turn
  <2> DEFINE k == Said.kind
             t == Turn
             c == IF t = 1 THEN Said.channels ELSE {}
  <2>4. k \in {"control", "summary", "event"} /\ t \in 1 .. 23 /\ c \in SUBSET Channels
    BY <2>1, <2>2, <2>3
  <2> HIDE DEF k, t, c
  <2>5. Word(k, t, c) # None
    <3>1. k \in Kinds
      BY <2>4 DEF Kinds
    <3>2. Word(k, t, c) \in AnyWord
      BY <2>4, <3>1, WordType
    <3>3. QED
      BY <3>2, NoneAssumption
  <2>6. QED
    BY <2>5 DEF k, t, c
<1>2. QED
  BY <1>1, ValidIs

\* What is heard of the messages in a step that does not end the frame.
LEMMA HeardNext ==
    ASSUME TypeOK, WindowInv, SpeechInv, Tick, clock # 199
    PROVE  /\ Heard' <=> Heard \/ Valid # None
           /\ Valid # None => said' = said /\ Turn' = Turn + 1 /\ Said' = Said
           /\ said' # <<>> /\ Turn' \in 2 .. (Size(Said'.kind) + 1) => Valid # None
<1>1. /\ clock \in Nat /\ clock' \in Nat /\ (clock \in 0 .. 198 => clock' = clock + 1)
      /\ SummaryAt \in Nat /\ EventAt = SummaryAt + 15 /\ SummaryAt >= 15 /\ EventAt <= 174
      /\ SummaryAt' = SummaryAt /\ EventAt' = EventAt
  BY ClockNext, Taps DEF SummaryAt, EventAt
<1>2. \A k : Start(k)' = Start(k) /\ Start(k) \in Nat
  BY <1>1 DEF Start
<1>3. Heard' <=> said' # <<>> /\ clock' > Start(said'[1].kind)
  BY <1>1 DEF Heard, Start
<1>4. Turn' = clock' - Start(Said'.kind) + 1
  BY <1>1 DEF Turn, Start
<1>5. CASE said' = said
  <2>1. CASE said = <<>>
    BY <1>3, <1>5, <2>1, AcceptIs DEF Heard
  <2>2. CASE said # <<>>
    <3>1. clock \in 2 .. 198 /\ clock' = clock + 1 /\ Said' = Said
      BY <1>1, <1>5, <2>2, SaidIs DEF SpeechInv, Said
    <3>2. Turn' = Turn + 1 /\ Turn \in Int
      BY <1>2, <1>4, <3>1 DEF Turn
    <3>3. Valid # None <=> Turn \in 1 .. Size(Said.kind)
      BY <2>2, AcceptIs
    <3>4. Said \in Messages /\ Len(said) \in 1 .. 3
      BY <2>2, SaidIs DEF SpeechInv
    <3>5. Size(Said.kind) \in {11, 23}
      BY <3>4, MessageIs
    <3>6. Turn' \in 2 .. (Size(Said'.kind) + 1) => Valid # None
      BY <3>1, <3>2, <3>3, <3>5
    <3>7. Heard' <=> Heard \/ clock = Start(said[1].kind)
      BY <1>2, <1>3, <1>5, <2>2, <3>1 DEF Heard
    <3>8. /\ Start(said[1].kind) \in Nat /\ Start(Said.kind) \in Nat
          /\ Len(said) > 1 => Start(said[1].kind) < Start(Said.kind) /\ clock >= Start(Said.kind)
          /\ Len(said) = 1 => said[1] = Said
      BY <2>2, FirstHeard DEF SpeechInv
    <3>9. clock = Start(said[1].kind) => Valid # None
      <4>1. ASSUME clock = Start(said[1].kind) PROVE Turn = 1
        <5>1. Len(said) = 1
          <6>1. PICK n \in 1 .. 3 : n = Len(said)
            BY <3>4
          <6>2. ~(n > 1)
            BY <1>1, <3>8, <4>1, <6>1
          <6>3. QED
            BY <6>1, <6>2
        <5>2. QED
          BY <1>1, <3>8, <4>1, <5>1 DEF Turn
      <4>2. QED
        BY <3>3, <3>5, <4>1
    <3>10. Valid # None => clock >= Start(said[1].kind)
      <4>1. Valid # None => clock >= Start(Said.kind)
        BY <1>1, <3>2, <3>3, <3>5, <3>8 DEF Turn
      <4>2. PICK n \in 1 .. 3 : n = Len(said)
        BY <3>4
      <4>3. CASE n = 1
        BY <3>8, <4>1, <4>2, <4>3
      <4>4. CASE n > 1
        BY <1>1, <3>8, <4>1, <4>2, <4>4
      <4>5. QED
        BY <4>2, <4>3, <4>4
    <3>11. Heard' <=> Heard \/ Valid # None
      BY <1>1, <2>2, <3>7, <3>8, <3>9, <3>10 DEF Heard
    <3>12. QED
      BY <1>5, <3>1, <3>2, <3>6, <3>11
  <2>3. QED
    BY <2>1, <2>2
<1>6. ASSUME NEW m \in Messages, Adds(m), clock \in {1, SummaryAt + 4, EventAt + 1},
             m.kind = IF clock = 1 THEN "control" ELSE IF clock = SummaryAt + 4 THEN "summary" ELSE "event"
      PROVE  /\ Heard' <=> Heard \/ Valid # None
             /\ Valid = None
             /\ ~(said' # <<>> /\ Turn' \in 2 .. (Size(Said'.kind) + 1))
  <2>1. /\ said' # <<>> /\ Len(said') = Len(said) + 1
        /\ Said' = m /\ \A i \in 1 .. Len(said) : said'[i] = said[i]
    BY <1>6, Added DEF SpeechInv
  <2>2. clock' = clock + 1 /\ clock' <= Start(m.kind)
    BY <1>1, <1>6 DEF Start
  <2>3. Turn' <= 1 /\ Turn' \in Int
    BY <1>1, <1>2, <1>4, <2>1, <2>2
  <2>4. CASE said = <<>>
    <3>1. said'[1] = m
      <4>1. Len(said) = 0
        BY <2>4
      <4>2. Len(said') = 1
        BY <2>1, <4>1
      <4>3. QED
        BY <2>1, <4>2 DEF Said
    <3>2. ~Heard' /\ ~Heard
      BY <1>1, <1>2, <1>3, <2>2, <2>4, <3>1 DEF Heard
    <3>3. Valid = None
      BY <2>4, AcceptIs
    <3>4. QED
      BY <2>3, <3>2, <3>3
  <2>5. CASE said # <<>>
    <3>1. Turn > Size(Said.kind)
      BY <1>6, <2>5, Complete DEF SpeechInv
    <3>2. Turn \in Int /\ Size(Said.kind) \in {11, 23} /\ Len(said) \in 1 .. 3
      BY <2>5, SaidIs, MessageIs DEF SpeechInv
    <3>3. Valid = None
      BY <2>5, <3>1, <3>2, AcceptIs
    <3>4. said'[1] = said[1]
      BY <2>1, <3>2
    <3>5. clock > Start(Said.kind)
      BY <1>1, <1>2, <3>1, <3>2 DEF Turn
    <3>6. /\ Len(said) > 1 => Start(said[1].kind) < Start(Said.kind)
          /\ Len(said) = 1 => said[1] = Said
      BY <2>5, FirstHeard DEF SpeechInv
    <3>7. clock > Start(said[1].kind)
      <4>1. PICK n \in 1 .. 3 : n = Len(said)
        BY <3>2
      <4>2. CASE n = 1
        BY <3>5, <3>6, <4>1, <4>2
      <4>3. CASE n > 1
        BY <1>1, <1>2, <3>5, <3>6, <4>1, <4>3
      <4>4. QED
        BY <4>1, <4>2, <4>3
    <3>8. Heard /\ Heard'
      BY <1>1, <1>2, <1>3, <2>1, <2>2, <2>5, <3>4, <3>7 DEF Heard
    <3>9. QED
      BY <2>3, <3>3, <3>8
  <2>6. QED
    BY <2>4, <2>5
<1>7. QED
  <2>1. /\ Message("control", {}).kind = "control" /\ Message("summary", evtSelect).kind = "summary"
        /\ Message("event", dmaSel).kind = "event"
    BY DEF Message
  <2>2. CASE Adds(Message("control", {})) /\ clock = 1
    BY <1>6, <2>1, <2>2 DEF Adds
  <2>3. CASE Adds(Message("summary", evtSelect)) /\ clock = SummaryAt + 4
    <3>1. clock # 1
      BY <1>1, <2>3
    <3>2. QED
      BY <1>6, <2>1, <2>3, <3>1 DEF Adds
  <2>4. CASE Adds(Message("event", dmaSel)) /\ clock = EventAt + 1
    <3>1. clock # 1 /\ clock # SummaryAt + 4
      BY <1>1, <2>4
    <3>2. QED
      BY <1>6, <2>1, <2>4, <3>1 DEF Adds
  <2>5. QED
    BY <1>5, <2>2, <2>3, <2>4, SaidStep

HistoryInv == SpeechInv /\ HeardInv

\* The word that comes to the stream, if any.
LEMMA StreamWord ==
    ASSUME TypeOK, WindowInv, RoomInv, HistoryInv, Tick, clock # 199
    PROVE  /\ Accept => smaster' = WordOf(Said, Turn, lost /\ Len(said) = 1) /\ smaster' # None
           /\ ~Accept => smaster' = None
           /\ paused' = paused /\ lost' = lost /\ due' = due
           /\ idle' <=> idle /\ ~Accept
           /\ dropped' <=> (Valid # None /\ paused) \/ (dropped /\ ~(Accept /\ idle))
<1>1. ~Strobe(FrameEndAt) /\ clock \in Nat
  BY Taps DEF Strobe, TypeOK
<1>2. /\ paused' = paused /\ lost' = lost /\ due' = due
      /\ idle' <=> idle /\ ~Accept
      /\ dropped' <=> (Valid # None /\ paused) \/ (dropped /\ ~(Accept /\ idle))
  BY <1>1 DEF Tick, Assemble, Record, FrameEnd, TypeOK
<1>3. /\ Accept => smaster' = [Valid EXCEPT !.lcls = ~ModeSel /\ smaster = None, !.drop = idle /\ dropped]
      /\ ~Accept => smaster' = None
  BY <1>1 DEF Tick, Assemble, FrameEnd
<1>4. ASSUME Accept
      PROVE  smaster' = WordOf(Said, Turn, lost /\ Len(said) = 1) /\ smaster' # None
  <2>1. /\ said # <<>> /\ Turn \in 1 .. Size(Said.kind) /\ ~paused
        /\ Valid = Word(Said.kind, Turn, IF Turn = 1 THEN Said.channels ELSE {})
    BY <1>4, AcceptIs DEF Accept, HistoryInv
  <2>2. /\ Said.kind \in {"control", "summary", "event"} /\ Said.channels \in SUBSET Channels
        /\ Size(Said.kind) \in {11, 23} /\ Len(said) \in 1 .. 3
        /\ (Said.kind # "control" => clock >= Start(Said.kind)) /\ Start(Said.kind) \in Nat
    BY <2>1, SaidIs, MessageIs DEF HistoryInv, SpeechInv
  <2>3. Turn \in 1 .. 23 /\ Turn = clock - Start(Said.kind) + 1
    <3>1. PICK z \in {11, 23} : z = Size(Said.kind)
      BY <2>2
    <3>2. Turn \in 1 .. z
      BY <2>1, <3>1
    <3>3. Turn \in 1 .. 23
      BY <3>1, <3>2
    <3>4. QED
      BY <3>3 DEF Turn
  <2>4. smaster = None <=> Turn = 1
    <3>1. CASE Turn = 1
      <4>1. clock \in {3, SummaryAt + 5, EventAt + 2}
        BY <1>1, <2>2, <2>3, <3>1 DEF Start
      <4>2. ~Ending
        BY <4>1, Taps DEF RoomInv, Weight, Ending
      <4>3. smaster = None
        BY <4>1, <4>2, Taps DEF HistoryInv, HeardInv
      <4>4. QED
        BY <3>1, <4>3
    <3>2. CASE Turn # 1
      <4>1. Turn \in 2 .. (Size(Said.kind) + 1)
        BY <2>1, <2>2, <2>3, <3>2
      <4>2. QED
        BY <2>1, <3>2, <4>1 DEF HistoryInv, HeardInv
    <3>3. QED
      BY <3>1, <3>2
  <2>5. ~Heard <=> Len(said) = 1 /\ Turn = 1
    <3>1. PICK n \in 1 .. 3 : n = Len(said)
      BY <2>2
    <3>2. /\ Start(said[1].kind) \in Nat
          /\ n > 1 => Start(said[1].kind) < Start(Said.kind)
          /\ n = 1 => said[1] = Said
      BY <2>1, <3>1, FirstHeard DEF HistoryInv, SpeechInv
    <3>3. Heard <=> clock > Start(said[1].kind)
      BY <2>1 DEF Heard
    <3>4. clock >= Start(Said.kind)
      BY <1>1, <2>2, <2>3
    <3>5. CASE n = 1
      BY <1>1, <2>2, <2>3, <3>1, <3>2, <3>3, <3>4, <3>5
    <3>6. CASE n > 1
      BY <1>1, <2>2, <2>3, <3>1, <3>2, <3>3, <3>4, <3>6
    <3>7. QED
      BY <3>1, <3>5, <3>6
  <2>6. idle /\ dropped <=> (lost /\ Len(said) = 1) /\ Turn = 1
    BY <2>1, <2>5 DEF HistoryInv, HeardInv
  <2> DEFINE k == Said.kind
             t == Turn
             c == IF t = 1 THEN Said.channels ELSE {}
             l == ~ModeSel /\ smaster = None
             d == idle /\ dropped
  <2>7. smaster' = [Word(k, t, c) EXCEPT !.lcls = l, !.drop = d]
    BY <1>3, <1>4, <2>1
  <2>8. k \in {"control", "summary", "event"} /\ t \in 1 .. 23 /\ c \in SUBSET Channels /\ l \in BOOLEAN /\ d \in BOOLEAN
    BY <2>2, <2>3
  <2>9. smaster' # None /\ smaster' = [kind |-> k, i |-> t, channels |-> c, lcls |-> l, drop |-> d]
    <3> HIDE DEF k, t, c, l, d
    <3> DEFINE x == smaster'
    <3>1. Word(k, t, c) \in AnyWord /\ Word(k, t, c) = [kind |-> k, i |-> t, channels |-> c, lcls |-> FALSE, drop |-> FALSE]
      BY <2>8, WordType DEF Kinds, Word
    <3>2. x \in AnyWord
      BY <2>7, <2>8, <3>1 DEF AnyWord
    <3>3. x.kind = k /\ x.i = t /\ x.channels = c
      BY <2>7, <3>1
    <3>4. x.lcls = l /\ x.drop = d
      BY Zenon, <2>7, <3>1
    <3>5. x = [kind |-> x.kind, i |-> x.i, channels |-> x.channels, lcls |-> x.lcls, drop |-> x.drop]
      <4> HIDE DEF x
      <4>1. QED
        BY <3>2 DEF AnyWord
    <3>6. QED
      BY <3>2, <3>3, <3>4, <3>5, NoneAssumption
  <2>10. l = (~ModeSel /\ t = 1) /\ d = ((lost /\ Len(said) = 1) /\ t = 1)
    BY <2>4, <2>6
  <2>11. QED
    BY <2>9, <2>10 DEF WordOf
<1>5. QED
  BY <1>2, <1>3, <1>4

\* The messages heard of at the frame's end.
LEMMA AtEnd ==
    ASSUME TypeOK, WindowInv, RoomInv, HistoryInv, Tick, clock = 199
    PROVE  /\ Valid = None /\ said' = <<>> /\ ~Heard' /\ idle' = TRUE
           /\ Heard <=> said # <<>>
           /\ smaster' = IF idle THEN None ELSE EndWord
           /\ dropped' = dropped
           /\ lost' = (IF said # <<>> THEN paused ELSE lost)
           /\ due' = (IF idle THEN due ELSE Append(due, [messages |-> said, lost |-> lost]))
           /\ idle <=> paused \/ said = <<>>
           /\ said # <<>> => Turn > Size(Said.kind)
<1>1. Strobe(FrameEndAt) /\ clock \in Nat
  BY Taps DEF Strobe
<1>2. Valid = None
  BY <1>1, Speakers DEF OneSpeaker
<1>3. said' = <<>>
  BY SaidStep DEF HistoryInv
<1>4. said # <<>> => clock > Start(said[1].kind) /\ Turn > Size(Said.kind)
  <2>1. \A k : Start(k) <= 176 /\ Start(k) \in Nat
    BY Taps DEF Start
  <2>2. said # <<>> => Size(Said.kind) \in {11, 23}
    BY SaidIs, MessageIs DEF HistoryInv, SpeechInv
  <2>3. QED
    BY <2>1, <2>2 DEF Turn
<1>5. idle <=> paused \/ said = <<>>
  BY <1>4 DEF HistoryInv, HeardInv, Heard
<1>6. idle' /\ (dropped' <=> dropped) /\ smaster' = IF idle THEN None ELSE EndWord
  BY <1>1, <1>2 DEF Tick, Assemble, FrameEnd, Accept, TypeOK
<1>7. idle' \in BOOLEAN /\ dropped' \in BOOLEAN
  BY AssembleStep DEF Tick
<1>8. lost' = IF said # <<>> THEN paused ELSE lost
  BY <1>1 DEF Tick, Record
<1>9. due' = IF idle THEN due ELSE Append(due, [messages |-> said, lost |-> lost])
  BY <1>1, <1>5 DEF Tick, Record
<1>10. QED
  BY <1>2, <1>3, <1>4, <1>5, <1>6, <1>7, <1>8, <1>9 DEF Heard, TypeOK

LEMMA HeardStep ==
    ASSUME TypeOK, WindowInv, RoomInv, HistoryInv, Tick
    PROVE  HeardInv'
<1>1. /\ clock \in Nat /\ clock' \in Nat /\ (clock \in 0 .. 198 => clock' = clock + 1)
      /\ SummaryAt \in Nat /\ EventAt = SummaryAt + 15 /\ SummaryAt >= 15 /\ EventAt <= 174
      /\ SummaryAt' = SummaryAt /\ EventAt' = EventAt
  BY ClockNext, Taps DEF SummaryAt, EventAt
<1>2. /\ idle \in BOOLEAN /\ paused \in BOOLEAN /\ lost \in BOOLEAN /\ dropped \in BOOLEAN
  BY DEF TypeOK
<1>3. CASE clock = 199
  <2>1. /\ said' = <<>> /\ ~Heard' /\ idle'
        /\ smaster' = IF idle THEN None ELSE EndWord
        /\ dropped' = dropped
        /\ lost' = IF said # <<>> THEN paused ELSE lost
        /\ Heard <=> said # <<>>
    BY <1>3, AtEnd
  <2>2. smaster' # None => Ending'
    BY <2>1, EndType DEF Ending
  <2>3. dropped' <=> lost'
    BY <2>1 DEF HistoryInv, HeardInv
  <2>4. QED
    BY <2>1, <2>2, <2>3 DEF HeardInv
<1>4. CASE clock # 199
  <2>1. /\ Accept => smaster' # None
        /\ ~Accept => smaster' = None
        /\ paused' = paused /\ lost' = lost
        /\ idle' <=> idle /\ ~Accept
        /\ dropped' <=> (Valid # None /\ paused) \/ (dropped /\ ~(Accept /\ idle))
    BY <1>4, StreamWord
  <2>2. /\ Heard' <=> Heard \/ Valid # None
        /\ said' # <<>> /\ Turn' \in 2 .. (Size(Said'.kind) + 1) => Valid # None
    BY <1>4, HeardNext DEF HistoryInv
  <2>3. /\ idle <=> paused \/ ~Heard
        /\ dropped <=> IF Heard THEN paused ELSE lost
    BY DEF HistoryInv, HeardInv
  <2>4. Accept <=> Valid # None /\ ~paused
    BY DEF Accept
  <2>5. idle' <=> paused' \/ ~Heard'
    BY <2>1, <2>2, <2>3, <2>4
  <2>6. dropped' <=> IF Heard' THEN paused' ELSE lost'
    <3>1. CASE paused
      BY <2>1, <2>2, <2>3, <2>4, <3>1
    <3>2. CASE ~paused
      BY <2>1, <2>2, <2>3, <2>4, <3>2
    <3>3. QED
      BY <3>1, <3>2
  <2>7. said' # <<>> /\ ~paused' /\ Turn' \in 2 .. (Size(Said'.kind) + 1) => smaster' # None
    BY <2>1, <2>2, <2>4
  <2>8. smaster' # None => \/ clock' \in 4 .. 14
                           \/ clock' \in (SummaryAt + 6) .. (SummaryAt + 16)
                           \/ clock' \in (EventAt + 3) .. (EventAt + 25)
    <3>1. ASSUME smaster' # None
          PROVE  \/ clock \in 3 .. 13
                 \/ clock \in (SummaryAt + 5) .. (SummaryAt + 15)
                 \/ clock \in (EventAt + 2) .. (EventAt + 24)
      BY <2>1, <2>4, <3>1, ValidWord
    <3>2. QED
      BY <1>1, <3>1
  <2>9. QED
    BY <1>1, <2>5, <2>6, <2>7, <2>8 DEF HeardInv, Size
<1>5. QED
  BY <1>3, <1>4

LEMMA HistoryStep ==
    ASSUME TypeOK, WindowInv, RoomInv, HistoryInv, Tick
    PROVE  HistoryInv'
BY SpeechStep, HeardStep DEF HistoryInv

\* What a clock adds to the words told: the word that comes to the stream.
LEMMA ToldIs ==
    ASSUME TypeOK, SaidInv
    PROVE  Told \in Nat
<1>1. CASE paused \/ said = <<>> \/ Turn < 1
  BY <1>1 DEF Told
<1>2. CASE ~(paused \/ said = <<>> \/ Turn < 1)
  <2>1. Size(Said.kind) \in {11, 23} /\ Turn \in Int /\ Turn >= 1 /\ Len(said) \in 1 .. 3
    BY <1>2, SaidIs, MessageIs
  <2>2. PICK n \in 1 .. 3 : n = Len(said)
    BY <2>1
  <2>3. Told = 11 * (n - 1) + IF Turn > Size(Said.kind) THEN Size(Said.kind) ELSE Turn - 1
    BY <1>2, <2>2 DEF Told
  <2>4. QED
    BY <2>1, <2>2, <2>3
<1>3. QED
  BY <1>1, <1>2

LEMMA ToldStep ==
    ASSUME TypeOK, WindowInv, SpeechInv, Tick, clock # 199, paused' = paused
    PROVE  /\ Accept => /\ Told' = Told + 1 /\ said' = said
                        /\ Told + 1 = 11 * (Len(said) - 1) + Turn
           /\ ~Accept => Told' = Told
           /\ said' # said => Told' = 11 * (Len(said') - 1) \/ paused \/ Len(said') = 1
<1>1. /\ clock \in Nat /\ clock' \in Nat /\ (clock \in 0 .. 198 => clock' = clock + 1)
      /\ SummaryAt \in Nat /\ EventAt = SummaryAt + 15 /\ SummaryAt >= 15 /\ EventAt <= 174
      /\ SummaryAt' = SummaryAt /\ EventAt' = EventAt /\ SaidInv
  BY ClockNext, Taps DEF SummaryAt, EventAt, SpeechInv
<1>2. \A k : Start(k)' = Start(k) /\ Start(k) \in Nat
  BY <1>1 DEF Start
<1>3. Turn' = clock' - Start(Said'.kind) + 1
  BY <1>1 DEF Turn, Start
<1>4. Told' = IF paused \/ said' = <<>> \/ Turn' < 1 THEN 0
              ELSE 11 * (Len(said') - 1) + IF Turn' > Size(Said'.kind) THEN Size(Said'.kind) ELSE Turn' - 1
  BY DEF Told, Size
<1>5. CASE paused
  BY <1>4, <1>5 DEF Told, Accept
<1>6. CASE ~paused /\ said' = said /\ said = <<>>
  BY <1>4, <1>6, AcceptIs DEF Told, Accept
<1>7. CASE ~paused /\ said' = said /\ said # <<>>
  <2>1. clock \in 2 .. 198 /\ clock' = clock + 1 /\ Said' = Said
    BY <1>1, <1>7, SaidIs DEF Said
  <2>2. Turn' = Turn + 1 /\ Turn \in Int
    BY <1>2, <1>3, <2>1 DEF Turn
  <2>3. PICK n \in 1 .. 3 : n = Len(said)
    BY <1>1, <1>7, SaidIs
  <2>4. Size(Said.kind) \in {11, 23}
    BY <1>1, <1>7, SaidIs, MessageIs
  <2>5. Accept <=> Turn \in 1 .. Size(Said.kind)
    BY <1>7, AcceptIs DEF Accept
  <2>6. Turn < 1 => n = 1
    BY <1>1, <1>7, <2>3, FirstHeard
  <2>7. Told = IF Turn < 1 THEN 0 ELSE 11 * (n - 1) + IF Turn > Size(Said.kind) THEN Size(Said.kind) ELSE Turn - 1
    BY <1>7, <2>3 DEF Told
  <2>8. Told' = IF Turn' < 1 THEN 0 ELSE 11 * (n - 1) + IF Turn' > Size(Said.kind) THEN Size(Said.kind) ELSE Turn' - 1
    BY <1>4, <1>7, <2>1, <2>3
  <2>9. Accept => Told' = Told + 1 /\ Told + 1 = 11 * (n - 1) + Turn
    BY <2>2, <2>4, <2>5, <2>7, <2>8
  <2>10. ~Accept => Told' = Told
    BY <2>2, <2>4, <2>5, <2>6, <2>7, <2>8
  <2>11. QED
    BY <1>7, <2>3, <2>9, <2>10
<1>8. ASSUME NEW m \in Messages, Adds(m), ~paused, clock \in {1, SummaryAt + 4, EventAt + 1},
             m.kind = IF clock = 1 THEN "control" ELSE IF clock = SummaryAt + 4 THEN "summary" ELSE "event"
      PROVE  ~Accept /\ Told' = Told /\ (Told' = 11 * (Len(said') - 1) \/ Len(said') = 1)
  <2>1. said' # <<>> /\ Len(said') = Len(said) + 1 /\ Said' = m
    BY <1>1, <1>8, Added
  <2>2. clock' = clock + 1 /\ Start(m.kind) = IF clock = 1 THEN 3 ELSE clock + 1
    BY <1>1, <1>8 DEF Start
  <2>3. Turn' = IF clock = 1 THEN 0 ELSE 1
    BY <1>1, <1>3, <2>1, <2>2
  <2>4. Size(m.kind) \in {11, 23}
    BY <1>8, MessageIs
  <2>5. PICK n \in Nat : n = Len(said)
    BY <1>1 DEF SaidInv
  <2>6. Told' = IF clock = 1 THEN 0 ELSE 11 * n
    BY <1>4, <1>8, <2>1, <2>3, <2>4, <2>5
  <2>7. CASE said = <<>>
    <3>1. n = 0
      BY <2>5, <2>7
    <3>2. Told = 0 /\ ~Accept
      BY <2>7, AcceptIs DEF Told, Accept
    <3>3. QED
      BY <2>1, <2>5, <2>6, <3>1, <3>2
  <2>8. CASE said # <<>>
    <3>1. Turn > Size(Said.kind) /\ Said.kind # "event" /\ clock > 1
      BY <1>1, <1>8, <2>8, Complete
    <3>2. Turn \in Int /\ Size(Said.kind) \in {11, 23} /\ Said.kind \in {"control", "summary", "event"} /\ n \in 1 .. 3
      BY <1>1, <2>5, <2>8, SaidIs, MessageIs
    <3>3. Size(Said.kind) = 11
      BY <3>1 DEF Size
    <3>4. ~Accept
      BY <2>8, <3>1, <3>2, AcceptIs DEF Accept
    <3>5. Told = 11 * (n - 1) + 11
      <4>1. ~(Turn < 1)
        BY <3>1, <3>2
      <4>2. QED
        BY <1>8, <2>5, <2>8, <3>1, <3>3, <4>1 DEF Told
    <3>6. Told = 11 * n /\ Len(said') = n + 1 /\ Told' = 11 * n
      BY <1>1, <2>1, <2>5, <2>6, <3>1, <3>2, <3>5
    <3>7. QED
      BY <2>5, <3>4, <3>6
  <2>9. QED
    BY <2>7, <2>8
<1>9. QED
  <2>1. /\ Message("control", {}).kind = "control" /\ Message("summary", evtSelect).kind = "summary"
        /\ Message("event", dmaSel).kind = "event"
    BY DEF Message
  <2>2. CASE ~paused /\ Adds(Message("control", {})) /\ clock = 1
    BY <1>8, <2>1, <2>2 DEF Adds
  <2>3. CASE ~paused /\ Adds(Message("summary", evtSelect)) /\ clock = SummaryAt + 4
    <3>1. clock # 1
      BY <1>1, <2>3
    <3>2. QED
      BY <1>8, <2>1, <2>3, <3>1 DEF Adds
  <2>4. CASE ~paused /\ Adds(Message("event", dmaSel)) /\ clock = EventAt + 1
    <3>1. clock # 1 /\ clock # SummaryAt + 4
      BY <1>1, <2>4
    <3>2. QED
      BY <1>8, <2>1, <2>4, <3>1 DEF Adds
  <2>5. QED
    BY <1>5, <1>6, <1>7, <2>2, <2>3, <2>4, SaidStep

-----------------------------------------------------------------------------
(* The words of some beats, and the frames they divide into                 *)

\* The words of the beats after the c-th up to the e-th.
Stretch(bs, c, e) ==
    [p \in 1 .. (BeatWords * (e - c - 1) + Len(bs[e])) |->
       bs[c + (p - 1) \div BeatWords + 1][((p - 1) % BeatWords) + 1]]

\* The words after the c-th of the beats bs and the beat t that is being packed.
Open(bs, t, c) == Stretch(Append(bs, t), c, Len(bs) + 1)

\* A word's beat, and its place in it.
LEMMA Place ==
    /\ \A j \in Nat, k \in 0 .. 4 : 4 * j + k \in Nat
    /\ \A j \in Nat, k \in 0 .. 3 : (4 * j + k) \div 4 = j /\ (4 * j + k) % 4 = k
    /\ \A j \in Nat, m \in Nat : j < 4 * m => j \div 4 \in Nat /\ j \div 4 < m
    /\ \A j \in Nat : j \div 4 \in Nat /\ j % 4 \in 0 .. 3 /\ j = 4 * (j \div 4) + (j % 4)
<1>1. ASSUME NEW j \in Nat, NEW k \in 0 .. 4 PROVE 4 * j + k \in Nat
  OBVIOUS
<1>2. ASSUME NEW j \in Nat, NEW k \in 0 .. 3 PROVE (4 * j + k) \div 4 = j /\ (4 * j + k) % 4 = k
  BY SMTT(60)
<1>3. ASSUME NEW j \in Nat, NEW m \in Nat, j < 4 * m PROVE j \div 4 \in Nat /\ j \div 4 < m
  BY <1>3, SMTT(60)
<1>4. ASSUME NEW j \in Nat PROVE j \div 4 \in Nat /\ j % 4 \in 0 .. 3 /\ j = 4 * (j \div 4) + (j % 4)
  BY SMTT(60)
<1>5. QED
  BY <1>1, <1>2, <1>3, <1>4

LEMMA FcnLen ==
    ASSUME NEW w, NEW n \in Nat, w = [p \in 1 .. n |-> w[p]]
    PROVE  Len(w) = n
<1> DEFINE S == {w[p] : p \in 1 .. n}
<1>1. w \in [1 .. n -> S]
  OBVIOUS
<1>2. w \in Seq(S)
  BY <1>1
<1>3. QED
  BY <1>1, <1>2

\* Equal beats, equal words.
Alike(bs, c, e, bt, d, g) ==
    /\ c < e /\ d < g /\ e - c = g - d /\ Len(bs[e]) \in 0 .. 4
    /\ \A i \in 1 .. (e - c) : bs[c + i] = bt[d + i]

LEMMA StretchSame ==
    ASSUME NEW bs, NEW bt, NEW c \in Nat, NEW e \in Nat, NEW d \in Nat, NEW g \in Nat,
           Alike(bs, c, e, bt, d, g)
    PROVE  Stretch(bs, c, e) = Stretch(bt, d, g)
<1>0. /\ c < e /\ d < g /\ e - c = g - d /\ Len(bs[e]) \in 0 .. 4
      /\ \A i \in 1 .. (e - c) : bs[c + i] = bt[d + i]
  BY DEF Alike
<1> DEFINE z == BeatWords * (e - c - 1) + Len(bs[e])
<1>1. bs[e] = bt[g]
  <2>1. e - c \in 1 .. (e - c) /\ c + (e - c) = e /\ d + (e - c) = g
    BY <1>0
  <2>2. QED
    BY <1>0, <2>1
<1>2. z = BeatWords * (g - d - 1) + Len(bt[g]) /\ z \in Nat
  <2>1. e - c - 1 = g - d - 1 /\ e - c - 1 \in Nat
    BY <1>0
  <2>2. PICK k \in 0 .. 4 : k = Len(bs[e])
    BY <1>0
  <2>3. k = Len(bt[g])
    BY <1>1, <2>2
  <2>4. BeatWords * (e - c - 1) + k \in Nat
    <3>1. PICK j \in Nat : j = e - c - 1
      BY <2>1
    <3>2. 4 * j + k \in Nat
      BY Zenon, Place
    <3>3. QED
      BY <3>1, <3>2 DEF BeatWords
  <2>5. QED
    BY <2>1, <2>2, <2>3, <2>4
<1> DEFINE l == Len(bs[e])
<1>a. z = 4 * (e - c - 1) + l /\ l \in 0 .. 4
  BY <1>0 DEF BeatWords
<1> HIDE DEF z, l
<1>3. ASSUME NEW p \in 1 .. z
      PROVE  bs[c + (p - 1) \div BeatWords + 1] = bt[d + (p - 1) \div BeatWords + 1]
  <2> DEFINE q == (p - 1) \div 4
  <2>1. q + 1 \in 1 .. (e - c) /\ q \in Nat
    <3>1. p - 1 \in Nat /\ p - 1 < 4 * (e - c)
      BY <1>0, <1>2, <1>a
    <3>2. PICK m \in Nat : m = e - c
      BY <1>0
    <3>3. PICK r \in Nat : r = p - 1
      BY <3>1
    <3>4. r \div 4 \in Nat /\ r \div 4 < m
      BY <3>1, <3>2, <3>3, Place
    <3>5. QED
      BY <3>2, <3>3, <3>4
  <2>2. bs[c + (q + 1)] = bt[d + (q + 1)]
    BY <1>0, <2>1
  <2>3. c + (q + 1) = c + q + 1 /\ d + (q + 1) = d + q + 1
    BY <2>1
  <2>4. QED
    BY <2>2, <2>3 DEF BeatWords
<1>4. QED
  BY <1>2, <1>3, Zenon DEF Stretch, z, l

LEMMA OpenIs ==
    ASSUME NEW bs \in Seq(Seq(AnyWord)), NEW t \in Seq(AnyWord), NEW c \in 0 .. Len(bs)
    PROVE  /\ Len(Open(bs, t, c)) = 4 * (Len(bs) - c) + Len(t) /\ Len(Open(bs, t, c)) \in Nat
           /\ Open(bs, t, c) = [p \in 1 .. (4 * (Len(bs) - c) + Len(t)) |->
                Append(bs, t)[c + (p - 1) \div 4 + 1][((p - 1) % 4) + 1]]
<1> DEFINE n == 4 * (Len(bs) - c) + Len(t)
           w == Open(bs, t, c)
<1>1. Len(bs) \in Nat /\ Len(t) \in Nat /\ Append(bs, t)[Len(bs) + 1] = t /\ c \in Nat
  BY AppendProperties
<1>2. n \in Nat /\ BeatWords * ((Len(bs) + 1) - c - 1) + Len(t) = n
  BY <1>1 DEF BeatWords
<1>3. w = [p \in 1 .. n |-> Append(bs, t)[c + (p - 1) \div 4 + 1][((p - 1) % 4) + 1]]
  BY <1>1, <1>2 DEF Open, Stretch, BeatWords
<1>4. Len(w) = n
  <2> HIDE DEF n
  <2>1. w = [p \in 1 .. n |-> w[p]]
    BY <1>3
  <2> HIDE DEF w
  <2>2. QED
    BY <1>2, <2>1, FcnLen
<1>5. QED
  BY <1>2, <1>3, <1>4

\* A word more.
LEMMA OpenAdd ==
    ASSUME NEW bs \in Seq(Seq(AnyWord)), NEW t \in Seq(AnyWord), NEW c \in 0 .. Len(bs), Len(t) < 4,
           NEW x \in AnyWord
    PROVE  /\ Len(Open(bs, Append(t, x), c)) = Len(Open(bs, t, c)) + 1
           /\ Open(bs, Append(t, x), c)[Len(Open(bs, t, c)) + 1] = x
           /\ \A p \in 1 .. Len(Open(bs, t, c)) : Open(bs, Append(t, x), c)[p] = Open(bs, t, c)[p]
<1> DEFINE u == Append(t, x)
<1>a. PICK b \in Nat : b = Len(bs)
  OBVIOUS
<1>b. PICK k \in Nat : k = Len(t)
  OBVIOUS
<1>c. k < 4
  BY <1>b
<1>d. k \in 0 .. 3
  BY <1>c
<1>1. b = Len(bs) /\ k = Len(t) /\ b \in Nat /\ k \in 0 .. 3 /\ c \in 0 .. b
  BY <1>a, <1>b, <1>d
<1>2. u \in Seq(AnyWord) /\ Len(u) = k + 1 /\ u[k + 1] = x /\ \A i \in 1 .. k : u[i] = t[i]
  <2>1. u \in Seq(AnyWord) /\ Len(u) = Len(t) + 1 /\ u[Len(t) + 1] = x /\ \A i \in 1 .. Len(t) : u[i] = t[i]
    BY AppendProperties
  <2> HIDE DEF u
  <2>2. QED
    BY <1>1, <2>1
<1>3. /\ Append(bs, t)[b + 1] = t /\ Append(bs, u)[b + 1] = u
      /\ \A i \in 1 .. b : Append(bs, t)[i] = bs[i] /\ Append(bs, u)[i] = bs[i]
  BY <1>1, <1>2, AppendProperties
<1> HIDE DEF u
<1> DEFINE n == 4 * (b - c) + k
           o == Open(bs, t, c)
           m == Open(bs, u, c)
<1>4. /\ Len(o) = n /\ n \in Nat
      /\ o = [p \in 1 .. n |-> Append(bs, t)[c + (p - 1) \div 4 + 1][((p - 1) % 4) + 1]]
  BY <1>1, OpenIs
<1>5. /\ Len(m) = n + 1
      /\ m = [p \in 1 .. (n + 1) |-> Append(bs, u)[c + (p - 1) \div 4 + 1][((p - 1) % 4) + 1]]
  <2>1. /\ Len(m) = 4 * (b - c) + (k + 1)
        /\ m = [p \in 1 .. (4 * (b - c) + (k + 1)) |-> Append(bs, u)[c + (p - 1) \div 4 + 1][((p - 1) % 4) + 1]]
    <3>1. /\ Len(m) = 4 * (Len(bs) - c) + Len(u)
          /\ m = [p \in 1 .. (4 * (Len(bs) - c) + Len(u)) |-> Append(bs, u)[c + (p - 1) \div 4 + 1][((p - 1) % 4) + 1]]
      BY <1>2, OpenIs
    <3> HIDE DEF m
    <3>2. QED
      BY Zenon, <1>1, <1>2, <3>1
  <2>2. 4 * (b - c) + (k + 1) = n + 1
    BY <1>1
  <2>3. QED
    BY <2>1, <2>2
<1>6. c \in 0 .. b
  BY <1>1
<1>7. m[n + 1] = x
  <2>1. n \div 4 = b - c /\ n % 4 = k
    <3>1. PICK j \in Nat : j = b - c
      BY <1>6
    <3>2. (4 * j + k) \div 4 = j /\ (4 * j + k) % 4 = k
      BY Zenon, <1>1, Place
    <3>3. QED
      BY <3>1, <3>2
  <2>2. n + 1 \in 1 .. (n + 1) /\ n + 1 - 1 = n
    BY <1>4
  <2> HIDE DEF n, m, o
  <2>3. m[n + 1] = Append(bs, u)[c + n \div 4 + 1][(n % 4) + 1]
    <3>1. PICK p \in Nat : p = n + 1
      BY <1>4
    <3>a. p \in 1 .. (n + 1) /\ p - 1 = n
      BY <1>4, <3>1
    <3>2. m[p] = Append(bs, u)[c + (p - 1) \div 4 + 1][((p - 1) % 4) + 1]
      BY Zenon, <1>5, <3>a
    <3>3. QED
      BY Zenon, <3>1, <3>2, <3>a
  <2>4. c + n \div 4 + 1 = b + 1
    BY <1>6, <2>1
  <2>5. QED
    BY <1>2, <1>3, <2>1, <2>3, <2>4
<1>8. ASSUME NEW p \in 1 .. n PROVE m[p] = o[p]
  <2> DEFINE q == (p - 1) \div 4
             r == (p - 1) % 4
  <2>1. q \in Nat /\ r \in 0 .. 3 /\ p - 1 = 4 * q + r
    <3>1. PICK j \in Nat : j = p - 1
      BY <1>4
    <3>2. j \div 4 \in Nat /\ j % 4 \in 0 .. 3 /\ j = 4 * (j \div 4) + (j % 4)
      BY <3>1, Place
    <3>3. QED
      BY <3>1, <3>2
  <2>2. p \in 1 .. (n + 1)
    BY <1>4
  <2> HIDE DEF m, o, q, r, n
  <2>3. m[p] = Append(bs, u)[c + q + 1][r + 1] /\ o[p] = Append(bs, t)[c + q + 1][r + 1]
    <3>1. m[p] = Append(bs, u)[c + (p - 1) \div 4 + 1][((p - 1) % 4) + 1]
      BY Zenon, <1>5, <2>2
    <3>2. o[p] = Append(bs, t)[c + (p - 1) \div 4 + 1][((p - 1) % 4) + 1]
      BY Zenon, <1>4
    <3>3. QED
      BY <3>1, <3>2 DEF q, r
  <2>4. c + q + 1 \in 1 .. b \/ (c + q = b /\ r + 1 \in 1 .. k)
    BY <1>1, <1>6, <2>1 DEF n
  <2>5. CASE c + q + 1 \in 1 .. b
    BY <1>3, <2>3, <2>5
  <2>6. CASE c + q = b /\ r + 1 \in 1 .. k
    BY <1>2, <1>3, <2>3, <2>6
  <2>7. QED
    BY <2>4, <2>5, <2>6
<1>9. QED
  BY <1>4, <1>5, <1>7, <1>8 DEF u

\* A full beat goes in and an empty one is begun.
LEMMA OpenCarry ==
    ASSUME NEW bs \in Seq(Seq(AnyWord)), NEW t \in Seq(AnyWord), NEW c \in 0 .. Len(bs), Len(t) = 4
    PROVE  Open(Append(bs, t), <<>>, c) = Open(bs, t, c)
<1>1. PICK b \in Nat : b = Len(bs)
  OBVIOUS
<1> DEFINE bt == Append(bs, t)
           n == 4 * (b - c) + 4
<1>2. bt \in Seq(Seq(AnyWord)) /\ Len(bt) = b + 1 /\ <<>> \in Seq(AnyWord) /\ Len(<<>>) = 0 /\ c \in 0 .. (b + 1)
      /\ c \in 0 .. b
  BY <1>1, AppendProperties
<1>3. \A i \in 1 .. (b + 1) : Append(bt, <<>>)[i] = bt[i]
  BY <1>2, AppendProperties
<1> HIDE DEF bt
<1>4. Open(bs, t, c) = [p \in 1 .. n |-> bt[c + (p - 1) \div 4 + 1][((p - 1) % 4) + 1]]
  <2>1. 4 * (b - c) + Len(t) = n
    BY <1>1
  <2>2. Open(bs, t, c) = [p \in 1 .. (4 * (Len(bs) - c) + Len(t)) |->
             Append(bs, t)[c + (p - 1) \div 4 + 1][((p - 1) % 4) + 1]]
    BY OpenIs
  <2> HIDE DEF n
  <2>3. QED
    BY <1>1, <2>1, <2>2, Zenon DEF bt
<1>5. Open(bt, <<>>, c) = [p \in 1 .. n |-> Append(bt, <<>>)[c + (p - 1) \div 4 + 1][((p - 1) % 4) + 1]]
  <2>1. 4 * ((b + 1) - c) + 0 = n
    BY <1>2
  <2>2. Open(bt, <<>>, c) = [p \in 1 .. (4 * (Len(bt) - c) + Len(<<>>)) |->
             Append(bt, <<>>)[c + (p - 1) \div 4 + 1][((p - 1) % 4) + 1]]
    <3>1. c \in 0 .. Len(bt)
      BY <1>2
    <3>2. QED
      BY <1>2, <3>1, OpenIs
  <2> HIDE DEF n
  <2>3. QED
    BY <1>2, <2>1, <2>2
<1>6. ASSUME NEW p \in 1 .. n
      PROVE  c + (p - 1) \div 4 + 1 \in 1 .. (b + 1)
  <2>1. PICK j \in Nat, m \in Nat : j = p - 1 /\ m = b - c
    BY <1>2
  <2>2. j < 4 * (m + 1)
    BY <1>2, <2>1
  <2>3. j \div 4 \in Nat /\ j \div 4 < m + 1
    BY <2>1, <2>2, Place
  <2>4. QED
    BY <1>2, <2>1, <2>3
<1>7. \A p \in 1 .. n : Append(bt, <<>>)[c + (p - 1) \div 4 + 1] = bt[c + (p - 1) \div 4 + 1]
  BY <1>3, <1>6
<1>8. Open(bt, <<>>, c) = Open(bs, t, c)
  <2> HIDE DEF n
  <2>1. QED
    BY <1>4, <1>5, <1>7, Zenon
<1>9. QED
  BY <1>8 DEF bt

\* cut[k] is the beat of bs with which the k-th frame of ds ends; there are n of them.
Cuts(bs, ds, cut, n) ==
    /\ cut \in [0 .. n -> 0 .. Len(bs)] /\ cut[0] = 0
    /\ \A k, l \in 0 .. n : k < l => cut[k] < cut[l]
    /\ \A i \in 1 .. Len(bs) : IsLast(bs[i]) <=> \E k \in 1 .. n : cut[k] = i
    /\ \A k \in 1 .. n : Whole(Stretch(bs, cut[k - 1], cut[k]), ds[k])

Short(bs) == \A i \in 1 .. Len(bs) : Len(bs[i]) \in 0 .. 4

LEMMA CutsSame ==
    ASSUME NEW bs \in Seq(Seq(AnyWord)), Short(bs), NEW ds, NEW cut, NEW n \in Nat, Cuts(bs, ds, cut, n),
           NEW t \in Seq(AnyWord), NEW k \in 1 .. n
    PROVE  Stretch(Append(bs, t), cut[k - 1], cut[k]) = Stretch(bs, cut[k - 1], cut[k])
<1>1. PICK b \in Nat : b = Len(bs)
  OBVIOUS
<1>2. k - 1 \in 0 .. n /\ k \in 0 .. n /\ k - 1 < k
  OBVIOUS
<1>3. cut[k - 1] \in 0 .. b /\ cut[k] \in 0 .. b /\ cut[k - 1] < cut[k]
  BY <1>1, <1>2 DEF Cuts
<1>4. \A i \in 1 .. b : Append(bs, t)[i] = bs[i]
  BY <1>1, AppendProperties
<1>5. PICK c \in 0 .. b, e \in 1 .. b : c = cut[k - 1] /\ e = cut[k] /\ c < e
  BY <1>3
<1>6. \A i \in 1 .. (e - c) : c + i \in 1 .. b
  <2>1. TAKE i \in 1 .. (e - c)
  <2>2. c \in Nat /\ e \in Nat /\ i \in Nat /\ 1 <= i /\ i <= e - c /\ e <= b
    OBVIOUS
  <2>3. QED
    BY <2>2
<1>7. \A i \in 1 .. (e - c) : bs[c + i] = Append(bs, t)[c + i]
  BY <1>4, <1>6
<1>8. Len(bs[e]) \in 0 .. 4
  BY <1>1 DEF Short
<1>9. Stretch(bs, c, e) = Stretch(Append(bs, t), c, e)
  <2>1. c \in Nat /\ e \in Nat /\ c < e /\ e - c = e - c
    BY <1>5
  <2> DEFINE bt == Append(bs, t)
  <2>2. \A i \in 1 .. (e - c) : bs[c + i] = bt[c + i]
    BY <1>7
  <2> HIDE DEF bt
  <2>3. Stretch(bs, c, e) = Stretch(bt, c, e)
    <3>1. Alike(bs, c, e, bt, c, e)
      BY <1>8, <2>1, <2>2 DEF Alike
    <3>2. QED
      BY <2>1, <3>1, StretchSame
  <2>4. QED
    BY <2>3 DEF bt
<1>10. QED
  BY <1>5, <1>9

\* A beat that ends no frame.
LEMMA CutsKept ==
    ASSUME NEW bs \in Seq(Seq(AnyWord)), Short(bs), NEW ds, NEW cut, NEW n \in Nat, Cuts(bs, ds, cut, n),
           NEW t \in Seq(AnyWord), ~IsLast(t)
    PROVE  Cuts(Append(bs, t), ds, cut, n)
<1>1. PICK b \in Nat : b = Len(bs)
  OBVIOUS
<1> DEFINE bt == Append(bs, t)
<1>2. Len(bt) = b + 1 /\ bt[b + 1] = t /\ \A i \in 1 .. b : bt[i] = bs[i]
  BY <1>1, AppendProperties
<1>3. \A k \in 1 .. n : Whole(Stretch(bt, cut[k - 1], cut[k]), ds[k])
  <2>1. TAKE k \in 1 .. n
  <2>2. Whole(Stretch(bs, cut[k - 1], cut[k]), ds[k])
    BY DEF Cuts
  <2>3. Stretch(bt, cut[k - 1], cut[k]) = Stretch(bs, cut[k - 1], cut[k])
    BY CutsSame
  <2>4. QED
    BY <2>2, <2>3
<1> HIDE DEF bt
<1>4. cut \in [0 .. n -> 0 .. (b + 1)] /\ cut[0] = 0
  <2>1. cut \in [0 .. n -> 0 .. b] /\ cut[0] = 0
    BY <1>1 DEF Cuts
  <2>2. 0 .. b \subseteq 0 .. (b + 1)
    OBVIOUS
  <2>3. QED
    BY <2>1, <2>2
<1>5. \A i \in 1 .. (b + 1) : IsLast(bt[i]) <=> \E k \in 1 .. n : cut[k] = i
  <2>1. TAKE i \in 1 .. (b + 1)
  <2>2. CASE i = b + 1
    <3>1. \A k \in 1 .. n : k \in 0 .. n
      OBVIOUS
    <3>2. \A k \in 1 .. n : cut[k] \in 0 .. b
      BY <1>1, <3>1 DEF Cuts
    <3>3. \A k \in 1 .. n : cut[k] # i
      BY <2>2, <3>2
    <3>4. QED
      BY <1>2, <2>2, <3>3
  <2>3. CASE i \in 1 .. b
    BY <1>1, <1>2, <2>3 DEF Cuts
  <2>4. QED
    BY <2>2, <2>3
<1>6. QED
  BY <1>2, <1>3, <1>4, <1>5 DEF Cuts, bt

\* A beat that ends one.
LEMMA CutsMore ==
    ASSUME NEW bs \in Seq(Seq(AnyWord)), Short(bs), NEW ds, NEW cut, NEW n \in Nat, Cuts(bs, ds, cut, n),
           NEW t \in Seq(AnyWord), IsLast(t), Whole(Open(bs, t, cut[n]), ds[n + 1])
    PROVE  \E more : /\ Cuts(Append(bs, t), ds, more, n + 1) /\ more[n + 1] = Len(bs) + 1
                     /\ \A k \in 0 .. n : more[k] = cut[k]
<1>1. PICK b \in Nat : b = Len(bs)
  OBVIOUS
<1> DEFINE bt == Append(bs, t)
           more == [k \in 0 .. (n + 1) |-> IF k = n + 1 THEN b + 1 ELSE cut[k]]
<1>2. Len(bt) = b + 1 /\ bt[b + 1] = t /\ \A i \in 1 .. b : bt[i] = bs[i]
  BY <1>1, AppendProperties
<1>3. more[n + 1] = b + 1 /\ \A k \in 0 .. n : more[k] = cut[k]
  OBVIOUS
<1>4. \A k \in 0 .. n : cut[k] \in 0 .. b
  BY <1>1 DEF Cuts
<1>5. more \in [0 .. (n + 1) -> 0 .. (b + 1)] /\ more[0] = 0
  <2>1. \A k \in 0 .. (n + 1) : k # n + 1 => k \in 0 .. n
    OBVIOUS
  <2>2. \A k \in 0 .. (n + 1) : (IF k = n + 1 THEN b + 1 ELSE cut[k]) \in 0 .. (b + 1)
    <3>1. TAKE k \in 0 .. (n + 1)
    <3>2. CASE k = n + 1
      BY <3>2
    <3>3. CASE k # n + 1
      <4>1. cut[k] \in 0 .. b
        BY <1>4, <2>1, <3>3
      <4>2. QED
        BY <3>3, <4>1
    <3>4. QED
      BY <3>2, <3>3
  <2>3. more \in [0 .. (n + 1) -> 0 .. (b + 1)]
    BY <2>2, Zenon
  <2>4. cut[0] = 0 /\ 0 \in 0 .. n
    BY DEF Cuts
  <2>5. QED
    BY <1>3, <2>3, <2>4
<1> HIDE DEF more
<1>6. \A k, l \in 0 .. (n + 1) : k < l => more[k] < more[l]
  <2>1. TAKE k, l \in 0 .. (n + 1)
  <2>2. HAVE k < l
  <2>3. k \in 0 .. n
    BY <2>2
  <2>4. more[k] = cut[k] /\ cut[k] \in 0 .. b
    BY <1>3, <1>4, <2>3
  <2>5. CASE l = n + 1
    BY <1>3, <2>4, <2>5
  <2>6. CASE l \in 0 .. n
    <3>1. cut[k] < cut[l]
      BY <2>2, <2>3, <2>6 DEF Cuts
    <3>2. QED
      BY <1>3, <2>4, <2>6, <3>1
  <2>7. QED
    BY <2>5, <2>6
<1>7. \A k \in 1 .. (n + 1) : Whole(Stretch(bt, more[k - 1], more[k]), ds[k])
  <2>1. TAKE k \in 1 .. (n + 1)
  <2>2. CASE k = n + 1
    <3>1. more[k - 1] = cut[n] /\ more[k] = b + 1
      BY <1>3, <2>2
    <3>2. Stretch(bt, cut[n], b + 1) = Open(bs, t, cut[n])
      BY <1>1 DEF Open
    <3>3. QED
      BY <2>2, <3>1, <3>2
  <2>3. CASE k \in 1 .. n
    <3>1. k - 1 \in 0 .. n /\ k \in 0 .. n
      BY <2>3
    <3>2. more[k - 1] = cut[k - 1] /\ more[k] = cut[k]
      BY <1>3, <3>1
    <3>3. Whole(Stretch(bs, cut[k - 1], cut[k]), ds[k])
      BY <2>3 DEF Cuts
    <3>4. Stretch(bt, cut[k - 1], cut[k]) = Stretch(bs, cut[k - 1], cut[k])
      BY <2>3, CutsSame
    <3>5. QED
      BY <3>2, <3>3, <3>4
  <2>4. QED
    BY <2>2, <2>3
<1> HIDE DEF bt
<1>8. \A i \in 1 .. (b + 1) : IsLast(bt[i]) <=> \E k \in 1 .. (n + 1) : more[k] = i
  <2>1. TAKE i \in 1 .. (b + 1)
  <2>2. CASE i = b + 1
    <3>1. n + 1 \in 1 .. (n + 1) /\ more[n + 1] = i
      BY <1>3, <2>2
    <3>2. QED
      BY <1>2, <2>2, <3>1
  <2>3. CASE i \in 1 .. b
    <3>1. IsLast(bt[i]) <=> \E k \in 1 .. n : cut[k] = i
      BY <1>1, <1>2, <2>3 DEF Cuts
    <3>2. ASSUME NEW k \in 1 .. n, cut[k] = i PROVE k \in 1 .. (n + 1) /\ more[k] = i
      BY <1>3, <3>2
    <3>3. ASSUME NEW k \in 1 .. (n + 1), more[k] = i PROVE k \in 1 .. n /\ cut[k] = i
      <4>1. k # n + 1
        BY <1>3, <2>3, <3>3
      <4>2. k \in 1 .. n /\ k \in 0 .. n
        BY <4>1
      <4>3. QED
        BY <1>3, <3>3, <4>2
    <3>4. QED
      BY <3>1, <3>2, <3>3
  <2>4. QED
    BY <2>2, <2>3
<1>9. Cuts(bt, ds, more, n + 1)
  BY <1>2, <1>5, <1>6, <1>7, <1>8 DEF Cuts
<1>10. QED
  BY <1>1, <1>3, <1>9 DEF bt

\* The first frame leaves.
LEMMA CutsRest ==
    ASSUME NEW bs \in Seq(Seq(AnyWord)), Short(bs), NEW ds \in Seq(AnyFrame), NEW cut,
           NEW n \in 1 .. Len(ds), Cuts(bs, ds, cut, n), NEW t \in Seq(AnyWord), Len(t) \in 0 .. 4
    PROVE  \E less : /\ Cuts(SubSeq(bs, cut[1] + 1, Len(bs)), SubSeq(ds, 2, Len(ds)), less, n - 1)
                     /\ n - 1 > 0 => 0 < less[1]
                     /\ Open(SubSeq(bs, cut[1] + 1, Len(bs)), t, less[n - 1]) = Open(bs, t, cut[n])
<1>1. PICK b \in Nat : b = Len(bs)
  OBVIOUS
<1>2. PICK m \in Nat : m = Len(ds)
  OBVIOUS
<1>3. n \in 1 .. m /\ n \in Nat /\ 1 \in 0 .. n /\ 0 \in 0 .. n /\ 0 < 1
  BY <1>2
<1>4. cut[1] \in 0 .. b /\ cut[0] = 0 /\ cut[0] < cut[1]
  BY <1>1, <1>3 DEF Cuts
<1>5. PICK L \in 1 .. b : L = cut[1]
  BY <1>4
<1> DEFINE rest == SubSeq(bs, L + 1, Len(bs))
           gone == SubSeq(ds, 2, Len(ds))
           less == [k \in 0 .. (n - 1) |-> cut[k + 1] - L]
<1>6. rest \in Seq(Seq(AnyWord)) /\ Len(rest) = b - L /\ \A i \in 1 .. (b - L) : rest[i] = bs[L + i]
  <2>1. \A i \in (L + 1) .. b : bs[i] \in Seq(AnyWord)
    BY <1>1
  <2>2. /\ rest \in Seq(Seq(AnyWord))
        /\ Len(rest) = IF L + 1 <= b THEN b - (L + 1) + 1 ELSE 0
        /\ \A i \in 1 .. (b - (L + 1) + 1) : rest[i] = bs[(L + 1) + i - 1]
    BY <1>1, <2>1, SubSeqProperties
  <2>3. b - (L + 1) + 1 = b - L /\ \A i \in 1 .. (b - L) : (L + 1) + i - 1 = L + i
    OBVIOUS
  <2> HIDE DEF rest
  <2>4. Len(rest) = b - L
    <3>1. (IF L + 1 <= b THEN b - (L + 1) + 1 ELSE 0) = b - L
      OBVIOUS
    <3>2. QED
      BY <2>2, <3>1
  <2>5. \A i \in 1 .. (b - L) : rest[i] = bs[L + i]
    BY <2>2, <2>3
  <2>6. QED
    BY <2>2, <2>4, <2>5
<1>7. \A k \in 1 .. (n - 1) : gone[k] = ds[k + 1]
  <2>1. \A i \in 2 .. m : ds[i] \in AnyFrame
    BY <1>2
  <2>2. \A i \in 1 .. (m - 2 + 1) : gone[i] = ds[2 + i - 1]
    BY <1>2, <2>1, SubSeqProperties
  <2>3. \A k \in 1 .. (n - 1) : k \in 1 .. (m - 2 + 1) /\ 2 + k - 1 = k + 1
    BY <1>3
  <2> HIDE DEF gone
  <2>4. QED
    BY <2>2, <2>3
<1>8. \A k \in 0 .. (n - 1) : k + 1 \in 0 .. n /\ k + 1 \in 1 .. n /\ less[k] = cut[k + 1] - L
  BY <1>3
<1>9. \A k \in 1 .. n : cut[k] \in L .. b /\ (k # 1 => cut[k] > L)
  <2>1. TAKE k \in 1 .. n
  <2>2. cut[k] \in 0 .. b
    <3>1. k \in 0 .. n
      BY <1>3
    <3>2. QED
      BY <1>1, <3>1 DEF Cuts
  <2>3. CASE k = 1
    BY <1>5, <2>2, <2>3
  <2>4. CASE k # 1
    <3>1. 1 < k /\ k \in 0 .. n
      BY <1>3, <2>4
    <3>2. cut[1] < cut[k]
      BY <1>3, <3>1 DEF Cuts
    <3>3. QED
      BY <1>5, <2>2, <3>2
  <2>5. QED
    BY <2>3, <2>4
<1>10. less \in [0 .. (n - 1) -> 0 .. (b - L)] /\ less[0] = 0
  <2>1. \A k \in 0 .. (n - 1) : cut[k + 1] - L \in 0 .. (b - L)
    <3>1. TAKE k \in 0 .. (n - 1)
    <3>2. PICK x \in L .. b : x = cut[k + 1]
      BY <1>8, <1>9
    <3>3. x - L \in 0 .. (b - L)
      OBVIOUS
    <3>4. QED
      BY <3>2, <3>3
  <2>2. less \in [0 .. (n - 1) -> 0 .. (b - L)]
    BY <2>1, Zenon
  <2>3. 0 \in 0 .. (n - 1) /\ cut[0 + 1] - L = 0
    BY <1>3, <1>5
  <2>4. QED
    BY <2>2, <2>3
<1> HIDE DEF rest, gone, less
<1>11. \A k, l \in 0 .. (n - 1) : k < l => less[k] < less[l]
  <2>1. TAKE k, l \in 0 .. (n - 1)
  <2>2. HAVE k < l
  <2>3. k + 1 \in 0 .. n /\ l + 1 \in 0 .. n /\ k + 1 < l + 1
    BY <1>8, <2>2
  <2>4. cut[k + 1] < cut[l + 1]
    BY <2>3 DEF Cuts
  <2>5. PICK x \in L .. b, y \in L .. b : x = cut[k + 1] /\ y = cut[l + 1]
    BY <1>8, <1>9
  <2>6. less[k] = x - L /\ less[l] = y - L
    BY <1>8, <2>5
  <2>7. x < y
    BY <2>4, <2>5
  <2>8. x - L < y - L
    BY <2>7
  <2>9. QED
    BY <2>6, <2>8
<1>12. \A i \in 1 .. (b - L) : IsLast(rest[i]) <=> \E k \in 1 .. (n - 1) : less[k] = i
  <2>1. TAKE i \in 1 .. (b - L)
  <2>2. L + i \in 1 .. b /\ rest[i] = bs[L + i]
    <3>1. L + i \in 1 .. b
      OBVIOUS
    <3>2. QED
      BY <1>6, <3>1
  <2>3. IsLast(rest[i]) <=> \E k \in 1 .. n : cut[k] = L + i
    BY <1>1, <2>2 DEF Cuts
  <2>4. ASSUME NEW k \in 1 .. n, cut[k] = L + i PROVE \E j \in 1 .. (n - 1) : less[j] = i
    <3>1. k # 1
      BY <1>5, <2>4
    <3>2. k - 1 \in 1 .. (n - 1) /\ k - 1 \in 0 .. (n - 1) /\ (k - 1) + 1 = k
      BY <1>3, <3>1
    <3>3. less[k - 1] = cut[k] - L
      BY <1>8, <3>2
    <3>4. less[k - 1] = i
      BY <2>4, <3>3
    <3>5. QED
      BY <3>2, <3>4
  <2>5. ASSUME NEW j \in 1 .. (n - 1), less[j] = i PROVE \E k \in 1 .. n : cut[k] = L + i
    <3>1. j \in 0 .. (n - 1)
      OBVIOUS
    <3>2. j + 1 \in 1 .. n /\ less[j] = cut[j + 1] - L
      BY <1>8, <3>1
    <3>3. cut[j + 1] \in L .. b
      BY <1>9, <3>2
    <3>4. cut[j + 1] = L + i
      BY <2>5, <3>2, <3>3
    <3>5. QED
      BY <3>2, <3>4
  <2>6. QED
    BY <2>3, <2>4, <2>5
<1>13. \A k \in 1 .. (n - 1) : Whole(Stretch(rest, less[k - 1], less[k]), gone[k])
  <2>1. TAKE k \in 1 .. (n - 1)
  <2>2. k - 1 \in 0 .. (n - 1) /\ k \in 0 .. (n - 1) /\ (k - 1) + 1 = k /\ k \in 1 .. n /\ k + 1 \in 1 .. n
        /\ k \in 0 .. n /\ k + 1 \in 0 .. n /\ k < k + 1 /\ (k + 1) - 1 = k
    BY <1>3
  <2>3. cut[k] \in L .. b /\ cut[k + 1] \in L .. b /\ cut[k] < cut[k + 1]
    BY <1>9, <2>2 DEF Cuts
  <2>4. less[k - 1] = cut[k] - L /\ less[k] = cut[k + 1] - L
    BY <1>8, <2>2
  <2>5. PICK c \in L .. b, e \in 1 .. b : c = cut[k] /\ e = cut[k + 1] /\ c < e
    BY <2>3
  <2>6. Alike(bs, c, e, rest, c - L, e - L)
    <3>1. ASSUME NEW i \in 1 .. (e - c) PROVE (c - L) + i \in 1 .. (b - L) /\ L + ((c - L) + i) = c + i
      <4>1. i \in Int /\ c \in Int /\ L \in Int /\ e \in Int /\ b \in Int /\ 1 <= i /\ i <= e - c /\ L <= c /\ e <= b
        OBVIOUS
      <4>2. QED
        BY <4>1
    <3>2. \A i \in 1 .. (e - c) : bs[c + i] = rest[(c - L) + i]
      BY <1>6, <3>1
    <3>3. Len(bs[e]) \in 0 .. 4
      BY <1>1 DEF Short
    <3>4. c < e /\ c - L < e - L /\ e - c = (e - L) - (c - L)
      BY <2>5
    <3>5. QED
      BY <3>2, <3>3, <3>4 DEF Alike
  <2>7. c \in Nat /\ e \in Nat /\ c - L \in Nat /\ e - L \in Nat
    <3>1. L \in Nat /\ c \in Int /\ e \in Int /\ L <= c /\ c < e
      BY <2>5
    <3>2. QED
      BY <3>1
  <2>8. Stretch(bs, c, e) = Stretch(rest, c - L, e - L)
    BY <2>6, <2>7, StretchSame
  <2>9. Whole(Stretch(bs, cut[(k + 1) - 1], cut[k + 1]), ds[k + 1])
    BY <2>2 DEF Cuts
  <2>10. QED
    BY <1>7, <2>2, <2>4, <2>5, <2>8, <2>9
<1>14. Cuts(rest, gone, less, n - 1)
  BY <1>6, <1>10, <1>11, <1>12, <1>13 DEF Cuts
<1>15. n - 1 > 0 => 0 < less[1]
  <2>1. n - 1 > 0 => 1 \in 0 .. (n - 1) /\ 0 \in 0 .. (n - 1)
    BY <1>3
  <2>2. QED
    BY <1>10, <1>11, <2>1
<1>16. Open(rest, t, less[n - 1]) = Open(bs, t, cut[n])
  <2>1. n \in 1 .. n /\ n - 1 \in 0 .. (n - 1) /\ (n - 1) + 1 = n
    BY <1>3
  <2>2. PICK c \in L .. b : c = cut[n]
    BY <1>9, <2>1
  <2>3. less[n - 1] = c - L
    BY <1>8, <2>1, <2>2
  <2> DEFINE bt == Append(bs, t)
             rt == Append(rest, t)
  <2>4. bt[b + 1] = t /\ \A i \in 1 .. b : bt[i] = bs[i]
    BY <1>1, AppendProperties
  <2>5. rt[(b - L) + 1] = t /\ \A i \in 1 .. (b - L) : rt[i] = rest[i]
    <3>1. rt[Len(rest) + 1] = t /\ \A i \in 1 .. Len(rest) : rt[i] = rest[i]
      <4>1. rest \in Seq(Seq(AnyWord))
        BY <1>6
      <4>2. /\ \A i \in 1 .. Len(rest) : rt[i] = rest[i]
            /\ rt[Len(rest) + 1] = t
        BY <4>1, AppendProperties
      <4>3. QED
        BY <4>2
    <3> HIDE DEF rt
    <3>2. QED
      BY <1>6, <3>1
  <2>6. Open(bs, t, c) = Stretch(bt, c, b + 1) /\ Open(rest, t, c - L) = Stretch(rt, c - L, (b - L) + 1)
    BY <1>1, <1>6 DEF Open
  <2> HIDE DEF bt, rt
  <2>7. Alike(bt, c, b + 1, rt, c - L, (b - L) + 1)
    <3>1. ASSUME NEW i \in 1 .. ((b + 1) - c) PROVE bt[c + i] = rt[(c - L) + i]
      <4>1. CASE i = (b + 1) - c
        <5>1. c + i = b + 1 /\ (c - L) + i = (b - L) + 1
          BY <4>1
        <5>2. QED
          BY <2>4, <2>5, <5>1
      <4>2. CASE i # (b + 1) - c
        <5>1. c + i \in 1 .. b /\ (c - L) + i \in 1 .. (b - L) /\ L + ((c - L) + i) = c + i
          BY <4>2
        <5>2. rt[(c - L) + i] = bs[c + i]
          BY <1>6, <2>5, <5>1
        <5>3. QED
          BY <2>4, <5>1, <5>2
      <4>3. QED
        BY <4>1, <4>2
    <3>2. c < b + 1 /\ c - L < (b - L) + 1 /\ (b + 1) - c = ((b - L) + 1) - (c - L)
      OBVIOUS
    <3>3. Len(bt[b + 1]) \in 0 .. 4
      BY <2>4
    <3>4. QED
      BY <3>1, <3>2, <3>3 DEF Alike
  <2>8. c \in Nat /\ b + 1 \in Nat /\ c - L \in Nat /\ (b - L) + 1 \in Nat
    OBVIOUS
  <2>9. Stretch(bt, c, b + 1) = Stretch(rt, c - L, (b - L) + 1)
    BY <2>7, <2>8, StretchSame
  <2>10. QED
    BY <2>2, <2>3, <2>6, <2>9
<1>17. QED
  BY <1>5, <1>14, <1>15, <1>16 DEF rest, gone

-----------------------------------------------------------------------------
(* The stream, clock by clock                                               *)

\* The beats that have left for a frame's buffer or wait to, and the words of the next.
Beats == buf \o fifo
Top   == IF smaster = None THEN beat ELSE Append(beat, smaster)

\* The frames due whose beats are all in Beats.
Ready == IF Ending THEN Len(due) - 1 ELSE Len(due)

StreamInv ==
    /\ due \in Seq(AnyFrame) /\ Short(Beats) /\ (Ending => due # <<>>)
    /\ \E cut : /\ Cuts(Beats, due, cut, Ready)
                /\ Ready > 0 => Len(buf) < cut[1]
                /\ IF Ending THEN Whole(Open(Beats, Top, cut[Ready]), due[Ready + 1])
                   ELSE /\ Len(Open(Beats, Top, cut[Ready])) = Told
                        /\ Spoken(Open(Beats, Top, cut[Ready]), said, lost)

LEMMA BeatsType ==
    ASSUME TypeOK, RoomInv
    PROVE  /\ Beats \in Seq(Seq(AnyWord)) /\ beat \in Seq(AnyWord) /\ Len(beat) \in 0 .. 3
           /\ Top \in Seq(AnyWord) /\ Len(Top) = Len(beat) + (IF smaster = None THEN 0 ELSE 1)
           /\ Len(Top) \in 0 .. 4
           /\ smaster # None => smaster \in AnyWord /\ Top[Len(Top)] = smaster
<1>1. /\ buf \in Seq(Seq(AnyWord)) /\ fifo \in Seq(Seq(AnyWord)) /\ beat \in Seq(AnyWord)
      /\ smaster \in AnyWord \cup {None}
  BY DEF TypeOK
<1>2. PICK k \in Nat : k = Len(beat)
  BY <1>1
<1>3. k \in 0 .. 3
  <2>1. Len(beat) < 4
    BY DEF RoomInv, BeatWords
  <2>2. k < 4
    BY <1>2, <2>1
  <2>3. QED
    BY <1>2, <2>2
<1>4. Beats \in Seq(Seq(AnyWord))
  BY <1>1, ConcatProperties DEF Beats
<1>5. CASE smaster = None
  BY <1>1, <1>2, <1>3, <1>4, <1>5 DEF Top
<1>6. CASE smaster # None
  <2>1. smaster \in AnyWord
    BY <1>1, <1>6
  <2>2. Top \in Seq(AnyWord) /\ Len(Top) = k + 1 /\ Top[k + 1] = smaster
    BY <1>1, <1>2, <1>6, <2>1, AppendProperties DEF Top
  <2>3. k + 1 \in 0 .. 4
    BY <1>3
  <2>4. QED
    BY <1>1, <1>2, <1>3, <1>4, <1>6, <2>1, <2>2, <2>3
<1>7. QED
  BY <1>5, <1>6

\* What a clock does to the beats.
LEMMA BeatStep ==
    ASSUME TypeOK, RoomInv, Left \in Nat, Tick
    PROVE  /\ beat' = (IF Full THEN <<>> ELSE Top) /\ buf' = buf
           /\ Beats' = IF Full THEN Append(Beats, Top) ELSE Beats
           /\ ~Full => Len(Top) < 4 /\ ~Ending
           /\ Ending => Full /\ IsLast(Top)
           /\ Full /\ ~Ending => Len(Top) = 4 /\ ~IsLast(Top)
<1>1. /\ buf \in Seq(Seq(AnyWord)) /\ fifo \in Seq(Seq(AnyWord)) /\ beat \in Seq(AnyWord) /\ Len(beat) \in 0 .. 3
      /\ Top \in Seq(AnyWord) /\ Len(Top) = Len(beat) + (IF smaster = None THEN 0 ELSE 1)
      /\ smaster # None => Top[Len(Top)] = smaster
  BY BeatsType DEF TypeOK
<1>2. Push /\ buf' = buf
  BY DEF Tick
<1>3. Full <=> smaster # None /\ (Len(beat) = 3 \/ smaster.kind = "end")
  BY DEF Full, BeatWords
<1>4. Ending => Full
  BY <1>3 DEF Ending
<1>a. PICK l \in 0 .. 3 : l = Len(beat)
  BY <1>1
<1>b. PICK m \in Nat : m = Len(Top)
  BY <1>1
<1>c. m = l + (IF smaster = None THEN 0 ELSE 1)
  BY <1>1, <1>a, <1>b
<1>d. Full <=> smaster # None /\ (l = 3 \/ smaster.kind = "end")
  BY <1>3, <1>a
<1>e. (~Full => m < 4) /\ (Full /\ ~Ending => m = 4)
  BY <1>c, <1>d DEF Ending
<1>5. ~Full => Len(Top) < 4
  BY <1>b, <1>e
<1>6. Full /\ ~Ending => Len(Top) = 4
  BY <1>b, <1>e
<1>7. smaster # None => (IsLast(Top) <=> Ending)
  BY <1>1 DEF IsLast, Ending
<1>8. CASE Full
  <2>1. Len(fifo) < Depth
    BY <1>8, Roomy
  <2>2. beat' = <<>> /\ fifo' = Append(fifo, Top)
    BY <1>2, <1>3, <1>8, <2>1 DEF Push, Top
  <2>3. buf \o Append(fifo, Top) = Append(buf \o fifo, Top)
    <3>1. buf \o Append(fifo, Top) \in Seq(Seq(AnyWord)) /\ Append(buf \o fifo, Top) \in Seq(Seq(AnyWord))
      BY <1>1, AppendProperties, ConcatProperties
    <3>2. PICK b \in Nat, f \in Nat : b = Len(buf) /\ f = Len(fifo)
      BY <1>1
    <3>3. Append(fifo, Top) \in Seq(Seq(AnyWord)) /\ Len(Append(fifo, Top)) = f + 1 /\ buf \o fifo \in Seq(Seq(AnyWord))
          /\ Len(buf \o fifo) = b + f
      BY <1>1, <3>2, AppendProperties, ConcatProperties
    <3>4. Len(buf \o Append(fifo, Top)) = b + (f + 1) /\ Len(Append(buf \o fifo, Top)) = (b + f) + 1
      BY <1>1, <3>2, <3>3, AppendProperties, ConcatProperties
    <3>5. \A i \in 1 .. (b + f + 1) : (buf \o Append(fifo, Top))[i] = Append(buf \o fifo, Top)[i]
      <4>1. TAKE i \in 1 .. (b + f + 1)
      <4> DEFINE fa == Append(fifo, Top)
                 ba == Append(buf \o fifo, Top)
      <4>2. fa \in Seq(Seq(AnyWord)) /\ fa[f + 1] = Top /\ \A j \in 1 .. f : fa[j] = fifo[j]
        BY <1>1, <3>2, AppendProperties
      <4>3. ba[b + f + 1] = Top /\ \A j \in 1 .. (b + f) : ba[j] = (buf \o fifo)[j]
        BY <1>1, <3>2, <3>3, AppendProperties
      <4> HIDE DEF fa, ba
      <4>4. \A j \in 1 .. (b + (f + 1)) : (buf \o fa)[j] = IF j <= b THEN buf[j] ELSE fa[j - b]
        <5>1. Len(fa) = f + 1
          BY <3>3 DEF fa
        <5>2. \A j \in 1 .. (Len(buf) + Len(fa)) : (buf \o fa)[j] = IF j <= Len(buf) THEN buf[j] ELSE fa[j - Len(buf)]
          BY <1>1, <4>2, ConcatProperties
        <5>3. QED
          BY <3>2, <5>1, <5>2
      <4>5. \A j \in 1 .. (b + f) : (buf \o fifo)[j] = IF j <= b THEN buf[j] ELSE fifo[j - b]
        BY <1>1, <3>2, ConcatProperties
      <4>6. (buf \o fa)[i] = IF i <= b THEN buf[i] ELSE fa[i - b]
        <5>1. i \in 1 .. (b + (f + 1))
          OBVIOUS
        <5>2. QED
          BY <4>4, <5>1
      <4>7. CASE i = b + f + 1
        <5>1. ~(i <= b) /\ i - b = f + 1
          BY <4>7
        <5>2. QED
          BY <4>2, <4>3, <4>6, <4>7, <5>1 DEF fa, ba
      <4>8. CASE i # b + f + 1
        <5>1. i \in 1 .. (b + f)
          BY <4>8
        <5>2. ba[i] = IF i <= b THEN buf[i] ELSE fifo[i - b]
          BY <4>3, <4>5, <5>1
        <5>3. ~(i <= b) => i - b \in 1 .. f
          BY <5>1
        <5>4. QED
          BY <4>2, <4>6, <5>2, <5>3 DEF fa, ba
      <4>9. QED
        BY <4>7, <4>8
    <3>6. QED
      BY <3>1, <3>2, <3>4, <3>5, SeqEqual
  <2>4. QED
    BY <1>2, <1>4, <1>6, <1>7, <1>8, <2>2, <2>3 DEF Beats, Full
<1>9. CASE ~Full
  <2>1. beat' = Top /\ fifo' = fifo
    BY <1>2, <1>9 DEF Push, Top
  <2>2. QED
    BY <1>2, <1>4, <1>5, <1>9, <2>1 DEF Beats
<1>10. QED
  BY <1>8, <1>9

\* A frame that has ended has nothing said after it.
LEMMA Ended ==
    ASSUME TypeOK, RoomInv, SaidInv, Ending
    PROVE  said = <<>> /\ Told = 0
<1>1. clock \notin 1 .. 199
  BY DEF RoomInv, Weight, Ending
<1>2. clock \notin 2 .. 199
  BY <1>1
<1>3. said = <<>>
  BY <1>2 DEF SaidInv
<1>4. QED
  BY <1>3 DEF Told

\* With the word at the input in its beat, all that are due are in Beats.
Flows(bs, t, ds, cut) ==
    /\ Cuts(bs, ds, cut, Len(ds)) /\ (Len(ds) > 0 => Len(buf) < cut[1])
    /\ cut[Len(ds)] \in 0 .. Len(bs)
    /\ Len(Open(bs, t, cut[Len(ds)])) = Told /\ Spoken(Open(bs, t, cut[Len(ds)]), said, lost)

LEMMA Packed ==
    ASSUME TypeOK, RoomInv, SaidInv, StreamInv, Left \in Nat, Tick
    PROVE  /\ Short(Beats') /\ Beats' \in Seq(Seq(AnyWord)) /\ beat' \in Seq(AnyWord) /\ Len(beat') \in 0 .. 3
           /\ \E cut : Flows(Beats', beat', due, cut)
<1>1. /\ Beats \in Seq(Seq(AnyWord)) /\ Top \in Seq(AnyWord) /\ Len(Top) \in 0 .. 4
  BY BeatsType
<1>2. /\ beat' = (IF Full THEN <<>> ELSE Top) /\ buf' = buf
      /\ Beats' = IF Full THEN Append(Beats, Top) ELSE Beats
      /\ ~Full => Len(Top) < 4 /\ ~Ending
      /\ Ending => Full /\ IsLast(Top)
      /\ Full /\ ~Ending => Len(Top) = 4 /\ ~IsLast(Top)
  BY BeatStep
<1>3. PICK b \in Nat, d \in Nat : b = Len(Beats) /\ d = Len(due)
  BY <1>1 DEF StreamInv
<1>4. <<>> \in Seq(AnyWord) /\ Len(<<>>) = 0
  OBVIOUS
<1>5. PICK cut : /\ Cuts(Beats, due, cut, Ready)
                 /\ Ready > 0 => Len(buf) < cut[1]
                 /\ IF Ending THEN Whole(Open(Beats, Top, cut[Ready]), due[Ready + 1])
                    ELSE /\ Len(Open(Beats, Top, cut[Ready])) = Told
                         /\ Spoken(Open(Beats, Top, cut[Ready]), said, lost)
  BY DEF StreamInv
<1>6. Short(Beats) /\ due \in Seq(AnyFrame) /\ (Ending => d # 0)
  BY <1>3 DEF StreamInv
<1>7. CASE ~Full
  <2>1. ~Ending /\ Ready = d /\ beat' = Top /\ Beats' = Beats /\ Len(Top) < 4
    BY <1>2, <1>3, <1>7 DEF Ready
  <2>2. cut[d] \in 0 .. b
    <3>1. d \in 0 .. d
      OBVIOUS
    <3>2. QED
      BY <1>3, <1>5, <2>1, <3>1 DEF Cuts
  <2>3. Flows(Beats', beat', due, cut)
    BY <1>3, <1>5, <2>1, <2>2 DEF Flows
  <2>4. Len(Top) \in 0 .. 3
    BY <1>1, <2>1
  <2>5. QED
    BY <1>1, <1>6, <2>1, <2>3, <2>4
<1>8. ASSUME Full
      PROVE  /\ Short(Beats') /\ Beats' \in Seq(Seq(AnyWord)) /\ beat' \in Seq(AnyWord) /\ Len(beat') \in 0 .. 3
             /\ beat' = <<>> /\ Beats' = Append(Beats, Top) /\ Len(Beats') = b + 1
  <2>1. beat' = <<>> /\ Beats' = Append(Beats, Top)
    BY <1>2, <1>8
  <2>2. Append(Beats, Top) \in Seq(Seq(AnyWord)) /\ Len(Append(Beats, Top)) = b + 1
        /\ Append(Beats, Top)[b + 1] = Top /\ \A i \in 1 .. b : Append(Beats, Top)[i] = Beats[i]
    BY <1>1, <1>3, AppendProperties
  <2>3. \A i \in 1 .. (b + 1) : Len(Append(Beats, Top)[i]) \in 0 .. 4
    <3>1. TAKE i \in 1 .. (b + 1)
    <3>2. CASE i = b + 1
      <4>1. Append(Beats, Top)[i] = Top
        BY <2>2, <3>2
      <4>2. QED
        BY <1>1, <4>1
    <3>3. CASE i \in 1 .. b
      <4>1. Len(Beats[i]) \in 0 .. 4
        BY <1>3, <1>6, <3>3 DEF Short
      <4>2. Append(Beats, Top)[i] = Beats[i]
        BY <2>2, <3>3
      <4>3. QED
        BY <4>1, <4>2
    <3>4. i = b + 1 \/ i \in 1 .. b
      OBVIOUS
    <3>5. QED
      BY <3>2, <3>3, <3>4
  <2>4. Short(Append(Beats, Top))
    BY <2>2, <2>3 DEF Short
  <2>5. QED
    BY <1>4, <2>1, <2>2, <2>4
<1>9. CASE Full /\ ~Ending
  <2>1. Ready = d /\ Len(Top) = 4 /\ ~IsLast(Top) /\ d \in Nat
    BY <1>2, <1>3, <1>9 DEF Ready
  <2>2. Cuts(Beats', due, cut, d)
    BY <1>1, <1>5, <1>6, <1>8, <1>9, <2>1, CutsKept
  <2>3. cut[d] \in 0 .. b
    <3>1. d \in 0 .. d
      OBVIOUS
    <3>2. QED
      BY <1>3, <1>5, <2>1, <3>1 DEF Cuts
  <2>4. cut[d] \in 0 .. (b + 1)
    BY <2>3
  <2>5. Open(Beats', beat', cut[d]) = Open(Beats, Top, cut[d])
    BY <1>1, <1>3, <1>8, <1>9, <2>1, <2>3, OpenCarry
  <2>6. Flows(Beats', beat', due, cut)
    BY <1>3, <1>5, <1>8, <1>9, <2>1, <2>2, <2>4, <2>5 DEF Flows
  <2>7. QED
    BY <1>8, <1>9, <2>6
<1>10. CASE Full /\ Ending
  <2>1. Ready = d - 1 /\ IsLast(Top) /\ d \in Nat /\ d - 1 \in Nat /\ (d - 1) + 1 = d
    BY <1>2, <1>3, <1>6, <1>10 DEF Ready
  <2>2. said = <<>> /\ Told = 0
    BY <1>10, Ended
  <2>3. PICK n \in Nat : n = d - 1 /\ n + 1 = d /\ n = Ready
    BY <2>1
  <2>4. Cuts(Beats, due, cut, n) /\ Whole(Open(Beats, Top, cut[n]), due[n + 1])
    BY <1>5, <1>10, <2>3
  <2>5. PICK more : /\ Cuts(Append(Beats, Top), due, more, n + 1) /\ more[n + 1] = Len(Beats) + 1
                    /\ \A k \in 0 .. n : more[k] = cut[k]
    BY <1>1, <1>6, <2>1, <2>4, CutsMore
  <2>6. Cuts(Beats', due, more, d) /\ more[d] = b + 1
    BY <1>3, <1>8, <1>10, <2>3, <2>5
  <2>7. Len(buf) < more[1]
    <3>1. CASE n = 0
      <4>1. more[1] = b + 1
        BY <1>3, <2>5, <3>1
      <4>2. Len(buf) <= b /\ Len(buf) \in Nat
        <5>1. buf \in Seq(Seq(AnyWord)) /\ fifo \in Seq(Seq(AnyWord))
          BY DEF TypeOK
        <5>2. Len(Beats) = Len(buf) + Len(fifo)
          BY <5>1 DEF Beats
        <5>3. QED
          BY <1>3, <5>1, <5>2
      <4>3. QED
        BY <4>1, <4>2
    <3>2. CASE n # 0
      <4>1. n > 0 /\ 1 \in 0 .. n
        BY <3>2
      <4>2. QED
        BY <1>5, <2>3, <2>5, <4>1
    <3>3. QED
      BY <3>1, <3>2
  <2>8. b + 1 \in 0 .. Len(Beats')
    BY <1>8, <1>10
  <2>9. Len(Open(Beats', beat', b + 1)) = 0
    <3>1. Len(Open(Beats', <<>>, b + 1)) = 4 * (Len(Beats') - (b + 1)) + Len(<<>>)
      BY <1>4, <1>8, <1>10, <2>8, OpenIs
    <3>2. QED
      BY <1>4, <1>8, <1>10, <3>1
  <2>10. Spoken(Open(Beats', beat', b + 1), said, lost)
    BY <2>2 DEF Spoken
  <2>11. Flows(Beats', beat', due, more)
    BY <1>3, <2>2, <2>6, <2>7, <2>8, <2>9, <2>10 DEF Flows
  <2>12. QED
    BY <1>8, <1>10, <2>11
<1>11. QED
  BY <1>7, <1>9, <1>10

\* v is w and then x.
More(w, x, v) == Len(w) \in Nat /\ Len(v) = Len(w) + 1 /\ v[Len(w) + 1] = x /\ \A p \in 1 .. Len(w) : v[p] = w[p]

\* The next word of the message being said.
LEMMA SpokenMore ==
    ASSUME TypeOK, SaidInv, said # <<>>, Turn \in 1 .. Size(Said.kind),
           NEW w, NEW v, More(w, WordOf(Said, Turn, lost /\ Len(said) = 1), v),
           Spoken(w, said, lost), Len(w) + 1 = 11 * (Len(said) - 1) + Turn
    PROVE  Spoken(v, said, lost)
<1>1. PICK n \in 1 .. 3 : n = Len(said)
  BY SaidIs
<1>2. PICK t \in Nat : t = Turn /\ t >= 1
  <2>1. Size(Said.kind) \in {11, 23}
    BY SaidIs, MessageIs
  <2>2. QED
    BY <2>1
<1>3. Len(w) = 11 * (n - 1) + t - 1 /\ Len(v) = 11 * (n - 1) + t /\ said[n] = Said /\ Len(w) \in Nat
  BY <1>1, <1>2 DEF More, Said
<1>4. ASSUME NEW i \in 1 .. n, NEW j \in 1 .. Size(said[i].kind), 11 * (i - 1) + j <= 11 * (n - 1) + t
      PROVE  v[11 * (i - 1) + j] = WordOf(said[i], j, lost /\ i = 1)
  <2>1. said[i] \in Messages
    BY <1>1 DEF SaidInv
  <2>2. Size(said[i].kind) \in {11, 23} /\ j \in Nat /\ j >= 1
    BY <2>1, MessageIs
  <2>3. i < n => Size(said[i].kind) = 11
    <3>1. i < n => said[i].kind # "event"
      BY <1>1 DEF SaidInv
    <3>2. QED
      BY <2>1, <3>1, MessageIs
  <2>4. CASE 11 * (i - 1) + j <= 11 * (n - 1) + t - 1
    <3>1. 11 * (i - 1) + j \in 1 .. (11 * (n - 1) + t - 1)
      BY <2>2, <2>4
    <3>2. 11 * (i - 1) + j \in 1 .. Len(w) /\ 11 * (i - 1) + j <= Len(w)
      BY <1>3, <2>4, <3>1
    <3>3. w[11 * (i - 1) + j] = WordOf(said[i], j, lost /\ i = 1)
      BY <1>1, <3>2 DEF Spoken
    <3>4. v[11 * (i - 1) + j] = w[11 * (i - 1) + j]
      BY <3>2 DEF More
    <3>5. QED
      BY <3>3, <3>4
  <2>5. CASE 11 * (i - 1) + j = 11 * (n - 1) + t
    <3>1. i = n /\ j = t
      BY <1>2, <2>2, <2>3, <2>5
    <3>2. v[Len(w) + 1] = WordOf(Said, t, lost /\ n = 1)
      BY <1>1, <1>2 DEF More
    <3>3. Len(w) + 1 = 11 * (i - 1) + j
      BY <1>3, <3>1
    <3>4. QED
      BY <1>3, <3>1, <3>2, <3>3
  <2>6. QED
    BY <1>2, <1>4, <2>2, <2>4, <2>5
<1>5. QED
  BY <1>1, <1>3, <1>4 DEF Spoken

\* A message is added to those that are complete.
LEMMA SpokenLonger ==
    ASSUME NEW ms, NEW mt, NEW w, NEW l, Spoken(w, ms, l),
           Len(w) \in Nat, Len(ms) \in Nat, Len(mt) = Len(ms) + 1, \A i \in 1 .. Len(ms) : mt[i] = ms[i],
           \A i \in 1 .. Len(mt) : mt[i] \in Messages, Len(w) <= 11 * Len(ms)
    PROVE  Spoken(w, mt, l)
<1>1. PICK n \in Nat, k \in Nat : n = Len(ms) /\ k = Len(w) /\ k <= 11 * n
  OBVIOUS
<1>2. ASSUME NEW i \in 1 .. (n + 1), NEW j \in 1 .. Size(mt[i].kind), 11 * (i - 1) + j <= k
      PROVE  w[11 * (i - 1) + j] = WordOf(mt[i], j, l /\ i = 1)
  <2>1. Size(mt[i].kind) \in {11, 23}
    BY <1>1, MessageIs
  <2>2. j \in Nat /\ j >= 1
    BY <2>1
  <2>3. i # n + 1
    BY <1>1, <1>2, <2>2
  <2>4. i \in 1 .. n
    BY <2>3
  <2>5. mt[i] = ms[i]
    BY <1>1, <2>4
  <2>6. QED
    BY <1>1, <1>2, <2>4, <2>5 DEF Spoken
<1>3. QED
  BY <1>1, <1>2 DEF Spoken

\* The end comes after all that was said.
LEMMA WholeEnd ==
    ASSUME NEW ms \in Seq(Messages), Len(ms) \in 1 .. 3, \A i \in 1 .. (Len(ms) - 1) : ms[i].kind # "event",
           NEW l \in BOOLEAN, NEW w, NEW v, More(w, EndWord, v), Spoken(w, ms, l), Len(w) = Total(ms)
    PROVE  Whole(v, [messages |-> ms, lost |-> l])
<1> DEFINE d == [messages |-> ms, lost |-> l]
<1>1. d.messages = ms /\ d.lost = l
  OBVIOUS
<1>2. PICK n \in 1 .. 3 : n = Len(ms)
  OBVIOUS
<1>3. \A i \in 1 .. n : ms[i] \in Messages
  BY <1>2
<1>4. PICK s \in {11, 23} : s = Size(ms[n].kind)
  BY <1>3, MessageIs
<1>5. Len(w) = 11 * (n - 1) + s /\ Len(v) = 11 * (n - 1) + s + 1
  BY <1>2, <1>4 DEF Total, More
<1>6. ASSUME NEW i \in 1 .. n, NEW j \in 1 .. Size(ms[i].kind)
      PROVE  v[11 * (i - 1) + j] = WordOf(ms[i], j, l /\ i = 1)
  <2>1. Size(ms[i].kind) = IF i = n THEN s ELSE 11
    <3>1. i # n => i \in 1 .. (n - 1)
      OBVIOUS
    <3>2. i # n => ms[i].kind # "event"
      BY <1>2, <3>1
    <3>3. QED
      BY <1>3, <1>4, <3>2, MessageIs
  <2>2. j \in Nat /\ j >= 1 /\ j <= IF i = n THEN s ELSE 11
    BY <1>4, <2>1
  <2>3. 11 * (i - 1) + j \in 1 .. (11 * (n - 1) + s)
    BY <1>4, <2>2
  <2>4. 11 * (i - 1) + j \in 1 .. Len(w) /\ 11 * (i - 1) + j <= Len(w)
    BY <1>5, <2>3
  <2>5. w[11 * (i - 1) + j] = WordOf(ms[i], j, l /\ i = 1)
    BY <1>2, <2>4 DEF Spoken
  <2>6. v[11 * (i - 1) + j] = w[11 * (i - 1) + j]
    BY <2>4 DEF More
  <2>7. QED
    BY <2>5, <2>6
<1>7. v[Len(v)].kind = "end"
  <2>1. Len(v) = Len(w) + 1 /\ v[Len(w) + 1] = EndWord
    BY DEF More
  <2>2. QED
    BY <2>1, EndType
<1>8. Len(v) = Total(ms) + 1
  BY DEF More
<1>9. Spoken(v, ms, l)
  BY <1>2, <1>6 DEF Spoken
<1> HIDE DEF d
<1>10. Whole(v, d)
  BY <1>1, <1>7, <1>8, <1>9 DEF Whole
<1>11. QED
  BY <1>10 DEF d

LEMMA CutsDue ==
    ASSUME NEW bs, NEW ds, NEW x, NEW cut, ds \in Seq(AnyFrame), x \in AnyFrame, Cuts(bs, ds, cut, Len(ds))
    PROVE  Cuts(bs, Append(ds, x), cut, Len(ds))
<1>1. PICK n \in Nat : n = Len(ds)
  OBVIOUS
<1>2. \A k \in 1 .. n : Append(ds, x)[k] = ds[k]
  BY <1>1, AppendProperties
<1>3. QED
  BY <1>1, <1>2 DEF Cuts

\* A word more of the frame that is under way.
LEMMA OpenMore ==
    ASSUME NEW bs \in Seq(Seq(AnyWord)), NEW t \in Seq(AnyWord), NEW c \in 0 .. Len(bs), Len(t) \in 0 .. 3,
           NEW x \in AnyWord
    PROVE  More(Open(bs, t, c), x, Open(bs, Append(t, x), c))
<1>1. Len(t) < 4
  <2>1. PICK k \in 0 .. 3 : k = Len(t)
    OBVIOUS
  <2>2. k < 4
    OBVIOUS
  <2>3. QED
    BY <2>1, <2>2
<1>2. Len(Open(bs, t, c)) \in Nat
  BY OpenIs
<1>3. QED
  BY <1>1, <1>2, OpenAdd DEF More

\* The words told are of said before and after a step that does not end the frame.
LEMMA SpokenStep ==
    ASSUME TypeOK, WindowInv, SpeechInv, Tick, clock # 199, paused' = paused, lost' = lost, ~Accept,
           NEW w, Len(w) = Told, Spoken(w, said, lost)
    PROVE  Len(w) = Told' /\ Spoken(w, said', lost')
<1>1. Told' = Told /\ (said' # said => Told' = 11 * (Len(said') - 1) \/ paused \/ Len(said') = 1)
  BY ToldStep
<1>2. CASE said' = said
  BY <1>1, <1>2
<1>3. ASSUME NEW m, Adds(m)
      PROVE  Spoken(w, said', lost')
  <2>1. /\ said' \in Seq(Messages) /\ Len(said') = Len(said) + 1
        /\ \A i \in 1 .. Len(said) : said'[i] = said[i]
    BY <1>3, Added DEF SpeechInv
  <2>2. PICK n \in Nat : n = Len(said)
    BY DEF SpeechInv, SaidInv
  <2>3. Len(said') = n + 1
    BY <2>1, <2>2
  <2>4. said' # said
    <3>1. n + 1 # n
      OBVIOUS
    <3>2. QED
      BY <2>2, <2>3, <3>1
  <2>5. PICK k \in Nat : k = Told
    BY ToldIs DEF SpeechInv
  <2>6. k <= 11 * n
    <3>1. CASE paused
      <4>1. Told = 0
        BY <3>1 DEF Told
      <4>2. QED
        BY <2>5, <4>1
    <3>2. CASE Len(said') = 1
      <4>a. n + 1 = 1
        BY <2>3, <3>2
      <4>1. n = 0
        BY <4>a
      <4>2. said = <<>>
        BY <2>2, <4>1, SaidIs DEF SpeechInv
      <4>3. Told = 0
        BY <4>2 DEF Told
      <4>4. QED
        BY <2>5, <4>1, <4>3
    <3>3. CASE Told' = 11 * (Len(said') - 1)
      <4>1. k = 11 * ((n + 1) - 1)
        BY <1>1, <2>3, <2>5, <3>3
      <4>2. QED
        BY <4>1
    <3>4. QED
      BY <1>1, <2>4, <3>1, <3>2, <3>3
  <2>7. Len(w) \in Nat /\ Len(said) \in Nat /\ Len(w) <= 11 * Len(said)
    BY <2>2, <2>5, <2>6
  <2>8. \A i \in 1 .. Len(said') : said'[i] \in Messages
    BY <2>1
  <2>9. Spoken(w, said', lost)
    <3> DEFINE mt == said'
    <3>1. /\ Len(mt) = Len(said) + 1 /\ \A i \in 1 .. Len(said) : mt[i] = said[i]
          /\ \A i \in 1 .. Len(mt) : mt[i] \in Messages
      BY <2>1, <2>8
    <3> HIDE DEF mt
    <3>2. Spoken(w, mt, lost)
      BY <2>7, <3>1, SpokenLonger
    <3>3. QED
      BY <3>2 DEF mt
  <2>10. QED
    BY <2>9
<1>4. said' = said \/ \E m : Adds(m)
  BY SaidStep
<1>5. QED
  BY <1>1, <1>2, <1>3, <1>4

LEMMA StreamTick ==
    ASSUME IInv, HistoryInv, StreamInv, Tick
    PROVE  StreamInv'
<1>0. TypeOK /\ WindowInv /\ RoomInv /\ SpeechInv /\ SaidInv /\ Left \in Nat
  BY ClockStep, LeftStep DEF IInv, HistoryInv, SpeechInv
<1> DEFINE bs == Beats'
           bt == beat'
           tt == Top'
<1>1. /\ Short(bs) /\ bs \in Seq(Seq(AnyWord)) /\ bt \in Seq(AnyWord) /\ Len(bt) \in 0 .. 3
      /\ \E cut : Flows(bs, bt, due, cut)
  BY <1>0, Packed
<1>2. PICK cut : Flows(bs, bt, due, cut)
  BY <1>1
<1>3. PICK d \in Nat : d = Len(due)
  BY DEF StreamInv
<1>4. tt = IF smaster' = None THEN bt ELSE Append(bt, smaster')
  BY DEF Top
<1>5. due \in Seq(AnyFrame) /\ buf' = buf
  BY DEF StreamInv, Tick
<1> HIDE DEF bs, bt, tt
<1>6. PICK c \in 0 .. Len(bs) : c = cut[d]
  BY <1>2, <1>3 DEF Flows
<1>7. /\ Cuts(bs, due, cut, d) /\ (d > 0 => Len(buf) < cut[1])
      /\ Len(Open(bs, bt, c)) = Told /\ Spoken(Open(bs, bt, c), said, lost)
  BY <1>2, <1>3, <1>6 DEF Flows
<1>8. ASSUME due' = due, ~Ending', Len(Open(bs, tt, c)) = Told', Spoken(Open(bs, tt, c), said', lost')
      PROVE  StreamInv'
  <2>1. Ready' = d
    BY <1>3, <1>8 DEF Ready
  <2>2. /\ Cuts(Beats', due', cut, Ready') /\ (Ready' > 0 => Len(buf') < cut[1])
        /\ Len(Open(Beats', Top', cut[Ready'])) = Told' /\ Spoken(Open(Beats', Top', cut[Ready']), said', lost')
    BY <1>5, <1>6, <1>7, <1>8, <2>1 DEF bs, tt
  <2>3. due' \in Seq(AnyFrame) /\ Short(Beats')
    BY <1>1, <1>5, <1>8 DEF bs
  <2>4. QED
    BY <1>8, <2>2, <2>3 DEF StreamInv
<1>9. CASE clock # 199
  <2>1. /\ Accept => smaster' = WordOf(Said, Turn, lost /\ Len(said) = 1) /\ smaster' # None
        /\ ~Accept => smaster' = None
        /\ paused' = paused /\ lost' = lost /\ due' = due
    BY <1>0, <1>9, StreamWord
  <2>2. CASE Accept
    <3>1. said # <<>> /\ Turn \in 1 .. Size(Said.kind)
      BY <1>0, <2>2, AcceptIs DEF Accept
    <3>2. Told' = Told + 1 /\ said' = said /\ Told + 1 = 11 * (Len(said) - 1) + Turn
      BY <1>0, <1>9, <2>1, <2>2, ToldStep
    <3> DEFINE x == WordOf(Said, Turn, lost /\ Len(said) = 1)
               w == Open(bs, bt, c)
               v == Open(bs, tt, c)
    <3>3. smaster' = x /\ x \in AnyWord /\ x.kind # "end"
      <4>1. smaster' = x /\ smaster' # None
        BY <2>1, <2>2
      <4>2. smaster' \in AnyWord \cup {None}
        BY <1>0, AssembleStep DEF Tick
      <4>3. x.kind = Said.kind /\ Said.kind # "end"
        <5>1. Said.kind # "end"
          BY <1>0, <3>1, SaidIs, MessageIs
        <5>2. QED
          BY <5>1, WordIs
      <4> HIDE DEF x
      <4>4. QED
        BY <4>1, <4>2, <4>3
    <3>4. tt = Append(bt, x)
      BY <1>4, <2>1, <2>2
    <3> HIDE DEF x
    <3>5. More(w, x, v)
      BY <1>1, <3>3, <3>4, OpenMore
    <3> HIDE DEF w, v
    <3>6. Spoken(v, said, lost)
      <4>1. Spoken(w, said, lost) /\ Len(w) + 1 = 11 * (Len(said) - 1) + Turn
        BY <1>7, <3>2 DEF w
      <4>2. QED
        BY <1>0, <3>1, <3>5, <4>1, SpokenMore DEF x
    <3>7. Len(v) = Told'
      BY <1>7, <3>2, <3>5 DEF More, w
    <3>8. ~Ending'
      BY <3>3 DEF Ending
    <3>9. QED
      BY <1>8, <2>1, <3>2, <3>6, <3>7, <3>8 DEF v
  <2>3. CASE ~Accept
    <3>1. tt = bt /\ ~Ending'
      BY <1>4, <2>1, <2>3 DEF Ending
    <3> DEFINE w == Open(bs, bt, c)
    <3>2. Len(w) = Told /\ Spoken(w, said, lost)
      BY <1>7
    <3> HIDE DEF w
    <3>3. Len(w) = Told' /\ Spoken(w, said', lost')
      BY <1>0, <1>9, <2>1, <2>3, <3>2, SpokenStep
    <3>4. QED
      BY <1>8, <2>1, <3>1, <3>3 DEF w
  <2>4. QED
    BY <2>2, <2>3
<1>10. CASE clock = 199
  <2>1. /\ said' = <<>> /\ smaster' = (IF idle THEN None ELSE EndWord)
        /\ due' = (IF idle THEN due ELSE Append(due, [messages |-> said, lost |-> lost]))
        /\ idle <=> paused \/ said = <<>>
        /\ said # <<>> => Turn > Size(Said.kind)
    BY <1>0, <1>10, AtEnd
  <2>2. CASE idle
    <3>1. tt = bt /\ ~Ending' /\ due' = due
      BY <1>4, <2>1, <2>2 DEF Ending
    <3>2. Told = 0 /\ Told' = 0
      BY <2>1, <2>2 DEF Told
    <3>3. Spoken(Open(bs, bt, c), said', lost')
      BY <2>1 DEF Spoken
    <3>4. QED
      BY <1>7, <1>8, <3>1, <3>2, <3>3
  <2>3. CASE ~idle
    <3>1. smaster' = EndWord /\ EndWord # None /\ EndWord \in AnyWord /\ Ending'
      BY <2>1, <2>3, EndType, NoneAssumption DEF Ending
    <3>2. tt = Append(bt, EndWord)
      BY <1>4, <3>1
    <3> DEFINE w == Open(bs, bt, c)
               v == Open(bs, tt, c)
               f == [messages |-> said, lost |-> lost]
    <3>3. More(w, EndWord, v)
      BY <1>1, <3>1, <3>2, OpenMore
    <3> HIDE DEF w, v
    <3>4. said # <<>> /\ ~paused /\ Turn > Size(Said.kind)
      BY <2>1, <2>3
    <3>5. said \in Seq(Messages) /\ Len(said) \in 1 .. 3 /\ lost \in BOOLEAN
          /\ Size(Said.kind) \in {11, 23} /\ Turn \in Int
      BY <1>0, <3>4, SaidIs, MessageIs DEF SaidInv, TypeOK
    <3>6. Len(w) = Total(said)
      <4>1. ~(Turn < 1)
        BY <3>4, <3>5
      <4>2. Told = 11 * (Len(said) - 1) + Size(Said.kind)
        BY <3>4, <4>1 DEF Told
      <4>3. QED
        BY <1>7, <4>2 DEF w, Total, Said
    <3>7. \A i \in 1 .. (Len(said) - 1) : said[i].kind # "event"
      <4>1. PICK n \in 1 .. 3 : n = Len(said)
        BY <3>5
      <4>2. \A i \in 1 .. (n - 1) : i \in 1 .. n /\ i < n
        OBVIOUS
      <4>3. QED
        BY <1>0, <4>1, <4>2 DEF SaidInv
    <3>8. Whole(v, f)
      <4>1. Spoken(w, said, lost)
        BY <1>7 DEF w
      <4>2. QED
        BY <3>3, <3>5, <3>6, <3>7, <4>1, WholeEnd
    <3>9. f \in AnyFrame
      BY <3>5 DEF AnyFrame
    <3> HIDE DEF f
    <3>10. due' = Append(due, f)
      BY <2>1, <2>3 DEF f
    <3>11. due' \in Seq(AnyFrame) /\ Len(due') = d + 1 /\ due'[d + 1] = f /\ due' # <<>>
      BY <1>3, <1>5, <3>9, <3>10, AppendProperties
    <3>12. Ready' = d
      <4>1. (d + 1) - 1 = d
        OBVIOUS
      <4>2. QED
        BY <3>1, <3>11, <4>1 DEF Ready
    <3>13. Cuts(bs, due', cut, d)
      BY <1>3, <1>5, <1>7, <3>9, <3>10, CutsDue
    <3>14. /\ Cuts(Beats', due', cut, Ready') /\ (Ready' > 0 => Len(buf') < cut[1])
           /\ Whole(Open(Beats', Top', cut[Ready']), due'[Ready' + 1])
      BY <1>5, <1>6, <1>7, <3>8, <3>11, <3>12, <3>13 DEF bs, tt, v
    <3>15. Short(Beats')
      BY <1>1 DEF bs
    <3>16. QED
      BY <3>1, <3>11, <3>14, <3>15 DEF StreamInv
  <2>4. QED
    BY <2>2, <2>3
<1>11. QED
  BY <1>9, <1>10

-----------------------------------------------------------------------------
(* The stream and the engine                                                *)

\* What is moved from the head of y to the end of x, and what stays.
LEMMA Moved ==
    ASSUME NEW S, NEW x \in Seq(S), NEW y \in Seq(S), NEW n \in 1 .. Len(y)
    PROVE  /\ x \o SubSeq(y, 1, n) \in Seq(S) /\ Len(x \o SubSeq(y, 1, n)) = Len(x) + n
           /\ \A i \in 1 .. (Len(x) + n) : (x \o SubSeq(y, 1, n))[i] = (x \o y)[i]
           /\ (x \o SubSeq(y, 1, n)) \o SubSeq(y, n + 1, Len(y)) = x \o y
           /\ SubSeq(y, n + 1, Len(y)) = SubSeq(x \o y, Len(x) + n + 1, Len(x \o y))
<1>1. PICK k \in Nat, l \in Nat : k = Len(x) /\ l = Len(y)
  OBVIOUS
<1>2. n \in 1 .. l /\ n \in Nat
  BY <1>1
<1> DEFINE h == SubSeq(y, 1, n)
           r == SubSeq(y, n + 1, l)
           z == x \o y
           b == x \o h
           w == b \o r
           u == SubSeq(z, k + n + 1, k + l)
<1>3. \A i \in 1 .. l : y[i] \in S
  BY <1>1
<1>4. h \in Seq(S) /\ Len(h) = n /\ \A i \in 1 .. n : h[i] = y[i]
  <2>1. \A i \in 1 .. n : y[i] \in S
    BY <1>2, <1>3
  <2>2. /\ h \in Seq(S) /\ Len(h) = (IF 1 <= n THEN n - 1 + 1 ELSE 0)
        /\ \A i \in 1 .. (n - 1 + 1) : h[i] = y[1 + i - 1]
    BY <1>2, <2>1, SubSeqProperties
  <2> HIDE DEF h
  <2>3. n - 1 + 1 = n /\ 1 <= n /\ \A i \in 1 .. n : 1 + i - 1 = i
    BY <1>2
  <2>4. QED
    BY <2>2, <2>3
<1>5. r \in Seq(S) /\ Len(r) = l - n /\ \A i \in 1 .. (l - n) : r[i] = y[n + i]
  <2>1. \A i \in (n + 1) .. l : y[i] \in S
    BY <1>2, <1>3
  <2>2. /\ r \in Seq(S) /\ Len(r) = (IF n + 1 <= l THEN l - (n + 1) + 1 ELSE 0)
        /\ \A i \in 1 .. (l - (n + 1) + 1) : r[i] = y[(n + 1) + i - 1]
    <3>1. n + 1 \in Int /\ l \in Int
      BY <1>2
    <3>2. QED
      BY <2>1, <3>1, SubSeqProperties
  <2> HIDE DEF r
  <2>3. l - (n + 1) + 1 = l - n /\ (IF n + 1 <= l THEN l - (n + 1) + 1 ELSE 0) = l - n
        /\ \A i \in 1 .. (l - n) : (n + 1) + i - 1 = n + i
    BY <1>2
  <2>4. QED
    BY <2>2, <2>3
<1>6. z \in Seq(S) /\ Len(z) = k + l /\ \A i \in 1 .. (k + l) : z[i] = IF i <= k THEN x[i] ELSE y[i - k]
  BY <1>1, ConcatProperties
<1> HIDE DEF h, r, z
<1>7. b \in Seq(S) /\ Len(b) = k + n /\ \A i \in 1 .. (k + n) : b[i] = IF i <= k THEN x[i] ELSE h[i - k]
  BY <1>1, <1>4, ConcatProperties
<1> HIDE DEF b
<1>8. w \in Seq(S) /\ Len(w) = (k + n) + (l - n)
      /\ \A i \in 1 .. ((k + n) + (l - n)) : w[i] = IF i <= k + n THEN b[i] ELSE r[i - (k + n)]
  <2>1. /\ w \in Seq(S) /\ Len(w) = Len(b) + Len(r)
        /\ \A i \in 1 .. (Len(b) + Len(r)) : w[i] = IF i <= Len(b) THEN b[i] ELSE r[i - Len(b)]
    BY <1>5, <1>7, ConcatProperties
  <2> HIDE DEF w
  <2>2. Len(b) = k + n /\ Len(r) = l - n
    BY <1>5, <1>7
  <2>3. QED
    BY <2>1, <2>2
<1> HIDE DEF w
<1>9. \A i \in 1 .. (k + n) : b[i] = z[i]
  <2>1. TAKE i \in 1 .. (k + n)
  <2>2. i \in 1 .. (k + l) /\ (~(i <= k) => i - k \in 1 .. n)
    BY <1>2
  <2>3. QED
    BY <1>4, <1>6, <1>7, <2>2
<1>10. w = z
  <2>1. (k + n) + (l - n) = k + l
    BY <1>2
  <2>2. \A i \in 1 .. (k + l) : w[i] = z[i]
    <3>1. TAKE i \in 1 .. (k + l)
    <3>2. w[i] = IF i <= k + n THEN b[i] ELSE r[i - (k + n)]
      BY <1>8, <2>1
    <3>3. CASE i <= k + n
      BY <1>9, <3>2, <3>3
    <3>4. CASE ~(i <= k + n)
      <4>1. i - (k + n) \in 1 .. (l - n) /\ n + (i - (k + n)) = i - k /\ ~(i <= k)
        BY <1>2, <3>4
      <4>2. QED
        BY <1>5, <1>6, <3>2, <3>4, <4>1
    <3>5. QED
      BY <3>3, <3>4
  <2>3. QED
    BY <1>6, <1>8, <2>1, <2>2, SeqEqual
<1>11. r = u
  <2>1. \A i \in (k + n + 1) .. (k + l) : z[i] \in S
    <3>1. \A i \in (k + n + 1) .. (k + l) : i \in 1 .. (k + l)
      BY <1>2
    <3>2. \A i \in 1 .. (k + l) : z[i] \in S
      BY <1>6
    <3>3. QED
      BY <3>1, <3>2
  <2>2. /\ u \in Seq(S) /\ Len(u) = (IF k + n + 1 <= k + l THEN (k + l) - (k + n + 1) + 1 ELSE 0)
        /\ \A i \in 1 .. ((k + l) - (k + n + 1) + 1) : u[i] = z[(k + n + 1) + i - 1]
    <3>1. k + n + 1 \in Int /\ k + l \in Int
      BY <1>2
    <3>2. QED
      BY <2>1, <3>1, SubSeqProperties
  <2> HIDE DEF u
  <2>3. (k + l) - (k + n + 1) + 1 = l - n
        /\ (IF k + n + 1 <= k + l THEN (k + l) - (k + n + 1) + 1 ELSE 0) = l - n
    BY <1>2
  <2>4. \A i \in 1 .. (l - n) : u[i] = r[i]
    <3>1. TAKE i \in 1 .. (l - n)
    <3>2. (k + n + 1) + i - 1 = k + n + i /\ k + n + i \in 1 .. (k + l) /\ ~(k + n + i <= k) /\ (k + n + i) - k = n + i
      BY <1>2
    <3>3. u[i] = z[k + n + i]
      BY <2>2, <2>3, <3>2
    <3>4. z[k + n + i] = y[n + i]
      BY <1>6, <3>2
    <3>5. QED
      BY <1>5, <3>3, <3>4
  <2>5. QED
    BY <1>5, <2>2, <2>3, <2>4, SeqEqual
<1>12. b \in Seq(S) /\ Len(b) = Len(x) + n /\ \A i \in 1 .. (Len(x) + n) : b[i] = z[i]
  BY <1>1, <1>7, <1>9
<1>13. SubSeq(y, n + 1, Len(y)) = r /\ SubSeq(z, Len(x) + n + 1, Len(z)) = u
  BY <1>1, <1>6 DEF r
<1>14. QED
  BY <1>10, <1>11, <1>12, <1>13 DEF b, h, w, z

\* The engine moves the beats up to the L-th.
Moves(L) ==
    /\ L \in (Len(buf) + 1) .. Len(Beats)
    /\ \A i \in (Len(buf) + 1) .. (L - 1) : ~IsLast(Beats[i])
    /\ IsLast(Beats[L]) =>
         /\ buf' = <<>> /\ Beats' = SubSeq(Beats, L + 1, Len(Beats)) /\ due' = SubSeq(due, 2, Len(due))
         /\ read' = [found |-> Parse(Stretch(Beats, 0, L)), due |-> IF due = <<>> THEN None ELSE due[1]]
    /\ ~IsLast(Beats[L]) => Len(buf') = L /\ Beats' = Beats /\ due' = due /\ read' = None

LEMMA FlatIs ==
    ASSUME NEW bs, Len(bs) \in Nat, Len(bs[Len(bs)]) \in Nat
    PROVE  Flat(bs) = Stretch(bs, 0, Len(bs))
<1>1. PICK k \in Nat, l \in Nat : k = Len(bs) /\ l = Len(bs[Len(bs)])
  OBVIOUS
<1> DEFINE n == 4 * (k - 1) + l
<1>2. Flat(bs) = [i \in 1 .. n |-> bs[(i - 1) \div 4 + 1][((i - 1) % 4) + 1]]
  BY <1>1 DEF Flat, BeatWords
<1>3. Stretch(bs, 0, Len(bs)) = [i \in 1 .. n |-> bs[0 + (i - 1) \div 4 + 1][((i - 1) % 4) + 1]]
  <2>1. k - 0 - 1 = k - 1
    OBVIOUS
  <2>2. QED
    BY <1>1, <2>1 DEF Stretch, BeatWords
<1>4. \A i \in 1 .. n : 0 + (i - 1) \div 4 + 1 = (i - 1) \div 4 + 1
  <2>1. TAKE i \in 1 .. n
  <2>2. PICK j \in Nat : j = i - 1
    BY <1>1
  <2>3. j \div 4 \in Nat
    BY Place
  <2>4. 0 + j \div 4 + 1 = j \div 4 + 1
    BY <2>3
  <2>5. QED
    BY <2>2, <2>4
<1> HIDE DEF n
<1>5. QED
  BY <1>2, <1>3, <1>4, Zenon

LEMMA MoveIs ==
    ASSUME TypeOK, Short(Beats), Move
    PROVE  \E L \in Nat : Moves(L)
<1>1. buf \in Seq(Seq(AnyWord)) /\ fifo \in Seq(Seq(AnyWord))
  BY DEF TypeOK
<1>2. PICK k \in Nat, l \in Nat : k = Len(buf) /\ l = Len(fifo)
  BY <1>1
<1>3. PICK n \in 1 .. TranBeats :
        /\ n <= Len(fifo)
        /\ \A i \in 1 .. (n - 1) : ~IsLast(fifo[i])
        /\ fifo' = SubSeq(fifo, n + 1, Len(fifo))
        /\ IF IsLast(fifo[n])
           THEN /\ buf' = <<>> /\ due' = SubSeq(due, 2, Len(due))
                /\ read' = [found |-> Parse(Flat(buf \o SubSeq(fifo, 1, n))),
                            due |-> IF due = <<>> THEN None ELSE due[1]]
           ELSE buf' = buf \o SubSeq(fifo, 1, n) /\ read' = None /\ due' = due
  BY DEF Move
<1>4. n \in 1 .. Len(fifo) /\ n \in 1 .. l /\ n \in Nat
  <2>1. n \in 1 .. 8
    BY DEF TranBeats, BeatWords
  <2>2. QED
    BY <1>2, <1>3, <2>1
<1> DEFINE b == buf \o SubSeq(fifo, 1, n)
           r == SubSeq(fifo, n + 1, Len(fifo))
<1>5. /\ b \in Seq(Seq(AnyWord)) /\ Len(b) = Len(buf) + n
      /\ \A i \in 1 .. (Len(buf) + n) : b[i] = Beats[i]
      /\ b \o r = Beats /\ r = SubSeq(Beats, Len(buf) + n + 1, Len(Beats))
  <2>1. /\ b \in Seq(Seq(AnyWord)) /\ Len(b) = Len(buf) + n
        /\ \A i \in 1 .. (Len(buf) + n) : b[i] = (buf \o fifo)[i]
        /\ b \o r = buf \o fifo /\ r = SubSeq(buf \o fifo, Len(buf) + n + 1, Len(buf \o fifo))
    <3> DEFINE S == Seq(AnyWord)
    <3>1. buf \in Seq(S) /\ fifo \in Seq(S) /\ n \in 1 .. Len(fifo)
      BY <1>1, <1>4
    <3> HIDE DEF S
    <3>2. /\ b \in Seq(S) /\ Len(b) = Len(buf) + n
          /\ \A i \in 1 .. (Len(buf) + n) : b[i] = (buf \o fifo)[i]
          /\ b \o r = buf \o fifo /\ r = SubSeq(buf \o fifo, Len(buf) + n + 1, Len(buf \o fifo))
      BY <3>1, Moved, ZenonT(60)
    <3> HIDE DEF b, r
    <3>3. QED
      BY <3>2 DEF S
  <2> HIDE DEF b, r
  <2>2. QED
    BY <2>1 DEF Beats
<1>6. Beats \in Seq(Seq(AnyWord)) /\ Len(Beats) = k + l /\ \A i \in 1 .. l : Beats[k + i] = fifo[i]
  <2>1. /\ Beats \in Seq(Seq(AnyWord)) /\ Len(Beats) = Len(buf) + Len(fifo)
        /\ \A i \in 1 .. (Len(buf) + Len(fifo)) : Beats[i] = IF i <= Len(buf) THEN buf[i] ELSE fifo[i - Len(buf)]
    BY <1>1, ConcatProperties DEF Beats
  <2>2. \A i \in 1 .. l : k + i \in 1 .. (k + l) /\ ~(k + i <= k) /\ (k + i) - k = i
    OBVIOUS
  <2>3. QED
    BY <1>2, <2>1, <2>2
<1> HIDE DEF b, r
<1> DEFINE L == k + n
<1>7. L \in Nat /\ L \in (k + 1) .. (k + l)
  BY <1>4
<1>8. \A i \in (k + 1) .. (L - 1) : ~IsLast(Beats[i])
  <2>1. TAKE i \in (k + 1) .. (L - 1)
  <2>2. i - k \in 1 .. (n - 1) /\ i - k \in 1 .. l /\ k + (i - k) = i
    BY <1>4
  <2>3. QED
    BY <1>3, <1>6, <2>2
<1>9. Beats[L] = fifo[n]
  BY <1>4, <1>6
<1>10. Flat(b) = Stretch(Beats, 0, L)
  <2>1. Len(b) = L /\ b[L] = Beats[L] /\ L \in 1 .. Len(Beats)
    <3>1. L \in 1 .. L /\ L \in 1 .. (k + l)
      BY <1>7
    <3>2. QED
      BY <1>2, <1>5, <1>6, <3>1
  <2>2. Len(b[L]) \in 0 .. 4
    BY <2>1 DEF Short
  <2>3. Len(b[L]) \in Nat
    BY <2>2
  <2> HIDE DEF L
  <2>4. Flat(b) = Stretch(b, 0, L)
    BY <1>7, <2>1, <2>3, FlatIs
  <2>5. Alike(b, 0, L, Beats, 0, L)
    <3>1. \A i \in 1 .. (L - 0) : b[0 + i] = Beats[0 + i]
      <4>1. \A i \in 1 .. (L - 0) : 0 + i = i /\ i \in 1 .. L
        BY <1>7
      <4>2. \A i \in 1 .. L : b[i] = Beats[i]
        BY <1>2, <1>5 DEF L
      <4>3. QED
        BY <4>1, <4>2
    <3>2. 0 < L /\ L - 0 = L - 0
      BY <1>7
    <3>3. QED
      BY <2>2, <3>1, <3>2 DEF Alike
  <2>6. QED
    BY <1>7, <2>4, <2>5, StretchSame
<1>11. CASE IsLast(fifo[n])
  <2>1. /\ buf' = <<>> /\ due' = SubSeq(due, 2, Len(due)) /\ fifo' = r
        /\ read' = [found |-> Parse(Flat(b)), due |-> IF due = <<>> THEN None ELSE due[1]]
    BY <1>3, <1>11 DEF b, r
  <2>2. r \in Seq(Seq(AnyWord)) /\ <<>> \o r = r
    <3>1. \A i \in (n + 1) .. l : fifo[i] \in Seq(AnyWord)
      BY <1>1, <1>2, <1>4
    <3>2. n + 1 \in Int /\ l \in Int
      BY <1>4
    <3>3. r \in Seq(Seq(AnyWord))
      BY <1>2, <3>1, <3>2, SubSeqProperties DEF r
    <3>4. QED
      BY <3>3, ConcatEmptySeq
  <2>3. Beats' = SubSeq(Beats, L + 1, Len(Beats))
    BY <1>2, <1>5, <2>1, <2>2 DEF Beats
  <2>4. QED
    BY <1>2, <1>6, <1>7, <1>8, <1>9, <1>10, <1>11, <2>1, <2>3 DEF Moves
<1>12. CASE ~IsLast(fifo[n])
  <2>1. buf' = b /\ fifo' = r /\ read' = None /\ due' = due
    BY <1>3, <1>12 DEF b, r
  <2>2. Beats' = Beats /\ Len(buf') = L
    BY <1>2, <1>5, <2>1 DEF Beats
  <2>3. QED
    BY <1>2, <1>6, <1>7, <1>8, <1>9, <1>12, <2>1, <2>2 DEF Moves
<1>13. QED
  BY <1>11, <1>12

\* What the engine leaves alone.
LEMMA MoveKeeps ==
    ASSUME Move
    PROVE  /\ clock' = clock /\ said' = said /\ lost' = lost /\ paused' = paused /\ smaster' = smaster /\ beat' = beat
           /\ ctl' = ctl /\ ctlOut' = ctlOut /\ sum' = sum /\ sumOut' = sumOut /\ evt' = evt /\ evtOut' = evtOut
           /\ channels' = channels /\ dmaSel' = dmaSel /\ idle' = idle /\ dropped' = dropped
           /\ Top' = Top /\ Told' = Told /\ (Ending' <=> Ending)
<1>1. UNCHANGED <<pulseVars, ctlVars, sumVars, evtVars, asmVars, beat, said, lost>>
  BY DEF Move
<1>2. QED
  BY <1>1 DEF pulseVars, ctlVars, sumVars, evtVars, asmVars, Top, Told, Ending, Turn, Said, Start, Size, SummaryAt, EventAt

LEMMA DueRest ==
    ASSUME NEW ds \in Seq(AnyFrame), ds # <<>>
    PROVE  /\ SubSeq(ds, 2, Len(ds)) \in Seq(AnyFrame) /\ Len(SubSeq(ds, 2, Len(ds))) = Len(ds) - 1
           /\ \A i \in 1 .. (Len(ds) - 1) : SubSeq(ds, 2, Len(ds))[i] = ds[i + 1]
<1> DEFINE t == Tail(ds)
<1>1. t \in Seq(AnyFrame) /\ Len(t) = Len(ds) - 1 /\ \A i \in 1 .. Len(t) : t[i] = ds[i + 1]
  BY HeadTailProperties
<1>2. t = SubSeq(ds, 2, Len(ds))
  BY TailIsSubSeq
<1> HIDE DEF t
<1>3. QED
  BY <1>1, <1>2

LEMMA ShortRest ==
    ASSUME NEW bs \in Seq(Seq(AnyWord)), Short(bs), NEW L \in 1 .. Len(bs)
    PROVE  Short(SubSeq(bs, L + 1, Len(bs)))
<1>1. PICK b \in Nat : b = Len(bs)
  OBVIOUS
<1> DEFINE r == SubSeq(bs, L + 1, b)
<1>2. \A i \in (L + 1) .. b : bs[i] \in Seq(AnyWord)
  BY <1>1
<1>3. /\ Len(r) = (IF L + 1 <= b THEN b - (L + 1) + 1 ELSE 0)
      /\ \A i \in 1 .. (b - (L + 1) + 1) : r[i] = bs[(L + 1) + i - 1]
  <2>1. L + 1 \in Int /\ b \in Int
    OBVIOUS
  <2>2. QED
    BY <1>2, <2>1, SubSeqProperties
<1> HIDE DEF r
<1>4. L \in 1 .. b
  BY <1>1
<1>5. Len(r) = b - L /\ \A i \in 1 .. (b - L) : r[i] = bs[L + i]
  <2>1. b - (L + 1) + 1 = b - L /\ (IF L + 1 <= b THEN b - (L + 1) + 1 ELSE 0) = b - L
        /\ \A i \in 1 .. (b - L) : (L + 1) + i - 1 = L + i
    BY <1>4
  <2>2. QED
    BY <1>3, <2>1
<1>6. \A i \in 1 .. (b - L) : Len(r[i]) \in 0 .. 4
  <2>1. TAKE i \in 1 .. (b - L)
  <2>2. L + i \in 1 .. b
    BY <1>4
  <2>3. QED
    BY <1>1, <1>5, <2>2 DEF Short
<1>7. Short(r)
  BY <1>5, <1>6 DEF Short
<1>8. QED
  BY <1>1, <1>7 DEF r

\* The engine carries the frames due as they are, and hands over the first with its end.
LEMMA StreamMove ==
    ASSUME TypeOK, RoomInv, StreamInv, Move
    PROVE  StreamInv' /\ FramesRead'
<1>1. /\ Beats \in Seq(Seq(AnyWord)) /\ Top \in Seq(AnyWord) /\ Len(Top) \in 0 .. 4
      /\ due \in Seq(AnyFrame) /\ Short(Beats) /\ (Ending => due # <<>>) /\ buf \in Seq(Seq(AnyWord))
  BY BeatsType DEF StreamInv, TypeOK
<1>2. PICK L \in Nat : Moves(L)
  BY <1>1, MoveIs
<1>3. PICK k \in Nat, b \in Nat, d \in Nat : k = Len(buf) /\ b = Len(Beats) /\ d = Len(due)
  BY <1>1
<1>4. due # <<>> <=> d # 0
  BY <1>1, <1>3
<1>5. PICK n \in Nat : n = Ready /\ n \in 0 .. d /\ (Ending => n + 1 = d) /\ (~Ending => n = d)
  <2>1. CASE Ending
    <3>1. d - 1 \in Nat /\ (d - 1) + 1 = d /\ d - 1 \in 0 .. d
      BY <1>1, <1>4, <2>1
    <3>2. QED
      BY <1>3, <2>1, <3>1 DEF Ready
  <2>2. CASE ~Ending
    <3>1. d \in 0 .. d
      OBVIOUS
    <3>2. QED
      BY <1>3, <2>2, <3>1 DEF Ready
  <2>3. QED
    BY <2>1, <2>2
<1>6. PICK cut : /\ Cuts(Beats, due, cut, n)
                 /\ n > 0 => k < cut[1]
                 /\ IF Ending THEN Whole(Open(Beats, Top, cut[n]), due[n + 1])
                    ELSE /\ Len(Open(Beats, Top, cut[n])) = Told
                         /\ Spoken(Open(Beats, Top, cut[n]), said, lost)
  BY <1>3, <1>5 DEF StreamInv
<1>7. /\ said' = said /\ lost' = lost /\ Top' = Top /\ Told' = Told /\ (Ending' <=> Ending)
  BY MoveKeeps
<1>8. L \in (k + 1) .. b /\ L \in 1 .. b /\ \A i \in (k + 1) .. (L - 1) : ~IsLast(Beats[i])
  <2>1. L \in (k + 1) .. b /\ \A i \in (k + 1) .. (L - 1) : ~IsLast(Beats[i])
    BY <1>2, <1>3 DEF Moves
  <2>2. QED
    BY <2>1
<1>9. \A j \in 1 .. n : cut[j] \in 1 .. b /\ IsLast(Beats[cut[j]])
  <2>1. TAKE j \in 1 .. n
  <2>2. j \in 0 .. n /\ 0 \in 0 .. n /\ 0 < j
    OBVIOUS
  <2>3. cut[j] \in 0 .. b /\ cut[0] = 0 /\ cut[0] < cut[j]
    BY <1>3, <1>6, <2>2 DEF Cuts
  <2>4. cut[j] \in 1 .. b
    BY <2>3
  <2>5. QED
    BY <1>3, <1>6, <2>4 DEF Cuts
<1>10. CASE ~IsLast(Beats[L])
  <2>1. Len(buf') = L /\ Beats' = Beats /\ due' = due /\ read' = None
    BY <1>2, <1>10 DEF Moves
  <2>2. n > 0 => L < cut[1]
    <3>1. SUFFICES ASSUME n > 0 PROVE L < cut[1]
      OBVIOUS
    <3>2. 1 \in 1 .. n
      BY <3>1
    <3>3. cut[1] \in 1 .. b /\ IsLast(Beats[cut[1]]) /\ k < cut[1]
      BY <1>6, <1>9, <3>1, <3>2
    <3>4. cut[1] # L /\ cut[1] \notin (k + 1) .. (L - 1)
      BY <1>8, <1>10, <3>3
    <3>5. QED
      BY <1>8, <3>3, <3>4
  <2>3. Ready' = n
    BY <1>3, <1>5, <1>7, <2>1 DEF Ready
  <2>4. StreamInv'
    <3>1. /\ Cuts(Beats', due', cut, Ready') /\ (Ready' > 0 => Len(buf') < cut[1])
          /\ IF Ending' THEN Whole(Open(Beats', Top', cut[Ready']), due'[Ready' + 1])
             ELSE /\ Len(Open(Beats', Top', cut[Ready'])) = Told'
                  /\ Spoken(Open(Beats', Top', cut[Ready']), said', lost')
      BY <1>6, <1>7, <2>1, <2>2, <2>3
    <3>2. due' \in Seq(AnyFrame) /\ Short(Beats') /\ (Ending' => due' # <<>>)
      BY <1>1, <1>7, <2>1
    <3>3. QED
      BY <3>1, <3>2 DEF StreamInv
  <2>5. QED
    BY <2>1, <2>4 DEF FramesRead
<1>11. CASE IsLast(Beats[L])
  <2>1. /\ buf' = <<>> /\ Beats' = SubSeq(Beats, L + 1, Len(Beats)) /\ due' = SubSeq(due, 2, Len(due))
        /\ read' = [found |-> Parse(Stretch(Beats, 0, L)), due |-> IF due = <<>> THEN None ELSE due[1]]
    BY <1>2, <1>11 DEF Moves
  <2>2. PICK j \in 1 .. n : cut[j] = L
    BY <1>3, <1>6, <1>8, <1>11 DEF Cuts
  <2>3. n > 0 /\ 1 \in 1 .. n /\ 1 \in 0 .. n /\ j \in 0 .. n /\ (j = 1 \/ 1 < j)
    OBVIOUS
  <2>4. cut[1] = L
    <3>1. cut[1] \in 1 .. b /\ IsLast(Beats[cut[1]]) /\ k < cut[1]
      BY <1>6, <1>9, <2>3
    <3>2. cut[1] <= L
      <4>1. CASE j = 1
        BY <2>2, <3>1, <4>1
      <4>2. CASE 1 < j
        <5>1. cut[1] < cut[j]
          BY <1>6, <2>3, <4>2 DEF Cuts
        <5>2. QED
          BY <1>8, <2>2, <3>1, <5>1
      <4>3. QED
        BY <2>3, <4>1, <4>2
    <3>3. cut[1] \notin (k + 1) .. (L - 1)
      BY <1>8, <3>1
    <3>4. QED
      BY <1>8, <3>1, <3>2, <3>3
  <2>5. due # <<>> /\ n \in 1 .. Len(due) /\ n \in 1 .. d
    BY <1>3, <1>4, <1>5, <2>3
  <2>6. /\ due' \in Seq(AnyFrame) /\ Len(due') = d - 1 /\ \A i \in 1 .. (d - 1) : due'[i] = due[i + 1]
    BY <1>1, <1>3, <2>1, <2>5, DueRest
  <2>7. Short(Beats')
    BY <1>1, <1>3, <1>8, <2>1, ShortRest
  <2>8. PICK less : /\ Cuts(Beats', due', less, n - 1)
                    /\ n - 1 > 0 => 0 < less[1]
                    /\ Open(Beats', Top, less[n - 1]) = Open(Beats, Top, cut[n])
    BY <1>1, <1>6, <2>1, <2>4, <2>5, CutsRest
  <2>9. Ready' = n - 1
    <3>1. CASE Ending
      <4>1. (d - 1) - 1 = n - 1
        BY <1>5, <3>1
      <4>2. QED
        BY <1>7, <2>6, <3>1, <4>1 DEF Ready
    <3>2. CASE ~Ending
      BY <1>5, <1>7, <2>6, <3>2 DEF Ready
    <3>3. QED
      BY <3>1, <3>2
  <2>10. Ending => due' # <<>> /\ due'[(n - 1) + 1] = due[n + 1]
    <3>1. SUFFICES ASSUME Ending PROVE due' # <<>> /\ due'[(n - 1) + 1] = due[n + 1]
      OBVIOUS
    <3>2. n \in 1 .. (d - 1) /\ (n - 1) + 1 = n /\ d - 1 # 0
      BY <1>5, <2>5, <3>1
    <3>3. QED
      BY <2>6, <3>2
  <2>11. StreamInv'
    <3>1. Len(buf') = 0
      BY <2>1
    <3>2. /\ Cuts(Beats', due', less, Ready') /\ (Ready' > 0 => Len(buf') < less[1])
          /\ IF Ending' THEN Whole(Open(Beats', Top', less[Ready']), due'[Ready' + 1])
             ELSE /\ Len(Open(Beats', Top', less[Ready'])) = Told'
                  /\ Spoken(Open(Beats', Top', less[Ready']), said', lost')
      BY <1>6, <1>7, <2>8, <2>9, <2>10, <3>1
    <3>3. Ending' => due' # <<>>
      BY <1>7, <2>10
    <3>4. QED
      BY <2>6, <2>7, <3>2, <3>3 DEF StreamInv
  <2>12. Whole(Stretch(Beats, 0, L), due[1])
    <3>1. Whole(Stretch(Beats, cut[1 - 1], cut[1]), due[1]) /\ cut[0] = 0
      BY <1>6, <2>3 DEF Cuts
    <3>2. 1 - 1 = 0
      OBVIOUS
    <3>3. QED
      BY <2>4, <3>1, <3>2
  <2>13. Parse(Stretch(Beats, 0, L)) = [i \in DOMAIN due[1].messages |-> Found(due[1].messages[i], i, due[1].lost)]
    BY <2>12, ParseWhole
  <2>14. due[1] # None
    <3>1. 1 \in 1 .. d
      BY <1>4, <2>5
    <3>2. due[1] \in AnyFrame
      BY <1>1, <1>3, <3>1
    <3>3. QED
      BY <3>2, NoneAssumption
  <2>15. read'.due = due[1] /\ read'.found = Parse(Stretch(Beats, 0, L))
    BY <2>1, <2>5
  <2>16. FramesRead'
    BY <2>13, <2>14, <2>15 DEF FramesRead, Found
  <2>17. QED
    BY <2>11, <2>16
<1>12. QED
  BY <1>10, <1>11

-----------------------------------------------------------------------------
(* The frames read                                                          *)

LEMMA HistoryMove == ASSUME HistoryInv, Move PROVE HistoryInv'
<1>1. SpeechInv'
  <2>1. SaidInv'
    BY MoveKeeps DEF HistoryInv, SpeechInv, SaidInv, Said, Start, SummaryAt, EventAt
  <2>2. ControlTells'
    BY MoveKeeps DEF HistoryInv, SpeechInv, ControlTells, Speaking, Said
  <2>3. SummaryTells'
    BY MoveKeeps DEF HistoryInv, SpeechInv, SummaryTells, Speaking, Said, SummaryAt
  <2>4. EventTells'
    BY MoveKeeps DEF HistoryInv, SpeechInv, EventTells, Speaking, Said, EventAt
  <2>5. QED
    BY <2>1, <2>2, <2>3, <2>4 DEF SpeechInv
<1>2. HeardInv'
  BY MoveKeeps DEF HistoryInv, HeardInv, Heard, Turn, Said, Start, Size, SummaryAt, EventAt
<1>3. QED
  BY <1>1, <1>2 DEF HistoryInv

LEMMA FramesStutter ==
    ASSUME HistoryInv, StreamInv, FramesRead, UNCHANGED vars
    PROVE  HistoryInv' /\ StreamInv' /\ FramesRead'
<1>1. /\ clock' = clock /\ said' = said /\ lost' = lost /\ paused' = paused /\ smaster' = smaster /\ beat' = beat
      /\ ctl' = ctl /\ ctlOut' = ctlOut /\ sum' = sum /\ sumOut' = sumOut /\ evt' = evt /\ evtOut' = evtOut
      /\ channels' = channels /\ dmaSel' = dmaSel /\ idle' = idle /\ dropped' = dropped
      /\ buf' = buf /\ fifo' = fifo /\ due' = due /\ read' = read
  BY DEF vars, pulseVars, ctlVars, sumVars, evtVars, asmVars, fifoVars, history
<1>2. SpeechInv'
  <2>1. SaidInv'
    BY <1>1 DEF HistoryInv, SpeechInv, SaidInv, Said, Start, SummaryAt, EventAt
  <2>2. ControlTells'
    BY <1>1 DEF HistoryInv, SpeechInv, ControlTells, Speaking, Said
  <2>3. SummaryTells'
    BY <1>1 DEF HistoryInv, SpeechInv, SummaryTells, Speaking, Said, SummaryAt
  <2>4. EventTells'
    BY <1>1 DEF HistoryInv, SpeechInv, EventTells, Speaking, Said, EventAt
  <2>5. QED
    BY <2>1, <2>2, <2>3, <2>4 DEF SpeechInv
<1>3. HeardInv'
  <2>1. (Ending' <=> Ending) /\ (Heard' <=> Heard) /\ Turn' = Turn /\ Said' = Said
    BY <1>1 DEF Ending, Heard, Turn, Said, Start, SummaryAt, EventAt
  <2>2. HeardInv
    BY DEF HistoryInv
  <2>3. QED
    BY <1>1, <2>1, <2>2 DEF HeardInv, Size, SummaryAt, EventAt
<1>4. StreamInv'
  <2>1. /\ Beats' = Beats /\ Top' = Top /\ Told' = Told /\ (Ending' <=> Ending)
    BY <1>1 DEF Beats, Top, Told, Ending, Turn, Said, Start, Size, SummaryAt, EventAt
  <2>2. Ready' = Ready
    BY <1>1, <2>1 DEF Ready
  <2>3. PICK cut : /\ Cuts(Beats, due, cut, Ready)
                   /\ Ready > 0 => Len(buf) < cut[1]
                   /\ IF Ending THEN Whole(Open(Beats, Top, cut[Ready]), due[Ready + 1])
                      ELSE /\ Len(Open(Beats, Top, cut[Ready])) = Told
                           /\ Spoken(Open(Beats, Top, cut[Ready]), said, lost)
    BY DEF StreamInv
  <2>4. /\ Cuts(Beats', due', cut, Ready') /\ (Ready' > 0 => Len(buf') < cut[1])
        /\ IF Ending' THEN Whole(Open(Beats', Top', cut[Ready']), due'[Ready' + 1])
           ELSE /\ Len(Open(Beats', Top', cut[Ready'])) = Told'
                /\ Spoken(Open(Beats', Top', cut[Ready']), said', lost')
    BY <1>1, <2>1, <2>2, <2>3
  <2>5. due' \in Seq(AnyFrame) /\ Short(Beats') /\ (Ending' => due' # <<>>)
    BY <1>1, <2>1 DEF StreamInv
  <2>6. QED
    BY <2>4, <2>5 DEF StreamInv
<1>5. FramesRead'
  BY <1>1 DEF FramesRead, Found
<1>6. QED
  BY <1>2, <1>3, <1>4, <1>5 DEF HistoryInv

LEMMA InitFrames == Init => HistoryInv /\ StreamInv /\ FramesRead
<1> SUFFICES ASSUME Init PROVE HistoryInv /\ StreamInv /\ FramesRead
  OBVIOUS
<1>1. /\ clock = 0 /\ said = <<>> /\ lost = FALSE /\ paused = FALSE /\ smaster = None /\ beat = <<>>
      /\ ctl = 0 /\ ctlOut = None /\ sum = 0 /\ sumOut = None /\ evt = 0 /\ evtOut = None
      /\ channels = {} /\ dmaSel = {} /\ idle = TRUE /\ dropped = FALSE
      /\ buf = <<>> /\ fifo = <<>> /\ due = <<>> /\ read = None
  BY DEF Init
<1>2. SummaryAt \in Nat /\ EventAt = SummaryAt + 15 /\ SummaryAt >= 15
  BY Taps
<1>3. SpeechInv
  <2>1. SaidInv
    <3>1. <<>> \in Seq(Messages) /\ Len(<<>>) = 0 /\ \A i \in 1 .. 0 : FALSE
      OBVIOUS
    <3>2. 0 <= IF clock < SummaryAt + 5 THEN 1 ELSE IF clock < EventAt + 2 THEN 2 ELSE 3
      BY <1>1, <1>2
    <3>3. QED
      BY <1>1, <3>1, <3>2 DEF SaidInv
  <2>2. ControlTells
    BY <1>1 DEF ControlTells, Speaking
  <2>3. SummaryTells
    BY <1>1, <1>2 DEF SummaryTells, Speaking
  <2>4. EventTells
    BY <1>1, <1>2 DEF EventTells, Speaking
  <2>5. QED
    BY <2>1, <2>2, <2>3, <2>4 DEF SpeechInv
<1>4. HeardInv
  BY <1>1 DEF HeardInv, Heard
<1>5. StreamInv
  <2> DEFINE cut == [k \in 0 .. 0 |-> 0]
  <2>1. <<>> \in Seq(AnyFrame) /\ Len(<<>>) = 0 /\ <<>> \in Seq(Seq(AnyWord)) /\ <<>> \in Seq(AnyWord)
        /\ \A i \in 1 .. 0 : FALSE
    OBVIOUS
  <2>2. Beats = <<>> /\ Top = <<>> /\ Told = 0 /\ ~Ending /\ Ready = 0
    <3>1. <<>> \o <<>> = <<>>
      OBVIOUS
    <3>2. QED
      BY <1>1, <2>1, <3>1 DEF Beats, Top, Told, Ending, Ready
  <2>3. cut \in [0 .. 0 -> 0 .. 0] /\ cut[0] = 0 /\ \A k, l \in 0 .. 0 : ~(k < l)
    OBVIOUS
  <2> HIDE DEF cut
  <2>4. Cuts(<<>>, <<>>, cut, 0) /\ Short(<<>>)
    BY <2>1, <2>3 DEF Cuts, Short
  <2>5. Len(Open(<<>>, <<>>, 0)) = 0
    <3>1. 0 \in 0 .. Len(<<>>) /\ 4 * (0 - 0) + 0 = 0
      BY <2>1
    <3>2. Len(Open(<<>>, <<>>, 0)) = 4 * (Len(<<>>) - 0) + Len(<<>>)
      BY <2>1, <3>1, OpenIs
    <3>3. QED
      BY <2>1, <3>1, <3>2
  <2>6. Spoken(Open(<<>>, <<>>, 0), <<>>, lost)
    BY <2>1 DEF Spoken
  <2>7. /\ Cuts(Beats, due, cut, Ready) /\ (Ready > 0 => Len(buf) < cut[1])
        /\ IF Ending THEN Whole(Open(Beats, Top, cut[Ready]), due[Ready + 1])
           ELSE /\ Len(Open(Beats, Top, cut[Ready])) = Told
                /\ Spoken(Open(Beats, Top, cut[Ready]), said, lost)
    BY <1>1, <2>2, <2>3, <2>4, <2>5, <2>6
  <2>8. QED
    BY <1>1, <2>1, <2>2, <2>4, <2>7 DEF StreamInv
<1>6. FramesRead
  BY <1>1 DEF FramesRead
<1>7. QED
  BY <1>3, <1>4, <1>5, <1>6 DEF HistoryInv

FramesInv == IInv /\ HistoryInv /\ StreamInv /\ FramesRead

\* FramesInv is an inductive invariant.
THEOREM FramesInvariant == Spec => []FramesInv
<1>1. Init => FramesInv
  BY InitInv, InitFrames DEF FramesInv
<1>2. FramesInv /\ [Next]_vars => FramesInv'
  <2> SUFFICES ASSUME FramesInv, [Next]_vars PROVE FramesInv'
    OBVIOUS
  <2>1. CASE Tick
    <3>1. IInv'
      BY <2>1, TypeStep, WindowStep, RoomStep DEF FramesInv, IInv
    <3>2. HistoryInv'
      BY <2>1, HistoryStep DEF FramesInv, IInv
    <3>3. StreamInv'
      BY <2>1, StreamTick DEF FramesInv
    <3>4. FramesRead'
      BY <2>1 DEF Tick, FramesRead
    <3>5. QED
      BY <3>1, <3>2, <3>3, <3>4 DEF FramesInv
  <2>2. CASE Move
    BY <2>2, MoveStep, HistoryMove, StreamMove DEF FramesInv, IInv
  <2>3. CASE UNCHANGED vars
    <3>1. IInv'
      BY <2>3, InvStutter DEF FramesInv
    <3>2. QED
      BY <2>3, <3>1, FramesStutter DEF FramesInv
  <2>4. QED
    BY <2>1, <2>2, <2>3 DEF Next
<1>3. QED
  BY <1>1, <1>2, PTL DEF Spec

\* What tpr_handle_dma finds in a frame is what the producers set out to say,
\* for any period, number of channels and FIFO within the assumptions.
THEOREM ReadsWhole == Spec => []FramesRead
<1>1. FramesInv => FramesRead
  BY DEF FramesInv
<1>2. QED
  BY <1>1, FramesInvariant, PTL
=============================================================================
