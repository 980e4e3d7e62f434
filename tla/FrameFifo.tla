------------------------------ MODULE FrameFifo ------------------------------
(* What the receive DMA of a TPR card promises its driver: the frames the   *)
(* card accepts come out whole, once each, and in the order they went in.    *)
EXTENDS Naturals, Sequences

CONSTANTS Frames,    \* what a frame may hold
          Capacity   \* frames the card may be ahead of the driver

VARIABLES q,         \* frames accepted and not yet read
          out        \* the frame read last

vars == <<q, out>>

Init == q = <<>> /\ out \in Frames

Put(f) == Len(q) < Capacity /\ q' = Append(q, f) /\ UNCHANGED out
Get    == q # <<>> /\ out' = Head(q) /\ q' = Tail(q)

Next == Get \/ \E f \in Frames : Put(f)

Spec == Init /\ [][Next]_vars /\ WF_vars(Get)
=============================================================================
