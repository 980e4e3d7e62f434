------------------------------ MODULE SsiFifo ------------------------------
(***************************************************************************)
(* What the receive side of the SSI PCIe driver promises: frames reach the  *)
(* reader in the order in which the card completed them, each with its own  *)
(* lane, none twice, and none is lost except those that the driver meets    *)
(* while the device is not open.                                            *)
(***************************************************************************)
EXTENDS Sequences

CONSTANTS
    Items     \* what a read may return

VARIABLES
    pending,  \* completed by the card, not yet looked at by the driver
    ready,    \* queued for the reader
    isOpen    \* the driver's idea of whether the device is open

vars == <<pending, ready, isOpen>>

Init == pending = <<>> /\ ready = <<>> /\ isOpen = FALSE

Complete == \E x \in Items : pending' = Append(pending, x) /\ UNCHANGED <<ready, isOpen>>

Queue == /\ pending # <<>>
         /\ pending' = Tail(pending)
         /\ ready' = Append(ready, Head(pending))
         /\ UNCHANGED isOpen

\* Any number of frames can be met while closed, the open flag read first.
Drop == /\ pending # <<>>
        /\ ~isOpen
        /\ pending' = Tail(pending)
        /\ UNCHANGED <<ready, isOpen>>

Read == /\ ready # <<>>
        /\ ready' = Tail(ready)
        /\ UNCHANGED <<pending, isOpen>>

OpenClose == isOpen' = ~isOpen /\ UNCHANGED <<pending, ready>>

Next == Complete \/ Queue \/ Drop \/ Read \/ OpenClose

Spec == Init /\ [][Next]_vars
=============================================================================
