---------------------------- MODULE MCTprClients ----------------------------
(* Small instances of TprClients for TLC.                                   *)
EXTENDS TprClients, TLC

\* Files are interchangeable: no action and no invariant names one.
FileSymmetry == Permutations(Files)

NoWrites   == {}
None       == {}
SetupWrite == {[dma |-> TRUE, cfg |-> 1]}    \* SetupRate and its kin write 5 or 7

OneChannel     == {0}
TwoChannels    == {0, 1}
ChannelAndBsa  == {0, MOD_SHARED + 1}
AllMinors      == 0 .. (MOD_SHARED + 1)
=============================================================================
