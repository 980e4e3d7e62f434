--------------------------- MODULE MCTprPrograms ---------------------------
(* Command lines for TprPrograms.                                           *)
EXTENDS TprPrograms

Test(m, ring, frames, triggers, ref) ==
    [prog |-> "tprtest", mode |-> m, ring |-> ring, frames |-> frames, triggers |-> triggers, refclk |-> ref]

MCRuns ==
    { Test("LCLS1", TRUE, FALSE, Unset, TRUE), Test("LCLS2", FALSE, TRUE, "s", FALSE),
      Test("UED", FALSE, TRUE, Unset, FALSE),
      [prog |-> "tprtool", mode |-> "LCLS1", resetRx |-> FALSE],
      [prog |-> "tprtool", mode |-> Unset, resetRx |-> TRUE],
      [prog |-> "tprtrig", resetRx |-> TRUE, setting |-> "d", outputs |-> {1}] }
=============================================================================
