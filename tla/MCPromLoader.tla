--------------------------- MODULE MCPromLoader ---------------------------
(* Small .mcs files for PromLoader.                                         *)
EXTENDS PromLoader

D(b) == [type |-> "data", bytes |-> b]
R(t) == [type |-> t, bytes |-> <<>>]

\* Whole buffers; a part of one left over; an odd byte; less than a buffer; a
\* bad record; no end record.
MCFiles ==
    { << R("base"), D(<<0, 1, 0, 0>>), D(<<1, 0, 0, 1>>), R("eof") >>,
      << R("base"), D(<<0, 1>>), D(<<0, 0, 1, 0>>), R("eof") >>,
      << D(<<0, 1, 0>>), R("base"), D(<<0, 0>>), R("eof") >>,
      << D(<<0, 1>>), R("eof") >>,
      << D(<<0, 1, 0, 0>>), R("bad"), R("eof") >>,
      << D(<<0, 1>>) >> }
=============================================================================
