------------------------------- MODULE MCRing -------------------------------
(* Two processors and two banks on a ring.                                   *)
EXTENDS Ring

MCTraffic ==
    ({0, 1} \X {0, 1} \X {Read}) \union {<<0, 0, Writeback>>}

TwoAndOne == [c \in {0, 1} |-> 2 - c]
=============================================================================
