----------------------------- MODULE MCCrossbar -----------------------------
(***************************************************************************)
(* Instances of Crossbar: two processors with one cache each.              *)
(***************************************************************************)
EXTENDS Crossbar, TLC

CONSTANTS D0, D1

TwoCpus == (D0 :> 0) @@ (D1 :> 1)
TwoEach == (D0 :> 2) @@ (D1 :> 2)
FourAndOne == (D0 :> 4) @@ (D1 :> 1)
=============================================================================
