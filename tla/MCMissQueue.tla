----------------------------- MODULE MCMissQueue -----------------------------
(* Small instances of MissQueue: a data cache and an instruction cache.      *)
EXTENDS MissQueue, TLC

MshrSymmetry == Permutations(Mshrs)
=============================================================================
