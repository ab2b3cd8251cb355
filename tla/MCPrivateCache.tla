---------------------------- MODULE MCPrivateCache ----------------------------
(* A second level cache with two MSHRs and one write buffer, below two caches. *)
EXTENDS PrivateCache, TLC

CONSTANTS I0, D0

MCOutstanding ==
    (I0 :> ((Read :> 1) @@ (Writeback :> 0)))
    @@ (D0 :> ((Read :> 1) @@ (Writeback :> 2)))
=============================================================================
