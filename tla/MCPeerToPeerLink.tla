--------------------------- MODULE MCPeerToPeerLink ---------------------------
(* The link with an instruction cache, which squashes, and a data cache.     *)
EXTENDS PeerToPeerLink, TLC

CONSTANTS I0, D0

MCOutstanding ==
    (I0 :> ((Read :> 1) @@ (Writeback :> 0)))
    @@ (D0 :> ((Read :> 1) @@ (Writeback :> 2)))
=============================================================================
