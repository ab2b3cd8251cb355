---------------------------- MODULE MCEventQueue ----------------------------
(* A small instance of EventQueue: a CPU tick event, a completion event and  *)
(* one event that frees itself.                                              *)
EXTENDS EventQueue

CONSTANTS tick, done, once

MCEvents == {tick, done, once}
MCAutoDelete == {once}
MCPersistent == {tick, done}
MCPriorities == {0, 1}
MCInitPrio == (tick :> 1) @@ (done :> 0) @@ (once :> 0)
=============================================================================
