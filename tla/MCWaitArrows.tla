---------------------------- MODULE MCWaitArrows ----------------------------
(***************************************************************************)
(* All three walkers.  On gfx12 exp, bvh, tensor and async are treated     *)
(* alike, so exp stands for them; a wave is long enough for two operations, *)
(* a wait, an operation and a wait.                                        *)
(***************************************************************************)
EXTENDS WaitArrows

MCUsed == [gfx9 |-> {"lgkm", "vm"}, gfx10 |-> {"lgkm", "vm", "vs"},
           gfx12 |-> {"ds", "km", "load", "store", "exp"}]
MCMaxTokens == [gfx9 |-> 5, gfx10 |-> 5, gfx12 |-> 4]
=============================================================================
