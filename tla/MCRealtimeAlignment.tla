------------------------- MODULE MCRealtimeAlignment -------------------------
(***************************************************************************)
(* Three shader engines; the first has two decoded waves with one id, the  *)
(* second a wave read from a file, the third no wave.                      *)
(* The samples give ratios of 1, 2 and 3 real ticks to 25 cycles and more. *)
(***************************************************************************)
EXTENDS RealtimeAlignment

MCSamples == {<<0, 3>>, <<7, 4>>, <<40, 6>>}
MCSE == [a |-> 1, b |-> 1, d |-> 2]
MCId == [a |-> "twice", b |-> "twice", d |-> "file"]
=============================================================================
