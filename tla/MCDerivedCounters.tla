--------------------------- MODULE MCDerivedCounters ---------------------------
(***************************************************************************)
(* Model checking of sampled counters.  Two XCCs; SQ_CYCLES and a counter  *)
(* W of two shader engines.  Times are 24 apart and counts are multiples   *)
(* of what they are divided by, so that quotients are exact, but for the   *)
(* clocks that are aligned at 101 and the capture Large.  Floats hold the  *)
(* numbers below 256, so that the clocks near 1000 are rounded to fours    *)
(* and eights.                                                             *)
(***************************************************************************)
EXTENDS DerivedCounters

MCCounters == {"SQ_CYCLES", "W"}
MCMetadata == [c \in MCCounters |-> IF c = "W" THEN <<2, 2, 1>> ELSE <<1, 1, 1>>]

Record(c, x, s, t, v) == [counter |-> c, xcc |-> x, se |-> s, cu |-> 0, time |-> t, value |-> v]

(* Three samples of each XCC, with any cycles in those of XCC 1: none, the *)
(* usual, nearly and exactly twice and three times the usual.              *)
Sampled(cycles) ==
  FlattenSeq([k \in 1 .. 3 |-> <<Record("SQ_CYCLES", 0, 0, 72 + 24 * k, 24), Record("W", 0, 0, 72 + 24 * k, 6 * k),
                                Record("SQ_CYCLES", 1, 0, 72 + 24 * k, cycles[k]), Record("W", 1, 1, 72 + 24 * k, 12 * k)>>])

(* The second group of XCC 1 stands for two windows, XCC 0 has fewer       *)
(* samples, and W was not sampled everywhere.                              *)
Uneven ==
  <<Record("SQ_CYCLES", 0, 0, 96, 24), Record("SQ_CYCLES", 0, 0, 120, 24), Record("SQ_CYCLES", 0, 0, 144, 24),
    Record("SQ_CYCLES", 1, 0, 108, 24), Record("SQ_CYCLES", 1, 0, 156, 48), Record("SQ_CYCLES", 1, 0, 180, 24),
    Record("W", 0, 0, 96, 6), Record("W", 0, 1, 96, 12), Record("W", 0, 1, 144, 18),
    Record("W", 1, 0, 108, 30), Record("W", 1, 0, 156, 24), Record("W", 1, 1, 156, 12)>>
(* The same, but XCC 0 is ahead and ends before XCC 1 has all its samples. *)
Ahead == [i \in DOMAIN Uneven |-> IF Uneven[i].xcc = 0 THEN [Uneven[i] EXCEPT !.time = @ + 200] ELSE Uneven[i]]
(* Only XCC 1 was sampled. *)
Alone == <<Record("SQ_CYCLES", 1, 0, 96, 24), Record("SQ_CYCLES", 1, 0, 120, 24), Record("W", 1, 0, 120, 12)>>

(* Counts that floats round: the cycles; W on XCC 0, a record of it and   *)
(* the sum of two; and W on XCC 1, which stays below in all.               *)
Large ==
  <<Record("SQ_CYCLES", 0, 0, 96, 301), Record("SQ_CYCLES", 0, 0, 120, 301), Record("SQ_CYCLES", 0, 0, 168, 602),
    Record("SQ_CYCLES", 1, 0, 96, 515), Record("SQ_CYCLES", 1, 0, 120, 515), Record("SQ_CYCLES", 1, 0, 168, 1030),
    Record("W", 0, 0, 96, 515), Record("W", 0, 1, 120, 255), Record("W", 0, 1, 120, 2),
    Record("W", 1, 1, 96, 128), Record("W", 1, 1, 96, 1), Record("W", 1, 1, 168, 126)>>

MCDrawn == {Uneven, Ahead, Alone, Large}
MCSpacings == {1, 2, 4, 8, 16, 32}
MCCaptures == MCDrawn \cup {Sampled(c) : c \in [1 .. 3 -> {0, 24, 48, 52, 72}]}

Anchor(se, real, clock) == [se |-> se, real |-> real, clock |-> clock]
MCAnchorSets ==
  {{}} \cup {{Anchor(0, real, 1000)} : real \in {84, 96, 101, 114, 132}} \cup {{Anchor(0, 252, 0)}}
     \cup {{Anchor(1, real, 1000), Anchor(1, real + 100, 1200), Anchor(0, real + 200, 900)} : real \in {108, 252}}

MCLiterals == [n \in {"0", "1", "2", "4"} |-> CASE n = "0" -> 0 [] n = "1" -> 1 [] n = "2" -> 2 [] n = "4" -> 4]

Does(op, f, axes, axis, args) == [op |-> op, f |-> f, axes |-> axes, axis |-> axis, args |-> args]
Negate(a) == Does("negate", "", {}, XCC, <<a>>)
Binary(f, a, b) == Does("binary", f, {}, XCC, <<a, b>>)
Element(f, a, b) == Does("elementwise", f, {}, XCC, <<a, b>>)
Reduce(f, axes, a) == Does("reduce", f, axes, XCC, <<a>>)
Select(a, i, axis) == Does("select", "", {}, axis, <<a, i>>)
Of2(n, d, m, e) == (n :> d) @@ (m :> e)

MCTexts ==
  {Of2("P", Select("W", "1", XCC), "Q", Reduce("sum", {XCC, SE}, "W")),
   Of2("_T", Does("delta", "", {}, Time, <<"SCLOCK">>), "P", Select("_T", "1", XCC)) @@ ("Q" :> Binary("+", "P", "P")),
   Of2("P", Negate("Q"), "Q", Binary("-", "P", "W")) @@ ("_T" :> Negate("R")),
   Of2("P", Does("range", "", {}, XCC, <<"W", "1", "2", "1">>), "Q", Does("remove", "", {}, XCC, <<"W", "0">>)),
   Of2("W", Negate("SCLOCK"), "P", Element("max", "W", "2")) @@ ("Q" :> Reduce("mean", {SE}, "P")),
   "P" :> Negate("Q"),
   Of2("_T", Does("linear", "", {}, Time, <<"NUM_SAMPLES">>), "P", Binary("*", "W", "_T")) @@ ("Q" :> Reduce("max", {}, "W")) @@ ("R" :> Binary("|", "Q", "P")),
   Of2("P", Select("W", "4", SE), "Q", Binary(">=", "SPM_CLOCK", "W")),
   <<>>}
===============================================================================
