--------------------------- MODULE MCHotspotGather ---------------------------
(***************************************************************************)
(* Four entries of three waves, so two threads may load one key at a time, *)
(* and a ring of two futures, so that some are replaced.  Line 1 is weak in *)
(* wave a and has two other types in b and c, line 2 has a custom type, line *)
(* 4 is not in the code.  The histogram starts at line 2, so line 1 is less *)
(* than a bin before it and line 4 in the second bin.                      *)
(***************************************************************************)
EXTENDS HotspotGather

Tok(l, t, c) == [line |-> l, type |-> t, cycles |-> c]
MCTokens == [a |-> <<Tok(1, 9, 1), Tok(4, 4, 1)>>, b |-> <<Tok(1, 5, 2)>>, c |-> <<Tok(1, 6, 4), Tok(2, 9, 8)>>]
MCKeyOf == <<"a", "b", "c", "b">>
MCLines == (1 :> 0) @@ (2 :> 5)
=============================================================================
