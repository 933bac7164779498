---------------------------- MODULE MCMarkerScopes ----------------------------
(***************************************************************************)
(* Kernel a is in code object 1, which code.json knows with marker 1 only  *)
(* and the decoder not at all, so that marker 2 has no meaning there when  *)
(* records were decoded.  Kernel b is in object 2, which both know by      *)
(* other ids; its rows of the JSON carry a wrong tag, and its name leads   *)
(* to it.  Nobody knows kernel c.                                          *)
(***************************************************************************)
EXTENDS MarkerScopes

Token(k, i) == [kind |-> k, id |-> i]
MCSends ==
  [a |-> {Token("enter", 1), Token("enter", 2), Token("exit", 0)},
   b |-> {Token("enter", 2), Token("transition", 1), Token("point", 1), Token("exit", 0)},
   c |-> {Token("enter", 1)}]
MCObject == [a |-> 1, b |-> 2, c |-> 3]
MCTag == [a |-> 1, b |-> 9, c |-> 3]
MCNameRows == [a |-> {1, 2}, b |-> {2}, c |-> {1, 2}]
MCJsonMap == (1 :> {1}) @@ (2 :> {1})
MCDecoderMap == (2 :> {2})
===============================================================================
