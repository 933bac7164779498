------------------------------- MODULE Tensors -------------------------------
(***************************************************************************)
(* The values of counters (src/analysis/derived_counter.cpp): arrays over  *)
(* XCC, shader engine, CU and time in which samples may be missing, and    *)
(* the operations of the expression language on them.                      *)
(*                                                                         *)
(* A tensor is a function of its valid cells, so that a cell whose bit in  *)
(* m_validity is clear is not in its domain.  xccs is m_xcc_indices, the   *)
(* XCC that each row was measured on as the code remembers it; `from` is a *)
(* ghost, the XCCs that each row really was computed from.  An operation   *)
(* returns the set of its results: none when it throws.  Values are whole  *)
(* numbers, and what an operation computes of them is exact, though the    *)
(* code rounds it to a 32-bit float as it does what a capture holds        *)
(* (SpmCapture); division is left out.                                     *)
(***************************************************************************)
EXTENDS Integers, Sequences, FiniteSets, FiniteSetsExt

XCC == 1
SE == 2
CU == 3
Time == 4
Axes == 1 .. 4

Cells(shape) ==
  {<<x, s, c, n>> : x \in 0 .. shape[XCC] - 1, s \in 0 .. shape[SE] - 1, c \in 0 .. shape[CU] - 1, n \in 0 .. shape[Time] - 1}
Iota(n) == [i \in 1 .. n |-> i - 1]

(* A counter as it was collected, and linear(): row x is of XCC x. *)
Collected(shape, at) ==
  [shape |-> shape, at |-> at, xccs |-> Iota(shape[XCC]), from |-> [x \in 1 .. shape[XCC] |-> {x - 1}]]
Literal(v) ==
  [shape |-> <<1, 1, 1, 1>>, at |-> [c \in {<<0, 0, 0, 0>>} |-> v], xccs |-> <<0>>, from |-> <<{}>>]
Linear(n, axis) ==
  LET shape == [<<1, 1, 1, 1>> EXCEPT ![axis] = n] IN Collected(shape, [c \in Cells(shape) |-> c[axis]])

Labelled(t) == Len(t.xccs) = t.shape[XCC]
IsScalar(t) == t.shape = <<1, 1, 1, 1>>
ScalarOf(t) == IF t.at = <<>> THEN 0 ELSE t.at[<<0, 0, 0, 0>>]

Total(values) == MapThenSumSet(LAMBDA c : values[c], DOMAIN values)
Largest(values) == Max({values[c] : c \in DOMAIN values})
Smallest(values) == Min({values[c] : c \in DOMAIN values})
Mean(values) == Total(values) \div Cardinality(DOMAIN values)
Reduction(op, values) ==
  CASE op = "sum" -> Total(values) [] op = "mean" -> Mean(values) [] op = "max" -> Largest(values) [] op = "min" -> Smallest(values)

(* reduceAxes: all axes if none is named; a cell is valid if any of those  *)
(* that collapse into it is.                                               *)
Reduced(t, named, op) ==
  LET axes == IF named = {} THEN Axes ELSE named
      collapsed(v, rest) == [a \in Axes |-> IF a \in axes THEN rest ELSE v[a]]
      under(d) == {c \in DOMAIN t.at : collapsed(c, 0) = d}
  IN  [shape |-> collapsed(t.shape, 1),
       at |-> [d \in {collapsed(c, 0) : c \in DOMAIN t.at} |-> Reduction(op, [c \in under(d) |-> t.at[c]])],
       xccs |-> t.xccs,
       from |-> IF XCC \in axes THEN <<UNION {t.from[x] : x \in DOMAIN t.from}>> ELSE t.from]

(* select, selectRange and remove: the rows of an axis that stay, in order, *)
(* with the XCCs that are known of them.                                   *)
RowsKept(t, axis, kept, known) ==
  [shape |-> [t.shape EXCEPT ![axis] = Len(kept)],
   at |-> LET source(c) == [c EXCEPT ![axis] = kept[c[axis] + 1]]
          IN  [c \in {d \in Cells([t.shape EXCEPT ![axis] = Len(kept)]) : source(d) \in DOMAIN t.at} |-> t.at[source(c)]],
   xccs |-> IF axis = XCC /\ known
            THEN [i \in DOMAIN kept |-> t.xccs[kept[i] + 1]] ELSE t.xccs,
   from |-> IF axis = XCC THEN [i \in DOMAIN kept |-> t.from[kept[i] + 1]] ELSE t.from]

FromEnd(index, size) == IF index < 0 THEN index + size ELSE index
Selected(t, index, axis) ==
  LET i == FromEnd(index, t.shape[axis])
  IN  IF i \in 0 .. t.shape[axis] - 1 THEN {RowsKept(t, axis, <<i>>, i < Len(t.xccs))} ELSE {}
SelectedRange(t, start, stop, step, axis) ==
  IF stop \in 1 .. t.shape[axis] /\ start \in 0 .. stop - 1 /\ step \in Nat \ {0}
  THEN {RowsKept(t, axis, [i \in 1 .. (stop - start + step - 1) \div step |-> start + (i - 1) * step], Labelled(t))}
  ELSE {}
Removed(t, index, axis) ==
  LET i == FromEnd(index, t.shape[axis])
  IN  IF t.shape[axis] > 1 /\ i \in 0 .. t.shape[axis] - 1
      THEN {RowsKept(t, axis, [k \in 1 .. t.shape[axis] - 1 |-> IF k > i THEN k ELSE k - 1], Labelled(t))} ELSE {}

(* delta: the steps along an axis, valid if both of their ends are. *)
Delta(t, axis) ==
  LET next(c) == [c EXCEPT ![axis] = @ + 1]
  IN  IF t.shape[axis] <= 1 THEN {}
      ELSE {[shape |-> [t.shape EXCEPT ![axis] = @ - 1],
             at |-> [c \in {d \in DOMAIN t.at : next(d) \in DOMAIN t.at} |-> t.at[next(c)] - t.at[c]],
             xccs |-> IF axis = XCC THEN <<>> ELSE t.xccs,
             from |-> IF axis = XCC THEN [x \in 1 .. t.shape[XCC] - 1 |-> t.from[x] \cup t.from[x + 1]] ELSE t.from]}

(* The operators on two cells; a comparison is 1 where it holds. *)
Truth(b) == IF b THEN 1 ELSE 0
Arithmetic(op, a, b) ==
  CASE op = "+" -> a + b [] op = "-" -> a - b [] op = "*" -> a * b
    [] op = "max" -> Max({a, b}) [] op = "min" -> Min({a, b})
    [] op = "|" -> Truth(a # 0 \/ b # 0) [] op = "&" -> Truth(a # 0 /\ b # 0)
    [] op = "=" -> Truth(a = b) [] op = "<" -> Truth(a < b) [] op = ">" -> Truth(a > b)
    [] op = "<=" -> Truth(a <= b) [] op = ">=" -> Truth(a >= b)

(* Which rows of an operand a row of the result comes from. *)
Wrapped(c, shape) == [a \in Axes |-> IF shape[a] = 1 THEN 0 ELSE c[a]]
Paired(l, r, shape, xccs, op) ==
  [shape |-> shape,
   at |-> [c \in {d \in Cells(shape) : Wrapped(d, l.shape) \in DOMAIN l.at /\ Wrapped(d, r.shape) \in DOMAIN r.at} |->
             Arithmetic(op, l.at[Wrapped(c, l.shape)], r.at[Wrapped(c, r.shape)])],
   xccs |-> xccs,
   from |-> LET row(t, x) == t.from[IF Len(t.from) = 1 THEN 1 ELSE x]
            IN  [x \in 1 .. shape[XCC] |-> row(l, x) \cup row(r, x)]]

(* broadcastOp: an axis of one row goes with any; a cell is valid if both  *)
(* of its operands are.                                                    *)
Broadcast(l, r, op) ==
  LET shape == [a \in Axes |-> IF l.shape[a] > r.shape[a] THEN l.shape[a] ELSE r.shape[a]]
      labels(t) == t.shape[XCC] = shape[XCC] /\ Labelled(t)
      xccs == IF shape[XCC] > 1 THEN IF labels(l) THEN l.xccs ELSE IF labels(r) THEN r.xccs ELSE <<>>
              ELSE IF IsScalar(l) /\ ~IsScalar(r) THEN r.xccs
              ELSE IF (IsScalar(r) /\ ~IsScalar(l)) \/ l.xccs = r.xccs THEN l.xccs ELSE <<>>
  IN  IF \A a \in Axes : l.shape[a] = r.shape[a] \/ l.shape[a] = 1 \/ r.shape[a] = 1
      THEN {Paired(l, r, shape, xccs, op)} ELSE {}

(* inPlaceOp, by which expressions are computed: the left operand keeps    *)
(* its XCCs when the shapes are the same.                                  *)
InPlace(l, r, op) == IF l.shape = r.shape THEN {Paired(l, r, l.shape, l.xccs, op)} ELSE Broadcast(l, r, op)
===============================================================================
