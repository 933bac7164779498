-------------------------- MODULE MarkerScopesProofs --------------------------
(***************************************************************************)
(* The spans of the marker walk nest, for any tokens and any code objects. *)
(* What carries the proof is a relation between the spans that are out and *)
(* the scopes still on the stack: each span was over before such a scope   *)
(* was entered, or lies within it and is deeper; and that a span lies in   *)
(* one scope of every lesser depth.                                        *)
(*                                                                         *)
(* The scopes around a time are then a chain, one of each depth, and the   *)
(* flame graph's stack is at every instruction the whole of that chain:    *)
(* scopes that have ended are at its end, and the next span in the order   *)
(* belongs right behind those it has kept.                                 *)
(*                                                                         *)
(* That the spans are the scopes the program was in needs what the trace   *)
(* forgets: a history of the calls that were open before each record and   *)
(* of the wave that sent it.  It exists while nothing is lost or cut; the  *)
(* code object of a record is that of its wave, since the rows of a slot   *)
(* tell its waves apart; and the walk is at each record where the history  *)
(* was.                                                                    *)
(*                                                                         *)
(* The merge of the global flame graph finds the place of a span by its    *)
(* depth alone.  That is its chain of scopes because the path of the nodes *)
(* above keeps each lasting scope at its depth until a span comes that is  *)
(* no deeper, and none does before the last span within that scope.        *)
(***************************************************************************)
EXTENDS MarkerScopes, FoldLemmas, SequenceTheorems

Wave == [kernel : Kernels, begin : Nat, end : Nat]
OccupancyRecord == [time : Nat, start : BOOLEAN, kernel : Kernels]
Record == [time : Nat, kind : Kinds, id : Nat]
Entry == [name : Nat \X Nat, enter : Nat, depth : Nat]
Span == [name : Nat \X Nat, enter : Nat, exit : Nat, depth : Nat, point : BOOLEAN]

(* What a trace holds: its records come in the order of their times. *)
TraceTypes ==
  /\ clock \in Nat /\ clock < Forever
  /\ waves \in Seq(Wave) /\ occupancy \subseteq OccupancyRecord /\ records \in Seq(Record)
  /\ Len(records) <= MaxTokens
  /\ \A i \in DOMAIN records : records[i].time <= clock
  /\ \A i, j \in DOMAIN records : i < j => records[i].time <= records[j].time

WalkTypes ==
  /\ phase \in {"trace", "walk", "sorted", "attribute", "merge"}
  /\ pos \in Nat \ {0} /\ pos <= Len(records) + 1
  /\ stack \in Seq(Entry) /\ spans \in Seq(Span) /\ Len(stack) < pos /\ orphans \subseteq DOMAIN records
  /\ phase = "trace" => pos = 1 /\ stack = <<>> /\ spans = <<>> /\ orphans = {}

(* Nothing among the first n of the stack and the first p spans is later   *)
(* than t.                                                                 *)
Reached(st, n, sp, p, t) ==
  /\ \A i \in 1 .. n : st[i].enter <= t
  /\ \A i \in 1 .. p : sp[i].enter <= t /\ sp[i].exit <= t

(* Scopes are on the stack at their depth, in the order they were entered. *)
StackInOrder(st, n) ==
  /\ \A i \in 1 .. n : st[i].depth = i - 1
  /\ \A i, j \in 1 .. n : i < j => st[i].enter <= st[j].enter

(* A span against a scope that is still on the stack, and two spans. *)
WithinStack(st, n, sp, p) ==
  \A i \in 1 .. p, j \in 1 .. n :
    sp[i].exit <= st[j].enter \/ (st[j].enter <= sp[i].enter /\ j <= sp[i].depth)
Within(s, r) ==
  \/ s.exit <= r.enter
  \/ ~r.point /\ r.enter <= s.enter /\ s.exit <= r.exit /\ r.depth < s.depth
Nest(sp, p) == \A i, j \in 1 .. p : i < j => Within(sp[i], sp[j])

(* A span of depth d lies in scopes of all depths less than d, each of    *)
(* which is over or still on the stack.                                   *)
Encloses(r, s) == ~r.point /\ r.enter <= s.enter /\ s.exit <= r.exit
Enclosed(st, n, sp, p) ==
  \A i \in 1 .. p : \A d \in 0 .. sp[i].depth - 1 :
    \/ d < n /\ st[d + 1].enter <= sp[i].enter
    \/ \E j \in 1 .. p : Encloses(sp[j], sp[i]) /\ sp[j].depth = d

Nested(st, n, sp, p) ==
  StackInOrder(st, n) /\ WithinStack(st, n, sp, p) /\ Nest(sp, p) /\ Enclosed(st, n, sp, p)

Timed(st, n, sp, p) ==
  /\ \A i \in 1 .. n : st[i].enter \in Nat /\ st[i].depth \in Nat
  /\ \A i \in 1 .. p : sp[i].enter \in Nat /\ sp[i].exit \in Nat /\ sp[i].depth \in Nat

-------------------------------------------------------------------------------
(* Leaving the innermost scope at t, when nothing is later than t. *)
LEMMA CloseNests ==
  ASSUME NEW st, NEW sp, NEW sq, NEW n \in Nat, NEW p \in Nat, NEW t \in Nat, n > 0,
         Timed(st, n, sp, p), Nested(st, n, sp, p), Reached(st, n, sp, p, t),
         \A i \in 1 .. p : sq[i] = sp[i],
         sq[p + 1].enter = st[n].enter, sq[p + 1].exit = t, sq[p + 1].depth = n - 1, sq[p + 1].point = FALSE
  PROVE  Nested(st, n - 1, sq, p + 1) /\ Reached(st, n - 1, sq, p + 1, t)
<1>1. StackInOrder(st, n - 1)
  BY DEF Nested, StackInOrder
<1>2. WithinStack(st, n - 1, sq, p + 1)
  <2> SUFFICES ASSUME NEW i \in 1 .. p + 1, NEW j \in 1 .. n - 1
               PROVE  sq[i].exit <= st[j].enter \/ (st[j].enter <= sq[i].enter /\ j <= sq[i].depth)
    BY DEF WithinStack
  <2>1. CASE i \in 1 .. p BY <2>1 DEF Nested, WithinStack
  <2>2. CASE i = p + 1
    <3>1. st[j].enter <= st[n].enter BY DEF Nested, StackInOrder
    <3> QED BY <3>1, <2>2
  <2> QED BY <2>1, <2>2
<1>3. Nest(sq, p + 1)
  <2> SUFFICES ASSUME NEW i \in 1 .. p + 1, NEW j \in 1 .. p + 1, i < j
               PROVE  Within(sq[i], sq[j])
    BY DEF Nest
  <2>1. CASE j \in 1 .. p
    <3>1. i \in 1 .. p BY <2>1
    <3> QED BY <2>1, <3>1 DEF Nested, Nest
  <2>2. CASE j = p + 1
    <3>1. i \in 1 .. p BY <2>2
    <3>2. sp[i].exit <= st[n].enter \/ (st[n].enter <= sp[i].enter /\ n <= sp[i].depth)
      BY <3>1 DEF Nested, WithinStack
    <3>3. sp[i].exit <= t /\ sp[i].depth \in Nat /\ sq[i] = sp[i]
      BY <3>1 DEF Reached, Timed
    <3> QED BY <2>2, <3>2, <3>3 DEF Within
  <2> QED BY <2>1, <2>2
<1>4. Reached(st, n - 1, sq, p + 1, t)
  <2>1. ASSUME NEW i \in 1 .. p + 1 PROVE sq[i].enter <= t /\ sq[i].exit <= t
    <3>1. CASE i \in 1 .. p BY <3>1 DEF Reached
    <3>2. CASE i = p + 1 BY <3>2 DEF Reached
    <3> QED BY <3>1, <3>2
  <2> QED BY <2>1 DEF Reached
<1>5. Enclosed(st, n - 1, sq, p + 1)
  <2> SUFFICES ASSUME NEW i \in 1 .. p + 1, NEW d \in 0 .. sq[i].depth - 1
               PROVE  \/ d < n - 1 /\ st[d + 1].enter <= sq[i].enter
                      \/ \E j \in 1 .. p + 1 : Encloses(sq[j], sq[i]) /\ sq[j].depth = d
    BY DEF Enclosed
  <2>1. CASE i \in 1 .. p
    <3>1. sq[i] = sp[i] /\ sp[i].exit <= t /\ sp[i].depth \in Nat
      BY <2>1 DEF Reached, Timed
    <3>2. CASE d < n /\ st[d + 1].enter <= sp[i].enter
      <4>1. d # n - 1 => d < n - 1
        BY <3>1, <3>2
      <4>2. d = n - 1 => Encloses(sq[p + 1], sq[i]) /\ sq[p + 1].depth = d
        BY <3>1, <3>2 DEF Encloses
      <4> QED BY <3>1, <3>2, <4>1, <4>2
    <3>3. CASE \E j \in 1 .. p : Encloses(sp[j], sp[i]) /\ sp[j].depth = d
      <4>1. PICK j \in 1 .. p : Encloses(sp[j], sp[i]) /\ sp[j].depth = d
        BY <3>3
      <4>2. j \in 1 .. p + 1 /\ sq[j] = sp[j]
        OBVIOUS
      <4> QED BY <3>1, <4>1, <4>2
    <3> QED BY <2>1, <3>1, <3>2, <3>3 DEF Nested, Enclosed
  <2>2. CASE i = p + 1
    <3>1. d < n - 1 /\ d + 1 \in 1 .. n /\ d + 1 < n
      BY <2>2
    <3>2. st[d + 1].enter <= st[n].enter
      BY <3>1 DEF Nested, StackInOrder
    <3> QED BY <2>2, <3>1, <3>2
  <2> QED BY <2>1, <2>2
<1> QED BY <1>1, <1>2, <1>3, <1>4, <1>5 DEF Nested

(* Entering a scope at t. *)
LEMMA PushNests ==
  ASSUME NEW st, NEW sr, NEW sp, NEW n \in Nat, NEW p \in Nat, NEW t \in Nat,
         Nested(st, n, sp, p), Reached(st, n, sp, p, t),
         \A i \in 1 .. n : sr[i] = st[i],
         sr[n + 1].enter = t, sr[n + 1].depth = n
  PROVE  Nested(sr, n + 1, sp, p) /\ Reached(sr, n + 1, sp, p, t)
<1>1. ASSUME NEW i \in 1 .. n + 1 PROVE sr[i].depth = i - 1 /\ sr[i].enter <= t
  <2>1. CASE i \in 1 .. n BY <2>1 DEF Nested, StackInOrder, Reached
  <2>2. CASE i = n + 1 BY <2>2
  <2> QED BY <2>1, <2>2
<1>2. ASSUME NEW i \in 1 .. n + 1, NEW j \in 1 .. n + 1, i < j PROVE sr[i].enter <= sr[j].enter
  <2>1. CASE j \in 1 .. n BY <1>2, <2>1 DEF Nested, StackInOrder
  <2>2. CASE j = n + 1 BY <1>1, <2>2
  <2> QED BY <2>1, <2>2
<1>3. WithinStack(sr, n + 1, sp, p)
  <2> SUFFICES ASSUME NEW i \in 1 .. p, NEW j \in 1 .. n + 1
               PROVE  sp[i].exit <= sr[j].enter \/ (sr[j].enter <= sp[i].enter /\ j <= sp[i].depth)
    BY DEF WithinStack
  <2>1. CASE j \in 1 .. n BY <2>1 DEF Nested, WithinStack
  <2>2. CASE j = n + 1 BY <2>2 DEF Reached
  <2> QED BY <2>1, <2>2
<1>4. Enclosed(sr, n + 1, sp, p)
  <2> SUFFICES ASSUME NEW i \in 1 .. p, NEW d \in 0 .. sp[i].depth - 1
               PROVE  \/ d < n + 1 /\ sr[d + 1].enter <= sp[i].enter
                      \/ \E j \in 1 .. p : Encloses(sp[j], sp[i]) /\ sp[j].depth = d
    BY DEF Enclosed
  <2>1. CASE d < n /\ st[d + 1].enter <= sp[i].enter
    <3>1. d + 1 \in 1 .. n /\ d < n + 1
      BY <2>1
    <3> QED BY <2>1, <3>1
  <2> QED BY <2>1 DEF Nested, Enclosed
<1> QED BY <1>1, <1>2, <1>3, <1>4 DEF Nested, StackInOrder, Reached

(* A point marker at t. *)
LEMMA PointNests ==
  ASSUME NEW st, NEW sp, NEW sq, NEW n \in Nat, NEW p \in Nat, NEW t \in Nat,
         Nested(st, n, sp, p), Reached(st, n, sp, p, t),
         \A i \in 1 .. p : sq[i] = sp[i],
         sq[p + 1].enter = t, sq[p + 1].exit = t, sq[p + 1].depth = n
  PROVE  Nested(st, n, sq, p + 1) /\ Reached(st, n, sq, p + 1, t)
<1>1. ASSUME NEW i \in 1 .. p + 1 PROVE sq[i].enter <= t /\ sq[i].exit <= t
  <2>1. CASE i \in 1 .. p BY <2>1 DEF Reached
  <2>2. CASE i = p + 1 BY <2>2
  <2> QED BY <2>1, <2>2
<1>2. WithinStack(st, n, sq, p + 1)
  <2> SUFFICES ASSUME NEW i \in 1 .. p + 1, NEW j \in 1 .. n
               PROVE  sq[i].exit <= st[j].enter \/ (st[j].enter <= sq[i].enter /\ j <= sq[i].depth)
    BY DEF WithinStack
  <2>1. CASE i \in 1 .. p BY <2>1 DEF Nested, WithinStack
  <2>2. CASE i = p + 1 BY <2>2 DEF Reached
  <2> QED BY <2>1, <2>2
<1>3. Nest(sq, p + 1)
  <2> SUFFICES ASSUME NEW i \in 1 .. p + 1, NEW j \in 1 .. p + 1, i < j
               PROVE  Within(sq[i], sq[j])
    BY DEF Nest
  <2>1. CASE j \in 1 .. p
    <3>1. i \in 1 .. p BY <2>1
    <3> QED BY <2>1, <3>1 DEF Nested, Nest
  <2>2. CASE j = p + 1 BY <1>1, <2>2 DEF Within
  <2> QED BY <2>1, <2>2
<1>4. Enclosed(st, n, sq, p + 1)
  <2> SUFFICES ASSUME NEW i \in 1 .. p + 1, NEW d \in 0 .. sq[i].depth - 1
               PROVE  \/ d < n /\ st[d + 1].enter <= sq[i].enter
                      \/ \E j \in 1 .. p + 1 : Encloses(sq[j], sq[i]) /\ sq[j].depth = d
    BY DEF Enclosed
  <2>1. CASE i \in 1 .. p
    <3>1. sq[i] = sp[i] /\ \A j \in 1 .. p : j \in 1 .. p + 1 /\ sq[j] = sp[j]
      BY <2>1
    <3> QED BY <2>1, <3>1 DEF Nested, Enclosed
  <2>2. CASE i = p + 1
    <3>1. d < n /\ d + 1 \in 1 .. n
      BY <2>2
    <3> QED BY <2>2, <3>1 DEF Reached
  <2> QED BY <2>1, <2>2
<1> QED BY <1>1, <1>2, <1>3, <1>4 DEF Nested, Reached

-------------------------------------------------------------------------------
(* Every time that is still to be walked is after what the walk has seen. *)
UpTo ==
  \A i \in pos .. Len(records) : Reached(stack, Len(stack), spans, Len(spans), records[i].time)

(* Times are past or for ever, depths no more than there are tokens. *)
Bounded ==
  /\ \A i \in 1 .. Len(stack) : stack[i].enter <= clock
  /\ \A i \in 1 .. Len(spans) :
       /\ spans[i].enter <= clock /\ spans[i].enter <= spans[i].exit /\ spans[i].depth <= MaxTokens
       /\ spans[i].exit <= clock \/ spans[i].exit = Forever

Walking == UpTo /\ Nested(stack, Len(stack), spans, Len(spans)) /\ Bounded

IInv == TraceTypes /\ WalkTypes /\ Walking

(* The records of a trace are typed and none is later than the clock. *)
LEMMA TypedRecords ==
  ASSUME TraceTypes
  PROVE  /\ Len(records) \in Nat /\ DOMAIN records = 1 .. Len(records)
         /\ \A i \in 1 .. Len(records) : records[i] \in Record /\ records[i].time \in Nat /\ records[i].time <= clock
<1>1. Len(records) \in Nat /\ DOMAIN records = 1 .. Len(records) /\ \A i \in 1 .. Len(records) : records[i] \in Record
  BY DEF TraceTypes
<1>2. \A i \in 1 .. Len(records) : records[i].time \in Nat
  BY <1>1 DEF Record
<1> QED BY <1>1, <1>2 DEF TraceTypes

(* Times and depths of scopes and spans are numbers. *)
LEMMA TypedTimes == ASSUME WalkTypes PROVE Timed(stack, Len(stack), spans, Len(spans))
<1>1. \A i \in 1 .. Len(stack) : stack[i] \in Entry
  BY DEF WalkTypes
<1>2. \A i \in 1 .. Len(spans) : spans[i] \in Span
  BY DEF WalkTypes
<1> QED BY <1>1, <1>2 DEF Timed, Entry, Span

(* Whatever object is active, it is a number, and so is half of a name. *)
LEMMA ObjectsAreNumbers ==
  ASSUME TraceTypes, NEW t, NEW id \in Nat
  PROVE  NameAt(id, t) \in Nat \X Nat
<1>1. ASSUME NEW k \in Kernels PROVE OccupancyObject(k) \in Nat
  BY MarkerAssumption DEF OccupancyObject, NamedObject
<1>2. \A i \in Intervals : i.object \in Nat
  BY <1>1 DEF Intervals, TraceTypes, OccupancyRecord
<1>3. \A i \in TracedIntervals : i.object \in Nat
  <2> SUFFICES ASSUME NEW i \in DOMAIN waves PROVE Object[waves[i].kernel] \in Nat
    BY DEF TracedIntervals
  <2>1. waves[i] \in Wave BY DEF TraceTypes
  <2> QED BY <2>1, MarkerAssumption DEF Wave
<1>4. ASSUME NEW S, \A i \in S : i.object \in Nat PROVE ActiveAt(S, t) \in Nat
  BY <1>4 DEF ActiveAt
<1>5. ActiveAt(Intervals, t) \in Nat
  BY <1>2, <1>4
<1>6. ActiveAt(TracedIntervals, t) \in Nat
  BY <1>3, <1>4
<1>7. ObjectAt(t) \in Nat
  BY <1>5, <1>6 DEF ObjectAt
<1> QED BY <1>7 DEF NameAt, NameIn

(* What Pushed does to a stack. *)
LEMMA PushedStack ==
  ASSUME TraceTypes, NEW st \in Seq(Entry), NEW id \in Nat, NEW t \in Nat
  PROVE  LET sr == Pushed(st, id, t)
         IN  \/ sr = st
             \/ /\ sr \in Seq(Entry) /\ Len(sr) = Len(st) + 1
                /\ \A i \in 1 .. Len(st) : sr[i] = st[i]
                /\ sr[Len(st) + 1].enter = t /\ sr[Len(st) + 1].depth = Len(st)
<1> DEFINE e == [name |-> NameAt(id, t), enter |-> t, depth |-> Len(st)]
<1>1. e \in Entry /\ e.enter = t /\ e.depth = Len(st)
  BY ObjectsAreNumbers DEF Entry
<1> HIDE DEF e
<1>2. /\ Append(st, e) \in Seq(Entry) /\ Len(Append(st, e)) = Len(st) + 1
      /\ \A i \in 1 .. Len(st) : Append(st, e)[i] = st[i]
      /\ Append(st, e)[Len(st) + 1] = e
  BY <1>1
<1>3. Pushed(st, id, t) = st \/ Pushed(st, id, t) = Append(st, e)
  BY DEF Pushed, e
<1> QED BY <1>1, <1>2, <1>3

(* What taking the last scope off does to a stack. *)
LEMMA FrontOfStack ==
  ASSUME NEW st \in Seq(Entry), Len(st) > 0
  PROVE  /\ Front(st) \in Seq(Entry) /\ Len(Front(st)) = Len(st) - 1
         /\ \A i \in 1 .. Len(st) - 1 : Front(st)[i] = st[i]
<1> DEFINE n == Len(st) - 1
<1>1. n \in Nat /\ \A i \in 1 .. n : st[i] \in Entry
  OBVIOUS
<1> HIDE DEF n
<1>2. /\ SubSeq(st, 1, n) \in Seq(Entry)
      /\ Len(SubSeq(st, 1, n)) = IF 1 <= n THEN n - 1 + 1 ELSE 0
      /\ \A i \in 1 .. n - 1 + 1 : SubSeq(st, 1, n)[i] = st[1 + i - 1]
  BY <1>1, SubSeqProperties
<1>3. Front(st) = SubSeq(st, 1, n)
  BY DEF Front, n
<1>4. Len(SubSeq(st, 1, n)) = n
  BY <1>1, <1>2
<1>5. \A i \in 1 .. n : SubSeq(st, 1, n)[i] = st[i]
  BY <1>1, <1>2
<1> QED BY <1>2, <1>3, <1>4, <1>5 DEF n

(* The span of the scope that is left. *)
LEMMA ClosedSpan ==
  ASSUME NEW st \in Seq(Entry), Len(st) > 0, NEW t \in Nat
  PROVE  /\ Closed(Last(st), t) \in Span
         /\ Closed(Last(st), t).enter = st[Len(st)].enter /\ Closed(Last(st), t).exit = t
         /\ Closed(Last(st), t).depth = st[Len(st)].depth /\ Closed(Last(st), t).point = FALSE
<1>1. Last(st) = st[Len(st)] /\ st[Len(st)] \in Entry
  BY DEF Last
<1> QED BY <1>1 DEF Closed, Entry, Span

(* One span more at the end. *)
LEMMA AppendedSpan ==
  ASSUME NEW sp \in Seq(Span), NEW c \in Span
  PROVE  /\ Append(sp, c) \in Seq(Span) /\ Len(Append(sp, c)) = Len(sp) + 1
         /\ \A i \in 1 .. Len(sp) : Append(sp, c)[i] = sp[i]
         /\ Append(sp, c)[Len(sp) + 1] = c
OBVIOUS

-------------------------------------------------------------------------------
(* The invariant holds at first: nothing was sent and nothing walked. *)
LEMMA InitIInv == Init => IInv
<1> SUFFICES ASSUME Init PROVE IInv
  OBVIOUS
<1>1. clock = 0 /\ waves = <<>> /\ occupancy = {} /\ records = <<>> /\ phase = "trace"
      /\ pos = 1 /\ stack = <<>> /\ spans = <<>> /\ orphans = {}
  BY DEF Init
<1>2. TraceTypes
  BY <1>1, MarkerAssumption DEF TraceTypes
<1>3. WalkTypes
  BY <1>1 DEF WalkTypes
<1>4. Walking
  BY <1>1 DEF Walking, UpTo, Bounded, Nested, StackInOrder, WithinStack, Nest, Enclosed
<1> QED BY <1>2, <1>3, <1>4 DEF IInv

(* While the trace is taken there is nothing to nest. *)
LEMMA TraceWalking ==
  ASSUME WalkTypes, phase = "trace", TraceTypes', UNCHANGED walked, phase' \in {"trace", "walk"}
  PROVE  WalkTypes' /\ Walking'
<1>1. pos' = 1 /\ stack' = <<>> /\ spans' = <<>> /\ orphans' = {}
  BY DEF WalkTypes, walked
<1>2. Len(records') \in Nat
  BY DEF TraceTypes
<1>3. WalkTypes'
  BY <1>1, <1>2 DEF WalkTypes
<1>4. Walking'
  BY <1>1 DEF Walking, UpTo, Bounded, Nested, StackInOrder, WithinStack, Nest, Enclosed, Reached
<1> QED BY <1>3, <1>4

(* The walk's part is untouched while the trace is taken; here a wave starts. *)
LEMMA StartWaveIInv == ASSUME IInv, NEW k \in Kernels, StartWave(k) PROVE IInv'
<1>1. [kernel |-> k, begin |-> clock', end |-> Forever] \in Wave
  BY MarkerAssumption DEF IInv, TraceTypes, StartWave, Wave
<1>2. waves' \in Seq(Wave)
  BY <1>1 DEF IInv, TraceTypes, StartWave
<1>3. occupancy' \subseteq OccupancyRecord
  <2>1. clock' \in Nat BY DEF IInv, TraceTypes, StartWave
  <2>2. [time |-> clock', start |-> TRUE, kernel |-> k] \in OccupancyRecord BY <2>1 DEF OccupancyRecord
  <2>3. occupancy \subseteq OccupancyRecord BY DEF IInv, TraceTypes
  <2> QED BY <2>2, <2>3 DEF StartWave
<1>4. clock' \in Nat /\ clock <= clock' /\ clock' < Forever
  BY MarkerAssumption DEF IInv, TraceTypes, StartWave
<1>5. \A i \in DOMAIN records : records[i].time \in Nat
  BY TypedRecords DEF IInv
<1>6. TraceTypes'
  BY <1>2, <1>3, <1>4, <1>5 DEF IInv, TraceTypes, StartWave
<1> QED BY <1>6, TraceWalking DEF IInv, StartWave

(* A wave ends, with or without its record. *)
LEMMA EndWaveIInv == ASSUME IInv, NEW b \in BOOLEAN, EndWave(b) PROVE IInv'
<1>1. Len(waves) \in DOMAIN waves /\ Last(waves) = waves[Len(waves)] /\ waves[Len(waves)] \in Wave
  BY DEF IInv, TraceTypes, EndWave, Running, Last
<1>2. waves' \in Seq(Wave)
  <2>1. [waves[Len(waves)] EXCEPT !.end = clock] \in Wave
    BY <1>1 DEF IInv, TraceTypes, Wave
  <2>2. waves' = [waves EXCEPT ![Len(waves)] = [waves[Len(waves)] EXCEPT !.end = clock]]
    BY DEF EndWave
  <2> QED BY <1>1, <2>1, <2>2 DEF IInv, TraceTypes
<1>3. occupancy' \subseteq OccupancyRecord
  <2>1. [time |-> clock, start |-> FALSE, kernel |-> Last(waves).kernel] \in OccupancyRecord
    BY <1>1 DEF OccupancyRecord, Wave, IInv, TraceTypes
  <2>2. occupancy \subseteq OccupancyRecord BY DEF IInv, TraceTypes
  <2> QED BY <2>1, <2>2 DEF EndWave
<1>4. TraceTypes'
  BY <1>2, <1>3 DEF IInv, TraceTypes, EndWave
<1> QED BY <1>4, TraceWalking DEF IInv, EndWave

(* A token is sent: one record more, no earlier than those before. *)
LEMMA EmitIInv ==
  ASSUME IInv, NEW m \in UNION {Sends[k] : k \in Kernels}, NEW d \in 0 .. 1, NEW b \in BOOLEAN,
         Emit(m.kind, m.id, d, b)
  PROVE  IInv'
<1>1. m.kind \in Kinds /\ m.id \in Nat
  BY MarkerAssumption
<1>2. clock' \in Nat /\ clock <= clock' /\ clock' < Forever
  BY MarkerAssumption DEF IInv, TraceTypes, Emit
<1>3. \A i \in 1 .. Len(records) : records[i].time \in Nat /\ records[i].time <= clock'
  BY <1>2, TypedRecords DEF IInv, TraceTypes
<1>4. Len(records) < MaxTokens
  <2>1. Cardinality(dirt \cap {"lost"}) \in Nat
    <3>1. IsFiniteSet({"lost"}) BY FS_Singleton
    <3>2. IsFiniteSet(dirt \cap {"lost"}) BY <3>1, FS_Subset
    <3> QED BY <3>2, FS_CardinalityType
  <2>2. Len(records) + Cardinality(dirt \cap {"lost"}) < MaxTokens
    BY DEF Emit
  <2> QED BY <2>1, <2>2, MarkerAssumption DEF IInv, TraceTypes
<1>5. TraceTypes'
  <2>1. CASE ~b
    <3>1. UNCHANGED <<records, waves, occupancy>> BY <2>1 DEF Emit
    <3> QED BY <1>2, <1>3, <3>1 DEF IInv, TraceTypes
  <2>2. CASE b
    <3> DEFINE r == [time |-> clock', kind |-> m.kind, id |-> m.id]
    <3>1. r \in Record /\ r.time = clock'
      BY <1>1, <1>2 DEF Record
    <3>2. records' = Append(records, r) /\ UNCHANGED <<waves, occupancy>>
      BY <2>2 DEF Emit
    <3> HIDE DEF r
    <3>3. /\ records' \in Seq(Record) /\ Len(records') = Len(records) + 1 /\ records'[Len(records) + 1] = r
          /\ \A i \in 1 .. Len(records) : records'[i] = records[i]
      BY <3>1, <3>2 DEF IInv, TraceTypes
    <3>4. Len(records) \in Nat /\ DOMAIN records' = 1 .. Len(records) + 1
      BY <3>3 DEF IInv, TraceTypes
    <3>5. \A i \in DOMAIN records' : records'[i].time <= clock'
      <4> SUFFICES ASSUME NEW i \in 1 .. Len(records) + 1 PROVE records'[i].time <= clock'
        BY <3>4
      <4>1. CASE i \in 1 .. Len(records) BY <4>1, <1>3, <3>3
      <4>2. CASE i = Len(records) + 1 BY <4>2, <3>1, <3>3, <1>2
      <4> QED BY <4>1, <4>2, <3>4
    <3>6. \A i, j \in DOMAIN records' : i < j => records'[i].time <= records'[j].time
      <4> SUFFICES ASSUME NEW i \in 1 .. Len(records) + 1, NEW j \in 1 .. Len(records) + 1, i < j
                   PROVE  records'[i].time <= records'[j].time
        BY <3>4
      <4>1. CASE j \in 1 .. Len(records)
        <5>1. i \in 1 .. Len(records) BY <4>1
        <5>2. records[i].time <= records[j].time BY <4>1, <5>1 DEF IInv, TraceTypes
        <5> QED BY <4>1, <5>1, <5>2, <3>3
      <4>2. CASE j = Len(records) + 1 BY <4>2, <3>1, <3>3, <3>4, <3>5
      <4> QED BY <4>1, <4>2, <3>4
    <3>7. Len(records') <= MaxTokens
      BY <1>4, <3>3, <3>4, MarkerAssumption
    <3> QED BY <1>2, <3>2, <3>3, <3>5, <3>6, <3>7 DEF IInv, TraceTypes
  <2> QED BY <2>1, <2>2
<1> QED BY <1>5, TraceWalking DEF IInv, Emit

(* The trace ends: the walk finds its stack and spans empty. *)
LEMMA StopIInv == ASSUME IInv, Stop PROVE IInv'
<1>1. waves' \in Seq(Wave)
  <2>1. CASE ~Running BY <2>1 DEF Stop, IInv, TraceTypes
  <2>2. CASE Running
    <3>1. Len(waves) \in DOMAIN waves /\ waves[Len(waves)] \in Wave
      BY <2>2 DEF IInv, TraceTypes, Running
    <3>2. [waves[Len(waves)] EXCEPT !.end = clock] \in Wave
      BY <3>1 DEF IInv, TraceTypes, Wave
    <3>3. waves' = [waves EXCEPT ![Len(waves)] = [waves[Len(waves)] EXCEPT !.end = clock]]
      BY <2>2 DEF Stop
    <3> QED BY <3>1, <3>2, <3>3 DEF IInv, TraceTypes
  <2> QED BY <2>1, <2>2
<1>2. TraceTypes'
  BY <1>1 DEF IInv, TraceTypes, Stop
<1> QED BY <1>2, TraceWalking DEF IInv, Stop

-------------------------------------------------------------------------------
(* What is not later than one time is not later than a later one. *)
LEMMA ReachedLater ==
  ASSUME NEW st, NEW sp, NEW n \in Nat, NEW p \in Nat, NEW t \in Nat, NEW u \in Nat, t <= u,
         Timed(st, n, sp, p), Reached(st, n, sp, p, t)
  PROVE  Reached(st, n, sp, p, u)
<1>1. ASSUME NEW i \in 1 .. n PROVE st[i].enter <= u
  BY DEF Timed, Reached
<1>2. ASSUME NEW i \in 1 .. p PROVE sp[i].enter <= u /\ sp[i].exit <= u
  BY DEF Timed, Reached
<1> QED BY <1>1, <1>2 DEF Reached

(* One record walked: a step that leaves everything nested and at the time *)
(* of the record keeps the invariant.                                      *)
LEMMA WalkedOne ==
  ASSUME IInv, phase = "walk", pos <= Len(records), pos' = pos + 1, UNCHANGED <<traced, phase>>,
         stack' \in Seq(Entry), spans' \in Seq(Span), Len(stack') <= pos, orphans' \subseteq orphans \cup {pos},
         Nested(stack', Len(stack'), spans', Len(spans')),
         Reached(stack', Len(stack'), spans', Len(spans'), Rec.time),
         \A i \in 1 .. Len(spans') :
           \/ i \in 1 .. Len(spans) /\ spans'[i] = spans[i]
           \/ spans'[i].enter <= spans'[i].exit /\ spans'[i].depth <= Len(stack)
  PROVE  IInv'
<1>1. Rec \in Record /\ Rec.time \in Nat /\ Rec.time <= clock /\ pos \in DOMAIN records
  BY TypedRecords DEF IInv, WalkTypes, Rec
<1>2. TraceTypes'
  BY DEF IInv, TraceTypes, traced
<1>3. WalkTypes'
  <2>1. Len(stack') \in Nat /\ records' = records /\ Len(records) \in Nat
    BY DEF traced, IInv, TraceTypes
  <2> QED BY <1>1, <2>1 DEF IInv, WalkTypes
<1>4. Timed(stack', Len(stack'), spans', Len(spans'))
  <2>1. \A i \in 1 .. Len(stack') : stack'[i] \in Entry BY DEF WalkTypes
  <2>2. \A i \in 1 .. Len(spans') : spans'[i] \in Span BY DEF WalkTypes
  <2> QED BY <2>1, <2>2 DEF Timed, Entry, Span
<1>5. UpTo'
  <2> SUFFICES ASSUME NEW i \in pos + 1 .. Len(records)
               PROVE  Reached(stack', Len(stack'), spans', Len(spans'), records[i].time)
    BY DEF UpTo, traced
  <2>1. i \in DOMAIN records /\ pos < i
    BY <1>1 DEF IInv, TraceTypes, WalkTypes
  <2>2. Rec.time <= records[i].time /\ records[i].time \in Nat
    BY <1>1, <2>1, TypedRecords DEF IInv, TraceTypes, Rec
  <2>3. Len(stack') \in Nat /\ Len(spans') \in Nat
    OBVIOUS
  <2> QED BY <1>1, <1>4, <2>2, <2>3, ReachedLater
<1>6. Bounded'
  <2>1. ASSUME NEW i \in 1 .. Len(stack') PROVE stack'[i].enter <= clock
    BY <1>1, <1>4 DEF Reached, Timed, IInv, TraceTypes
  <2>2. ASSUME NEW i \in 1 .. Len(spans')
        PROVE  /\ spans'[i].enter <= clock /\ spans'[i].enter <= spans'[i].exit
               /\ spans'[i].depth <= MaxTokens
               /\ spans'[i].exit <= clock \/ spans'[i].exit = Forever
    <3>1. spans'[i].enter <= clock /\ spans'[i].exit <= clock
      BY <1>1, <1>4 DEF Reached, Timed, IInv, TraceTypes
    <3>2. Len(stack) \in Nat /\ Len(stack) <= MaxTokens /\ spans'[i].depth \in Nat
      BY <1>4, MarkerAssumption, SMTT(30) DEF Timed, IInv, WalkTypes, TraceTypes
    <3>3. CASE i \in 1 .. Len(spans) /\ spans'[i] = spans[i]
      BY <3>1, <3>3 DEF IInv, Walking, Bounded
    <3>4. CASE spans'[i].enter <= spans'[i].exit /\ spans'[i].depth <= Len(stack)
      BY <3>1, <3>2, <3>4, MarkerAssumption
    <3> QED BY <3>3, <3>4
  <2> QED BY <2>1, <2>2 DEF Bounded, traced
<1> QED BY <1>2, <1>3, <1>5, <1>6 DEF IInv, Walking

(* What every step of the walk starts from. *)
LEMMA WalkStart ==
  ASSUME IInv, phase = "walk", pos <= Len(records)
  PROVE  /\ Rec.time \in Nat /\ Rec.id \in Nat /\ pos \in Nat
         /\ stack \in Seq(Entry) /\ spans \in Seq(Span) /\ Len(stack) \in Nat /\ Len(spans) \in Nat
         /\ Len(stack) < pos
         /\ Timed(stack, Len(stack), spans, Len(spans))
         /\ Nested(stack, Len(stack), spans, Len(spans))
         /\ Reached(stack, Len(stack), spans, Len(spans), Rec.time)
<1>1. pos \in 1 .. Len(records) /\ pos \in pos .. Len(records)
  BY TypedRecords DEF IInv, WalkTypes
<1>2. Rec \in Record /\ Rec.time \in Nat
  BY <1>1, TypedRecords DEF IInv, Rec
<1>3. Rec.id \in Nat
  BY <1>2 DEF Record
<1>4. Reached(stack, Len(stack), spans, Len(spans), Rec.time)
  BY <1>1 DEF IInv, Walking, UpTo, Rec
<1>5. stack \in Seq(Entry) /\ spans \in Seq(Span) /\ Len(stack) < pos /\ pos \in Nat
  BY DEF IInv, WalkTypes
<1>6. Len(stack) \in Nat /\ Len(spans) \in Nat
  BY <1>5
<1> QED BY <1>2, <1>3, <1>4, <1>5, <1>6, TypedTimes DEF IInv, Walking

(* Entering a scope, after leaving one perhaps. *)
LEMMA PushedNests ==
  ASSUME TraceTypes, NEW st \in Seq(Entry), NEW sp \in Seq(Span), NEW id \in Nat, NEW t \in Nat,
         Nested(st, Len(st), sp, Len(sp)), Reached(st, Len(st), sp, Len(sp), t)
  PROVE  LET sr == Pushed(st, id, t)
         IN  /\ sr \in Seq(Entry) /\ Len(sr) <= Len(st) + 1
             /\ Nested(sr, Len(sr), sp, Len(sp)) /\ Reached(sr, Len(sr), sp, Len(sp), t)
<1> DEFINE sr == Pushed(st, id, t)
<1>0. Len(st) \in Nat /\ Len(sp) \in Nat
  OBVIOUS
<1>1. CASE sr = st
  BY <1>0, <1>1
<1>2. CASE /\ sr \in Seq(Entry) /\ Len(sr) = Len(st) + 1
           /\ \A i \in 1 .. Len(st) : sr[i] = st[i]
           /\ sr[Len(st) + 1].enter = t /\ sr[Len(st) + 1].depth = Len(st)
  <2> HIDE DEF sr
  <2>1. Nested(sr, Len(st) + 1, sp, Len(sp)) /\ Reached(sr, Len(st) + 1, sp, Len(sp), t)
    BY <1>0, <1>2, PushNests
  <2>2. Len(sr) <= Len(st) + 1
    BY <1>0, <1>2
  <2> QED BY <1>2, <2>1, <2>2 DEF sr
<1> QED BY <1>1, <1>2, PushedStack

(* Leaving the innermost scope. *)
LEMMA Leaving ==
  ASSUME IInv, phase = "walk", pos <= Len(records), Depth > 0
  PROVE  LET sr == Front(stack)  sq == Append(spans, Closed(Last(stack), Rec.time))
         IN  /\ sr \in Seq(Entry) /\ Len(sr) = Len(stack) - 1
             /\ sq \in Seq(Span) /\ Len(sq) = Len(spans) + 1
             /\ Nested(sr, Len(sr), sq, Len(sq)) /\ Reached(sr, Len(sr), sq, Len(sq), Rec.time)
             /\ \A i \in 1 .. Len(sq) :
                  \/ i \in 1 .. Len(spans) /\ sq[i] = spans[i]
                  \/ sq[i].enter <= sq[i].exit /\ sq[i].depth <= Len(stack)
<1> DEFINE n == Len(stack)  q == Len(spans)  t == Rec.time
           sr == Front(stack)  sq == Append(spans, Closed(Last(stack), t))
<1>1. /\ n \in Nat /\ n > 0 /\ q \in Nat /\ t \in Nat
      /\ Timed(stack, n, spans, q) /\ Nested(stack, n, spans, q) /\ Reached(stack, n, spans, q, t)
  BY WalkStart DEF Depth
<1>2. sr \in Seq(Entry) /\ Len(sr) = n - 1 /\ \A i \in 1 .. n - 1 : sr[i] = stack[i]
  BY <1>1, WalkStart, FrontOfStack
<1>3. stack[n].depth = n - 1 /\ stack[n].enter <= t
  BY <1>1 DEF Nested, StackInOrder, Reached
<1>4. /\ sq \in Seq(Span) /\ Len(sq) = q + 1 /\ \A i \in 1 .. q : sq[i] = spans[i]
      /\ sq[q + 1].enter = stack[n].enter /\ sq[q + 1].exit = t /\ sq[q + 1].depth = n - 1
      /\ sq[q + 1].point = FALSE
  <2>1. stack \in Seq(Entry) /\ spans \in Seq(Span) BY WalkStart
  <2> DEFINE c == Closed(Last(stack), t)
  <2>2. /\ c \in Span /\ c.enter = stack[n].enter /\ c.exit = t /\ c.depth = stack[n].depth /\ c.point = FALSE
    BY <1>1, <2>1, ClosedSpan
  <2> HIDE DEF c
  <2>3. sq = Append(spans, c) BY DEF c
  <2> HIDE DEF sq
  <2>4. /\ sq \in Seq(Span) /\ Len(sq) = q + 1 /\ \A i \in 1 .. q : sq[i] = spans[i]
        /\ sq[q + 1] = c
    BY <2>1, <2>2, <2>3, AppendedSpan
  <2> QED BY <1>3, <2>2, <2>4
<1> HIDE DEF n, q, t, sr, sq
<1>5. Nested(stack, n - 1, sq, q + 1) /\ Reached(stack, n - 1, sq, q + 1, t)
  BY <1>1, <1>4, CloseNests
<1>6. Nested(sr, n - 1, sq, q + 1) /\ Reached(sr, n - 1, sq, q + 1, t)
  <2>1. \A d \in Nat : d < n - 1 => d + 1 \in 1 .. n - 1
    BY <1>1
  <2>2. Enclosed(sr, n - 1, sq, q + 1)
    <3> SUFFICES ASSUME NEW i \in 1 .. q + 1, NEW d \in 0 .. sq[i].depth - 1
                 PROVE  \/ d < n - 1 /\ sr[d + 1].enter <= sq[i].enter
                        \/ \E j \in 1 .. q + 1 : Encloses(sq[j], sq[i]) /\ sq[j].depth = d
      BY DEF Enclosed
    <3> QED BY <1>2, <1>5, <2>1 DEF Nested, Enclosed
  <2> QED BY <1>2, <1>5, <2>2 DEF Nested, StackInOrder, WithinStack, Reached
<1>7. ASSUME NEW i \in 1 .. q + 1
      PROVE  (i \in 1 .. q /\ sq[i] = spans[i]) \/ (sq[i].enter <= sq[i].exit /\ sq[i].depth <= n)
  BY <1>1, <1>3, <1>4
<1> QED BY <1>2, <1>4, <1>6, <1>7 DEF n, q, t, sr, sq

(* One record of the walk, of each kind. *)
LEMMA WalkIInv == ASSUME IInv, Walk PROVE IInv'
<1>1. /\ phase = "walk" /\ pos <= Len(records) /\ pos' = pos + 1 /\ UNCHANGED <<traced, phase>> /\ TraceTypes
  BY DEF Walk, IInv
<1> DEFINE Same == \A i \in 1 .. Len(spans') :
             \/ i \in 1 .. Len(spans) /\ spans'[i] = spans[i]
             \/ spans'[i].enter <= spans'[i].exit /\ spans'[i].depth <= Len(stack)
           Good == /\ stack' \in Seq(Entry) /\ spans' \in Seq(Span) /\ Len(stack') <= pos
                   /\ orphans' \subseteq orphans \cup {pos}
                   /\ Nested(stack', Len(stack'), spans', Len(spans'))
                   /\ Reached(stack', Len(stack'), spans', Len(spans'), Rec.time) /\ Same
<1>2. CASE Depth > 0 /\ Exit
  <2>1. stack' = Front(stack) /\ spans' = Append(spans, Closed(Last(stack), Rec.time)) /\ orphans' = orphans
    BY <1>2 DEF Exit
  <2>2. Len(stack) - 1 <= pos BY <1>1, WalkStart
  <2>3. Good BY <1>1, <1>2, <2>1, <2>2, Leaving
  <2> QED BY <1>1, <2>3, WalkedOne
<1>3. CASE ~(Depth > 0) /\ Exit
  <2>1. stack' = stack /\ spans' = spans /\ orphans' \subseteq orphans \cup {pos}
    BY <1>3 DEF Exit
  <2>2. Good BY <1>1, <2>1, WalkStart
  <2> QED BY <1>1, <2>2, WalkedOne
<1>4. CASE Depth > 0 /\ Transition
  <2> DEFINE sr == Front(stack)  sq == Append(spans, Closed(Last(stack), Rec.time))
             sp == Pushed(sr, Rec.id, Rec.time)
  <2>1. stack' = sp /\ spans' = sq /\ orphans' = orphans
    BY <1>4 DEF Transition
  <2>2. /\ sr \in Seq(Entry) /\ Len(sr) = Len(stack) - 1 /\ sq \in Seq(Span) /\ Len(sq) = Len(spans) + 1
        /\ Nested(sr, Len(sr), sq, Len(sq)) /\ Reached(sr, Len(sr), sq, Len(sq), Rec.time)
        /\ \A i \in 1 .. Len(sq) : \/ i \in 1 .. Len(spans) /\ sq[i] = spans[i]
                                   \/ sq[i].enter <= sq[i].exit /\ sq[i].depth <= Len(stack)
    BY <1>1, <1>4, Leaving
  <2>3. Rec.id \in Nat /\ Rec.time \in Nat /\ pos \in Nat /\ Len(stack) \in Nat /\ Len(stack) < pos
    BY <1>1, WalkStart
  <2> HIDE DEF sr, sq
  <2>4. /\ sp \in Seq(Entry) /\ Len(sp) <= Len(sr) + 1
        /\ Nested(sp, Len(sp), sq, Len(sq)) /\ Reached(sp, Len(sp), sq, Len(sq), Rec.time)
    BY <1>1, <2>2, <2>3, PushedNests
  <2> HIDE DEF sp
  <2>5. Len(sp) <= pos
    <3>1. Len(sp) \in Nat BY <2>4
    <3> QED BY <3>1, <2>2, <2>3, <2>4
  <2>6. Good BY <2>1, <2>2, <2>4, <2>5
  <2> QED BY <1>1, <2>6, WalkedOne
<1>5. CASE (~(Depth > 0) /\ Transition) \/ Enter
  <2>1. stack' = Pushed(stack, Rec.id, Rec.time) /\ spans' = spans /\ orphans' \subseteq orphans \cup {pos}
    BY <1>5 DEF Transition, Enter
  <2>2. /\ stack' \in Seq(Entry) /\ Len(stack') <= Len(stack) + 1
        /\ Nested(stack', Len(stack'), spans, Len(spans)) /\ Reached(stack', Len(stack'), spans, Len(spans), Rec.time)
    BY <1>1, <2>1, WalkStart, PushedNests
  <2>3. Len(stack') <= pos
    <3>1. Len(stack') \in Nat BY <2>2
    <3>2. Len(stack) \in Nat /\ pos \in Nat /\ Len(stack) < pos BY <1>1, WalkStart
    <3> QED BY <2>2, <3>1, <3>2
  <2>4. Good BY <1>1, <2>1, <2>2, <2>3, WalkStart
  <2> QED BY <1>1, <2>4, WalkedOne
<1>6. CASE Point /\ spans' = spans
  <2>1. stack' = stack /\ orphans' = orphans BY <1>6 DEF Point
  <2>2. Good BY <1>1, <1>6, <2>1, WalkStart
  <2> QED BY <1>1, <2>2, WalkedOne
<1>7. CASE Point /\ spans' # spans
  <2> DEFINE m == NameAt(Rec.id, Rec.time)  t == Rec.time  n == Len(stack)  q == Len(spans)
             e == [name |-> m, enter |-> t, exit |-> t, depth |-> n, point |-> TRUE]
  <2>1. stack' = stack /\ orphans' = orphans /\ spans' = Append(spans, e)
    BY <1>7 DEF Point, Depth
  <2>2. m \in Nat \X Nat /\ t \in Nat /\ n \in Nat /\ q \in Nat
    BY <1>1, WalkStart, ObjectsAreNumbers
  <2>3. e \in Span /\ e.enter = t /\ e.exit = t /\ e.depth = n
    BY <2>2 DEF Span
  <2> HIDE DEF e, m, t, n, q
  <2>4. /\ spans' \in Seq(Span) /\ Len(spans') = q + 1
        /\ \A i \in 1 .. q : spans'[i] = spans[i]
        /\ spans'[q + 1] = e
    BY <1>1, <2>1, <2>3, WalkStart DEF q
  <2>5. Nested(stack, n, spans', q + 1) /\ Reached(stack, n, spans', q + 1, t)
    BY <1>1, <2>2, <2>3, <2>4, WalkStart, PointNests DEF n, q, t
  <2>6. Same
    <3> SUFFICES ASSUME NEW i \in 1 .. q + 1
                 PROVE  (i \in 1 .. q /\ spans'[i] = spans[i]) \/ (spans'[i].enter <= spans'[i].exit /\ spans'[i].depth <= n)
      BY <2>4 DEF n, q
    <3> QED BY <2>2, <2>3, <2>4
  <2>7. Good BY <1>1, <2>1, <2>4, <2>5, <2>6, WalkStart DEF n, q, t
  <2> QED BY <1>1, <2>7, WalkedOne
<1> QED BY <1>2, <1>3, <1>4, <1>5, <1>6, <1>7 DEF Walk

(* A scope that is left by the end of the trace. *)
LEMMA DrainIInv == ASSUME IInv, Drain PROVE IInv'
<1> DEFINE n == Len(stack)  q == Len(spans)
<1>1. /\ pos > Len(records) /\ n > 0 /\ pos' = pos /\ orphans' = orphans /\ UNCHANGED <<traced, phase>>
      /\ stack' = Front(stack) /\ spans' = Append(spans, Closed(Last(stack), Forever)) /\ phase = "walk"
  BY DEF Drain, Depth
<1>2. /\ stack \in Seq(Entry) /\ spans \in Seq(Span) /\ n \in Nat /\ q \in Nat /\ n < pos /\ pos \in Nat
      /\ Timed(stack, n, spans, q) /\ Nested(stack, n, spans, q) /\ Len(records) \in Nat
      /\ clock \in Nat /\ Forever \in Nat /\ clock < Forever /\ MaxTokens \in Nat
      /\ pos <= Len(records) + 1 /\ Len(records) <= MaxTokens
  BY TypedTimes, TypedRecords, MarkerAssumption DEF IInv, WalkTypes, Walking, TraceTypes
<1>3. Bounded
  BY DEF IInv, Walking
<1>4. Reached(stack, n, spans, q, Forever)
  <2>1. ASSUME NEW i \in 1 .. n PROVE stack[i].enter <= Forever
    BY <1>2, <1>3 DEF Bounded, Timed
  <2>2. ASSUME NEW i \in 1 .. q PROVE spans[i].enter <= Forever /\ spans[i].exit <= Forever
    <3>1. spans[i].enter <= clock /\ (spans[i].exit <= clock \/ spans[i].exit = Forever) BY <1>3 DEF Bounded
    <3>2. spans[i].enter \in Nat /\ spans[i].exit \in Nat BY <1>2 DEF Timed
    <3> QED BY <3>1, <3>2, <1>2, SMTT(30)
  <2> QED BY <2>1, <2>2 DEF Reached
<1>5. stack' \in Seq(Entry) /\ Len(stack') = n - 1 /\ \A i \in 1 .. n - 1 : stack'[i] = stack[i]
  BY <1>1, <1>2, FrontOfStack
<1>6. stack[n].depth = n - 1 /\ stack[n].enter <= clock
  BY <1>1, <1>2, <1>3 DEF Nested, StackInOrder, Bounded
<1>7. /\ spans' \in Seq(Span) /\ Len(spans') = q + 1 /\ \A i \in 1 .. q : spans'[i] = spans[i]
      /\ spans'[q + 1].enter = stack[n].enter /\ spans'[q + 1].exit = Forever /\ spans'[q + 1].depth = n - 1
      /\ spans'[q + 1].point = FALSE
  <2> DEFINE c == Closed(Last(stack), Forever)
  <2>1. /\ c \in Span /\ c.enter = stack[n].enter /\ c.exit = Forever /\ c.depth = stack[n].depth /\ c.point = FALSE
    BY <1>1, <1>2, ClosedSpan
  <2> HIDE DEF c
  <2>2. spans' = Append(spans, c) BY <1>1 DEF c
  <2>3. /\ spans' \in Seq(Span) /\ Len(spans') = q + 1 /\ \A i \in 1 .. q : spans'[i] = spans[i]
        /\ spans'[q + 1] = c
    BY <1>2, <2>1, <2>2, AppendedSpan
  <2> QED BY <1>6, <2>1, <2>3
<1>8. Nested(stack, n - 1, spans', q + 1)
  <2> HIDE DEF n, q
  <2> QED BY <1>1, <1>2, <1>4, <1>7, CloseNests
<1>9. Nested(stack', n - 1, spans', q + 1)
  <2>1. \A d \in Nat : d < n - 1 => d + 1 \in 1 .. n - 1
    BY <1>2
  <2> HIDE DEF n, q
  <2>2. Enclosed(stack', n - 1, spans', q + 1)
    <3> SUFFICES ASSUME NEW i \in 1 .. q + 1, NEW d \in 0 .. spans'[i].depth - 1
                 PROVE  \/ d < n - 1 /\ stack'[d + 1].enter <= spans'[i].enter
                        \/ \E j \in 1 .. q + 1 : Encloses(spans'[j], spans'[i]) /\ spans'[j].depth = d
      BY DEF Enclosed
    <3> QED BY <1>5, <1>8, <2>1 DEF Nested, Enclosed
  <2> QED BY <1>5, <1>8, <2>2 DEF Nested, StackInOrder, WithinStack
<1>10. Bounded'
  <2>1. ASSUME NEW i \in 1 .. n - 1 PROVE stack'[i].enter <= clock
    BY <1>2, <1>3, <1>5, SMTT(30) DEF Bounded
  <2>2. ASSUME NEW i \in 1 .. q + 1
        PROVE  /\ spans'[i].enter <= clock /\ spans'[i].enter <= spans'[i].exit /\ spans'[i].depth <= MaxTokens
               /\ spans'[i].exit <= clock \/ spans'[i].exit = Forever
    <3>1. CASE i \in 1 .. q BY <3>1, <1>3, <1>7 DEF Bounded
    <3>2. CASE i = q + 1
      <4>1. stack[n].enter \in Nat BY <1>1, <1>2 DEF Timed
      <4> QED BY <3>2, <4>1, <1>1, <1>2, <1>6, <1>7, SMTT(30)
    <3> QED BY <3>1, <3>2, <1>2
  <2> QED BY <1>1, <1>5, <1>7, <2>1, <2>2 DEF Bounded, traced
<1>11. TraceTypes'
  BY <1>1 DEF IInv, TraceTypes, traced
<1>12. WalkTypes'
  BY <1>1, <1>2, <1>5, <1>7 DEF IInv, WalkTypes, traced
<1>13. UpTo'
  <2>1. pos' .. Len(records') = {} BY <1>1, <1>2 DEF traced
  <2> QED BY <2>1 DEF UpTo
<1> QED BY <1>5, <1>7, <1>9, <1>10, <1>11, <1>12, <1>13 DEF IInv, Walking

(* The flame graphs only read the spans. *)
LEMMA DrawIInv ==
  ASSUME IInv, UNCHANGED <<traced, walked>>, phase # "trace", phase' \in {"sorted", "attribute", "merge"}
  PROVE  IInv'
<1>1. TraceTypes'
  BY DEF IInv, TraceTypes, traced
<1>2. WalkTypes'
  BY DEF IInv, WalkTypes, walked, traced
<1>3. Walking'
  BY DEF IInv, Walking, UpTo, Bounded, Nested, StackInOrder, WithinStack, Nest, Within, Enclosed, Encloses, Reached, walked, traced
<1> QED BY <1>1, <1>2, <1>3 DEF IInv

(* Every step keeps the invariant. *)
LEMMA NextIInv == ASSUME IInv, [Next]_vars PROVE IInv'
<1>1. ASSUME NEW k \in Kernels, StartWave(k) PROVE IInv' BY <1>1, StartWaveIInv
<1>2. ASSUME NEW b \in BOOLEAN, EndWave(b) PROVE IInv' BY <1>2, EndWaveIInv
<1>3. ASSUME NEW m \in UNION {Sends[k] : k \in Kernels}, NEW d \in 0 .. 1, NEW b \in BOOLEAN,
             Emit(m.kind, m.id, d, b)
      PROVE  IInv'
  BY <1>3, EmitIInv
<1>4. CASE Stop BY <1>4, StopIInv
<1>5. CASE Walk BY <1>5, WalkIInv
<1>6. CASE Drain BY <1>6, DrainIInv
<1>7. CASE Sort BY <1>7, DrawIInv DEF Sort
<1>8. CASE Merge BY <1>8, DrawIInv DEF Merge
<1>9. ASSUME NEW t \in 0 .. clock, Attribute(t) PROVE IInv' BY <1>9, DrawIInv DEF Attribute
<1>10. CASE UNCHANGED vars
  BY <1>10 DEF vars, traced, walked, IInv, TraceTypes, WalkTypes, Walking, UpTo, Bounded, Nested, StackInOrder,
    WithinStack, Nest, Within, Enclosed, Encloses, Reached
<1> QED BY <1>1, <1>2, <1>3, <1>4, <1>5, <1>6, <1>7, <1>8, <1>9, <1>10 DEF Next

-------------------------------------------------------------------------------
(* The inductive invariant of the walk. *)
LEMMA IInvHolds == Spec => []IInv
BY InitIInv, NextIInv, PTL DEF Spec

(* Types of the walk for any tokens and any number of waves: the depth of  *)
(* an entry of the stack is its place, times are past or for ever, and no  *)
(* scope is deeper than there are tokens.                                  *)
THEOREM TypeCorrect == Spec => []TypeOK
<1>1. ASSUME IInv PROVE TypeOK
  <2>1. /\ clock \in 0 .. Forever - 1 /\ phase \in {"trace", "walk", "sorted", "attribute", "merge"}
        /\ pos \in 1 .. MaxTokens + 1 /\ Len(stack) <= pos - 1 /\ orphans \subseteq DOMAIN records
        /\ DOMAIN stack = 1 .. Len(stack) /\ DOMAIN spans = 1 .. Len(spans)
    <3>1. Len(stack) \in Nat BY <1>1 DEF IInv, WalkTypes
    <3>2. Len(records) \in Nat BY <1>1, TypedRecords DEF IInv
    <3> QED BY <1>1, <3>1, <3>2, MarkerAssumption DEF IInv, TraceTypes, WalkTypes
  <2>2. Timed(stack, Len(stack), spans, Len(spans))
    BY <1>1, TypedTimes DEF IInv
  <2>3. ASSUME NEW i \in 1 .. Len(stack) PROVE stack[i].depth = i - 1 /\ stack[i].enter \in 0 .. clock
    BY <1>1, <2>2 DEF IInv, Walking, Bounded, Nested, StackInOrder, Timed, TraceTypes
  <2>4. ASSUME NEW i \in 1 .. Len(spans)
        PROVE  /\ spans[i].enter \in 0 .. clock /\ spans[i].depth \in 0 .. MaxTokens
               /\ spans[i].exit \in spans[i].enter .. clock \cup {Forever}
    BY <1>1, <2>2, MarkerAssumption DEF IInv, Walking, Bounded, Timed, TraceTypes
  <2> QED BY <2>1, <2>3, <2>4 DEF TypeOK
<1> QED BY <1>1, IInvHolds, PTL

(* However tokens are lost, without meaning or cut off, the spans that the *)
(* walk gives nest and are as deep as they nest.                           *)
THEOREM SpansAlwaysNest == Spec => []SpansNest
<1>1. ASSUME IInv PROVE SpansNest
  <2>1. DOMAIN spans = 1 .. Len(spans)
    BY <1>1 DEF IInv, WalkTypes
  <2> QED BY <1>1, <2>1 DEF IInv, Walking, Nested, Nest, Within, SpansNest
<1> QED BY <1>1, IInvHolds, PTL

-------------------------------------------------------------------------------
(* The order in which a flame graph takes the spans *)

(* An order of n spans: each has a place, and places follow Precedes. *)
InOrder(o, n) ==
  /\ o \in [1 .. n -> 1 .. n]
  /\ \A p, q \in 1 .. n : p < q => Precedes(o[p], o[q])
  /\ \A i \in 1 .. n : \E p \in 1 .. n : o[p] = i

(* Of two spans one precedes the other. *)
LEMMA PrecedesOrders ==
  ASSUME WalkTypes
  PROVE  \A i, j \in 1 .. Len(spans) :
           /\ ~Precedes(i, i)
           /\ i = j \/ Precedes(i, j) \/ Precedes(j, i)
           /\ Precedes(i, j) => ~Precedes(j, i)
           /\ \A k \in 1 .. Len(spans) : Precedes(i, j) /\ Precedes(j, k) => Precedes(i, k)
<1>1. \A i \in 1 .. Len(spans) : spans[i].enter \in Nat /\ spans[i].depth \in Nat
  BY TypedTimes DEF Timed
<1>2. \A i \in 1 .. Len(spans) : i \in Nat
  BY DEF WalkTypes
<1> QED BY <1>1, <1>2, SMTT(30) DEF Precedes

(* The spans before one are fewer than those before a later one. *)
LEMMA BeforeGrows ==
  ASSUME WalkTypes
  PROVE  \A i, j \in 1 .. Len(spans) :
           /\ Cardinality(Before(i)) \in 0 .. Len(spans) - 1
           /\ Precedes(i, j) => Cardinality(Before(i)) < Cardinality(Before(j))
<1> DEFINE n == Len(spans)
<1>1. n \in Nat /\ DOMAIN spans = 1 .. n
  BY DEF WalkTypes
<1>0. \A i \in 1 .. n : ~Precedes(i, i) /\ \A j, k \in 1 .. n : Precedes(i, j) /\ Precedes(j, k) => Precedes(i, k)
  BY PrecedesOrders
<1> HIDE DEF n
<1>2. IsFiniteSet(1 .. n) /\ Cardinality(1 .. n) = n
  <2>1. IsFiniteSet(1 .. n) /\ Cardinality(1 .. n) = IF 1 > n THEN 0 ELSE n - 1 + 1
    BY <1>1, FS_Interval
  <2> QED BY <1>1, <2>1
<1>3. ASSUME NEW i \in 1 .. n
      PROVE  IsFiniteSet(Before(i)) /\ Cardinality(Before(i)) \in Nat /\ i \notin Before(i)
             /\ IsFiniteSet(Before(i) \cup {i}) /\ Cardinality(Before(i) \cup {i}) = Cardinality(Before(i)) + 1
             /\ Before(i) \cup {i} \in SUBSET (1 .. n)
  <2>1. Before(i) \in SUBSET (1 .. n) /\ i \notin Before(i)
    BY <1>0, <1>1 DEF Before
  <2>2. IsFiniteSet(Before(i))
    BY <1>2, <2>1, FS_Subset
  <2>3. Cardinality(Before(i)) \in Nat
    BY <2>2, FS_CardinalityType
  <2>4. /\ IsFiniteSet(Before(i) \cup {i})
        /\ Cardinality(Before(i) \cup {i}) = IF i \in Before(i) THEN Cardinality(Before(i)) ELSE Cardinality(Before(i)) + 1
    BY <2>2, FS_AddElement, Zenon
  <2> QED BY <2>1, <2>2, <2>3, <2>4
<1>4. ASSUME NEW i \in 1 .. n PROVE Cardinality(Before(i)) \in 0 .. n - 1
  <2>1. Cardinality(Before(i) \cup {i}) <= n
    BY <1>2, <1>3, FS_Subset, ZenonT(40)
  <2> DEFINE b == Cardinality(Before(i))
  <2>2. b \in Nat /\ Cardinality(Before(i) \cup {i}) = b + 1
    BY <1>3
  <2> HIDE DEF b
  <2>3. b + 1 <= n
    BY <2>1, <2>2
  <2>4. b \in 0 .. n - 1
    BY <1>1, <2>2, <2>3
  <2> QED BY <2>4 DEF b
<1>5. ASSUME NEW i \in 1 .. n, NEW j \in 1 .. n, Precedes(i, j)
      PROVE  Cardinality(Before(i)) < Cardinality(Before(j))
  <2>1. Before(i) \cup {i} \in SUBSET Before(j)
    BY <1>0, <1>1, <1>5 DEF Before
  <2>2. Cardinality(Before(i) \cup {i}) <= Cardinality(Before(j))
    BY <1>3, <2>1, FS_Subset
  <2> DEFINE b == Cardinality(Before(i))  c == Cardinality(Before(j))
  <2>3. b \in Nat /\ c \in Nat /\ Cardinality(Before(i) \cup {i}) = b + 1
    BY <1>3
  <2> HIDE DEF b, c
  <2>4. b + 1 <= c
    BY <2>2, <2>3 DEF c
  <2>5. b < c
    BY <2>3, <2>4
  <2> QED BY <2>5 DEF b, c
<1> QED BY <1>4, <1>5 DEF n

(* Each place has exactly one span with as many before it. *)
LEMMA SortedInOrder == ASSUME WalkTypes PROVE InOrder(Sorted, Len(spans))
<1> DEFINE n == Len(spans)
           rank == [i \in 1 .. n |-> Cardinality(Before(i))]
           o == Sorted
<1>1. n \in Nat /\ DOMAIN spans = 1 .. n
  BY DEF WalkTypes
<1>2. rank \in [1 .. n -> 0 .. n - 1]
  BY BeforeGrows
<1>3. \A i, j \in 1 .. n : (Precedes(i, j) => rank[i] < rank[j]) /\ (rank[i] = rank[j] => i = j)
  <2>1. \A i, j \in 1 .. n : Precedes(i, j) => rank[i] < rank[j]
    BY BeforeGrows
  <2>2. \A i \in 1 .. n : rank[i] \in Nat
    BY <1>2
  <2> HIDE DEF rank
  <2> QED BY <2>1, <2>2, PrecedesOrders
<1>4. rank \in Surjection(1 .. n, 0 .. n - 1)
  <2>1. rank \in Injection(1 .. n, 0 .. n - 1)
    <3> HIDE DEF rank
    <3> QED BY <1>2, <1>3 DEF Injection, IsInjective
  <2> HIDE DEF rank, n
  <2>2. IsFiniteSet(0 .. n - 1) /\ Cardinality(0 .. n - 1) = n /\ Cardinality(1 .. n) = n
    <3> DEFINE m == n - 1
    <3>1. m \in Int /\ n = m + 1
      BY <1>1
    <3> HIDE DEF m
    <3>2. /\ IsFiniteSet(0 .. m) /\ Cardinality(0 .. m) = IF 0 > m THEN 0 ELSE m - 0 + 1
          /\ Cardinality(1 .. n) = IF 1 > n THEN 0 ELSE n - 1 + 1
      BY <1>1, <3>1, FS_Interval
    <3>3. Cardinality(0 .. m) = n /\ Cardinality(1 .. n) = n
      BY <1>1, <3>1, <3>2
    <3> QED BY <3>2, <3>3 DEF m
  <2> QED BY <2>1, <2>2, FS_Injection
<1>5. \A p \in 1 .. n : \E i \in 1 .. n : rank[i] = p - 1
  <2> HIDE DEF rank
  <2>1. \A k \in 0 .. n - 1 : \E i \in 1 .. n : rank[i] = k
    BY <1>4, Zenon DEF Surjection
  <2> QED BY <1>1, <2>1
<1>6. \A p \in 1 .. n : o[p] \in 1 .. n /\ rank[o[p]] = p - 1
  <2> TAKE p \in 1 .. n
  <2>1. o[p] = CHOOSE i \in 1 .. n : Cardinality(Before(i)) = p - 1
    BY <1>1 DEF Sorted
  <2>2. \E i \in 1 .. n : Cardinality(Before(i)) = p - 1
    BY <1>5
  <2>3. o[p] \in 1 .. n /\ Cardinality(Before(o[p])) = p - 1
    <3> HIDE DEF o
    <3> QED BY <2>1, <2>2
  <2> QED BY <2>3
<1>7. o \in [1 .. n -> 1 .. n]
  <2>1. o = [p \in 1 .. n |-> o[p]]
    BY <1>1 DEF Sorted
  <2> HIDE DEF o
  <2> QED BY <1>6, <2>1
<1> HIDE DEF o
<1>8. \A p, q \in 1 .. n : p < q => Precedes(o[p], o[q])
  <2> SUFFICES ASSUME NEW p \in 1 .. n, NEW q \in 1 .. n, p < q PROVE Precedes(o[p], o[q])
    OBVIOUS
  <2>1. o[p] \in 1 .. n /\ o[q] \in 1 .. n /\ rank[o[p]] = p - 1 /\ rank[o[q]] = q - 1
    BY <1>6
  <2>2. ~(rank[o[q]] < rank[o[p]]) /\ rank[o[p]] # rank[o[q]]
    BY <1>1, <2>1
  <2> HIDE DEF rank
  <2> QED BY <1>3, <2>1, <2>2, PrecedesOrders
<1>9. \A i \in 1 .. n : \E p \in 1 .. n : o[p] = i
  <2> TAKE i \in 1 .. n
  <2>1. rank[i] + 1 \in 1 .. n /\ (rank[i] + 1) - 1 = rank[i]
    BY <1>1, <1>2
  <2> HIDE DEF rank
  <2> QED BY <1>3, <1>6, <2>1
<1> QED BY <1>7, <1>8, <1>9 DEF InOrder, o

(* A part of 1 .. n that has with each number all that are less. *)
LEMMA FirstOnes ==
  ASSUME NEW n \in Nat, NEW S \in SUBSET (1 .. n), \A p \in S : \A q \in 1 .. n : q < p => q \in S
  PROVE  Cardinality(S) \in 0 .. n /\ S = 1 .. Cardinality(S)
<1>1. IsFiniteSet(1 .. n) /\ IsFiniteSet(S)
  <2>1. IsFiniteSet(1 .. n)
    BY FS_Interval
  <2> QED BY <2>1, FS_Subset
<1>2. CASE S = {}
  BY <1>2, FS_EmptySet
<1>3. CASE S # {}
  <2> DEFINE f == [p \in S |-> p]
  <2>1. \A p \in S : f[p] \in Int
    OBVIOUS
  <2>2. \E p \in S : \A q \in S : f[q] <= f[p]
    <3> HIDE DEF f
    <3> QED BY <1>1, <1>3, <2>1, HasGreatest
  <2>3. PICK p \in S : \A q \in S : q <= p
    BY <2>2
  <2>4. S = 1 .. p
    <3>1. p \in 1 .. n /\ \A q \in S : q \in 1 .. p
      BY <2>3
    <3>2. \A q \in 1 .. p : q \in 1 .. n /\ (q = p \/ q < p)
      BY <3>1
    <3>3. \A q \in 1 .. p : q \in S
      BY <3>2
    <3> QED BY <3>1, <3>3
  <2>5. Cardinality(1 .. p) = p
    BY <2>3, FS_Interval
  <2> QED BY <2>3, <2>4, <2>5
<1> QED BY <1>2, <1>3

(* The spans that were entered by a time are the first in the order. *)
LEMMA EnteredFirst ==
  ASSUME WalkTypes, InOrder(order, Len(spans)), NEW t \in Int
  PROVE  /\ Entered(t) \in 0 .. Len(spans)
         /\ \A p \in 1 .. Len(spans) : spans[order[p]].enter <= t <=> p <= Entered(t)
<1> DEFINE n == Len(spans)
           S == {p \in 1 .. n : spans[order[p]].enter <= t}
<1>1. n \in Nat /\ DOMAIN order = 1 .. n /\ \A p \in 1 .. n : order[p] \in 1 .. n
  BY SMTT(30) DEF WalkTypes, InOrder
<1>2. \A p \in 1 .. n : spans[order[p]].enter \in Nat
  BY <1>1, TypedTimes DEF Timed
<1>3. \A p \in S : \A q \in 1 .. n : q < p => q \in S
  <2> SUFFICES ASSUME NEW p \in 1 .. n, spans[order[p]].enter <= t, NEW q \in 1 .. n, q < p
               PROVE  spans[order[q]].enter <= t
    OBVIOUS
  <2>1. Precedes(order[q], order[p])
    BY DEF InOrder
  <2>2. spans[order[q]].enter <= spans[order[p]].enter
    BY <1>2, <2>1 DEF Precedes
  <2> QED BY <1>2, <2>2
<1>4. Cardinality(S) = Entered(t)
  BY <1>1 DEF Entered
<1>5. S \in SUBSET (1 .. n)
  OBVIOUS
<1> HIDE DEF S
<1>6. Cardinality(S) \in 0 .. n /\ S = 1 .. Cardinality(S)
  BY <1>1, <1>3, <1>5, FirstOnes
<1>7. Entered(t) \in 0 .. n /\ S = 1 .. Entered(t)
  BY <1>4, <1>6
<1>8. \A p \in 1 .. n : p \in 1 .. Entered(t) <=> p <= Entered(t)
  BY <1>1, <1>7
<1> QED BY <1>7, <1>8 DEF S

-------------------------------------------------------------------------------
(* The scopes around a time *)

(* They lie within each other, one of each depth from the outermost on. *)
LEMMA AroundIsChain ==
  ASSUME IInv, Len(stack) = 0, NEW t \in Int
  PROVE  /\ Around(t) \subseteq 1 .. Len(spans)
         /\ \A i, j \in Around(t) :
              \/ i = j
              \/ Precedes(i, j) /\ spans[i].depth < spans[j].depth /\ spans[j].exit <= spans[i].exit
              \/ Precedes(j, i) /\ spans[j].depth < spans[i].depth /\ spans[i].exit <= spans[j].exit
         /\ \A i \in Around(t) : \A d \in 0 .. spans[i].depth - 1 : \E j \in Around(t) : spans[j].depth = d
<1> DEFINE n == Len(spans)
<1>1. n \in Nat /\ DOMAIN spans = 1 .. n /\ WalkTypes
  BY DEF IInv, WalkTypes
<1>2. \A i \in 1 .. n : spans[i].enter \in Nat /\ spans[i].exit \in Nat /\ spans[i].depth \in Nat
  BY <1>1, TypedTimes DEF Timed
<1>3. Nest(spans, n) /\ Enclosed(stack, 0, spans, n)
  BY DEF IInv, Walking, Nested
<1>4. \A i \in 1 .. n : i \in Around(t) <=> ~spans[i].point /\ spans[i].enter <= t /\ t < spans[i].exit
  BY <1>1 DEF Around
<1>5. Around(t) \subseteq 1 .. n
  BY <1>1 DEF Around
<1>6. ASSUME NEW i \in Around(t), NEW j \in Around(t), i < j
      PROVE  Precedes(j, i) /\ spans[j].depth < spans[i].depth /\ spans[i].exit <= spans[j].exit
  <2>1. Within(spans[i], spans[j]) /\ i \in 1 .. n /\ j \in 1 .. n
    BY <1>3, <1>5, <1>6 DEF Nest
  <2>2. ~(spans[i].exit <= spans[j].enter)
    BY <1>2, <1>4, <2>1
  <2> QED BY <1>2, <2>1, <2>2 DEF Within, Precedes
<1>7. ASSUME NEW i \in Around(t), NEW d \in 0 .. spans[i].depth - 1
      PROVE  \E j \in Around(t) : spans[j].depth = d
  <2>1. i \in 1 .. n /\ d \in Nat /\ ~(d < 0)
    BY <1>2, <1>5
  <2>2. PICK j \in 1 .. n : Encloses(spans[j], spans[i]) /\ spans[j].depth = d
    BY <1>3, <2>1 DEF Enclosed
  <2>3. j \in Around(t)
    BY <1>2, <1>4, <2>1, <2>2, SMTT(30) DEF Encloses
  <2> QED BY <2>2, <2>3
<1>8. \A i, j \in Around(t) : i = j \/ i < j \/ j < i
  BY <1>5
<1> QED BY <1>5, <1>6, <1>7, <1>8

-------------------------------------------------------------------------------
(* The scopes of an instruction *)

(* The first n elements of a sequence. *)
LEMMA FirstPart ==
  ASSUME NEW A, NEW s \in Seq(A), NEW n \in 0 .. Len(s)
  PROVE  /\ SubSeq(s, 1, n) \in Seq(A) /\ Len(SubSeq(s, 1, n)) = n
         /\ \A i \in 1 .. n : SubSeq(s, 1, n)[i] = s[i]
<1>1. n \in Nat /\ \A i \in 1 .. n : s[i] \in A
  OBVIOUS
<1>2. /\ SubSeq(s, 1, n) \in Seq(A)
      /\ Len(SubSeq(s, 1, n)) = IF 1 <= n THEN n - 1 + 1 ELSE 0
      /\ \A i \in 1 .. n - 1 + 1 : SubSeq(s, 1, n)[i] = s[1 + i - 1]
  BY <1>1, SubSeqProperties
<1>3. Len(SubSeq(s, 1, n)) = n
  BY <1>1, <1>2
<1>4. \A i \in 1 .. n : SubSeq(s, 1, n)[i] = s[i]
  BY <1>1, <1>2
<1> QED BY <1>2, <1>3, <1>4

Holds(s, i) == \E q \in 1 .. Len(s) : s[q] = i

EndedFrom(o, n, t) ==
  /\ \A i \in n + 1 .. Len(o) : spans[o[i]].exit <= t
  /\ n = 0 \/ spans[o[n]].exit > t

(* WithoutEnded takes ended scopes off the end, up to one that is not. *)
LEMMA TakesEndedOff ==
  ASSUME WalkTypes, NEW o \in Seq(1 .. Len(spans)), NEW t \in Int
  PROVE  \E n \in 0 .. Len(o) : EndedFrom(o, n, t) /\ WithoutEnded(o, t) = SubSeq(o, 1, n)
<1> DEFINE m == Len(o)
           S == {0} \cup {i \in 1 .. m : spans[o[i]].exit > t}
           f == [i \in S |-> i]
<1>1. m \in Nat /\ \A i \in 1 .. m : spans[o[i]].exit \in Nat
  BY TypedTimes DEF Timed
<1>2. IsFiniteSet(S) /\ S # {} /\ \A i \in S : f[i] \in Int
  <2>1. IsFiniteSet(0 .. m)
    BY <1>1, FS_Interval
  <2>2. S \in SUBSET (0 .. m)
    BY <1>1
  <2>3. IsFiniteSet(S)
    <3> HIDE DEF S, m
    <3> QED BY <2>1, <2>2, FS_Subset
  <2>4. \A i \in S : f[i] \in Int
    BY <1>1
  <2> QED BY <2>3, <2>4
<1>3. \E i \in S : \A j \in S : f[j] <= f[i]
  <2> HIDE DEF S, f
  <2> QED BY <1>2, HasGreatest
<1>4. PICK n \in S : \A j \in S : j <= n
  BY <1>3
<1>5. n \in 0 .. m /\ (n = 0 \/ spans[o[n]].exit > t)
  BY <1>1, <1>4
<1>6. ASSUME NEW i \in n + 1 .. m PROVE spans[o[i]].exit <= t
  <2>1. i \in 1 .. m /\ ~(i <= n) /\ i \in Nat
    BY <1>1, <1>5
  <2>2. i \notin S
    BY <1>4, <2>1
  <2>3. ~(spans[o[i]].exit > t) /\ spans[o[i]].exit \in Nat
    BY <1>1, <2>1, <2>2
  <2> QED BY <2>3
<1>7. \E k \in 0 .. Len(o) : EndedFrom(o, k, t)
  BY <1>5, <1>6 DEF EndedFrom
<1>8. WithoutEnded(o, t) = SubSeq(o, 1, CHOOSE k \in 0 .. Len(o) : EndedFrom(o, k, t))
  BY DEF WithoutEnded, EndedFrom
<1> QED BY <1>7, <1>8

(* The scopes that are open at t, of the first m spans in the order. *)
Opened(o, t, m) ==
  /\ o \in Seq(1 .. Len(spans))
  /\ \A q \in 1 .. Len(o) : spans[o[q]].depth = q - 1
  /\ \A i \in 1 .. Len(spans) : Holds(o, i) <=> (\E p \in 1 .. m : order[p] = i) /\ IsOpen(i, t)

Walked == IInv /\ Len(stack) = 0 /\ InOrder(order, Len(spans))

(* They are around t. *)
LEMMA OpenedAround ==
  ASSUME Walked, NEW t \in Int, NEW m \in Nat, m <= Entered(t), NEW o, Opened(o, t, m)
  PROVE  \A i \in 1 .. Len(spans) : Holds(o, i) => i \in Around(t)
<1> SUFFICES ASSUME NEW i \in 1 .. Len(spans), Holds(o, i) PROVE i \in Around(t)
  OBVIOUS
<1>1. WalkTypes /\ InOrder(order, Len(spans)) /\ Len(spans) \in Nat /\ DOMAIN spans = 1 .. Len(spans)
  BY DEF Walked, IInv, WalkTypes
<1>2. PICK p \in 1 .. m : order[p] = i
  BY DEF Opened
<1>3. IsOpen(i, t) /\ spans[i].exit \in Nat
  BY <1>1, TypedTimes DEF Opened, Timed
<1>4. p \in 1 .. Len(spans) /\ p <= Entered(t)
  <2>1. Entered(t) \in 0 .. Len(spans)
    BY <1>1, EnteredFirst
  <2> QED BY <1>1, <2>1
<1>5. spans[i].enter <= t
  BY <1>1, <1>2, <1>4, EnteredFirst
<1> QED BY <1>1, <1>3, <1>5 DEF Around, IsOpen

(* With time, scopes end, from the innermost on. *)
LEMMA OpenedLater ==
  ASSUME Walked, NEW t \in Int, NEW u \in Int, t <= u, NEW m \in Nat, m <= Entered(t), NEW o, Opened(o, t, m)
  PROVE  Opened(WithoutEnded(o, u), u, m)
<1>1. WalkTypes /\ o \in Seq(1 .. Len(spans)) /\ Len(o) \in Nat /\ \A q \in 1 .. Len(o) : o[q] \in 1 .. Len(spans)
  BY DEF Walked, IInv, Opened
<1>2. PICK n \in 0 .. Len(o) : EndedFrom(o, n, u) /\ WithoutEnded(o, u) = SubSeq(o, 1, n)
  BY <1>1, TakesEndedOff
<1> DEFINE r == SubSeq(o, 1, n)
<1>3. r \in Seq(1 .. Len(spans)) /\ Len(r) = n /\ \A q \in 1 .. n : r[q] = o[q]
  BY <1>1, FirstPart
<1> HIDE DEF r
<1>4. \A q \in 1 .. Len(r) : spans[r[q]].depth = q - 1
  <2>1. \A q \in 1 .. Len(o) : spans[o[q]].depth = q - 1
    BY DEF Opened
  <2>2. \A q \in 1 .. n : q \in 1 .. Len(o)
    BY <1>1
  <2> QED BY <1>3, <2>1, <2>2
<1>5. \A i \in 1 .. Len(spans) : spans[i].exit \in Nat
  BY <1>1, TypedTimes DEF Timed
<1>6. ASSUME NEW q \in 1 .. n PROVE spans[o[q]].exit > u
  <2>1. n \in 1 .. Len(o) /\ q \in 1 .. Len(o) /\ (q = n \/ q < n) /\ spans[o[n]].exit > u
    BY <1>1, <1>2 DEF EndedFrom
  <2>2. o[q] \in Around(t) /\ o[n] \in Around(t)
    BY <1>1, <2>1, OpenedAround DEF Holds
  <2>3. spans[o[q]].depth = q - 1 /\ spans[o[n]].depth = n - 1
    BY <2>1 DEF Opened
  <2>4. \/ o[q] = o[n]
        \/ spans[o[q]].depth < spans[o[n]].depth /\ spans[o[n]].exit <= spans[o[q]].exit
        \/ spans[o[n]].depth < spans[o[q]].depth
    BY <2>2, AroundIsChain DEF Walked
  <2>5. spans[o[n]].exit <= spans[o[q]].exit
    BY <1>1, <1>5, <2>1, <2>3, <2>4, SMTT(30)
  <2>6. spans[o[n]].exit \in Nat /\ spans[o[q]].exit \in Nat
    BY <1>1, <1>5, <2>1
  <2> QED BY <2>1, <2>5, <2>6, SMTT(30)
<1>7. ASSUME NEW i \in 1 .. Len(spans)
      PROVE  Holds(r, i) <=> (\E p \in 1 .. m : order[p] = i) /\ IsOpen(i, u)
  <2>1. ASSUME Holds(r, i) PROVE (\E p \in 1 .. m : order[p] = i) /\ IsOpen(i, u)
    <3>1. PICK q \in 1 .. n : o[q] = i
      BY <1>3, <2>1 DEF Holds
    <3>2. q \in 1 .. Len(o)
      BY <1>1
    <3>3. (\E p \in 1 .. m : order[p] = i) /\ IsOpen(i, t)
      BY <3>1, <3>2 DEF Opened, Holds
    <3> QED BY <1>6, <3>1, <3>3 DEF IsOpen
  <2>2. ASSUME \E p \in 1 .. m : order[p] = i, IsOpen(i, u) PROVE Holds(r, i)
    <3>1. spans[i].exit > u /\ IsOpen(i, t)
      BY <1>5, <2>2 DEF IsOpen
    <3>2. PICK q \in 1 .. Len(o) : o[q] = i
      BY <2>2, <3>1 DEF Opened, Holds
    <3>3. q \notin n + 1 .. Len(o)
      BY <1>2, <1>5, <3>1, <3>2 DEF EndedFrom
    <3>4. q \in 1 .. n
      BY <1>1, <3>3
    <3> QED BY <1>3, <3>2, <3>4 DEF Holds
  <2> QED BY <2>1, <2>2
<1>8. WithoutEnded(o, u) = r
  BY <1>2 DEF r
<1> QED BY <1>3, <1>4, <1>7, <1>8 DEF Opened

PushOne(st, i, t) == IF IsOpen(i, t) THEN Append(WithoutEnded(st, spans[i].enter), i) ELSE st

(* One span more of the order. *)
LEMMA OpenedStep ==
  ASSUME Walked, NEW t \in Int, NEW m \in Nat, m < Entered(t), NEW o, Opened(o, t, m)
  PROVE  Opened(PushOne(o, order[m + 1], t), t, m + 1)
<1> DEFINE i == order[m + 1]
<1>1. /\ WalkTypes /\ Len(spans) \in Nat /\ InOrder(order, Len(spans))
      /\ o \in Seq(1 .. Len(spans)) /\ Len(o) \in Nat /\ \A q \in 1 .. Len(o) : o[q] \in 1 .. Len(spans)
  BY SMTT(30) DEF Walked, IInv, WalkTypes, Opened
<1>2. m + 1 \in 1 .. Len(spans) /\ i \in 1 .. Len(spans) /\ spans[i].enter <= t
  <2>1. Entered(t) \in 0 .. Len(spans)
    BY <1>1, EnteredFirst
  <2>2. m + 1 \in 1 .. Len(spans) /\ m + 1 <= Entered(t)
    BY <1>1, <2>1
  <2> QED BY <1>1, <2>2, EnteredFirst DEF InOrder
<1>3. \A j \in 1 .. Len(spans) : /\ spans[j].enter \in Nat /\ spans[j].exit \in Nat /\ spans[j].depth \in Nat
  BY <1>1, TypedTimes DEF Timed
<1>4. \A k : (\E p \in 1 .. m + 1 : order[p] = k) <=> (\E p \in 1 .. m : order[p] = k) \/ k = i
  <2>1. \A p \in 1 .. m + 1 : p \in 1 .. m \/ p = m + 1
    OBVIOUS
  <2>2. m + 1 \in 1 .. m + 1 /\ \A p \in 1 .. m : p \in 1 .. m + 1
    OBVIOUS
  <2> QED BY <2>1, <2>2
<1> HIDE DEF i
<1>5. CASE ~IsOpen(i, t)
  <2>1. PushOne(o, i, t) = o
    BY <1>5 DEF PushOne
  <2> QED BY <1>4, <1>5, <2>1 DEF Opened, i
<1>6. CASE IsOpen(i, t)
  <2> DEFINE r == Append(o, i)  n == Len(o)
  <2>1. WithoutEnded(o, spans[i].enter) = o
    <3>1. PICK k \in 0 .. Len(o) : EndedFrom(o, k, spans[i].enter) /\ WithoutEnded(o, spans[i].enter) = SubSeq(o, 1, k)
      <4>1. spans[i].enter \in Int
        BY <1>2, <1>3
      <4> QED BY <1>1, <4>1, TakesEndedOff
    <3>2. ASSUME k # Len(o) PROVE FALSE
      <4>1. Len(o) \in k + 1 .. Len(o) /\ Len(o) \in 1 .. Len(o)
        BY <1>1, <3>2
      <4>2. spans[o[Len(o)]].exit <= spans[i].enter
        BY <3>1, <4>1 DEF EndedFrom
      <4>3. IsOpen(o[Len(o)], t) /\ o[Len(o)] \in 1 .. Len(spans)
        BY <1>1, <4>1 DEF Opened, Holds
      <4> QED BY <1>2, <1>3, <4>2, <4>3 DEF IsOpen
    <3>3. SubSeq(o, 1, Len(o)) = o
      BY <1>1
    <3> QED BY <3>1, <3>2, <3>3
  <2>2. PushOne(o, i, t) = r
    BY <1>6, <2>1 DEF PushOne
  <2>3. /\ r \in Seq(1 .. Len(spans)) /\ n \in Nat /\ Len(r) = n + 1 /\ r[n + 1] = i
        /\ \A q \in 1 .. n : r[q] = o[q]
    BY <1>1, <1>2
  <2>4. i \in Around(t)
    BY <1>1, <1>2, <1>6 DEF Around, IsOpen, WalkTypes
  <2>5. \A j \in 1 .. Len(spans) : Holds(o, j) => j \in Around(t)
    <3>1. Entered(t) \in Int
      BY <1>1, EnteredFirst
    <3>2. m <= Entered(t)
      BY <3>1
    <3> QED BY <3>2, OpenedAround
  <2>6. ~Holds(o, i)
    <3> SUFFICES ASSUME Holds(o, i) PROVE FALSE
      OBVIOUS
    <3>1. PICK p \in 1 .. m : order[p] = i
      BY <1>2 DEF Opened
    <3>2. p \in 1 .. Len(spans) /\ p < m + 1
      BY <1>2
    <3>3. Precedes(i, i)
      BY <1>1, <1>2, <3>1, <3>2 DEF InOrder, i
    <3> QED BY <1>1, <1>2, <3>3, PrecedesOrders
  <2>7. ASSUME NEW j \in Around(t), spans[j].depth < spans[i].depth PROVE Holds(o, j)
    <3>1. Precedes(j, i) /\ j \in 1 .. Len(spans)
      <4>1. /\ j \in 1 .. Len(spans)
            /\ i = j \/ (Precedes(i, j) /\ spans[i].depth < spans[j].depth) \/ Precedes(j, i)
        BY <2>4, AroundIsChain DEF Walked
      <4> QED BY <1>2, <1>3, <2>7, <4>1
    <3>2. PICK p \in 1 .. Len(spans) : order[p] = j
      BY <1>1, <3>1 DEF InOrder
    <3>3. p # m + 1 /\ ~(m + 1 < p)
      <4>1. ~Precedes(i, j) /\ i # j
        BY <1>1, <1>2, <3>1, PrecedesOrders
      <4>2. m + 1 < p => Precedes(order[m + 1], order[p])
        BY <1>1, <1>2 DEF InOrder
      <4> QED BY <3>2, <4>1, <4>2 DEF i
    <3>4. p \in 1 .. m
      BY <1>1, <3>3
    <3>5. IsOpen(j, t)
      BY <1>3, <3>1, <2>7 DEF Around, IsOpen
    <3> QED BY <3>1, <3>2, <3>4, <3>5 DEF Opened
  <2>8. spans[i].depth = n
    <3>1. ASSUME n < spans[i].depth PROVE FALSE
      <4>1. n \in 0 .. spans[i].depth - 1
        BY <1>2, <1>3, <2>3, <3>1
      <4>2. PICK j \in Around(t) : spans[j].depth = n
        BY <2>4, <4>1, AroundIsChain DEF Walked
      <4>3. Holds(o, j)
        BY <2>7, <3>1, <4>2
      <4>4. PICK q \in 1 .. n : o[q] = j
        BY <4>3 DEF Holds
      <4>5. spans[j].depth = q - 1
        BY <4>4 DEF Opened
      <4> QED BY <2>3, <4>2, <4>5
    <3>2. ASSUME spans[i].depth < n PROVE FALSE
      <4> DEFINE q == spans[i].depth + 1
      <4>1. q \in 1 .. n /\ q - 1 = spans[i].depth
        BY <1>2, <1>3, <2>3, <3>2, SMTT(30)
      <4> HIDE DEF q
      <4>2. spans[o[q]].depth = spans[i].depth /\ o[q] \in 1 .. Len(spans) /\ Holds(o, o[q])
        BY <1>1, <4>1 DEF Opened, Holds
      <4>3. o[q] \in Around(t)
        BY <2>5, <4>2
      <4>4. o[q] = i
        <5>1. o[q] = i \/ spans[o[q]].depth < spans[i].depth \/ spans[i].depth < spans[o[q]].depth
          BY <2>4, <4>3, AroundIsChain DEF Walked
        <5> QED BY <1>2, <1>3, <4>2, <5>1
      <4> QED BY <2>6, <4>2, <4>4
    <3> QED BY <1>2, <1>3, <2>3, <3>1, <3>2
  <2> HIDE DEF r
  <2>9. ASSUME NEW q \in 1 .. n + 1 PROVE spans[r[q]].depth = q - 1
    <3>1. CASE q = n + 1
      BY <2>3, <2>8, <3>1
    <3>2. CASE q \in 1 .. n
      BY <2>3, <3>2 DEF Opened
    <3> QED BY <2>3, <3>1, <3>2
  <2>10. \A j : Holds(r, j) <=> Holds(o, j) \/ j = i
    <3>1. \A q \in 1 .. n + 1 : q \in 1 .. n \/ q = n + 1
      BY <2>3
    <3>2. n + 1 \in 1 .. n + 1 /\ \A q \in 1 .. n : q \in 1 .. n + 1
      BY <2>3
    <3> QED BY <2>3, <3>1, <3>2 DEF Holds
  <2>11. \A j \in 1 .. Len(spans) : Holds(r, j) <=> (\E p \in 1 .. m + 1 : order[p] = j) /\ IsOpen(j, t)
    BY <1>4, <1>6, <2>10 DEF Opened
  <2>12. Opened(r, t, m + 1)
    BY <2>3, <2>9, <2>11 DEF Opened
  <2> QED BY <2>2, <2>12, SMTT(30) DEF i
<1> QED BY <1>5, <1>6

(* A stack of spans stays one. *)
LEMMA PushOneType ==
  ASSUME WalkTypes, NEW st \in Seq(1 .. Len(spans)), NEW i \in 1 .. Len(spans), NEW t
  PROVE  PushOne(st, i, t) \in Seq(1 .. Len(spans))
<1>1. spans[i].enter \in Int
  BY TypedTimes DEF Timed
<1>2. PICK n \in 0 .. Len(st) : WithoutEnded(st, spans[i].enter) = SubSeq(st, 1, n)
  BY <1>1, TakesEndedOff
<1>3. SubSeq(st, 1, n) \in Seq(1 .. Len(spans))
  BY FirstPart
<1>4. WithoutEnded(st, spans[i].enter) \in Seq(1 .. Len(spans))
  BY <1>2, <1>3
<1>5. Append(WithoutEnded(st, spans[i].enter), i) \in Seq(1 .. Len(spans))
  BY <1>4
<1> QED BY <1>5 DEF PushOne

(* The function that PushEach is recursive in. *)
PushFolds(g, o, new, t) ==
  g = [d \in SUBSET DOMAIN new |-> IF d = {} THEN o ELSE PushOne(g[d \ {Max(d)}], new[Max(d)], t)]

(* It exists. *)
LEMMA PushFoldsExist ==
  ASSUME WalkTypes, NEW o \in Seq(1 .. Len(spans)), NEW new \in Seq(1 .. Len(spans)), NEW t
  PROVE  \E g : PushFolds(g, o, new, t)
<1> DEFINE S == DOMAIN new
           V == Seq(1 .. Len(spans))
           p == [d \in SUBSET S |-> Max(d)]
           step == [x \in (SUBSET S) \X V |-> IF x[1] = {} THEN o ELSE PushOne(x[2], new[Max(x[1])], t)]
<1>0. \A q \in DOMAIN new : new[q] \in 1 .. Len(spans)
  OBVIOUS
<1>1. IsFiniteSet(S) /\ S = 1 .. Len(new) /\ Len(new) \in Nat
  BY FS_Interval
<1>2. \A d \in SUBSET S : d # {} => Max(d) \in d
  BY <1>1, MaxPlace
<1>3. step \in [(SUBSET S) \X V -> V]
  <2>1. ASSUME NEW d \in SUBSET S, NEW u \in V PROVE (IF d = {} THEN o ELSE PushOne(u, new[Max(d)], t)) \in V
    <3>1. CASE d = {} BY <3>1
    <3>2. CASE d # {}
      <4>1. new[Max(d)] \in 1 .. Len(spans)
        BY <1>0, <1>2, <3>2
      <4> QED BY <3>2, <4>1, PushOneType
    <3> QED BY <3>1, <3>2
  <2> HIDE DEF V
  <2> QED BY <2>1
<1>4. \A d \in SUBSET S : d # {} => p[d] \in d
  BY <1>2
<1>5. \E g \in [SUBSET S -> V] : Recurs(g, S, p, step, o)
  <2>1. o \in V
    OBVIOUS
  <2> HIDE DEF S, p, step, V
  <2> QED BY <1>1, <1>3, <1>4, <2>1, RecursionExists
<1>6. PICK g \in [SUBSET S -> V] : Recurs(g, S, p, step, o)
  BY <1>5
<1>7. ASSUME NEW d \in SUBSET S
      PROVE  g[d] = IF d = {} THEN o ELSE PushOne(g[d \ {Max(d)}], new[Max(d)], t)
  <2>1. g[d] = IF d = {} THEN o ELSE step[<<d, g[d \ {Max(d)}]>>]
    BY <1>6 DEF Recurs
  <2>2. d # {} => step[<<d, g[d \ {Max(d)}]>>] = PushOne(g[d \ {Max(d)}], new[Max(d)], t)
    <3>1. <<d, g[d \ {Max(d)}]>> \in (SUBSET S) \X V
      <4> HIDE DEF V
      <4> QED OBVIOUS
    <3> HIDE DEF V
    <3> QED BY <3>1
  <2> HIDE DEF step
  <2> QED BY <2>1, <2>2
<1>8. g = [d \in SUBSET S |-> IF d = {} THEN o ELSE PushOne(g[d \ {Max(d)}], new[Max(d)], t)]
  <2> HIDE DEF V
  <2> QED BY <1>7
<1>9. PushFolds(g, o, new, t)
  BY <1>8, Zenon DEF PushFolds
<1> QED BY <1>9

(* The spans of the order up to t, one after the other. *)
LEMMA OpenedAll ==
  ASSUME Walked, NEW t \in Int, NEW m \in Nat, m <= Entered(t), NEW o, Opened(o, t, m)
  PROVE  Opened(PushEach(o, SubSeq(order, m + 1, Entered(t)), t), t, Entered(t))
<1> DEFINE e == Entered(t)
           new == SubSeq(order, m + 1, e)
           n == Len(spans)
           k == e - m
           g == CHOOSE h : PushFolds(h, o, new, t)
<1>1. /\ WalkTypes /\ n \in Nat /\ InOrder(order, n) /\ o \in Seq(1 .. n)
      /\ e \in 0 .. n /\ k \in Nat /\ e = m + k /\ m <= e
  <2>1. WalkTypes /\ n \in Nat /\ InOrder(order, n) /\ o \in Seq(1 .. n)
    BY DEF Walked, IInv, WalkTypes, Opened
  <2>2. e \in 0 .. n /\ m <= e
    BY <2>1, EnteredFirst
  <2> HIDE DEF e, n
  <2>3. k \in Nat /\ e = m + k
    BY <2>1, <2>2
  <2> QED BY <2>1, <2>2, <2>3
<1>2. new \in Seq(1 .. n) /\ Len(new) = k /\ \A q \in 1 .. k : new[q] = order[m + q]
  <2> HIDE DEF e, n, new
  <2>1. order \in [1 .. n -> 1 .. n]
    BY <1>1 DEF InOrder
  <2>2. /\ order \in Seq(1 .. n) /\ Len(order) = n
    BY <1>1, <2>1
  <2>3. \A q \in m + 1 .. e : order[q] \in 1 .. n
    BY <1>1, <2>1
  <2>4. m + 1 \in Int /\ e \in Int /\ e \in Nat /\ m <= e
    BY <1>1
  <2>5. /\ SubSeq(order, m + 1, e) \in Seq(1 .. n)
        /\ Len(SubSeq(order, m + 1, e)) = IF m + 1 <= e THEN e - (m + 1) + 1 ELSE 0
        /\ \A q \in 1 .. e - (m + 1) + 1 : SubSeq(order, m + 1, e)[q] = order[m + 1 + q - 1]
    <3> HIDE DEF k
    <3> QED BY <2>3, <2>4, SubSeqProperties
  <2>6. Len(SubSeq(order, m + 1, e)) = k
    BY <2>4, <2>5
  <2>7. \A q \in 1 .. k : q \in 1 .. e - (m + 1) + 1 /\ m + 1 + q - 1 = m + q
    BY <2>4
  <2>8. \A q \in 1 .. k : SubSeq(order, m + 1, e)[q] = order[m + q]
    BY <2>5, <2>7
  <2> QED BY <2>5, <2>6, <2>8 DEF new
<1>3. PushEach(o, new, t) = g[DOMAIN new]
  BY Zenon DEF PushEach, FoldLeft, MapThenFoldSet, PushFolds, PushOne
<1> HIDE DEF new
<1>4. PushFolds(g, o, new, t)
  BY <1>1, <1>2, PushFoldsExist
<1> HIDE DEF g
<1>5. DOMAIN new = 1 .. k
  BY <1>2
<1>6. \A d \in SUBSET (1 .. k) : g[d] = IF d = {} THEN o ELSE PushOne(g[d \ {Max(d)}], new[Max(d)], t)
  <2> DEFINE value(d) == IF d = {} THEN o ELSE PushOne(g[d \ {Max(d)}], new[Max(d)], t)
  <2>1. g = [d \in SUBSET DOMAIN new |-> value(d)]
    BY <1>4, Zenon DEF PushFolds
  <2> HIDE DEF value
  <2>2. \A d \in SUBSET (1 .. k) : g[d] = value(d)
    BY <1>5, <2>1
  <2> QED BY <2>2 DEF value
<1> DEFINE true == {q \in Nat : q <= k => Opened(g[1 .. q], t, m + q)}
<1>7. 0 \in true
  <2>1. 1 .. 0 = {} /\ {} \in SUBSET (1 .. k) /\ m + 0 = m
    OBVIOUS
  <2>2. g[{}] = o
    BY <1>6, <2>1
  <2> QED BY <2>1, <2>2
<1>8. ASSUME NEW q \in Nat, q \in true PROVE q + 1 \in true
  <2> SUFFICES ASSUME q + 1 <= k PROVE Opened(g[1 .. q + 1], t, m + (q + 1))
    OBVIOUS
  <2> HIDE DEF k
  <2>1. /\ 1 .. q + 1 \in SUBSET (1 .. k) /\ 1 .. q + 1 # {}
        /\ Max(1 .. q + 1) = q + 1 /\ (1 .. q + 1) \ {q + 1} = 1 .. q
    BY <1>1, MaxOfFirst
  <2>2. g[1 .. q + 1] = PushOne(g[1 .. q], new[q + 1], t)
    BY <1>6, <2>1
  <2>3. new[q + 1] = order[(m + q) + 1]
    BY <1>1, <1>2
  <2>4. Opened(g[1 .. q], t, m + q) /\ m + q \in Nat /\ m + q < Entered(t)
    BY <1>1, <1>8
  <2>5. Opened(PushOne(g[1 .. q], order[(m + q) + 1], t), t, (m + q) + 1)
    BY <2>4, OpenedStep
  <2>6. (m + q) + 1 = m + (q + 1)
    OBVIOUS
  <2> QED BY <2>2, <2>3, <2>5, <2>6
<1>9. Nat \subseteq true
  <2> HIDE DEF true
  <2> QED BY <1>7, <1>8, Induction
<1>10. Opened(g[1 .. k], t, m + k)
  BY <1>1, <1>9
<1>11. Opened(PushEach(o, new, t), t, e)
  <2> HIDE DEF e, k
  <2> QED BY <1>1, <1>3, <1>5, <1>10
<1> QED BY <1>11 DEF new, e

-------------------------------------------------------------------------------
(* The attribution *)

(* What the attribution knows between two instructions. *)
Attributing ==
  /\ tick \in Int /\ tick >= -1
  /\ cursor = Entered(tick) + 1
  /\ Opened(open, tick, Entered(tick))

(* All that the attribution relies on. *)
AInv ==
  /\ IInv
  /\ phase \in {"trace", "walk"} => open = <<>> /\ tick = -1 /\ cursor = 1
  /\ phase \in {"sorted", "attribute"} => Len(stack) = 0 /\ InOrder(order, Len(spans)) /\ Attributing

(* As long as the spans and their order are. *)
LEMMA SameOrder ==
  ASSUME UNCHANGED <<spans, order>>
  PROVE  /\ InOrder(order, Len(spans)) => InOrder(order, Len(spans))'
         /\ UNCHANGED <<open, tick, cursor>> => (Attributing => Attributing')
<1>1. \A i, j : Precedes(i, j)' <=> Precedes(i, j)
  BY Zenon DEF Precedes
<1>2. InOrder(order, Len(spans)) => InOrder(order, Len(spans))'
  BY <1>1, Zenon DEF InOrder
<1>3. ASSUME UNCHANGED <<open, tick, cursor>>, Attributing PROVE Attributing'
  <2>1. Entered(tick)' = Entered(tick)
    BY <1>3 DEF Entered
  <2>2. \A i : IsOpen(i, tick)' <=> IsOpen(i, tick)
    BY <1>3 DEF IsOpen
  <2>3. \A i : Holds(open, i)' <=> Holds(open, i)
    BY <1>3 DEF Holds
  <2>4. Opened(open, tick, Entered(tick))'
    BY <1>3, <2>1, <2>2, <2>3 DEF Attributing, Opened
  <2> QED BY <1>3, <2>1, <2>4 DEF Attributing
<1> QED BY <1>2, <1>3

(* It holds at first. *)
LEMMA InitAInv == Init => AInv
BY InitIInv DEF Init, AInv

(* At first nothing is entered and nothing open. *)
LEMMA SortAttributes == ASSUME AInv, IInv', Sort PROVE AInv'
<1> DEFINE n == Len(spans)
<1>1. /\ WalkTypes /\ Len(stack) = 0 /\ order' = Sorted
      /\ phase' = "sorted" /\ spans' = spans /\ stack' = stack /\ cursor' = 1 /\ tick' = -1 /\ open' = <<>>
  BY DEF AInv, IInv, Sort, walked, Depth
<1>2. InOrder(Sorted, n)
  BY <1>1, SortedInOrder
<1>3. InOrder(order, Len(spans))'
  BY <1>1, <1>2 DEF InOrder, Precedes
<1>4. n \in Nat /\ order' \in [1 .. n -> 1 .. n]
  BY <1>1, <1>2 DEF WalkTypes, InOrder
<1>5. \A i \in 1 .. n : spans[i].enter \in Nat
  BY <1>1, TypedTimes DEF Timed
<1>6. {i \in DOMAIN order' : spans'[order'[i]].enter <= -1} = {}
  <2>1. \A i \in 1 .. n : spans[order'[i]].enter \in Nat
    BY <1>4, <1>5
  <2>2. \A i \in 1 .. n : ~(spans[order'[i]].enter <= -1)
    BY <2>1
  <2> QED BY <1>1, <1>4, <2>2
<1>7. Entered(tick)' = 0
  <2>1. Entered(tick)' = Cardinality({i \in DOMAIN order' : spans'[order'[i]].enter <= -1})
    BY <1>1 DEF Entered
  <2> QED BY <1>6, <2>1, FS_EmptySet
<1>8. Opened(open, tick, Entered(tick))'
  BY <1>1, <1>7 DEF Opened, Holds
<1>9. Attributing'
  BY <1>1, <1>7, <1>8 DEF Attributing
<1> QED BY <1>1, <1>3, <1>9 DEF AInv

(* Later more spans are entered. *)
LEMMA EnteredGrows ==
  ASSUME WalkTypes, InOrder(order, Len(spans)), NEW t \in Int, NEW u \in Int, t <= u
  PROVE  Entered(t) <= Entered(u)
<1>1. /\ Len(spans) \in Nat /\ Entered(t) \in 0 .. Len(spans) /\ Entered(u) \in 0 .. Len(spans)
      /\ \A p \in 1 .. Len(spans) : spans[order[p]].enter <= t <=> p <= Entered(t)
      /\ \A p \in 1 .. Len(spans) : spans[order[p]].enter <= u <=> p <= Entered(u)
  <2>1. Len(spans) \in Nat
    BY DEF WalkTypes
  <2>2. /\ Entered(t) \in 0 .. Len(spans)
        /\ \A p \in 1 .. Len(spans) : spans[order[p]].enter <= t <=> p <= Entered(t)
    BY EnteredFirst
  <2>3. /\ Entered(u) \in 0 .. Len(spans)
        /\ \A p \in 1 .. Len(spans) : spans[order[p]].enter <= u <=> p <= Entered(u)
    BY EnteredFirst
  <2> QED BY <2>1, <2>2, <2>3
<1> DEFINE p == Entered(t)
<1>2. CASE p = 0
  BY <1>1, <1>2
<1>3. CASE p # 0
  <2>1. p \in 1 .. Len(spans)
    BY <1>1, <1>3
  <2>2. order[p] \in 1 .. Len(spans)
    BY <2>1 DEF InOrder
  <2>3. spans[order[p]].enter \in Nat
    BY <2>2, TypedTimes DEF Timed
  <2>4. spans[order[p]].enter <= t
    <3>1. p <= Entered(t)
      BY <1>1
    <3> HIDE DEF p
    <3> QED BY <1>1, <2>1, <3>1
  <2>5. spans[order[p]].enter <= u
    BY <2>3, <2>4
  <2>6. p <= Entered(u)
    <3> HIDE DEF p
    <3> QED BY <1>1, <2>1, <2>5
  <2> QED BY <2>6
<1> QED BY <1>2, <1>3

(* At the next instruction some have ended and more are entered. *)
LEMMA AttributeAttributes == ASSUME AInv, IInv', NEW t \in 0 .. clock, Attribute(t) PROVE AInv'
<1>1. /\ IInv /\ WalkTypes /\ Len(stack) = 0 /\ InOrder(order, Len(spans)) /\ Attributing /\ t > tick
      /\ phase' = "attribute" /\ spans' = spans /\ stack' = stack /\ order' = order /\ tick' = t
      /\ open' = PushEach(WithoutEnded(open, t), SubSeq(order, cursor, Entered(t)), t)
      /\ cursor' = Entered(t) + 1
  BY DEF AInv, IInv, Attribute, walked
<1>2. t \in Int /\ tick \in Int /\ tick <= t /\ t >= -1
  <2>1. clock \in Nat
    BY <1>1 DEF IInv, TraceTypes
  <2>2. tick \in Int
    BY <1>1 DEF Attributing
  <2> QED BY <1>1, <2>1, <2>2
<1> DEFINE m == Entered(tick)
<1>3. m \in Nat /\ m <= Entered(t) /\ m <= Entered(tick) /\ cursor = m + 1 /\ Opened(open, tick, m)
  <2>1. m \in 0 .. Len(spans)
    BY <1>1, <1>2, EnteredFirst
  <2>2. m <= Entered(t)
    BY <1>1, <1>2, EnteredGrows
  <2> HIDE DEF m
  <2> QED BY <1>1, <2>1, <2>2 DEF Attributing, m
<1>4. Walked
  BY <1>1 DEF Walked
<1> HIDE DEF m
<1>5. Opened(WithoutEnded(open, t), t, m)
  BY <1>2, <1>3, <1>4, OpenedLater
<1>6. Opened(PushEach(WithoutEnded(open, t), SubSeq(order, m + 1, Entered(t)), t), t, Entered(t))
  BY <1>2, <1>3, <1>4, <1>5, OpenedAll
<1>7. Opened(open', t, Entered(t))
  BY <1>1, <1>3, <1>6
<1>8. Entered(tick)' = Entered(t)
  BY <1>1 DEF Entered
<1>9. Opened(open, tick, Entered(tick))'
  BY <1>1, <1>7, <1>8 DEF Opened, Holds, IsOpen
<1>10. Attributing'
  BY <1>1, <1>2, <1>8, <1>9 DEF Attributing
<1>11. InOrder(order, Len(spans))'
  BY <1>1, SameOrder
<1> QED BY <1>1, <1>10, <1>11 DEF AInv

(* Every step keeps it. *)
LEMMA NextAInv == ASSUME AInv, [Next]_vars PROVE AInv'
<1>0. IInv'
  BY NextIInv DEF AInv
<1>1. CASE \/ \E k \in Kernels : StartWave(k)
           \/ \E b \in BOOLEAN : EndWave(b)
           \/ \E m \in UNION {Sends[k] : k \in Kernels}, d \in 0 .. 1, b \in BOOLEAN : Emit(m.kind, m.id, d, b)
           \/ Stop \/ Walk \/ Drain
  <2>1. phase \in {"trace", "walk"} /\ phase' \in {"trace", "walk"} /\ UNCHANGED <<open, tick, cursor>>
    BY <1>1 DEF StartWave, EndWave, Emit, Stop, Walk, Drain, drawn
  <2> QED BY <1>0, <2>1 DEF AInv
<1>2. CASE Sort
  BY <1>0, <1>2, SortAttributes
<1>3. CASE Merge
  <2>1. phase' = "merge"
    BY <1>3 DEF Merge
  <2> QED BY <1>0, <2>1 DEF AInv
<1>4. ASSUME NEW t \in 0 .. clock, Attribute(t) PROVE AInv'
  BY <1>0, <1>4, AttributeAttributes
<1>5. CASE UNCHANGED vars
  <2>1. UNCHANGED <<phase, stack, spans, order, cursor, tick, open>>
    BY <1>5 DEF vars, walked, drawn
  <2>2. Attributing => Attributing'
    BY <2>1, SameOrder
  <2>3. InOrder(order, Len(spans)) => InOrder(order, Len(spans))'
    BY <2>1, SameOrder
  <2> QED BY <1>0, <2>1, <2>2, <2>3 DEF AInv
<1> QED BY <1>1, <1>2, <1>3, <1>4, <1>5 DEF Next

(* It is an invariant. *)
LEMMA AInvHolds == Spec => []AInv
<1>1. AInv /\ [Next]_vars => AInv'
  BY NextAInv
<1> QED BY <1>1, InitAInv, PTL DEF Spec

(* An instruction is attributed to the scopes that are open at its time,   *)
(* outermost first.                                                        *)
THEOREM InstructionsInScope == Spec => []InnermostScope
<1>1. ASSUME AInv PROVE InnermostScope
  <2> SUFFICES ASSUME phase = "attribute"
               PROVE  /\ ToSet(open) = Around(tick)
                      /\ \A i \in DOMAIN open : spans[open[i]].depth = i - 1
    BY DEF InnermostScope
  <2>1. Walked /\ WalkTypes /\ InOrder(order, Len(spans)) /\ Attributing
    BY <1>1 DEF AInv, Walked, IInv
  <2>2. /\ tick \in Int /\ Len(spans) \in Nat /\ DOMAIN spans = 1 .. Len(spans)
        /\ open \in Seq(1 .. Len(spans)) /\ DOMAIN open = 1 .. Len(open)
        /\ Opened(open, tick, Entered(tick))
    BY <2>1 DEF Attributing, Opened, WalkTypes
  <2>3. Entered(tick) \in 0 .. Len(spans)
    BY <2>1, <2>2, EnteredFirst
  <2>4. ASSUME NEW i \in ToSet(open) PROVE i \in Around(tick)
    <3>1. i \in 1 .. Len(spans) /\ Holds(open, i)
      BY <2>2 DEF ToSet, Holds
    <3>2. Entered(tick) \in Nat /\ Entered(tick) <= Entered(tick)
      BY <2>3
    <3> QED BY <2>1, <2>2, <3>1, <3>2, OpenedAround
  <2>5. ASSUME NEW i \in Around(tick) PROVE i \in ToSet(open)
    <3>1. i \in 1 .. Len(spans) /\ IsOpen(i, tick) /\ spans[i].enter <= tick
      <4>1. i \in 1 .. Len(spans) /\ ~spans[i].point /\ spans[i].enter <= tick /\ tick < spans[i].exit
        BY <2>2 DEF Around
      <4>2. spans[i].exit \in Nat
        BY <2>1, <4>1, TypedTimes DEF Timed
      <4> QED BY <2>2, <4>1, <4>2 DEF IsOpen
    <3>2. PICK p \in 1 .. Len(spans) : order[p] = i
      BY <2>1, <3>1 DEF InOrder
    <3>3. p <= Entered(tick)
      BY <2>1, <2>2, <3>1, <3>2, EnteredFirst
    <3>4. p \in 1 .. Entered(tick)
      BY <2>3, <3>3
    <3>5. Holds(open, i)
      BY <2>2, <3>1, <3>2, <3>4 DEF Opened
    <3> QED BY <2>2, <3>5 DEF Holds, ToSet
  <2>6. \A i \in DOMAIN open : spans[open[i]].depth = i - 1
    BY <2>2 DEF Opened
  <2> QED BY <2>4, <2>5, <2>6
<1> QED BY <1>1, AInvHolds, PTL

-------------------------------------------------------------------------------
(* A set of numbers that is not empty has a least one. *)
LEMMA LeastNumber == ASSUME NEW S \in SUBSET Nat, S # {} PROVE \E x \in S : \A y \in S : x <= y
<1>1. \E x \in S : \A y \in S : ~(<<y, x>> \in OpToRel(<, Nat))
  BY NatLessThanWellFounded, WFMin
<1>2. PICK x \in S : \A y \in S : ~(<<y, x>> \in OpToRel(<, Nat))
  BY <1>1
<1>3. \A y \in S : ~(y < x)
  BY <1>2 DEF OpToRel
<1> QED BY <1>3

-------------------------------------------------------------------------------
(* The waves of the slot *)

StartRow(w) == [time |-> w.begin, start |-> TRUE, kernel |-> w.kernel]

(* They run one after the other, each has the row of its start, and no row *)
(* is but of the start or the end of one.                                  *)
Slots ==
  /\ \A i \in 1 .. Len(waves) :
       /\ waves[i].begin <= waves[i].end /\ waves[i].begin <= clock
       /\ waves[i].end <= clock \/ (i = Len(waves) /\ waves[i].end = Forever)
       /\ StartRow(waves[i]) \in occupancy
  /\ \A i, j \in 1 .. Len(waves) : i < j => waves[i].end < waves[j].begin
  /\ \A r \in occupancy : \E i \in 1 .. Len(waves) :
       r = StartRow(waves[i]) \/ (~r.start /\ r.time = waves[i].end /\ waves[i].end <= clock)

(* Waves have their times. *)
LEMMA TypedWaves ==
  ASSUME TraceTypes
  PROVE  /\ Len(waves) \in Nat /\ DOMAIN waves = 1 .. Len(waves) /\ clock \in Nat /\ clock < Forever /\ Forever \in Nat
         /\ \A i \in 1 .. Len(waves) : waves[i] \in Wave /\ waves[i].begin \in Nat /\ waves[i].end \in Nat /\ waves[i].kernel \in Kernels
<1>1. Len(waves) \in Nat /\ DOMAIN waves = 1 .. Len(waves) /\ \A i \in 1 .. Len(waves) : waves[i] \in Wave
  BY DEF TraceTypes
<1> QED BY <1>1, MarkerAssumption DEF Wave, TraceTypes

(* A time within a wave. *)
At(i, t) == i \in 1 .. Len(waves) /\ waves[i].begin < t /\ t <= waves[i].end

(* At a time within a wave those that have begun are this one and earlier *)
(* ones, which are over.                                                  *)
LEMMA OneRuns ==
  ASSUME TraceTypes, Slots, NEW i, NEW t \in Nat, At(i, t), NEW j \in 1 .. Len(waves)
  PROVE  /\ waves[j].begin <= t => j = i \/ (j < i /\ waves[j].end < waves[i].begin /\ waves[j].begin < waves[i].begin)
         /\ j # i => waves[j].begin # waves[i].begin
<1>1. i \in 1 .. Len(waves) /\ waves[i].begin < t /\ t <= waves[i].end
  BY DEF At
<1>2. /\ waves[i].begin \in Nat /\ waves[i].end \in Nat /\ waves[j].begin \in Nat /\ waves[j].end \in Nat /\ i \in Nat /\ j \in Nat
      /\ waves[j].begin <= waves[j].end
  <2>1. \A m \in 1 .. Len(waves) : m \in Nat /\ waves[m].begin \in Nat /\ waves[m].end \in Nat
    BY TypedWaves
  <2>2. waves[j].begin <= waves[j].end
    BY DEF Slots
  <2> QED BY <1>1, <2>1, <2>2
<1>3. CASE j = i
  BY <1>3
<1>4. CASE j < i
  <2>1. waves[j].end < waves[i].begin
    BY <1>1, <1>4 DEF Slots
  <2> QED BY <1>2, <1>4, <2>1
<1>5. CASE i < j
  <2>1. waves[i].end < waves[j].begin
    BY <1>1, <1>5 DEF Slots
  <2> QED BY <1>1, <1>2, <1>5, <2>1
<1> QED BY <1>2, <1>3, <1>4, <1>5

(* The times of the rows that follow one. *)
RowsAfter(r) == {s.time : s \in {q \in occupancy : Follows(q, r)}}

(* An interval ends at the first of the rows that follow, if one does. *)
LEMMA UntilNextIs ==
  ASSUME TraceTypes, NEW r
  PROVE  /\ RowsAfter(r) = {} => UntilNext(r) = Forever
         /\ RowsAfter(r) # {} => UntilNext(r) \in RowsAfter(r)
         /\ \A x \in RowsAfter(r) : UntilNext(r) <= x
         /\ UntilNext(r) \in Nat
<1> DEFINE later == {q \in occupancy : Follows(q, r)}
           times == RowsAfter(r)
<1>1. \A s \in occupancy : s.time \in Nat
  BY DEF TraceTypes, OccupancyRecord
<1>2. times \subseteq Nat
  BY <1>1 DEF RowsAfter
<1>3. UntilNext(r) = IF later = {} THEN Forever ELSE CHOOSE x \in times : \A s \in later : x <= s.time
  BY Zenon DEF UntilNext, RowsAfter
<1>4. (times = {} <=> later = {}) /\ \A x : (\A s \in later : x <= s.time) <=> \A y \in times : x <= y
  BY DEF RowsAfter
<1> HIDE DEF times, later
<1>5. times # {} => \E x \in times : \A s \in later : x <= s.time
  BY <1>2, <1>4, LeastNumber
<1>6. times # {} => UntilNext(r) \in times /\ \A s \in later : UntilNext(r) <= s.time
  BY <1>3, <1>4, <1>5
<1>7. times # {} => UntilNext(r) \in times /\ \A x \in times : UntilNext(r) <= x
  BY <1>4, <1>6
<1>8. (times = {} => UntilNext(r) = Forever) /\ Forever \in Nat
  BY <1>3, <1>4, MarkerAssumption
<1>9. UntilNext(r) \in Nat
  BY <1>2, <1>7, <1>8
<1> QED BY <1>7, <1>8, <1>9 DEF times

(* The start of a wave is active until the wave has ended, and no longer   *)
(* than to the next start.                                                 *)
LEMMA ActiveUntil ==
  ASSUME TraceTypes, Slots, NEW i \in 1 .. Len(waves)
  PROVE  /\ waves[i].end <= clock => waves[i].end <= UntilNext(StartRow(waves[i]))
         /\ \A j \in 1 .. Len(waves) : i < j => UntilNext(StartRow(waves[i])) <= waves[j].begin
<1> DEFINE r == StartRow(waves[i])
<1>1. r.time = waves[i].begin /\ r.start = TRUE /\ waves[i].begin \in Nat /\ waves[i].end \in Nat /\ waves[i].begin <= waves[i].end
  BY TypedWaves DEF Slots, StartRow
<1>2. \A s \in occupancy : s.time \in Nat /\ s.start \in BOOLEAN
  BY DEF TraceTypes, OccupancyRecord
<1>3. /\ RowsAfter(r) = {} => UntilNext(r) = Forever
      /\ RowsAfter(r) # {} => UntilNext(r) \in RowsAfter(r)
      /\ \A x \in RowsAfter(r) : UntilNext(r) <= x
  BY UntilNextIs
<1>4. ASSUME NEW s \in occupancy, Follows(s, r) PROVE waves[i].end <= s.time
  <2>1. PICK j \in 1 .. Len(waves) : s = StartRow(waves[j]) \/ (~s.start /\ s.time = waves[j].end)
    BY DEF Slots
  <2>2. waves[j].begin \in Nat /\ waves[j].end \in Nat /\ waves[j].begin <= waves[j].end /\ i \in Nat /\ j \in Nat
    <3>1. \A m \in 1 .. Len(waves) : m \in Nat /\ waves[m].begin \in Nat /\ waves[m].end \in Nat
      BY TypedWaves
    <3>2. waves[j].begin <= waves[j].end
      BY DEF Slots
    <3> QED BY <3>1, <3>2
  <2>3. s.time \in {waves[j].begin, waves[j].end} /\ s.time >= waves[i].begin
    BY <1>1, <1>2, <1>4, <2>1, <2>2 DEF Follows, StartRow
  <2>4. CASE i < j
    <3>1. waves[i].end < waves[j].begin
      BY <2>4 DEF Slots
    <3> QED BY <1>1, <2>2, <2>3, <3>1
  <2>5. CASE j < i
    <3>1. waves[j].end < waves[i].begin
      BY <2>5 DEF Slots
    <3> QED BY <1>1, <2>2, <2>3, <3>1
  <2>6. CASE j = i
    <3>1. s # r
      BY <1>1, <1>4 DEF Follows
    <3> QED BY <1>1, <2>1, <2>6, <3>1
  <2> QED BY <2>2, <2>4, <2>5, <2>6
<1>5. ASSUME NEW j \in 1 .. Len(waves), i < j PROVE UntilNext(r) <= waves[j].begin
  <2>1. waves[i].end < waves[j].begin /\ waves[j].begin \in Nat /\ StartRow(waves[j]) \in occupancy
    BY <1>5, TypedWaves DEF Slots
  <2>2. StartRow(waves[j]).time = waves[j].begin
    BY DEF StartRow
  <2>3. Follows(StartRow(waves[j]), r)
    BY <1>1, <2>1, <2>2 DEF Follows
  <2>4. waves[j].begin \in RowsAfter(r)
    BY <2>1, <2>2, <2>3 DEF RowsAfter
  <2> HIDE DEF r
  <2> QED BY <1>3, <2>4, SMTT(30)
<1>6. ASSUME waves[i].end <= clock PROVE waves[i].end <= UntilNext(r)
  <2>1. CASE RowsAfter(r) = {}
    BY <1>1, <1>3, <1>6, <2>1, TypedWaves
  <2>2. CASE RowsAfter(r) # {}
    <3>1. \A x \in RowsAfter(r) : waves[i].end <= x
      BY <1>4 DEF RowsAfter
    <3> HIDE DEF r
    <3> QED BY <1>3, <2>2, <3>1
  <2> QED BY <2>1, <2>2
<1> QED BY <1>5, <1>6

(* Which of a set of intervals is active at a time. *)
Active(S, t, x) == x.begin <= t /\ (\A y \in S : y.begin <= t => y.begin <= x.begin) /\ t <= x.end

(* What is active is found, if nothing else is; and nothing is if nothing *)
(* is.                                                                    *)
LEMMA OneActive ==
  ASSUME NEW S, NEW t
  PROVE  /\ (\A x \in S : ~Active(S, t, x)) => ActiveAt(S, t) = 0
         /\ \A x \in S : Active(S, t, x) /\ (\A y \in S : Active(S, t, y) => y = x) => ActiveAt(S, t) = x.object
<1>1. ActiveAt(S, t) = IF \E x \in S : Active(S, t, x) THEN (CHOOSE x \in S : Active(S, t, x)).object ELSE 0
  BY Zenon DEF ActiveAt, Active
<1>2. (\A x \in S : ~Active(S, t, x)) => ActiveAt(S, t) = 0
  BY <1>1
<1>3. ASSUME NEW x \in S, Active(S, t, x), \A y \in S : Active(S, t, y) => y = x PROVE ActiveAt(S, t) = x.object
  <2>1. (CHOOSE y \in S : Active(S, t, y)) = x
    BY <1>3
  <2> QED BY <1>1, <1>3, <2>1
<1> QED BY <1>2, <1>3

(* What is known of a kernel while a wave of it runs. *)
KnownOf(k) == IF source = "ui" /\ k \in Traced /\ Object[k] # 0 THEN Object[k] ELSE OccupancyObject(k)
HasMarks(o) == o \in DOMAIN JsonMap \/ (source = "att" /\ o \in DOMAIN DecoderMap)

(* The code object at a time within a wave that has ended, by its rows. *)
LEMMA RowsKnow ==
  ASSUME TraceTypes, Slots, NEW i, NEW t \in Nat, At(i, t), waves[i].end <= clock
  PROVE  ActiveAt(Intervals, t) = OccupancyObject(waves[i].kernel)
<1> DEFINE S == Intervals
           inter(r) == [begin |-> r.time, end |-> UntilNext(r), object |-> OccupancyObject(r.kernel)]
           x == inter(StartRow(waves[i]))
<1>1. i \in 1 .. Len(waves) /\ waves[i].begin < t /\ t <= waves[i].end
  BY DEF At
<1>2. waves[i].begin \in Nat /\ waves[i].end \in Nat
  BY <1>1, TypedWaves
<1>3. S = {inter(r) : r \in {s \in occupancy : s.start /\ OccupancyObject(s.kernel) # 0}}
  BY DEF Intervals
<1>4. x.begin = waves[i].begin /\ x.end = UntilNext(StartRow(waves[i])) /\ x.object = OccupancyObject(waves[i].kernel)
  BY DEF StartRow
<1>5. ASSUME NEW y \in S
      PROVE  \E j \in 1 .. Len(waves) : /\ y = inter(StartRow(waves[j])) /\ y.begin = waves[j].begin
                                        /\ y.end = UntilNext(StartRow(waves[j])) /\ OccupancyObject(waves[j].kernel) # 0
  <2>1. PICK r \in occupancy : r.start /\ OccupancyObject(r.kernel) # 0 /\ y = inter(r)
    BY <1>3
  <2>2. PICK j \in 1 .. Len(waves) : r = StartRow(waves[j])
    BY <2>1 DEF Slots
  <2>3. r.time = waves[j].begin /\ r.kernel = waves[j].kernel
    BY <2>2 DEF StartRow
  <2>4. y.begin = r.time /\ y.end = UntilNext(r)
    BY <2>1
  <2> HIDE DEF inter
  <2> QED BY <2>1, <2>2, <2>3, <2>4
<1>6. t <= UntilNext(StartRow(waves[i]))
  <2>1. waves[i].end <= UntilNext(StartRow(waves[i]))
    BY <1>1, ActiveUntil
  <2>2. UntilNext(StartRow(waves[i])) \in Int
    BY <1>1, UntilNextIs
  <2> QED BY <1>1, <1>2, <2>1, <2>2
<1>7. ASSUME NEW y \in S, Active(S, t, y) PROVE y = x
  <2>1. PICK j \in 1 .. Len(waves) : /\ y = inter(StartRow(waves[j])) /\ y.begin = waves[j].begin
                                     /\ y.end = UntilNext(StartRow(waves[j]))
    BY <1>5
  <2>2. waves[j].begin <= t /\ t <= UntilNext(StartRow(waves[j]))
    BY <1>7, <2>1 DEF Active
  <2>3. j = i \/ j < i
    BY <1>1, <2>2, OneRuns
  <2>4. CASE j < i
    <3>1. UntilNext(StartRow(waves[j])) <= waves[i].begin /\ UntilNext(StartRow(waves[j])) \in Int
      BY <1>1, <2>4, ActiveUntil, UntilNextIs
    <3> QED BY <1>1, <1>2, <2>2, <3>1
  <2> QED BY <2>1, <2>3, <2>4
<1>8. CASE OccupancyObject(waves[i].kernel) = 0
  <2>1. ASSUME NEW y \in S, Active(S, t, y) PROVE FALSE
    <3>1. y = x
      BY <1>7, <2>1
    <3>2. PICK j \in 1 .. Len(waves) : y.begin = waves[j].begin /\ OccupancyObject(waves[j].kernel) # 0
      BY <1>5, <2>1
    <3>3. waves[j].begin = waves[i].begin
      BY <1>4, <3>1, <3>2
    <3>4. j = i
      BY <1>1, <3>3, OneRuns
    <3> QED BY <1>8, <3>2, <3>4
  <2> QED BY <1>8, <2>1, OneActive
<1>9. CASE OccupancyObject(waves[i].kernel) # 0
  <2>1. x \in S
    <3>1. StartRow(waves[i]) \in occupancy /\ StartRow(waves[i]).start /\ OccupancyObject(StartRow(waves[i]).kernel) # 0
      BY <1>1, <1>9 DEF Slots, StartRow
    <3> HIDE DEF inter
    <3> QED BY <1>3, <3>1
  <2>2. ASSUME NEW y \in S, y.begin <= t PROVE y.begin <= x.begin
    <3>1. PICK j \in 1 .. Len(waves) : y.begin = waves[j].begin
      BY <1>5
    <3>2. j = i \/ waves[j].begin < waves[i].begin
      BY <1>1, <2>2, <3>1, OneRuns
    <3>3. waves[j].begin \in Nat
      BY TypedWaves
    <3> QED BY <1>2, <1>4, <3>1, <3>2, <3>3
  <2>3. x.begin <= t /\ t <= x.end
    BY <1>1, <1>2, <1>4, <1>6
  <2> HIDE DEF x, S
  <2>4. Active(S, t, x)
    BY <2>2, <2>3 DEF Active
  <2>5. ActiveAt(S, t) = x.object
    BY <1>7, <2>1, <2>4, OneActive
  <2> QED BY <1>4, <2>5 DEF S
<1> QED BY <1>8, <1>9

(* And by the lines of code that it ran, if it was traced. *)
LEMMA CodeKnows ==
  ASSUME TraceTypes, Slots, NEW i, NEW t \in Nat, At(i, t)
  PROVE  ActiveAt(TracedIntervals, t) = IF waves[i].kernel \in Traced THEN Object[waves[i].kernel] ELSE 0
<1> DEFINE S == TracedIntervals
           inter(j) == [begin |-> waves[j].begin, end |-> waves[j].end, object |-> Object[waves[j].kernel]]
           x == inter(i)
<1>1. i \in 1 .. Len(waves) /\ waves[i].begin < t /\ t <= waves[i].end /\ DOMAIN waves = 1 .. Len(waves)
  BY TypedWaves DEF At
<1>2. waves[i].begin \in Nat /\ waves[i].end \in Nat
  BY <1>1, TypedWaves
<1>3. S = {inter(j) : j \in {m \in 1 .. Len(waves) : waves[m].kernel \in Traced}}
  BY <1>1 DEF TracedIntervals
<1>4. x.begin = waves[i].begin /\ x.end = waves[i].end /\ x.object = Object[waves[i].kernel]
  OBVIOUS
<1>5. ASSUME NEW y \in S
      PROVE  \E j \in 1 .. Len(waves) : /\ y = inter(j) /\ y.begin = waves[j].begin /\ y.end = waves[j].end
                                        /\ waves[j].kernel \in Traced
  <2>1. PICK j \in 1 .. Len(waves) : waves[j].kernel \in Traced /\ y = inter(j)
    BY <1>3
  <2>2. y.begin = waves[j].begin /\ y.end = waves[j].end
    BY <2>1
  <2> HIDE DEF inter
  <2> QED BY <2>1, <2>2
<1>6. ASSUME NEW y \in S, Active(S, t, y) PROVE y = x /\ waves[i].kernel \in Traced
  <2>1. PICK j \in 1 .. Len(waves) : /\ y = inter(j) /\ y.begin = waves[j].begin /\ y.end = waves[j].end
                                     /\ waves[j].kernel \in Traced
    BY <1>5, <1>6
  <2>2. waves[j].begin <= t /\ t <= waves[j].end
    BY <1>6, <2>1 DEF Active
  <2>3. j = i \/ waves[j].end < waves[i].begin
    BY <1>1, <2>2, OneRuns
  <2>4. waves[j].end \in Nat
    BY TypedWaves
  <2>5. j = i
    BY <1>1, <1>2, <2>2, <2>3, <2>4
  <2> QED BY <2>1, <2>5
<1>7. CASE waves[i].kernel \notin Traced
  BY <1>6, <1>7, OneActive
<1>8. CASE waves[i].kernel \in Traced
  <2>1. x \in S
    <3> HIDE DEF inter
    <3> QED BY <1>1, <1>3, <1>8
  <2>2. ASSUME NEW y \in S, y.begin <= t PROVE y.begin <= x.begin
    <3>1. PICK j \in 1 .. Len(waves) : y.begin = waves[j].begin
      BY <1>5
    <3>2. j = i \/ waves[j].begin < waves[i].begin
      BY <1>1, <2>2, <3>1, OneRuns
    <3>3. waves[j].begin \in Nat
      BY TypedWaves
    <3> QED BY <1>2, <1>4, <3>1, <3>2, <3>3
  <2>3. x.begin <= t /\ t <= x.end
    BY <1>1, <1>2, <1>4
  <2> HIDE DEF x, S
  <2>4. Active(S, t, x)
    BY <2>2, <2>3 DEF Active
  <2>5. ActiveAt(S, t) = x.object
    BY <1>6, <2>1, <2>4, OneActive
  <2> QED BY <1>4, <1>8, <2>5 DEF S
<1> QED BY <1>7, <1>8

(* Both emitters find the code object of the wave that ran. *)
LEMMA ObjectIsKnown ==
  ASSUME TraceTypes, Slots, NEW i, NEW t \in Nat, At(i, t), waves[i].end <= clock
  PROVE  ObjectAt(t) = KnownOf(waves[i].kernel)
<1>1. ActiveAt(Intervals, t) = OccupancyObject(waves[i].kernel)
  BY RowsKnow
<1>2. ActiveAt(TracedIntervals, t) = IF waves[i].kernel \in Traced THEN Object[waves[i].kernel] ELSE 0
  BY CodeKnows
<1> QED BY <1>1, <1>2 DEF ObjectAt, KnownOf

(* The last wave, while it runs. *)
LEMMA RunningWave ==
  ASSUME TraceTypes, Running
  PROVE  /\ Len(waves) \in 1 .. Len(waves) /\ Last(waves) = waves[Len(waves)] /\ waves[Len(waves)].end = Forever
         /\ waves[Len(waves)] \in Wave
<1>1. Len(waves) \in 1 .. Len(waves) /\ Last(waves) = waves[Len(waves)]
  BY DEF TraceTypes, Running, Last
<1> QED BY <1>1, TypedWaves DEF Running

(* The last wave ends at the clock; nothing else of it changes. *)
EndedNow(v) ==
  /\ v \in Seq(Wave) /\ Len(v) = Len(waves)
  /\ \A i \in 1 .. Len(waves) :
       /\ v[i].begin = waves[i].begin /\ v[i].kernel = waves[i].kernel
       /\ v[i].end = IF i = Len(waves) THEN clock ELSE waves[i].end

(* That is what the end of a wave does. *)
LEMMA EndIsNow ==
  ASSUME TraceTypes, Running
  PROVE  EndedNow([waves EXCEPT ![Len(waves)].end = clock])
<1> DEFINE n == Len(waves)  w == [waves[n] EXCEPT !.end = clock]  v == [waves EXCEPT ![n] = w]
<1>1. n \in 1 .. n /\ waves[n] \in Wave /\ waves \in Seq(Wave) /\ n \in Nat /\ clock \in Nat
  BY RunningWave, TypedWaves DEF TraceTypes
<1>2. w \in Wave /\ w.begin = waves[n].begin /\ w.kernel = waves[n].kernel /\ w.end = clock
  BY <1>1 DEF Wave
<1> HIDE DEF w
<1>3. v \in Seq(Wave) /\ Len(v) = n /\ v[n] = w /\ \A i \in 1 .. n : i # n => v[i] = waves[i]
  BY <1>1, <1>2
<1> HIDE DEF v
<1>4. EndedNow(v)
  BY <1>2, <1>3 DEF EndedNow
<1> QED BY <1>4 DEF v, w

-------------------------------------------------------------------------------
(* The slot goes on as it did. *)

(* A wave starts when the one before is over. *)
LEMMA StartWaveSlots == ASSUME TraceTypes, Slots, NEW k \in Kernels, StartWave(k) PROVE Slots'
<1> DEFINE n == Len(waves)  w == [kernel |-> k, begin |-> clock + 1, end |-> Forever]
<1>1. /\ ~Running /\ clock' = clock + 1 /\ waves' = Append(waves, w) /\ clock + 1 < Forever
      /\ occupancy' = occupancy \cup {[time |-> clock + 1, start |-> TRUE, kernel |-> k]}
  BY DEF StartWave
<1>2. n \in Nat /\ clock \in Nat /\ Forever \in Nat /\ waves \in Seq(Wave)
  BY TypedWaves DEF TraceTypes
<1>3. Len(waves') = n + 1 /\ waves'[n + 1] = w /\ \A i \in 1 .. n : waves'[i] = waves[i]
  BY <1>1, <1>2
<1>4. w.begin = clock + 1 /\ w.end = Forever /\ StartRow(w) = [time |-> clock + 1, start |-> TRUE, kernel |-> k]
  BY DEF StartRow
<1> HIDE DEF w
<1>5. ASSUME NEW i \in 1 .. n
      PROVE  /\ waves[i].end <= clock /\ waves[i].begin <= waves[i].end /\ waves[i].begin <= clock
             /\ StartRow(waves[i]) \in occupancy
             /\ waves[i].begin \in Nat /\ waves[i].end \in Nat
  <2>1. waves[i].begin \in Nat /\ waves[i].end \in Nat
    BY TypedWaves
  <2>2. /\ waves[i].begin <= waves[i].end /\ waves[i].begin <= clock
        /\ waves[i].end <= clock \/ (i = n /\ waves[i].end = Forever)
        /\ StartRow(waves[i]) \in occupancy
    BY DEF Slots
  <2>3. ~(i = n /\ waves[i].end = Forever)
    BY <1>1, <1>2 DEF Running, Last
  <2> QED BY <2>1, <2>2, <2>3
<1>6. \A i \in 1 .. n + 1 : i \in 1 .. n \/ i = n + 1
  BY <1>2
<1>7. ASSUME NEW i \in 1 .. n + 1
      PROVE  /\ waves'[i].begin <= waves'[i].end /\ waves'[i].begin <= clock + 1
             /\ waves'[i].end <= clock + 1 \/ (i = n + 1 /\ waves'[i].end = Forever)
             /\ StartRow(waves'[i]) \in occupancy'
  <2>1. CASE i \in 1 .. n
    <3>1. /\ waves[i].end <= clock /\ waves[i].begin <= waves[i].end /\ waves[i].begin <= clock
          /\ waves[i].begin \in Nat /\ waves[i].end \in Nat /\ waves'[i] = waves[i]
      BY <1>3, <1>5, <2>1
    <3>2. StartRow(waves'[i]) \in occupancy'
      BY <1>1, <1>5, <2>1, <3>1
    <3> QED BY <1>2, <3>1, <3>2
  <2>2. CASE i = n + 1
    <3>1. StartRow(waves'[i]) \in occupancy' /\ waves'[i] = w
      BY <1>1, <1>3, <1>4, <2>2
    <3> QED BY <1>1, <1>2, <1>4, <2>2, <3>1
  <2> QED BY <1>6, <2>1, <2>2
<1>8. ASSUME NEW i \in 1 .. n + 1, NEW j \in 1 .. n + 1, i < j PROVE waves'[i].end < waves'[j].begin
  <2>1. i \in 1 .. n
    BY <1>2, <1>8
  <2>2. CASE j \in 1 .. n
    <3>1. waves[i].end < waves[j].begin
      BY <1>8, <2>1, <2>2 DEF Slots
    <3> QED BY <1>3, <2>1, <2>2, <3>1
  <2>3. CASE j = n + 1
    BY <1>2, <1>3, <1>4, <1>5, <2>1, <2>3
  <2> QED BY <1>6, <2>2, <2>3
<1>9. ASSUME NEW r \in occupancy'
      PROVE  \E i \in 1 .. n + 1 : r = StartRow(waves'[i]) \/ (~r.start /\ r.time = waves'[i].end /\ waves'[i].end <= clock + 1)
  <2>1. CASE r \in occupancy
    <3>1. PICK i \in 1 .. n : r = StartRow(waves[i]) \/ (~r.start /\ r.time = waves[i].end /\ waves[i].end <= clock)
      BY <2>1 DEF Slots
    <3>2. i \in 1 .. n + 1 /\ waves'[i] = waves[i] /\ waves[i].end <= clock + 1
      BY <1>2, <1>3, <1>5
    <3> QED BY <3>1, <3>2
  <2>2. CASE r = [time |-> clock + 1, start |-> TRUE, kernel |-> k]
    <3>1. n + 1 \in 1 .. n + 1 /\ r = StartRow(waves'[n + 1])
      BY <1>2, <1>3, <1>4, <2>2
    <3> QED BY <3>1
  <2> QED BY <1>1, <2>1, <2>2
<1> QED BY <1>1, <1>3, <1>7, <1>8, <1>9, SMTT(30) DEF Slots, StartRow

(* It ends, with its row or without. *)
LEMMA EndSlots ==
  ASSUME TraceTypes, Slots, Running, EndedNow(waves'), clock' = clock,
         \/ occupancy' = occupancy
         \/ occupancy' = occupancy \cup {[time |-> clock, start |-> FALSE, kernel |-> Last(waves).kernel]}
  PROVE  Slots'
<1> DEFINE n == Len(waves)
<1>1. n \in 1 .. n /\ n \in Nat /\ clock \in Nat /\ Forever \in Nat /\ clock < Forever /\ waves[n].end = Forever
  BY RunningWave, TypedWaves
<1>2. /\ Len(waves') = n
      /\ \A i \in 1 .. n : /\ waves'[i].begin = waves[i].begin /\ waves'[i].kernel = waves[i].kernel
                           /\ waves'[i].end = IF i = n THEN clock ELSE waves[i].end
  BY DEF EndedNow
<1>3. \A i \in 1 .. n : StartRow(waves'[i]) = StartRow(waves[i])
  BY <1>2 DEF StartRow
<1>4. \A i \in 1 .. n : waves[i].begin \in Nat /\ waves[i].end \in Nat
  BY TypedWaves
<1>5. ASSUME NEW i \in 1 .. n
      PROVE  /\ waves'[i].begin <= waves'[i].end /\ waves'[i].begin <= clock /\ waves'[i].end <= clock
             /\ StartRow(waves'[i]) \in occupancy'
  <2>1. /\ waves[i].begin <= waves[i].end /\ waves[i].begin <= clock
        /\ waves[i].end <= clock \/ i = n
        /\ StartRow(waves[i]) \in occupancy
    BY DEF Slots
  <2> QED BY <1>1, <1>2, <1>3, <1>4, <2>1
<1>6. ASSUME NEW i \in 1 .. n, NEW j \in 1 .. n, i < j PROVE waves'[i].end < waves'[j].begin
  <2>1. waves[i].end < waves[j].begin /\ i # n
    BY <1>1, <1>6 DEF Slots
  <2> QED BY <1>2, <2>1
<1>7. ASSUME NEW r \in occupancy'
      PROVE  \E i \in 1 .. n : r = StartRow(waves'[i]) \/ (~r.start /\ r.time = waves'[i].end /\ waves'[i].end <= clock)
  <2>1. CASE r \in occupancy
    <3>1. PICK i \in 1 .. n : r = StartRow(waves[i]) \/ (~r.start /\ r.time = waves[i].end /\ waves[i].end <= clock)
      BY <2>1 DEF Slots
    <3>2. CASE r = StartRow(waves[i])
      BY <1>3, <3>2
    <3>3. CASE ~r.start /\ r.time = waves[i].end /\ waves[i].end <= clock
      <4>1. i # n
        BY <1>1, <3>3
      <4> QED BY <1>2, <3>3, <4>1
    <3> QED BY <3>1, <3>2, <3>3
  <2>2. CASE r = [time |-> clock, start |-> FALSE, kernel |-> Last(waves).kernel]
    <3>1. ~r.start /\ r.time = waves'[n].end /\ waves'[n].end <= clock
      BY <1>1, <1>2, <2>2
    <3> QED BY <1>1, <3>1
  <2> QED BY <2>1, <2>2
<1> QED BY <1>2, <1>5, <1>6, <1>7 DEF Slots

(* It goes on. *)
LEMMA LaterSlots ==
  ASSUME TraceTypes, Slots, UNCHANGED <<waves, occupancy>>, clock' \in Nat, clock <= clock'
  PROVE  Slots'
<1>1. \A i \in 1 .. Len(waves) : waves[i].begin \in Nat /\ waves[i].end \in Nat /\ clock \in Nat
  BY TypedWaves
<1>2. ASSUME NEW i \in 1 .. Len(waves)
      PROVE  /\ waves[i].begin <= waves[i].end /\ waves[i].begin <= clock'
             /\ waves[i].end <= clock' \/ (i = Len(waves) /\ waves[i].end = Forever)
             /\ StartRow(waves[i]) \in occupancy
  <2>1. /\ waves[i].begin <= waves[i].end /\ waves[i].begin <= clock
        /\ waves[i].end <= clock \/ (i = Len(waves) /\ waves[i].end = Forever)
        /\ StartRow(waves[i]) \in occupancy
    BY DEF Slots
  <2> QED BY <1>1, <2>1
<1>3. ASSUME NEW r \in occupancy
      PROVE  \E i \in 1 .. Len(waves) : r = StartRow(waves[i]) \/ (~r.start /\ r.time = waves[i].end /\ waves[i].end <= clock')
  <2>1. PICK i \in 1 .. Len(waves) : r = StartRow(waves[i]) \/ (~r.start /\ r.time = waves[i].end /\ waves[i].end <= clock)
    BY DEF Slots
  <2>2. waves[i].end <= clock => waves[i].end <= clock'
    BY <1>1
  <2> QED BY <2>1, <2>2
<1>4. \A i, j \in 1 .. Len(waves) : i < j => waves[i].end < waves[j].begin
  BY DEF Slots
<1> QED BY <1>2, <1>3, <1>4 DEF Slots, StartRow

(* While the trace is taken and at its end. *)
LEMMA SlotsKept ==
  ASSUME TraceTypes, Slots,
         \/ \E k \in Kernels : StartWave(k)
         \/ \E b \in BOOLEAN : EndWave(b)
         \/ \E m \in UNION {Sends[k] : k \in Kernels}, d \in 0 .. 1, b \in BOOLEAN : Emit(m.kind, m.id, d, b)
         \/ Stop \/ UNCHANGED traced
  PROVE  Slots'
<1>1. CASE \E k \in Kernels : StartWave(k)
  BY <1>1, StartWaveSlots
<1>2. ASSUME NEW b \in BOOLEAN, EndWave(b) PROVE Slots'
  <2>1. Running /\ waves' = [waves EXCEPT ![Len(waves)].end = clock] /\ clock' = clock
        /\ \/ occupancy' = occupancy
           \/ occupancy' = occupancy \cup {[time |-> clock, start |-> FALSE, kernel |-> Last(waves).kernel]}
    BY <1>2 DEF EndWave
  <2>2. EndedNow(waves')
    BY <2>1, EndIsNow
  <2> QED BY <2>1, <2>2, EndSlots
<1>3. ASSUME NEW m \in UNION {Sends[k] : k \in Kernels}, NEW d \in 0 .. 1, NEW b \in BOOLEAN, Emit(m.kind, m.id, d, b)
      PROVE  Slots'
  <2>1. clock' = clock + d /\ UNCHANGED <<waves, occupancy>>
    BY <1>3 DEF Emit
  <2>2. clock' \in Nat /\ clock <= clock'
    BY <2>1, TypedWaves
  <2> QED BY <2>1, <2>2, LaterSlots
<1>4. CASE Stop /\ Running
  <2>1. waves' = [waves EXCEPT ![Len(waves)].end = clock] /\ clock' = clock /\ occupancy' = occupancy
    BY <1>4 DEF Stop
  <2>2. EndedNow(waves')
    BY <1>4, <2>1, EndIsNow
  <2> QED BY <1>4, <2>1, <2>2, EndSlots
<1>5. CASE (Stop /\ ~Running) \/ UNCHANGED traced
  <2>1. UNCHANGED <<waves, occupancy, clock>>
    BY <1>5 DEF Stop, traced
  <2>2. clock' \in Nat /\ clock <= clock'
    BY <2>1, TypedWaves
  <2> QED BY <2>1, <2>2, LaterSlots
<1> QED BY <1>1, <1>2, <1>3, <1>4, <1>5

-------------------------------------------------------------------------------
(* What the waves were in *)

Call == [name : Nat \X Nat, enter : Nat]
LeftScope == [name : Nat \X Nat, enter : Nat, exit : Nat, depth : Nat]
ScopeOf(c, j, t) == [name |-> c[j].name, enter |-> c[j].enter, exit |-> t, depth |-> j - 1]

(* A wave without markers is in no scope, and so is none. *)
Calling ==
  /\ calls \in Seq(Call) /\ scopes \in Seq(LeftScope)
  /\ phase = "trace" /\ ~(Running /\ Marked) => calls = <<>>

(* Scopes that are left are added, the innermost first. *)
LEMMA LeftAdds ==
  ASSUME calls \in Seq(Call), scopes \in Seq(LeftScope), NEW n \in 0 .. Len(calls), NEW t \in Nat
  PROVE  /\ scopes \o Left(n, t) \in Seq(LeftScope) /\ Len(scopes \o Left(n, t)) = Len(scopes) + n
         /\ \A q \in 1 .. Len(scopes) : (scopes \o Left(n, t))[q] = scopes[q]
         /\ \A q \in 1 .. n : (scopes \o Left(n, t))[Len(scopes) + q] = ScopeOf(calls, Len(calls) + 1 - q, t)
<1> DEFINE l == Left(n, t)  m == Len(calls)
<1>1. m \in Nat /\ n \in Nat /\ n <= m /\ \A q \in 1 .. m : calls[q] \in Call
  OBVIOUS
<1>2. ASSUME NEW q \in 1 .. n
      PROVE  m + 1 - q \in 1 .. m /\ l[q] = ScopeOf(calls, m + 1 - q, t) /\ l[q] \in LeftScope
  <2>1. m + 1 - q \in 1 .. m /\ (m + 1 - q) - 1 = m - q /\ m - q \in Nat
    BY <1>1
  <2>2. calls[m + 1 - q] \in Call
    BY <1>1, <2>1
  <2>3. l[q] = [name |-> calls[m + 1 - q].name, enter |-> calls[m + 1 - q].enter, exit |-> t, depth |-> m - q]
    BY DEF Left
  <2> HIDE DEF l, m
  <2>4. l[q] = ScopeOf(calls, m + 1 - q, t)
    BY <2>1, <2>3 DEF ScopeOf
  <2>5. l[q] \in LeftScope
    <3> DEFINE c == calls[m + 1 - q]
    <3>1. c.name \in Nat \X Nat /\ c.enter \in Nat
      BY <2>2 DEF Call
    <3>2. l[q] = [name |-> c.name, enter |-> c.enter, exit |-> t, depth |-> m - q]
      BY <2>3
    <3> HIDE DEF c
    <3> QED BY <2>1, <3>1, <3>2 DEF LeftScope
  <2> QED BY <2>1, <2>4, <2>5
<1>3. l \in Seq(LeftScope) /\ Len(l) = n
  <2>1. l = [q \in 1 .. n |-> l[q]]
    BY DEF Left
  <2>2. \A q \in 1 .. n : l[q] \in LeftScope
    BY <1>2
  <2> HIDE DEF l
  <2>3. l \in [1 .. n -> LeftScope]
    BY <2>1, <2>2
  <2> QED BY <1>1, <2>3
<1> HIDE DEF l, m
<1>4. /\ scopes \o l \in Seq(LeftScope) /\ Len(scopes \o l) = Len(scopes) + n
      /\ \A q \in 1 .. Len(scopes) : (scopes \o l)[q] = scopes[q]
  BY <1>3
<1>5. \A q \in 1 .. n : (scopes \o l)[Len(scopes) + q] = l[q]
  BY <1>1, <1>3
<1>6. \A q \in 1 .. n : (scopes \o l)[Len(scopes) + q] = ScopeOf(calls, m + 1 - q, t)
  BY <1>2, <1>5
<1> QED BY <1>4, <1>6 DEF l, m

(* The code object of a kernel is a number. *)
LEMMA KnownIsNumber == ASSUME NEW k \in Kernels PROVE KnownOf(k) \in Nat
<1>1. OccupancyObject(k) \in Nat
  BY MarkerAssumption DEF OccupancyObject, NamedObject
<1> QED BY <1>1, MarkerAssumption DEF KnownOf

(* How many scopes a token leaves and enters. *)
Out(kind) == IF kind \in {"exit", "transition"} THEN 1 ELSE 0
In(kind) == IF kind \in {"enter", "transition"} THEN 1 ELSE 0

(* What a token does in a wave with markers. *)
LEMMA MarkedSends ==
  ASSUME TraceTypes, Calling, NEW kind \in Kinds, NEW id \in Nat, NEW d \in 0 .. 1, NEW b \in BOOLEAN,
         Emit(kind, id, d, b), Marked
  PROVE  /\ calls' \in Seq(Call) /\ scopes' \in Seq(LeftScope)
         /\ Out(kind) <= Len(calls) /\ Len(calls') = Len(calls) - Out(kind) + In(kind)
         /\ Len(scopes') = Len(scopes) + Out(kind)
         /\ \A j \in 1 .. Len(calls) - Out(kind) : calls'[j] = calls[j]
         /\ In(kind) = 1 => calls'[Len(calls) - Out(kind) + 1] = [name |-> NameIn(KnownObject, id), enter |-> clock']
         /\ \A q \in 1 .. Len(scopes) : scopes'[q] = scopes[q]
         /\ Out(kind) = 1 => scopes'[Len(scopes) + 1] = ScopeOf(calls, Len(calls), clock')
<1> DEFINE leaves == Out(kind)
           inside == SubSeq(calls, 1, Len(calls) - leaves)
           call == [name |-> NameIn(KnownObject, id), enter |-> clock']
           n == Len(calls)
<1>1. /\ leaves \in 0 .. 1 /\ leaves <= n /\ scopes' = scopes \o Left(leaves, clock') /\ clock' = clock + d
      /\ calls' = IF kind \in {"enter", "transition"} THEN Append(inside, call) ELSE inside
      /\ Running
  BY SMTT(30) DEF Emit, Out
<1>2. calls \in Seq(Call) /\ scopes \in Seq(LeftScope) /\ n \in Nat /\ clock' \in Nat /\ leaves \in 0 .. n
  BY <1>1, TypedWaves, SMTT(30) DEF Calling
<1>3. KnownObject = KnownOf(Last(waves).kernel) /\ KnownObject \in Nat
  <2>1. Last(waves).kernel \in Kernels
    BY <1>1, RunningWave DEF Wave
  <2> QED BY <2>1, KnownIsNumber DEF KnownObject, KnownOf
<1>4. call \in Call
  BY <1>2, <1>3 DEF Call, NameIn
<1>5. inside \in Seq(Call) /\ Len(inside) = n - leaves /\ \A j \in 1 .. n - leaves : inside[j] = calls[j]
  <2>1. n - leaves \in 0 .. n
    BY <1>1, <1>2
  <2> HIDE DEF leaves
  <2> QED BY <1>2, <2>1, FirstPart
<1>6. /\ scopes' \in Seq(LeftScope) /\ Len(scopes') = Len(scopes) + leaves
      /\ \A q \in 1 .. Len(scopes) : scopes'[q] = scopes[q]
      /\ \A q \in 1 .. leaves : scopes'[Len(scopes) + q] = ScopeOf(calls, n + 1 - q, clock')
  <2> HIDE DEF leaves
  <2> QED BY <1>1, <1>2, LeftAdds
<1>7. leaves = 1 => scopes'[Len(scopes) + 1] = ScopeOf(calls, n, clock')
  <2>1. leaves = 1 => 1 \in 1 .. leaves /\ n + 1 - 1 = n
    BY <1>2
  <2> QED BY <1>6, <2>1
<1> HIDE DEF inside, call
<1>8. /\ calls' \in Seq(Call) /\ Len(calls') = n - leaves + In(kind)
      /\ \A j \in 1 .. n - leaves : calls'[j] = calls[j]
      /\ In(kind) = 1 => calls'[n - leaves + 1] = call
  <2> HIDE DEF leaves, n
  <2>1. CASE kind \in {"enter", "transition"}
    <3>1. calls' = Append(inside, call) /\ In(kind) = 1
      BY <1>1, <2>1 DEF In
    <3>2. /\ calls' \in Seq(Call) /\ Len(calls') = Len(inside) + 1 /\ calls'[Len(inside) + 1] = call
          /\ \A j \in 1 .. Len(inside) : calls'[j] = inside[j]
      BY <1>4, <1>5, <3>1
    <3> QED BY <1>5, <3>1, <3>2
  <2>2. CASE kind \notin {"enter", "transition"}
    <3>1. calls' = inside /\ In(kind) = 0
      BY <1>1, <2>2 DEF In
    <3>2. n - leaves + 0 = n - leaves
      BY <1>1, <1>2
    <3> QED BY <1>5, <3>1, <3>2
  <2> QED BY <2>1, <2>2
<1>9. leaves <= n
  BY <1>1
<1> QED BY <1>6, <1>7, <1>8, <1>9 DEF call

(* Calls and scopes keep their types; a wave begins and ends without any. *)
LEMMA CallingKept == ASSUME TraceTypes, Calling, [Next]_vars PROVE Calling'
<1>1. ASSUME NEW k \in Kernels, StartWave(k) PROVE Calling'
  BY <1>1 DEF StartWave, Calling
<1>2. ASSUME NEW b \in BOOLEAN, EndWave(b) PROVE Calling'
  BY <1>2 DEF EndWave, Calling
<1>3. ASSUME NEW m \in UNION {Sends[k] : k \in Kernels}, NEW d \in 0 .. 1, NEW b \in BOOLEAN, Emit(m.kind, m.id, d, b)
      PROVE  Calling'
  <2>1. m.kind \in Kinds /\ m.id \in Nat
    BY MarkerAssumption
  <2>2. Running /\ UNCHANGED <<source, waves>>
    BY <1>3 DEF Emit
  <2>3. (Running <=> Running') /\ (Marked <=> Marked')
    BY <2>2 DEF Running, Marked, KnownObject, OccupancyObject, NamedObject
  <2>4. CASE Marked
    BY <1>3, <2>1, <2>2, <2>3, <2>4, MarkedSends DEF Calling
  <2>5. CASE ~Marked
    <3>1. UNCHANGED <<calls, scopes, phase>>
      BY <1>3, <2>5 DEF Emit
    <3> QED BY <2>2, <2>3, <3>1 DEF Calling
  <2> QED BY <2>4, <2>5
<1>4. CASE Stop
  <2>1. scopes' = scopes \o Left(Len(calls), Forever) /\ calls' = <<>>
    BY <1>4 DEF Stop
  <2>2. Len(calls) \in 0 .. Len(calls) /\ Forever \in Nat
    BY MarkerAssumption DEF Calling
  <2>3. scopes' \in Seq(LeftScope)
    BY <2>1, <2>2, LeftAdds DEF Calling
  <2> QED BY <2>1, <2>3 DEF Calling
<1>5. CASE \/ Walk \/ Drain \/ Sort \/ Merge \/ \E t \in 0 .. clock : Attribute(t)
  <2>1. phase' # "trace" /\ UNCHANGED <<calls, scopes>>
    BY <1>5 DEF Walk, Drain, Sort, Merge, Attribute, traced
  <2> QED BY <2>1 DEF Calling
<1>6. CASE UNCHANGED vars
  <2>1. UNCHANGED <<calls, scopes, phase, waves, source>>
    BY <1>6 DEF vars, traced
  <2> QED BY <2>1 DEF Calling, Running, Marked, KnownObject, OccupancyObject, NamedObject
<1> QED BY <1>1, <1>2, <1>3, <1>4, <1>5, <1>6 DEF Next

-------------------------------------------------------------------------------
(* The history of the scopes *)

(* From before the n-th record to after it: which calls are open and how   *)
(* many scopes were left.                                                  *)
Moved(n, own, cs, k) ==
  LET o == KnownOf(waves[own[n]].kernel)
      r == records[n]
      c == cs[n - 1]
  IN  IF HasMarks(o)
      THEN /\ Out(r.kind) <= Len(c) /\ Len(cs[n]) = Len(c) - Out(r.kind) + In(r.kind)
           /\ k[n] = k[n - 1] + Out(r.kind)
           /\ \A j \in 1 .. Len(c) - Out(r.kind) : cs[n][j] = c[j]
           /\ Out(r.kind) = 1 => scopes[k[n]] = ScopeOf(c, Len(c), r.time)
           /\ In(r.kind) = 1 => /\ Meaning(o, r.id) # "none"
                                /\ cs[n][Len(c) - Out(r.kind) + 1] = [name |-> NameIn(o, r.id), enter |-> r.time]
      ELSE c = <<>> /\ cs[n] = <<>> /\ k[n] = k[n - 1]

(* The waves that sent the records, the calls before the first and after   *)
(* each, and how many scopes were left by then.                            *)
History(own, cs, k) ==
  /\ own \in [1 .. Len(records) -> 1 .. Len(waves)]
  /\ cs \in [0 .. Len(records) -> Seq(Call)] /\ k \in [0 .. Len(records) -> Nat]
  /\ cs[0] = <<>> /\ k[0] = 0
  /\ \A n \in 0 .. Len(records) : k[n] <= Len(scopes)
  /\ \A n \in 1 .. Len(records) : At(own[n], records[n].time) /\ Moved(n, own, cs, k)

(* While the trace is taken the last of them are those of now; at its end  *)
(* the waves and all calls are over.                                       *)
UpToNow(cs, k) == cs[Len(records)] = calls /\ k[Len(records)] = Len(scopes)
AllOver(cs, k) ==
  LET c == cs[Len(records)]
  IN  /\ Len(scopes) = k[Len(records)] + Len(c)
      /\ \A q \in 1 .. Len(c) : scopes[k[Len(records)] + q] = ScopeOf(c, Len(c) + 1 - q, Forever)
      /\ \A i \in 1 .. Len(waves) : waves[i].end <= clock

(* What was goes on to be so. *)
WavesGoOn ==
  /\ Len(waves') \in Nat /\ Len(waves) <= Len(waves')
  /\ \A i \in 1 .. Len(waves) : /\ waves'[i].begin = waves[i].begin /\ waves'[i].kernel = waves[i].kernel
                                /\ waves'[i].end \in {waves[i].end, clock}
ScopesGoOn ==
  /\ Len(scopes) \in Nat /\ Len(scopes') \in Nat /\ Len(scopes) <= Len(scopes')
  /\ \A q \in 1 .. Len(scopes) : scopes'[q] = scopes[q]

(* A token that moved the calls goes on to have moved them. *)
LEMMA MovedKept ==
  ASSUME source' = source, WavesGoOn, ScopesGoOn, NEW n, NEW own, NEW cs, NEW k, records'[n] = records[n],
         own[n] \in 1 .. Len(waves), k[n - 1] \in Nat, k[n] \in Nat, k[n] <= Len(scopes), Moved(n, own, cs, k)
  PROVE  Moved(n, own, cs, k)'
<1> DEFINE o == KnownOf(waves[own[n]].kernel)
<1>1. waves'[own[n]].kernel = waves[own[n]].kernel
  BY DEF WavesGoOn
<1>2. KnownOf(waves[own[n]].kernel)' = o
  BY <1>1 DEF KnownOf, OccupancyObject, NamedObject
<1>3. /\ HasMarks(KnownOf(waves[own[n]].kernel))' <=> HasMarks(o)
      /\ Meaning(KnownOf(waves[own[n]].kernel), records[n].id)' = Meaning(o, records[n].id)
      /\ NameIn(KnownOf(waves[own[n]].kernel), records[n].id)' = NameIn(o, records[n].id)
  BY <1>2 DEF HasMarks, Meaning, NameIn
<1> HIDE DEF o
<1>4. CASE ~HasMarks(o)
  BY <1>3, <1>4 DEF Moved, o
<1>5. CASE HasMarks(o)
  <2> DEFINE c == cs[n - 1]  r == records[n]
  <2>1. /\ Out(r.kind) <= Len(c) /\ Len(cs[n]) = Len(c) - Out(r.kind) + In(r.kind)
        /\ k[n] = k[n - 1] + Out(r.kind)
        /\ \A j \in 1 .. Len(c) - Out(r.kind) : cs[n][j] = c[j]
        /\ Out(r.kind) = 1 => scopes[k[n]] = ScopeOf(c, Len(c), r.time)
        /\ In(r.kind) = 1 => /\ Meaning(o, r.id) # "none"
                             /\ cs[n][Len(c) - Out(r.kind) + 1] = [name |-> NameIn(o, r.id), enter |-> r.time]
    BY <1>5 DEF Moved, o
  <2>2. Out(r.kind) = 1 => scopes'[k[n]] = ScopeOf(c, Len(c), r.time)
    <3>1. Out(r.kind) = 1 => k[n] \in 1 .. Len(scopes)
      BY <2>1
    <3> QED BY <2>1, <3>1 DEF ScopesGoOn
  <2> QED BY <1>3, <1>5, <2>1, <2>2, Zenon DEF Moved
<1> QED BY <1>4, <1>5

(* So does a whole history, when waves and scopes only grow. *)
LEMMA HistoryKept ==
  ASSUME TraceTypes, NEW own, NEW cs, NEW k, History(own, cs, k), UNCHANGED <<source, records>>, WavesGoOn, ScopesGoOn
  PROVE  History(own, cs, k)'
<1> DEFINE n == Len(records)
<1>1. /\ own \in [1 .. n -> 1 .. Len(waves)] /\ k \in [0 .. n -> Nat] /\ n \in Nat /\ Len(waves) \in Nat
      /\ \A m \in 0 .. n : k[m] <= Len(scopes)
      /\ \A m \in 1 .. n : records[m].time \in Nat /\ records[m].time <= clock
  BY TypedRecords, TypedWaves DEF History
<1>2. own \in [1 .. n -> 1 .. Len(waves')]
  BY <1>1 DEF WavesGoOn
<1>3. \A m \in 0 .. n : k[m] <= Len(scopes')
  <2>1. \A m \in 0 .. n : k[m] \in Nat
    BY <1>1
  <2> QED BY <1>1, <2>1 DEF ScopesGoOn
<1>4. ASSUME NEW m \in 1 .. n PROVE At(own[m], records[m].time)'
  <2>1. /\ own[m] \in 1 .. Len(waves) /\ own[m] \in 1 .. Len(waves')
        /\ waves[own[m]].begin < records[m].time /\ records[m].time <= waves[own[m]].end
    BY <1>1, <1>2 DEF History, At
  <2>2. waves'[own[m]].begin < records[m].time /\ records[m].time <= waves'[own[m]].end
    BY <1>1, <2>1 DEF WavesGoOn
  <2> QED BY <2>1, <2>2 DEF At
<1>5. ASSUME NEW m \in 1 .. n PROVE Moved(m, own, cs, k)'
  <2>1. m - 1 \in 0 .. n /\ m \in 0 .. n
    BY <1>1
  <2>2. own[m] \in 1 .. Len(waves) /\ k[m - 1] \in Nat /\ k[m] \in Nat /\ k[m] <= Len(scopes) /\ Moved(m, own, cs, k)
    BY <1>1, <2>1 DEF History
  <2> QED BY <2>2, MovedKept
<1>6. cs \in [0 .. n -> Seq(Call)] /\ cs[0] = <<>> /\ k[0] = 0
  BY DEF History
<1>7. records' = records
  OBVIOUS
<1> QED BY <1>1, <1>2, <1>3, <1>4, <1>5, <1>6, <1>7 DEF History

(* A wave that starts changes nothing of the history. *)
LEMMA StartWaveHistory ==
  ASSUME TraceTypes, Calling, NEW own, NEW cs, NEW k, History(own, cs, k), UpToNow(cs, k), NEW x, StartWave(x)
  PROVE  History(own, cs, k)' /\ UpToNow(cs, k)'
<1>1. UNCHANGED <<source, records, scopes, calls>>
  BY DEF StartWave
<1>2. ScopesGoOn
  BY <1>1 DEF ScopesGoOn, Calling
<1>3. WavesGoOn
  <2> DEFINE w == [kernel |-> x, begin |-> clock', end |-> Forever]
  <2>1. waves' = Append(waves, w) /\ waves \in Seq(Wave)
    BY DEF StartWave, TraceTypes
  <2> HIDE DEF w
  <2>2. Len(waves) \in Nat /\ Len(waves') = Len(waves) + 1 /\ \A i \in 1 .. Len(waves) : waves'[i] = waves[i]
    BY <2>1
  <2> QED BY <2>2 DEF WavesGoOn
<1>4. History(own, cs, k)'
  BY <1>1, <1>2, <1>3, HistoryKept
<1> QED BY <1>1, <1>4 DEF UpToNow

(* A wave that ends in no scope changes nothing of the history. *)
LEMMA EndWaveHistory ==
  ASSUME TraceTypes, Calling, NEW own, NEW cs, NEW k, History(own, cs, k), UpToNow(cs, k),
         NEW b \in BOOLEAN, EndWave(b), calls = <<>>
  PROVE  History(own, cs, k)' /\ UpToNow(cs, k)'
<1>1. UNCHANGED <<source, records, scopes>> /\ calls' = <<>> /\ Running /\ waves' = [waves EXCEPT ![Len(waves)].end = clock]
  BY DEF EndWave
<1>2. ScopesGoOn
  BY <1>1 DEF ScopesGoOn, Calling
<1>3. EndedNow(waves')
  BY <1>1, EndIsNow
<1>4. WavesGoOn
  BY <1>3, TypedWaves DEF WavesGoOn, EndedNow
<1>5. History(own, cs, k)'
  BY <1>1, <1>2, <1>4, HistoryKept
<1> QED BY <1>1, <1>5 DEF UpToNow

(* The trace ends. *)
LEMMA StopHistory ==
  ASSUME TraceTypes, Slots, Calling, NEW own, NEW cs, NEW k, History(own, cs, k), UpToNow(cs, k), Stop
  PROVE  History(own, cs, k)' /\ AllOver(cs, k)'
<1> DEFINE n == Len(records)  m == Len(calls)
<1>1. UNCHANGED <<source, records, clock>> /\ scopes' = scopes \o Left(m, Forever)
  BY DEF Stop
<1>2. m \in Nat /\ m \in 0 .. m /\ Forever \in Nat
  BY MarkerAssumption DEF Calling
<1>3. /\ scopes' \in Seq(LeftScope) /\ Len(scopes') = Len(scopes) + m
      /\ \A q \in 1 .. Len(scopes) : scopes'[q] = scopes[q]
      /\ \A q \in 1 .. m : scopes'[Len(scopes) + q] = ScopeOf(calls, m + 1 - q, Forever)
  BY <1>1, <1>2, LeftAdds DEF Calling
<1>4. ScopesGoOn
  <2>1. Len(scopes) \in Nat /\ Len(scopes') \in Nat
    BY <1>3 DEF Calling
  <2> QED BY <1>2, <1>3, <2>1 DEF ScopesGoOn
<1>5. WavesGoOn /\ \A i \in 1 .. Len(waves') : waves'[i].end <= clock
  <2>1. CASE Running
    <3>1. EndedNow(waves')
      BY <2>1, EndIsNow DEF Stop
    <3>2. WavesGoOn /\ Len(waves') = Len(waves)
      BY <3>1, TypedWaves DEF WavesGoOn, EndedNow
    <3>3. ASSUME NEW i \in 1 .. Len(waves) PROVE waves'[i].end <= clock
      <4>1. waves'[i].end = IF i = Len(waves) THEN clock ELSE waves[i].end
        BY <3>1 DEF EndedNow
      <4>2. waves[i].end <= clock \/ i = Len(waves)
        BY DEF Slots
      <4>3. clock <= clock
        BY TypedWaves
      <4> HIDE DEF n, m
      <4>4. CASE i = Len(waves)
        BY <4>1, <4>3, <4>4
      <4>5. CASE i # Len(waves)
        BY <4>1, <4>2, <4>5
      <4> QED BY <4>4, <4>5
    <3> QED BY <3>2, <3>3
  <2>2. CASE ~Running
    <3>1. waves' = waves
      BY <2>2 DEF Stop
    <3>2. ASSUME NEW i \in 1 .. Len(waves) PROVE waves[i].end <= clock
      <4>1. waves[i].end <= clock \/ (i = Len(waves) /\ waves[i].end = Forever)
        BY DEF Slots
      <4>2. waves # <<>>
        BY TypedWaves
      <4> QED BY <2>2, <4>1, <4>2 DEF Running, Last
    <3> QED BY <3>1, <3>2, TypedWaves DEF WavesGoOn
  <2> QED BY <2>1, <2>2
<1>6. History(own, cs, k)'
  BY <1>1, <1>4, <1>5, HistoryKept
<1>7. AllOver(cs, k)'
  BY <1>1, <1>3, <1>5 DEF AllOver, UpToNow
<1> QED BY <1>6, <1>7

(* What is known of the wave that runs is known by its kernel. *)
LEMMA KnownNow ==
  ASSUME TraceTypes, Running
  PROVE  KnownObject = KnownOf(waves[Len(waves)].kernel) /\ (Marked <=> HasMarks(KnownObject))
<1>1. Last(waves) = waves[Len(waves)]
  BY RunningWave
<1> QED BY <1>1 DEF KnownObject, KnownOf, Marked, HasMarks

(* A token that the wave which runs sends is the next of the history. *)
LEMMA EmitMoved ==
  ASSUME TraceTypes, Slots, Calling, NEW kind \in Kinds, NEW id \in Nat, NEW d \in 0 .. 1, Emit(kind, id, d, TRUE),
         dirt' = {}, NEW n \in Nat, NEW own, NEW cs, NEW k, records'[n] = [time |-> clock', kind |-> kind, id |-> id],
         own[n] = Len(waves), cs[n - 1] = calls, cs[n] = calls', k[n - 1] = Len(scopes), k[n] = Len(scopes')
  PROVE  Moved(n, own, cs, k)'
<1> DEFINE o == KnownOf(waves[Len(waves)].kernel)
<1>1. Running /\ UNCHANGED <<source, waves>> /\ (Marked /\ In(kind) = 1 => Meaning(KnownObject, id) # "none")
  <2> DEFINE unseen == Marked /\ kind \in {"enter", "transition"} /\ Meaning(KnownObject, id) = "none"
  <2>1. /\ Running /\ source' = source /\ waves' = waves
        /\ dirt' = dirt \cup (IF unseen THEN {"blind"} ELSE {}) \cup (IF TRUE THEN {} ELSE {"lost"})
    BY DEF Emit
  <2> HIDE DEF unseen
  <2>2. ~unseen
    BY <2>1
  <2>3. In(kind) = 1 => kind \in {"enter", "transition"}
    BY DEF In
  <2> QED BY <2>1, <2>2, <2>3 DEF unseen
<1>2. KnownObject = o /\ (Marked <=> HasMarks(o))
  BY <1>1, KnownNow
<1>3. KnownOf(waves[own[n]].kernel)' = o
  BY <1>1 DEF KnownOf, OccupancyObject, NamedObject
<1>4. /\ HasMarks(KnownOf(waves[own[n]].kernel))' <=> HasMarks(o)
      /\ Meaning(KnownOf(waves[own[n]].kernel), id)' = Meaning(o, id)
      /\ NameIn(KnownOf(waves[own[n]].kernel), id)' = NameIn(o, id)
  BY <1>1, <1>3 DEF HasMarks, Meaning, NameIn
<1> DEFINE r == records'[n]
<1>5. r.kind = kind /\ r.id = id /\ r.time = clock'
  OBVIOUS
<1> HIDE DEF o, r
<1>6. CASE ~Marked
  <2>1. UNCHANGED <<calls, scopes>>
    BY <1>6 DEF Emit
  <2>2. calls = <<>>
    BY <1>6 DEF Calling, Emit
  <2> QED BY <1>2, <1>4, <1>6, <2>1, <2>2 DEF Moved, o
<1>7. CASE Marked
  <2>1. /\ Out(kind) <= Len(calls) /\ Len(calls') = Len(calls) - Out(kind) + In(kind)
        /\ Len(scopes') = Len(scopes) + Out(kind)
        /\ \A j \in 1 .. Len(calls) - Out(kind) : calls'[j] = calls[j]
        /\ In(kind) = 1 => calls'[Len(calls) - Out(kind) + 1] = [name |-> NameIn(KnownObject, id), enter |-> clock']
        /\ Out(kind) = 1 => scopes'[Len(scopes) + 1] = ScopeOf(calls, Len(calls), clock')
    BY <1>7, MarkedSends
  <2>2. Out(kind) = 1 => scopes'[Len(scopes')] = ScopeOf(calls, Len(calls), clock')
    BY <2>1
  <2>3. In(kind) = 1 => Meaning(o, id) # "none" /\ calls'[Len(calls) - Out(kind) + 1] = [name |-> NameIn(o, id), enter |-> clock']
    BY <1>1, <1>2, <1>7, <2>1
  <2>4. HasMarks(KnownOf(waves[own[n]].kernel))'
    BY <1>2, <1>4, <1>7
  <2>5. /\ Out(r.kind) <= Len(cs[n - 1]) /\ Len(cs[n]) = Len(cs[n - 1]) - Out(r.kind) + In(r.kind)
        /\ k[n] = k[n - 1] + Out(r.kind)
        /\ \A j \in 1 .. Len(cs[n - 1]) - Out(r.kind) : cs[n][j] = cs[n - 1][j]
        /\ Out(r.kind) = 1 => scopes'[k[n]] = ScopeOf(cs[n - 1], Len(cs[n - 1]), r.time)
    BY <1>5, <2>1, <2>2
  <2>6. In(r.kind) = 1 => /\ Meaning(o, r.id) # "none"
                          /\ cs[n][Len(cs[n - 1]) - Out(r.kind) + 1] = [name |-> NameIn(o, r.id), enter |-> r.time]
    BY <1>5, <2>3
  <2> QED BY <1>4, <1>5, <2>4, <2>5, <2>6, Zenon DEF Moved, r
<1> QED BY <1>6, <1>7

(* With that token the history is one record longer, and up to now again. *)
LEMMA EmitHistory ==
  ASSUME TraceTypes, Slots, Calling, NEW own, NEW cs, NEW k, History(own, cs, k), UpToNow(cs, k),
         NEW kind \in Kinds, NEW id \in Nat, NEW d \in 0 .. 1, NEW b \in BOOLEAN, Emit(kind, id, d, b), dirt' = {}
  PROVE  \E own2, cs2, k2 : History(own2, cs2, k2)' /\ UpToNow(cs2, k2)'
<1> DEFINE n == Len(records)  l == Len(waves)
<1>1. b = TRUE
  BY DEF Emit
<1>2. /\ Running /\ UNCHANGED <<source, waves>> /\ clock' = clock + d /\ clock + d > Last(waves).begin /\ clock + d < Forever
      /\ records' = Append(records, [time |-> clock', kind |-> kind, id |-> id])
  BY <1>1 DEF Emit
<1>3. /\ own \in [1 .. n -> 1 .. l] /\ cs \in [0 .. n -> Seq(Call)] /\ k \in [0 .. n -> Nat] /\ n \in Nat /\ l \in Nat
      /\ cs[0] = <<>> /\ k[0] = 0 /\ cs[n] = calls /\ k[n] = Len(scopes)
      /\ (\A m \in 0 .. n : k[m] <= Len(scopes)) /\ records \in Seq(Record)
  BY TypedRecords, TypedWaves DEF History, UpToNow, TraceTypes
<1>4. l \in 1 .. l /\ waves[l].begin < clock' /\ clock' <= waves[l].end /\ clock' \in Nat
  <2>1. l \in 1 .. l /\ Last(waves) = waves[l] /\ waves[l].end = Forever
    BY <1>2, RunningWave
  <2>2. waves[l].begin \in Nat /\ clock \in Nat /\ Forever \in Nat
    BY <2>1, TypedWaves
  <2> QED BY <1>2, <2>1, <2>2
<1>5. /\ Len(records') = n + 1 /\ records'[n + 1] = [time |-> clock', kind |-> kind, id |-> id]
      /\ \A m \in 1 .. n : records'[m] = records[m]
  BY <1>2, <1>3
<1>6. calls' \in Seq(Call) /\ Len(scopes') \in Nat /\ ScopesGoOn
  <2>1. CASE Marked
    <3>1. /\ calls' \in Seq(Call) /\ scopes' \in Seq(LeftScope) /\ Len(scopes') = Len(scopes) + Out(kind)
          /\ \A q \in 1 .. Len(scopes) : scopes'[q] = scopes[q]
      BY <2>1, MarkedSends
    <3>2. Len(scopes) \in Nat /\ Out(kind) \in Nat /\ Len(scopes') \in Nat
      BY <3>1 DEF Calling, Out
    <3> QED BY <3>1, <3>2 DEF ScopesGoOn
  <2>2. CASE ~Marked
    BY <2>2 DEF Emit, Calling, ScopesGoOn
  <2> QED BY <2>1, <2>2
<1>7. WavesGoOn
  BY <1>2, <1>3 DEF WavesGoOn
<1>8. PICK own2 : own2 = [m \in 1 .. n + 1 |-> IF m = n + 1 THEN l ELSE own[m]]
  OBVIOUS
<1>9. PICK cs2 : cs2 = [m \in 0 .. n + 1 |-> IF m = n + 1 THEN calls' ELSE cs[m]]
  OBVIOUS
<1>10. PICK k2 : k2 = [m \in 0 .. n + 1 |-> IF m = n + 1 THEN Len(scopes') ELSE k[m]]
  OBVIOUS
<1>11. /\ own2[n + 1] = l /\ cs2[n + 1] = calls' /\ k2[n + 1] = Len(scopes')
       /\ \A m \in 1 .. n : own2[m] = own[m]
       /\ \A m \in 0 .. n : cs2[m] = cs[m] /\ k2[m] = k[m]
       /\ 0 \in 0 .. n /\ n \in 0 .. n
  BY <1>3, <1>8, <1>9, <1>10
<1>12. /\ own2 \in [1 .. n + 1 -> 1 .. l] /\ cs2 \in [0 .. n + 1 -> Seq(Call)] /\ k2 \in [0 .. n + 1 -> Nat]
  <2>1. own2 \in [1 .. n + 1 -> 1 .. l]
    BY <1>3, <1>4, <1>8
  <2>2. cs2 \in [0 .. n + 1 -> Seq(Call)]
    BY <1>3, <1>6, <1>9
  <2>3. k2 \in [0 .. n + 1 -> Nat]
    BY <1>3, <1>6, <1>10
  <2> QED BY <2>1, <2>2, <2>3
<1>13. \A m \in 0 .. n + 1 : k2[m] <= Len(scopes')
  <2>1. ASSUME NEW m \in 0 .. n PROVE k[m] <= Len(scopes')
    <3>1. k[m] \in Nat /\ k[m] <= Len(scopes)
      BY <1>3
    <3>2. Len(scopes) \in Nat /\ Len(scopes') \in Nat /\ Len(scopes) <= Len(scopes')
      BY <1>6 DEF ScopesGoOn
    <3> QED BY <3>1, <3>2
  <2>2. ASSUME NEW m \in 0 .. n + 1 PROVE k2[m] <= Len(scopes')
    <3>1. CASE m = n + 1
      BY <1>6, <1>11, <3>1
    <3>2. CASE m # n + 1
      <4>1. m \in 0 .. n
        BY <1>3, <3>2
      <4> QED BY <1>11, <2>1, <4>1
    <3> QED BY <3>1, <3>2
  <2> QED BY <2>2
<1>14. ASSUME NEW m \in 1 .. n + 1 PROVE At(own2[m], records[m].time)' /\ Moved(m, own2, cs2, k2)'
  <2>1. CASE m = n + 1
    <3>1. At(own2[m], records[m].time)'
      BY <1>2, <1>4, <1>5, <1>11, <2>1 DEF At
    <3>2. /\ m \in Nat /\ own2[m] = l /\ cs2[m - 1] = calls /\ cs2[m] = calls' /\ k2[m - 1] = Len(scopes) /\ k2[m] = Len(scopes')
          /\ records'[m] = [time |-> clock', kind |-> kind, id |-> id]
      BY <1>3, <1>5, <1>11, <2>1
    <3>3. Emit(kind, id, d, TRUE)
      BY <1>1
    <3>4. Moved(m, own2, cs2, k2)'
      BY <3>2, <3>3, EmitMoved
    <3> QED BY <3>1, <3>4
  <2>2. CASE m # n + 1
    <3>1. m \in 1 .. n /\ m - 1 \in 0 .. n /\ m \in 0 .. n
      BY <1>3, <2>2
    <3>2. /\ own2[m] = own[m] /\ cs2[m] = cs[m] /\ cs2[m - 1] = cs[m - 1] /\ k2[m] = k[m] /\ k2[m - 1] = k[m - 1]
          /\ records'[m] = records[m]
      BY <1>5, <1>11, <3>1
    <3>3. At(own[m], records[m].time) /\ Moved(m, own, cs, k)
      BY <3>1 DEF History
    <3>4. At(own2[m], records[m].time)'
      BY <1>2, <3>2, <3>3 DEF At
    <3>5. own[m] \in 1 .. l /\ k[m - 1] \in Nat /\ k[m] \in Nat /\ k[m] <= Len(scopes)
      BY <1>3, <3>1
    <3>6. Moved(m, own, cs, k)'
      BY <1>2, <1>6, <1>7, <3>2, <3>3, <3>5, MovedKept
    <3>7. Moved(m, own2, cs2, k2)'
      BY <3>2, <3>6 DEF Moved
    <3> QED BY <3>4, <3>7
  <2> QED BY <2>1, <2>2
<1>15. History(own2, cs2, k2)'
  <2>1. cs2[0] = <<>> /\ k2[0] = 0 /\ Len(waves') = l
    BY <1>2, <1>3, <1>11
  <2> HIDE DEF n, l
  <2> QED BY <1>5, <1>12, <1>13, <1>14, <2>1 DEF History
<1>16. UpToNow(cs2, k2)'
  BY <1>5, <1>11 DEF UpToNow
<1> QED BY <1>15, <1>16

-------------------------------------------------------------------------------
(* The walk follows the history *)

(* The stack is the outermost of the calls; the first spans that are no    *)
(* points are the first scopes.                                            *)
Matches(st, c) ==
  Len(st) <= Len(c) /\ \A j \in 1 .. Len(st) : st[j].name = c[j].name /\ st[j].enter = c[j].enter
PlaceIn(sp, i) == Cardinality({j \in 1 .. i : ~sp[j].point})
Placed(sc, sp, m) ==
  PlaceIn(sp, Len(sp)) = m /\ \A i \in 1 .. Len(sp) : ~sp[i].point => sc[PlaceIn(sp, i)] = Scope(sp[i])

(* One more span takes one more place, unless it is a point. *)
LEMMA PlacedOneMore ==
  ASSUME NEW sc, NEW sp \in Seq(Span), NEW m \in Nat, NEW e \in Span, Placed(sc, sp, m),
         ~e.point => sc[m + 1] = Scope(e)
  PROVE  Placed(sc, Append(sp, e), IF e.point THEN m ELSE m + 1)
<1> DEFINE n == Len(sp)  sq == Append(sp, e)  in(s, i) == {j \in 1 .. i : ~s[j].point}
<1>1. n \in Nat /\ Len(sq) = n + 1 /\ sq[n + 1] = e /\ \A j \in 1 .. n : sq[j] = sp[j]
  BY AppendedSpan
<1> HIDE DEF n, sq
<1>2. \A i \in 0 .. n : PlaceIn(sq, i) = PlaceIn(sp, i)
  <2> SUFFICES ASSUME NEW i \in 0 .. n PROVE in(sq, i) = in(sp, i)
    BY DEF PlaceIn
  <2> QED BY <1>1
<1>3. PlaceIn(sq, n) = m
  BY <1>1, <1>2 DEF Placed, n
<1>4. PlaceIn(sq, n + 1) = IF e.point THEN m ELSE m + 1
  <2>1. CASE e.point
    <3>1. in(sq, n + 1) = in(sq, n)
      BY <1>1, <2>1
    <3> QED BY <1>3, <2>1, <3>1 DEF PlaceIn
  <2>2. CASE ~e.point
    <3>1. in(sq, n + 1) = in(sq, n) \cup {n + 1} /\ n + 1 \notin in(sq, n)
      BY <1>1, <2>2
    <3>2. IsFiniteSet(in(sq, n))
      <4>1. IsFiniteSet(1 .. n) /\ in(sq, n) \subseteq 1 .. n
        BY <1>1, FS_Interval
      <4> QED BY <4>1, FS_Subset
    <3> HIDE DEF in
    <3>3. Cardinality(in(sq, n) \cup {n + 1}) = Cardinality(in(sq, n)) + 1
      BY <3>1, <3>2, FS_AddElement
    <3> QED BY <1>3, <2>2, <3>1, <3>3 DEF PlaceIn, in
  <2> QED BY <2>1, <2>2
<1>5. ASSUME NEW i \in 1 .. n + 1, ~sq[i].point PROVE sc[PlaceIn(sq, i)] = Scope(sq[i])
  <2>1. CASE i \in 1 .. n
    <3>1. PlaceIn(sq, i) = PlaceIn(sp, i) /\ sq[i] = sp[i]
      BY <1>1, <1>2, <2>1
    <3> QED BY <1>5, <2>1, <3>1 DEF Placed, n
  <2>2. CASE i = n + 1
    BY <1>1, <1>4, <1>5, <2>2
  <2> QED BY <1>1, <2>1, <2>2
<1> QED BY <1>1, <1>4, <1>5 DEF Placed, sq

(* The scope on top of the stack is left as the call it matches. *)
LEMMA LeftMatches ==
  ASSUME NEW st \in Seq(Entry), NEW c, Len(st) > 0, Matches(st, c), NEW t \in Nat,
         st[Len(st)].depth = Len(st) - 1
  PROVE  /\ Closed(Last(st), t) \in Span /\ ~Closed(Last(st), t).point
         /\ Scope(Closed(Last(st), t)) = ScopeOf(c, Len(st), t)
         /\ Front(st) \in Seq(Entry) /\ Len(Front(st)) = Len(st) - 1
         /\ \A j \in 1 .. Len(st) - 1 : Front(st)[j] = st[j]
<1>1. Last(st) = st[Len(st)] /\ Len(st) \in 1 .. Len(st)
  BY DEF Last
<1>2. Closed(Last(st), t) \in Span /\ Closed(Last(st), t).point = FALSE
  BY ClosedSpan
<1>3. st[Len(st)].name = c[Len(st)].name /\ st[Len(st)].enter = c[Len(st)].enter
  BY <1>1 DEF Matches
<1>4. Scope(Closed(Last(st), t)) = ScopeOf(c, Len(st), t)
  BY <1>1, <1>3 DEF Closed, Scope, ScopeOf
<1> QED BY <1>2, <1>4, FrontOfStack

(* Where the walk is in the history. *)
Follow(cs, k) ==
  LET c == cs[pos - 1]
  IN  /\ orphans = {} /\ Matches(stack, c) /\ (pos <= Len(records) => Len(stack) = Len(c))
      /\ Placed(scopes, spans, k[pos - 1] + Len(c) - Len(stack))

(* Code without markers resolves nothing. *)
LEMMA NoMarks == ASSUME NEW o, ~HasMarks(o), NEW id PROVE Meaning(o, id) = "none"
BY DEF HasMarks, Meaning

(* What the walk reads of the history. *)
LEMMA WalkReads ==
  ASSUME IInv, Slots, NEW own, NEW cs, NEW k, History(own, cs, k), AllOver(cs, k), Follow(cs, k),
         phase = "walk", pos <= Len(records)
  PROVE  /\ pos \in 1 .. Len(records) /\ pos - 1 \in 0 .. Len(records) /\ pos \in 0 .. Len(records)
         /\ cs[pos - 1] \in Seq(Call) /\ cs[pos] \in Seq(Call) /\ k[pos - 1] \in Nat /\ k[pos] \in Nat
         /\ Moved(pos, own, cs, k) /\ own[pos] \in 1 .. Len(waves)
         /\ ObjectAt(Rec.time) = KnownOf(waves[own[pos]].kernel)
         /\ Len(stack) = Len(cs[pos - 1]) /\ Matches(stack, cs[pos - 1]) /\ Placed(scopes, spans, k[pos - 1]) /\ orphans = {}
<1>1. pos \in 1 .. Len(records) /\ pos - 1 \in 0 .. Len(records) /\ pos \in 0 .. Len(records) /\ Len(records) \in Nat /\ TraceTypes
  BY TypedRecords DEF IInv, WalkTypes
<1>2. /\ cs[pos - 1] \in Seq(Call) /\ cs[pos] \in Seq(Call) /\ k[pos - 1] \in Nat /\ k[pos] \in Nat
      /\ Moved(pos, own, cs, k) /\ own[pos] \in 1 .. Len(waves) /\ At(own[pos], records[pos].time)
  BY <1>1 DEF History
<1>3. ObjectAt(Rec.time) = KnownOf(waves[own[pos]].kernel)
  <2>1. Rec.time \in Nat /\ waves[own[pos]].end <= clock /\ At(own[pos], Rec.time)
    BY <1>1, <1>2, TypedRecords DEF Rec, AllOver
  <2> QED BY <1>1, <2>1, ObjectIsKnown
<1>4. /\ Len(stack) = Len(cs[pos - 1]) /\ Matches(stack, cs[pos - 1]) /\ orphans = {}
      /\ Placed(scopes, spans, k[pos - 1] + Len(cs[pos - 1]) - Len(stack))
  BY DEF Follow
<1>5. k[pos - 1] + Len(cs[pos - 1]) - Len(stack) = k[pos - 1]
  <2>1. Len(cs[pos - 1]) \in Nat
    BY <1>2
  <2> QED BY <1>2, <1>4, <2>1
<1> QED BY <1>1, <1>2, <1>3, <1>4, <1>5

(* One record: what it has to do so that the walk still follows. *)
LEMMA FollowsOn ==
  ASSUME NEW cs, NEW k, pos \in Nat, UNCHANGED traced, pos' = pos + 1, orphans' = {}, cs[pos] \in Seq(Call), k[pos] \in Nat,
         Len(stack') = Len(cs[pos]), Matches(stack', cs[pos]), Placed(scopes, spans', k[pos])
  PROVE  Follow(cs, k)'
<1>1. pos' - 1 = pos /\ scopes' = scopes
  BY DEF traced
<1>2. k[pos] + Len(cs[pos]) - Len(stack') = k[pos]
  <2>1. Len(cs[pos]) \in Nat
    OBVIOUS
  <2> QED BY <2>1
<1> QED BY <1>1, <1>2 DEF Follow

(* A record of a wave without markers changes nothing. *)
LEMMA WalkUnmarked ==
  ASSUME IInv, NEW o, ~HasMarks(o), ObjectAt(Rec.time) = o, Len(stack) = 0, orphans = {}, Walk
  PROVE  stack' = stack /\ spans' = spans /\ orphans' = {}
<1>1. \A id : Resolve(id, Rec.time) = "none"
  BY NoMarks DEF Resolve
<1>2. \A id : Pushed(stack, id, Rec.time) = stack
  BY <1>1 DEF Pushed
<1>3. ~(Depth > 0)
  BY DEF Depth
<1>4. CASE Exit
  BY <1>1, <1>3, <1>4 DEF Exit
<1>5. CASE Transition
  BY <1>1, <1>2, <1>3, <1>5 DEF Transition
<1>6. CASE Enter
  BY <1>2, <1>6 DEF Enter
<1>7. CASE Point
  BY <1>1, <1>7 DEF Point
<1> QED BY <1>4, <1>5, <1>6, <1>7 DEF Walk

(* A scope that is entered is pushed as its call. *)
LEMMA PushedMatches ==
  ASSUME TraceTypes, NEW st \in Seq(Entry), NEW c, NEW id \in Nat, NEW t \in Nat, NEW o, ObjectAt(t) = o, Meaning(o, id) # "none",
         \A j \in 1 .. Len(st) : st[j].name = c[j].name /\ st[j].enter = c[j].enter,
         Len(c) = Len(st) + 1, c[Len(st) + 1] = [name |-> NameIn(o, id), enter |-> t]
  PROVE  Len(Pushed(st, id, t)) = Len(c) /\ Matches(Pushed(st, id, t), c)
<1> DEFINE e == [name |-> NameAt(id, t), enter |-> t, depth |-> Len(st)]  sr == Pushed(st, id, t)  n == Len(st)
<1>1. sr = Append(st, e)
  BY DEF Pushed, Resolve
<1>2. e \in Entry /\ e.name = c[n + 1].name /\ e.enter = c[n + 1].enter
  BY ObjectsAreNumbers DEF Entry, NameAt
<1> HIDE DEF e, sr
<1>3. n \in Nat /\ Len(sr) = n + 1 /\ sr[n + 1] = e /\ \A j \in 1 .. n : sr[j] = st[j]
  BY <1>1, <1>2
<1> HIDE DEF n
<1>4. ASSUME NEW j \in 1 .. n + 1 PROVE sr[j].name = c[j].name /\ sr[j].enter = c[j].enter
  <2>1. CASE j \in 1 .. n
    BY <1>3, <2>1 DEF n
  <2>2. CASE j = n + 1
    BY <1>2, <1>3, <2>2
  <2> QED BY <1>3, <2>1, <2>2
<1>5. Len(sr) = Len(c) /\ Len(sr) <= Len(c)
  BY <1>3 DEF n
<1> QED BY <1>3, <1>4, <1>5 DEF Matches, sr

(* The innermost scope is left and its span is placed. *)
LEMMA ClosedPlaced ==
  ASSUME WalkTypes, StackInOrder(stack, Len(stack)), NEW c, NEW m \in Nat, NEW t \in Nat, Len(stack) > 0,
         Matches(stack, c), Placed(scopes, spans, m), scopes[m + 1] = ScopeOf(c, Len(stack), t)
  PROVE  /\ Placed(scopes, Append(spans, Closed(Last(stack), t)), m + 1)
         /\ Front(stack) \in Seq(Entry) /\ Len(Front(stack)) = Len(stack) - 1
         /\ \A j \in 1 .. Len(stack) - 1 : Front(stack)[j].name = c[j].name /\ Front(stack)[j].enter = c[j].enter
<1> DEFINE e == Closed(Last(stack), t)
<1>1. stack \in Seq(Entry) /\ spans \in Seq(Span) /\ Len(stack) \in 1 .. Len(stack)
  BY DEF WalkTypes
<1>2. stack[Len(stack)].depth = Len(stack) - 1
  BY <1>1 DEF StackInOrder
<1>3. /\ e \in Span /\ ~e.point /\ Scope(e) = ScopeOf(c, Len(stack), t)
      /\ Front(stack) \in Seq(Entry) /\ Len(Front(stack)) = Len(stack) - 1
      /\ \A j \in 1 .. Len(stack) - 1 : Front(stack)[j] = stack[j]
  BY <1>1, <1>2, LeftMatches
<1>4. \A j \in 1 .. Len(stack) - 1 : j \in 1 .. Len(stack)
  BY <1>1
<1>5. \A j \in 1 .. Len(stack) - 1 : Front(stack)[j].name = c[j].name /\ Front(stack)[j].enter = c[j].enter
  BY <1>3, <1>4 DEF Matches
<1> HIDE DEF e
<1>6. Placed(scopes, Append(spans, e), m + 1)
  BY <1>1, <1>3, PlacedOneMore
<1> QED BY <1>3, <1>5, <1>6 DEF e

(* Each record moves the walk as its token moved the calls. *)
LEMMA WalkFollows ==
  ASSUME IInv, Slots, NEW own, NEW cs, NEW k, History(own, cs, k), AllOver(cs, k), Follow(cs, k), Walk
  PROVE  Follow(cs, k)'
<1> DEFINE o == KnownOf(waves[own[pos]].kernel)  c == cs[pos - 1]  d == cs[pos]  t == Rec.time  kind == Rec.kind
<1>1. phase = "walk" /\ pos <= Len(records) /\ pos' = pos + 1 /\ UNCHANGED traced
  BY DEF Walk
<1>2. /\ pos \in Nat /\ c \in Seq(Call) /\ d \in Seq(Call) /\ k[pos - 1] \in Nat /\ k[pos] \in Nat
      /\ Moved(pos, own, cs, k) /\ ObjectAt(t) = o
      /\ Len(stack) = Len(c) /\ Matches(stack, c) /\ Placed(scopes, spans, k[pos - 1]) /\ orphans = {}
  <2> HIDE DEF o
  <2> QED BY <1>1, WalkReads DEF o
<1>3. /\ WalkTypes /\ TraceTypes /\ stack \in Seq(Entry) /\ spans \in Seq(Span) /\ t \in Nat /\ Rec.id \in Nat
      /\ StackInOrder(stack, Len(stack))
  BY <1>1, WalkStart DEF IInv, Nested
<1> HIDE DEF o
<1>4. SUFFICES Len(stack') = Len(d) /\ Matches(stack', d) /\ Placed(scopes, spans', k[pos]) /\ orphans' = {}
  BY <1>1, <1>2, FollowsOn
<1>5. CASE ~HasMarks(o)
  <2>1. c = <<>> /\ d = <<>> /\ k[pos] = k[pos - 1]
    BY <1>2, <1>5 DEF Moved, o
  <2>2. Len(stack) = 0
    BY <1>2, <2>1
  <2>3. stack' = stack /\ spans' = spans /\ orphans' = {}
    BY <1>2, <1>5, <2>2, WalkUnmarked
  <2> QED BY <1>2, <2>1, <2>3
<1>6. CASE HasMarks(o)
  <2>1. /\ Out(kind) <= Len(c) /\ Len(d) = Len(c) - Out(kind) + In(kind)
        /\ k[pos] = k[pos - 1] + Out(kind)
        /\ \A j \in 1 .. Len(c) - Out(kind) : d[j] = c[j]
        /\ Out(kind) = 1 => scopes[k[pos]] = ScopeOf(c, Len(c), t)
        /\ In(kind) = 1 => /\ Meaning(o, Rec.id) # "none"
                           /\ d[Len(c) - Out(kind) + 1] = [name |-> NameIn(o, Rec.id), enter |-> t]
    BY <1>2, <1>6 DEF Moved, o, Rec
  <2>2. Len(c) \in Nat /\ \A j \in 1 .. Len(c) : stack[j].name = c[j].name /\ stack[j].enter = c[j].enter
    BY <1>2 DEF Matches
  <2> HIDE DEF c, d, t
  <2>3. CASE kind = "exit" /\ Exit
    <3>1. Out(kind) = 1 /\ In(kind) = 0
      BY <2>3 DEF Out, In
    <3>2. Depth > 0 /\ Len(stack) > 0
      BY <1>2, <2>1, <2>2, <3>1 DEF Depth
    <3>3. stack' = Front(stack) /\ spans' = Append(spans, Closed(Last(stack), t)) /\ orphans' = orphans
      BY <2>3, <3>2 DEF Exit, t
    <3>4. k[pos] = k[pos - 1] + 1 /\ scopes[k[pos - 1] + 1] = ScopeOf(c, Len(stack), t) /\ Len(d) = Len(c) - 1
      BY <1>2, <2>1, <2>2, <3>1
    <3>5. /\ Placed(scopes, spans', k[pos - 1] + 1) /\ Len(stack') = Len(stack) - 1
          /\ \A j \in 1 .. Len(stack) - 1 : stack'[j].name = c[j].name /\ stack'[j].enter = c[j].enter
      BY <1>2, <1>3, <3>2, <3>3, <3>4, ClosedPlaced
    <3>6. Len(stack') = Len(d) /\ Len(stack') <= Len(d)
      BY <1>2, <2>2, <3>4, <3>5
    <3>7. \A j \in 1 .. Len(stack') : stack'[j].name = d[j].name /\ stack'[j].enter = d[j].enter
      BY <1>2, <2>1, <3>1, <3>5
    <3> QED BY <1>2, <3>3, <3>4, <3>5, <3>6, <3>7 DEF Matches
  <2>4. CASE kind = "transition" /\ Transition
    <3> DEFINE st == Front(stack)
    <3>1. Out(kind) = 1 /\ In(kind) = 1
      BY <2>4 DEF Out, In
    <3>2. Depth > 0 /\ Len(stack) > 0
      BY <1>2, <2>1, <2>2, <3>1 DEF Depth
    <3>3. stack' = Pushed(st, Rec.id, t) /\ spans' = Append(spans, Closed(Last(stack), t)) /\ orphans' = orphans
      BY <2>4, <3>2 DEF Transition, t
    <3>4. k[pos] = k[pos - 1] + 1 /\ scopes[k[pos - 1] + 1] = ScopeOf(c, Len(stack), t) /\ Len(d) = Len(c)
      BY <1>2, <2>1, <2>2, <3>1
    <3> HIDE DEF st
    <3>5. /\ Placed(scopes, spans', k[pos - 1] + 1) /\ st \in Seq(Entry) /\ Len(st) = Len(stack) - 1
          /\ \A j \in 1 .. Len(stack) - 1 : st[j].name = c[j].name /\ st[j].enter = c[j].enter
      BY <1>2, <1>3, <3>2, <3>3, <3>4, ClosedPlaced DEF st
    <3>6. /\ \A j \in 1 .. Len(st) : st[j].name = d[j].name /\ st[j].enter = d[j].enter
          /\ Len(d) = Len(st) + 1
      BY <1>2, <2>1, <2>2, <3>1, <3>4, <3>5
    <3>7. Meaning(o, Rec.id) # "none" /\ d[Len(st) + 1] = [name |-> NameIn(o, Rec.id), enter |-> t]
      BY <1>2, <2>1, <2>2, <3>1, <3>5
    <3>8. Len(stack') = Len(d) /\ Matches(stack', d)
      <4>1. Len(Pushed(st, Rec.id, t)) = Len(d) /\ Matches(Pushed(st, Rec.id, t), d)
        BY <1>2, <1>3, <3>5, <3>6, <3>7, PushedMatches
      <4> QED BY <3>3, <4>1
    <3> QED BY <1>2, <3>3, <3>4, <3>5, <3>8
  <2>5. CASE kind = "enter" /\ Enter
    <3>1. Out(kind) = 0 /\ In(kind) = 1
      BY <2>5 DEF Out, In
    <3>2. stack' = Pushed(stack, Rec.id, t) /\ spans' = spans /\ orphans' = orphans
      BY <2>5 DEF Enter, t
    <3>3. /\ k[pos] = k[pos - 1] /\ Len(d) = Len(stack) + 1 /\ \A j \in 1 .. Len(stack) : d[j] = c[j]
      BY <1>2, <2>1, <2>2, <3>1
    <3>4. Meaning(o, Rec.id) # "none" /\ d[Len(stack) + 1] = [name |-> NameIn(o, Rec.id), enter |-> t]
      BY <1>2, <2>1, <2>2, <3>1
    <3>5. \A j \in 1 .. Len(stack) : stack[j].name = d[j].name /\ stack[j].enter = d[j].enter
      BY <1>2, <2>2, <3>3
    <3>6. Len(stack') = Len(d) /\ Matches(stack', d)
      <4>1. Len(Pushed(stack, Rec.id, t)) = Len(d) /\ Matches(Pushed(stack, Rec.id, t), d)
        BY <1>2, <1>3, <3>3, <3>4, <3>5, PushedMatches
      <4> QED BY <3>2, <4>1
    <3> QED BY <1>2, <3>2, <3>3, <3>6
  <2>6. CASE kind = "point" /\ Point
    <3> DEFINE e == [name |-> NameAt(Rec.id, t), enter |-> t, exit |-> t, depth |-> Depth, point |-> TRUE]
    <3>1. Out(kind) = 0 /\ In(kind) = 0
      BY <2>6 DEF Out, In
    <3>2. stack' = stack /\ orphans' = orphans /\ spans' \in {spans, Append(spans, e)}
      BY <2>6 DEF Point, t
    <3>3. e \in Span /\ e.point
      BY <1>2, <1>3, <2>2, ObjectsAreNumbers DEF Span, Depth
    <3>4. k[pos] = k[pos - 1] /\ Len(d) = Len(stack) /\ \A j \in 1 .. Len(stack) : d[j] = c[j]
      BY <1>2, <2>1, <2>2, <3>1
    <3> HIDE DEF e
    <3>5. Placed(scopes, Append(spans, e), k[pos - 1])
      BY <1>2, <1>3, <3>3, PlacedOneMore
    <3>6. \A j \in 1 .. Len(stack) : stack[j].name = d[j].name /\ stack[j].enter = d[j].enter
      BY <1>2, <2>2, <3>4
    <3>7. Matches(stack, d)
      BY <1>2, <2>2, <3>4, <3>6 DEF Matches
    <3> QED BY <1>2, <3>2, <3>4, <3>5, <3>7
  <2> QED BY <2>3, <2>4, <2>5, <2>6 DEF Walk
<1> QED BY <1>5, <1>6

(* At its end the trace leaves what is open, the innermost first. *)
LEMMA DrainFollows ==
  ASSUME IInv, NEW own, NEW cs, NEW k, History(own, cs, k), AllOver(cs, k), Follow(cs, k), Drain
  PROVE  Follow(cs, k)'
<1> DEFINE n == Len(records)  c == cs[n]  l == Len(stack)  m == k[n] + Len(c) - l  sq == Append(spans, Closed(Last(stack), Forever))
<1>1. /\ pos > n /\ l > 0 /\ pos' = pos /\ UNCHANGED traced /\ orphans' = orphans
      /\ stack' = Front(stack) /\ spans' = sq
  BY DEF Drain, Depth
<1>2. pos - 1 = n /\ n \in Nat /\ WalkTypes /\ stack \in Seq(Entry) /\ l \in Nat /\ StackInOrder(stack, l) /\ Forever \in Nat
  <2>1. WalkTypes /\ TraceTypes /\ StackInOrder(stack, l) /\ Forever \in Nat /\ n \in Nat
    BY TypedRecords, MarkerAssumption DEF IInv, Walking, Nested
  <2>2. stack \in Seq(Entry) /\ pos \in Nat /\ pos <= n + 1
    BY <2>1 DEF WalkTypes
  <2>3. l \in Nat
    BY <2>2
  <2> HIDE DEF n, l
  <2>4. pos - 1 = n
    BY <1>1, <2>1, <2>2
  <2> QED BY <2>1, <2>2, <2>3, <2>4
<1>3. c \in Seq(Call) /\ k[n] \in Nat /\ Len(c) \in Nat
  <2>1. n \in 0 .. n
    BY <1>2
  <2>2. c \in Seq(Call) /\ k[n] \in Nat
    BY <2>1 DEF History
  <2> QED BY <2>2
<1>4. orphans = {} /\ Matches(stack, c) /\ Placed(scopes, spans, m) /\ l <= Len(c)
  BY <1>2 DEF Follow, Matches
<1>5. m \in Nat /\ Len(c) - l + 1 \in 1 .. Len(c) /\ k[n] + (Len(c) - l + 1) = m + 1 /\ Len(c) + 1 - (Len(c) - l + 1) = l
  BY <1>1, <1>2, <1>3, <1>4, SMTT(30)
<1>6. scopes[m + 1] = ScopeOf(c, l, Forever)
  <2>1. \A q \in 1 .. Len(c) : scopes[k[n] + q] = ScopeOf(c, Len(c) + 1 - q, Forever)
    BY DEF AllOver
  <2> HIDE DEF n, c, l, m
  <2> QED BY <1>5, <2>1
<1>7. /\ Placed(scopes, sq, m + 1) /\ Front(stack) \in Seq(Entry) /\ Len(Front(stack)) = l - 1
      /\ \A j \in 1 .. l - 1 : Front(stack)[j].name = c[j].name /\ Front(stack)[j].enter = c[j].enter
  <2> HIDE DEF n, c, m
  <2> QED BY <1>1, <1>2, <1>4, <1>5, <1>6, ClosedPlaced
<1> HIDE DEF sq
<1>8. Len(stack') = l - 1 /\ Matches(stack', c) /\ Placed(scopes, spans', k[n] + Len(c) - Len(stack'))
  <2>1. Len(stack') = l - 1 /\ l - 1 <= Len(c) /\ k[n] + Len(c) - (l - 1) = m + 1
    <3>1. Len(stack') = l - 1
      BY <1>1, <1>7
    <3> HIDE DEF n, c, l
    <3> QED BY <1>2, <1>3, <1>4, <3>1
  <2> HIDE DEF n, c, l, m
  <2> QED BY <1>1, <1>7, <2>1 DEF Matches
<1>9. UNCHANGED <<records, scopes>> /\ pos' - 1 = n /\ ~(pos' <= Len(records'))
  <2>1. UNCHANGED <<records, scopes>> /\ pos' - 1 = n
    BY <1>1, <1>2 DEF traced
  <2>2. ~(pos' <= n) /\ Len(records') = n
    <3>1. Len(records') = n /\ pos' = pos /\ pos \in Nat /\ pos > n
      BY <1>1, <2>1 DEF IInv, WalkTypes
    <3> HIDE DEF n
    <3> QED BY <1>2, <3>1
  <2> HIDE DEF n
  <2> QED BY <2>1, <2>2
<1> HIDE DEF n, c
<1>10. orphans' = {}
  BY <1>1, <1>4
<1> QED BY <1>8, <1>9, <1>10 DEF Follow, n, c

(* Then the spans are the scopes. *)
LEMMA SortedAreScopes ==
  ASSUME IInv, NEW own, NEW cs, NEW k, History(own, cs, k), AllOver(cs, k), Follow(cs, k), Sort
  PROVE  SpansAreScopes'
<1> DEFINE n == Len(records)  c == cs[n]
<1>1. pos > n /\ Len(stack) = 0 /\ UNCHANGED <<orphans, spans, scopes>>
  BY DEF Sort, Depth, traced, walked
<1>2. pos - 1 = n /\ n \in Nat
  BY <1>1, TypedRecords DEF IInv, WalkTypes
<1>3. k[n] \in Nat /\ Len(c) \in Nat
  <2>1. n \in 0 .. n
    BY <1>2
  <2>2. c \in Seq(Call) /\ k[n] \in Nat
    BY <2>1 DEF History
  <2> QED BY <2>2
<1>4. Len(scopes) = k[n] + Len(c) - Len(stack)
  BY <1>1, <1>3 DEF AllOver
<1>5. orphans = {} /\ Placed(scopes, spans, k[n] + Len(c) - Len(stack))
  BY <1>2 DEF Follow
<1>6. Placed(scopes, spans, Len(scopes)) /\ DOMAIN spans = 1 .. Len(spans)
  BY <1>4, <1>5 DEF IInv, WalkTypes
<1> HIDE DEF n, c
<1>7. Len(scopes) = Place(Len(spans)) /\ \A i \in DOMAIN spans : ~spans[i].point => scopes[Place(i)] = Scope(spans[i])
  BY <1>6 DEF Placed, PlaceIn, Place
<1>8. orphans' = {} /\ Len(scopes') = Place(Len(spans))' /\ \A i \in DOMAIN spans' : ~spans'[i].point => scopes'[Place(i)'] = Scope(spans'[i])
  BY <1>1, <1>5, <1>7 DEF Place
<1> QED BY <1>8 DEF SpansAreScopes, Scope

-------------------------------------------------------------------------------
(* Without loss and without a cut there is a history, and the walk follows *)
(* it to the end.                                                          *)
Clean ==
  /\ dirt = {} /\ phase = "trace" => \E own, cs, k : History(own, cs, k) /\ UpToNow(cs, k)
  /\ dirt = {} /\ phase = "walk" => \E own, cs, k : History(own, cs, k) /\ AllOver(cs, k) /\ Follow(cs, k)
SInv == IInv /\ (phase \in {"trace", "walk"} => Slots) /\ Calling /\ Clean /\ SpansAreScopes

(* At first the history is empty. *)
LEMMA InitSInv == Init => SInv
<1> SUFFICES ASSUME Init PROVE SInv
  OBVIOUS
<1>1. waves = <<>> /\ occupancy = {} /\ records = <<>> /\ calls = <<>> /\ scopes = <<>> /\ phase = "trace"
  BY DEF Init
<1>2. Slots /\ Calling /\ SpansAreScopes
  BY <1>1 DEF Slots, Calling, SpansAreScopes
<1>3. \E own, cs, k : History(own, cs, k) /\ UpToNow(cs, k)
  <2> DEFINE own == <<>>  cs == [m \in 0 .. 0 |-> <<>>]  k == [m \in 0 .. 0 |-> 0]
  <2>1. Len(records) = 0 /\ 1 .. 0 = {} /\ \A m \in 0 .. 0 : m = 0
    BY <1>1
  <2>2. own \in [1 .. 0 -> 1 .. Len(waves)] /\ cs \in [0 .. 0 -> Seq(Call)] /\ k \in [0 .. 0 -> Nat] /\ cs[0] = <<>> /\ k[0] = 0
    OBVIOUS
  <2>3. Len(scopes) = 0 /\ 0 <= 0
    BY <1>1
  <2> HIDE DEF own, cs, k
  <2>4. History(own, cs, k) /\ UpToNow(cs, k)
    BY <1>1, <2>1, <2>2, <2>3 DEF History, UpToNow
  <2> QED BY <2>4
<1> QED BY <1>1, <1>2, <1>3, InitIInv DEF SInv, Clean

(* What is not of the trace leaves the history as it is. *)
LEMMA HistoryStays ==
  ASSUME TraceTypes, Calling, NEW own, NEW cs, NEW k, History(own, cs, k), UNCHANGED traced
  PROVE  History(own, cs, k)' /\ (AllOver(cs, k) => AllOver(cs, k)') /\ (UpToNow(cs, k) => UpToNow(cs, k)')
<1>1. UNCHANGED <<source, records, waves, scopes, calls, clock>>
  BY DEF traced
<1>2. Len(waves) \in Nat /\ Len(scopes) \in Nat
  BY TypedWaves DEF Calling
<1>3. WavesGoOn
  BY <1>1, <1>2 DEF WavesGoOn
<1>4. ScopesGoOn
  BY <1>1, <1>2 DEF ScopesGoOn
<1>5. History(own, cs, k)'
  BY <1>1, <1>3, <1>4, HistoryKept
<1> QED BY <1>1, <1>5 DEF AllOver, UpToNow

(* While the trace is taken. *)
LEMMA TraceClean ==
  ASSUME SInv,
         \/ \E k \in Kernels : StartWave(k)
         \/ \E b \in BOOLEAN : EndWave(b)
         \/ \E m \in UNION {Sends[k] : k \in Kernels}, d \in 0 .. 1, b \in BOOLEAN : Emit(m.kind, m.id, d, b)
  PROVE  Clean'
<1>1. phase = "trace" /\ phase' = "trace" /\ TraceTypes /\ Slots /\ Calling
  BY ZenonT(40) DEF StartWave, EndWave, Emit, SInv, IInv
<1>2. SUFFICES ASSUME dirt' = {} PROVE \E own, cs, k : History(own, cs, k)' /\ UpToNow(cs, k)'
  BY <1>1 DEF Clean
<1>3. dirt = {}
  BY <1>2, ZenonT(40) DEF StartWave, EndWave, Emit
<1>4. PICK own, cs, k : History(own, cs, k) /\ UpToNow(cs, k)
  BY <1>1, <1>3 DEF SInv, Clean
<1>5. ASSUME NEW x \in Kernels, StartWave(x) PROVE History(own, cs, k)' /\ UpToNow(cs, k)'
  BY <1>1, <1>4, <1>5, StartWaveHistory
<1>6. ASSUME NEW b \in BOOLEAN, EndWave(b) PROVE History(own, cs, k)' /\ UpToNow(cs, k)'
  <2>1. calls = <<>>
    BY <1>2, <1>6 DEF EndWave
  <2> QED BY <1>1, <1>4, <1>6, <2>1, EndWaveHistory
<1>7. ASSUME NEW m \in UNION {Sends[x] : x \in Kernels}, NEW d \in 0 .. 1, NEW b \in BOOLEAN, Emit(m.kind, m.id, d, b)
      PROVE  \E own2, cs2, k2 : History(own2, cs2, k2)' /\ UpToNow(cs2, k2)'
  <2>1. m.kind \in Kinds /\ m.id \in Nat
    BY MarkerAssumption
  <2> QED BY <1>1, <1>2, <1>4, <1>7, <2>1, EmitHistory
<1> QED BY <1>5, <1>6, <1>7

(* Every step keeps the history, or the walk at its place in it. *)
LEMMA NextSInv == ASSUME SInv, [Next]_vars PROVE SInv'
<1>1. IInv /\ IInv' /\ Calling /\ Calling' /\ TraceTypes
  BY NextIInv, CallingKept DEF SInv, IInv
<1>2. CASE \/ \E k \in Kernels : StartWave(k)
           \/ \E b \in BOOLEAN : EndWave(b)
           \/ \E m \in UNION {Sends[k] : k \in Kernels}, d \in 0 .. 1, b \in BOOLEAN : Emit(m.kind, m.id, d, b)
  <2>1. phase = "trace" /\ phase' = "trace"
    BY <1>2 DEF StartWave, EndWave, Emit
  <2>2. Slots'
    BY <1>1, <1>2, <2>1, SlotsKept DEF SInv
  <2>3. Clean'
    BY <1>2, TraceClean
  <2> QED BY <1>1, <2>1, <2>2, <2>3, SMTT(30) DEF SInv, SpansAreScopes
<1>3. CASE Stop
  <2>1. phase = "trace" /\ phase' = "walk" /\ dirt' = dirt /\ UNCHANGED walked
    BY <1>3 DEF Stop
  <2>2. Slots /\ Slots'
    BY <1>1, <1>3, <2>1, SlotsKept DEF SInv
  <2>3. ASSUME dirt = {} PROVE \E own, cs, k : History(own, cs, k)' /\ AllOver(cs, k)' /\ Follow(cs, k)'
    <3>1. PICK own, cs, k : History(own, cs, k) /\ UpToNow(cs, k)
      BY <2>1, <2>3 DEF SInv, Clean
    <3>2. History(own, cs, k)' /\ AllOver(cs, k)'
      BY <1>1, <1>3, <2>2, <3>1, StopHistory
    <3>3. Follow(cs, k)'
      <4>1. pos' - 1 = 0 /\ stack' = <<>> /\ spans' = <<>> /\ orphans' = {} /\ cs[0] = <<>> /\ k[0] = 0
        BY <1>1, <2>1, <3>1 DEF IInv, WalkTypes, walked, History
      <4>2. Matches(stack', <<>>)
        BY <4>1 DEF Matches
      <4>3. Placed(scopes', spans', 0)
        <5>1. {j \in 1 .. 0 : ~spans'[j].point} = {}
          OBVIOUS
        <5>2. PlaceIn(spans', 0) = 0
          BY <5>1, FS_EmptySet DEF PlaceIn
        <5> QED BY <4>1, <5>2 DEF Placed
      <4>4. k[0] + Len(cs[0]) - Len(stack') = 0 /\ Len(stack') = Len(cs[0])
        BY <4>1
      <4> QED BY <4>1, <4>2, <4>3, <4>4 DEF Follow
    <3> QED BY <3>2, <3>3
  <2> QED BY <1>1, <2>1, <2>2, <2>3 DEF SInv, Clean, SpansAreScopes
<1>4. CASE Walk \/ Drain
  <2>1. phase = "walk" /\ phase' = "walk" /\ UNCHANGED traced /\ dirt' = dirt
    BY <1>4 DEF Walk, Drain, traced
  <2>2. Slots /\ Slots'
    BY <1>1, <2>1, SlotsKept DEF SInv
  <2>3. ASSUME dirt = {} PROVE \E own, cs, k : History(own, cs, k)' /\ AllOver(cs, k)' /\ Follow(cs, k)'
    <3>1. PICK own, cs, k : History(own, cs, k) /\ AllOver(cs, k) /\ Follow(cs, k)
      BY <2>1, <2>3 DEF SInv, Clean
    <3>2. History(own, cs, k)' /\ AllOver(cs, k)'
      BY <1>1, <2>1, <3>1, HistoryStays
    <3>3. Follow(cs, k)'
      BY <1>1, <1>4, <2>2, <3>1, WalkFollows, DrainFollows
    <3> QED BY <3>2, <3>3
  <2> QED BY <1>1, <2>1, <2>2, <2>3 DEF SInv, Clean, SpansAreScopes
<1>5. CASE Sort
  <2>1. phase = "walk" /\ phase' = "sorted" /\ dirt' = dirt
    BY <1>5 DEF Sort, traced
  <2>2. CASE dirt = {}
    <3>1. PICK own, cs, k : History(own, cs, k) /\ AllOver(cs, k) /\ Follow(cs, k)
      BY <2>1, <2>2 DEF SInv, Clean
    <3>2. SpansAreScopes'
      BY <1>1, <1>5, <3>1, SortedAreScopes
    <3> QED BY <1>1, <2>1, <3>2 DEF SInv, Clean
  <2>3. CASE dirt # {}
    BY <1>1, <2>1, <2>3 DEF SInv, Clean, SpansAreScopes
  <2> QED BY <2>2, <2>3
<1>6. CASE Merge \/ \E t \in 0 .. clock : Attribute(t)
  <2>1. phase' \in {"attribute", "merge"}
    BY <1>6 DEF Merge, Attribute
  <2> QED BY <1>1, <2>1 DEF SInv, Clean, SpansAreScopes
<1>7. CASE UNCHANGED vars
  <2>1. UNCHANGED <<traced, phase, walked, dirt>>
    BY <1>7 DEF vars, traced
  <2>2. phase \in {"trace", "walk"} => Slots'
    BY <1>1, <2>1, SlotsKept DEF SInv
  <2>3. ASSUME dirt = {}, phase = "trace" PROVE \E own, cs, k : History(own, cs, k)' /\ UpToNow(cs, k)'
    <3>1. PICK own, cs, k : History(own, cs, k) /\ UpToNow(cs, k)
      BY <2>3 DEF SInv, Clean
    <3> QED BY <1>1, <2>1, <3>1, HistoryStays
  <2>4. ASSUME dirt = {}, phase = "walk" PROVE \E own, cs, k : History(own, cs, k)' /\ AllOver(cs, k)' /\ Follow(cs, k)'
    <3>1. PICK own, cs, k : History(own, cs, k) /\ AllOver(cs, k) /\ Follow(cs, k)
      BY <2>4 DEF SInv, Clean
    <3>2. History(own, cs, k)' /\ AllOver(cs, k)'
      BY <1>1, <2>1, <3>1, HistoryStays
    <3>3. Follow(cs, k)'
      BY <2>1, <3>1 DEF Follow, walked, traced
    <3> QED BY <3>2, <3>3
  <2>5. Clean'
    BY <2>1, <2>3, <2>4 DEF Clean
  <2>6. SpansAreScopes'
    BY <2>1 DEF SInv, SpansAreScopes, Place, walked, traced
  <2> QED BY <1>1, <2>1, <2>2, <2>5, <2>6 DEF SInv
<1> QED BY <1>2, <1>3, <1>4, <1>5, <1>6, <1>7 DEF Next

(* When no token was lost or without meaning and no wave ended inside its   *)
(* scopes, the spans are the scopes that the marked waves were in, each     *)
(* named in the code object that was running, for any kernels, metadata and *)
(* number of waves.                                                         *)
THEOREM SpansFollowProgram == Spec => []SpansAreScopes
<1>1. SInv => SpansAreScopes
  BY DEF SInv
<1>2. SInv /\ [Next]_vars => SInv'
  BY NextSInv
<1> QED BY InitSInv, <1>1, <1>2, PTL DEF Spec

-------------------------------------------------------------------------------
(* Spans of a place and of each depth *)

(* As many elements as numbers that each of them has exactly one of. *)
LEMMA AsMany ==
  ASSUME NEW n \in Nat, NEW S, IsFiniteSet(S), NEW f,
         \A x \in S : f[x] \in 0 .. n - 1,
         \A x, y \in S : f[x] = f[y] => x = y,
         \A d \in 0 .. n - 1 : \E x \in S : f[x] = d
  PROVE  Cardinality(S) = n
<1> DEFINE g == [x \in S |-> f[x]]  T == 0 .. n - 1
<1>1. g \in [S -> T]
  OBVIOUS
<1>2. \A x, y \in S : g[x] = g[y] => x = y
  OBVIOUS
<1>3. \A d \in T : \E x \in S : g[x] = d
  OBVIOUS
<1>4. Cardinality(T) = n
  <2> DEFINE m == n - 1
  <2>1. m \in Int /\ n = m + 1
    OBVIOUS
  <2> HIDE DEF m
  <2>2. Cardinality(0 .. m) = IF 0 > m THEN 0 ELSE m - 0 + 1
    BY <2>1, FS_Interval
  <2>3. Cardinality(0 .. m) = n
    BY <2>1, <2>2
  <2> QED BY <2>3 DEF m
<1> HIDE DEF g, T
<1>5. g \in Bijection(S, T)
  BY <1>1, <1>2, <1>3 DEF Bijection, Injection, Surjection, IsInjective
<1>6. Cardinality(T) = Cardinality(S)
  <2>1. ExistsBijection(S, T)
    BY <1>5 DEF ExistsBijection
  <2> QED BY <2>1, FS_Bijection
<1> QED BY <1>4, <1>6

(* A place is before another if its span precedes the other's. *)
LEMMA PlacesFollow ==
  ASSUME WalkTypes, InOrder(order, Len(spans)), NEW p \in 1 .. Len(spans), NEW q \in 1 .. Len(spans)
  PROVE  /\ order[p] \in 1 .. Len(spans) /\ (Precedes(order[p], order[q]) <=> p < q)
         /\ order[p] = order[q] => p = q
<1>1. /\ order[p] \in 1 .. Len(spans) /\ order[q] \in 1 .. Len(spans) /\ Len(spans) \in Nat
      /\ p < q => Precedes(order[p], order[q])
      /\ q < p => Precedes(order[q], order[p])
  <2>1. Len(spans) \in Nat
    BY DEF WalkTypes
  <2>2. /\ order \in [1 .. Len(spans) -> 1 .. Len(spans)]
        /\ \A x, y \in 1 .. Len(spans) : x < y => Precedes(order[x], order[y])
    BY DEF InOrder
  <2> QED BY <2>1, <2>2
<1>2. \A i, j \in 1 .. Len(spans) : ~Precedes(i, i) /\ (Precedes(i, j) => ~Precedes(j, i))
  BY PrecedesOrders
<1>3. p < q \/ q < p \/ p = q
  BY <1>1
<1>4. CASE p < q
  BY <1>1, <1>2, <1>4
<1>5. CASE q < p
  BY <1>1, <1>2, <1>5
<1>6. CASE p = q
  BY <1>1, <1>2, <1>6
<1> QED BY <1>3, <1>4, <1>5, <1>6

-------------------------------------------------------------------------------
(* The scopes a span lies in *)

Above(i) == {j \in Around(spans[i].enter) : spans[j].exit >= spans[i].exit /\ spans[j].depth <= spans[i].depth}

(* They are one of each depth, each lasts and precedes the span. *)
LEMMA AboveIsChain ==
  ASSUME Walked, NEW i \in Lasting
  PROVE  /\ i \in Above(i) /\ i \in 1 .. Len(spans) /\ spans[i].depth \in Nat
         /\ \A d \in 0 .. spans[i].depth : \E j \in Above(i) : spans[j].depth = d
         /\ \A j \in Above(i) : /\ j \in Lasting /\ j \in 1 .. Len(spans) /\ spans[j].depth \in 0 .. spans[i].depth
                                /\ spans[j].enter <= spans[i].enter /\ spans[i].exit <= spans[j].exit
                                /\ j = i \/ (Precedes(j, i) /\ spans[j].depth < spans[i].depth)
         /\ \A j, k \in Above(i) : spans[j].depth = spans[k].depth => j = k
<1> DEFINE t == spans[i].enter  a == Around(t)
<1>1. WalkTypes /\ IInv /\ Len(stack) = 0 /\ Len(spans) \in Nat /\ DOMAIN spans = 1 .. Len(spans)
  BY DEF Walked, IInv, WalkTypes
<1>2. \A j \in 1 .. Len(spans) : spans[j].enter \in Nat /\ spans[j].exit \in Nat /\ spans[j].depth \in Nat
  BY <1>1, TypedTimes DEF Timed
<1>3. i \in 1 .. Len(spans) /\ ~spans[i].point /\ spans[i].exit > t /\ t \in Nat
  BY <1>1, <1>2 DEF Lasting, Drawn
<1>4. /\ a \subseteq 1 .. Len(spans)
      /\ \A j, k \in a :
           \/ j = k
           \/ Precedes(j, k) /\ spans[j].depth < spans[k].depth /\ spans[k].exit <= spans[j].exit
           \/ Precedes(k, j) /\ spans[k].depth < spans[j].depth /\ spans[j].exit <= spans[k].exit
      /\ \A k \in a : \A d \in 0 .. spans[k].depth - 1 : \E j \in a : spans[j].depth = d
  BY <1>1, <1>3, AroundIsChain
<1>5. \A j \in a : j \in 1 .. Len(spans) /\ ~spans[j].point /\ spans[j].enter <= t /\ t < spans[j].exit
  BY <1>1 DEF Around
<1>6. i \in a
  BY <1>1, <1>2, <1>3 DEF Around
<1> HIDE DEF a
<1>7. ASSUME NEW j \in a, spans[j].depth <= spans[i].depth
      PROVE  spans[j].exit >= spans[i].exit /\ (j = i \/ (Precedes(j, i) /\ spans[j].depth < spans[i].depth))
  <2>1. /\ spans[j].depth \in Nat /\ spans[i].depth \in Nat /\ spans[j].exit \in Nat /\ spans[i].exit \in Nat
    BY <1>2, <1>3, <1>5
  <2>2. \/ j = i
        \/ Precedes(j, i) /\ spans[j].depth < spans[i].depth /\ spans[i].exit <= spans[j].exit
        \/ Precedes(i, j) /\ spans[i].depth < spans[j].depth /\ spans[j].exit <= spans[i].exit
    BY <1>4, <1>6
  <2> QED BY <1>7, <2>1, <2>2
<1>8. \A j : j \in Above(i) <=> j \in a /\ spans[j].exit >= spans[i].exit /\ spans[j].depth <= spans[i].depth
  BY DEF Above, a
<1>9. ASSUME NEW d \in 0 .. spans[i].depth PROVE \E j \in Above(i) : spans[j].depth = d
  <2>1. spans[i].depth \in Nat /\ spans[i].exit \in Nat
    BY <1>2, <1>3
  <2>2. CASE d = spans[i].depth
    <3>1. i \in Above(i)
      BY <1>6, <1>8, <2>1
    <3> QED BY <2>2, <3>1
  <2>3. CASE d # spans[i].depth
    <3>1. d \in 0 .. spans[i].depth - 1
      BY <2>1, <2>3
    <3>2. PICK j \in a : spans[j].depth = d
      BY <1>4, <1>6, <3>1
    <3>3. spans[j].depth <= spans[i].depth
      BY <2>1, <3>2
    <3> QED BY <1>7, <1>8, <3>2, <3>3
  <2> QED BY <2>2, <2>3
<1>10. ASSUME NEW j \in Above(i)
       PROVE  /\ j \in Lasting /\ j \in 1 .. Len(spans) /\ spans[j].depth \in 0 .. spans[i].depth
              /\ spans[j].enter <= spans[i].enter /\ spans[i].exit <= spans[j].exit
              /\ j = i \/ (Precedes(j, i) /\ spans[j].depth < spans[i].depth)
  <2>1. j \in a /\ spans[j].exit >= spans[i].exit /\ spans[j].depth <= spans[i].depth
    BY <1>8
  <2>2. j \in 1 .. Len(spans) /\ ~spans[j].point /\ spans[j].enter <= t /\ t < spans[j].exit
    BY <1>5, <2>1
  <2>3. spans[j].enter \in Nat /\ spans[j].exit \in Nat /\ spans[j].depth \in Nat /\ spans[i].depth \in Nat /\ spans[i].exit \in Nat
    BY <1>2, <1>3, <2>2
  <2>4. j \in Lasting
    BY <1>1, <1>3, <2>2, <2>3 DEF Lasting, Drawn
  <2>5. j = i \/ (Precedes(j, i) /\ spans[j].depth < spans[i].depth)
    BY <1>7, <2>1
  <2> QED BY <2>1, <2>2, <2>3, <2>4, <2>5
<1>11. ASSUME NEW j \in Above(i), NEW k \in Above(i), spans[j].depth = spans[k].depth PROVE j = k
  <2>1. j \in a /\ k \in a /\ spans[j].depth \in Nat
    BY <1>8, <1>10
  <2> QED BY <1>4, <1>11, <2>1
<1>12. i \in Above(i)
  BY <1>2, <1>3, <1>6, <1>8
<1> QED BY <1>2, <1>3, <1>9, <1>10, <1>11, <1>12

(* The path of a span has their names, in the order of their depths. *)
LEMMA ChainIs ==
  ASSUME Walked, NEW i \in Lasting
  PROVE  /\ Chain(spans[i]) = [d \in 1 .. spans[i].depth + 1 |-> Chain(spans[i])[d]]
         /\ \A j \in Above(i) : spans[j].depth + 1 \in 1 .. spans[i].depth + 1 /\ Chain(spans[i])[spans[j].depth + 1] = spans[j].name
<1> DEFINE a == Above(i)  n == spans[i].depth
           found(d) == CHOOSE x \in {spans[j] : j \in a} : Cardinality({j \in a : spans[j].depth < x.depth}) = d - 1
<1>1. Chain(spans[i]) = [d \in 1 .. Cardinality(a) |-> found(d).name]
  BY DEF Chain, Above
<1>2. /\ n \in Nat
      /\ \A d \in 0 .. n : \E j \in a : spans[j].depth = d
      /\ \A j \in a : j \in 1 .. Len(spans) /\ spans[j].depth \in 0 .. n
      /\ \A j, k \in a : spans[j].depth = spans[k].depth => j = k
  BY AboveIsChain
<1>3. IsFiniteSet(a)
  <2>1. a \subseteq 1 .. Len(spans) /\ Len(spans) \in Nat
    BY <1>2 DEF Walked, IInv, WalkTypes
  <2> HIDE DEF a
  <2>2. IsFiniteSet(1 .. Len(spans))
    BY <2>1, FS_Interval
  <2> QED BY <2>1, <2>2, FS_Subset
<1> HIDE DEF a, n
<1>4. ASSUME NEW m \in 0 .. n + 1 PROVE Cardinality({j \in a : spans[j].depth < m}) = m
  <2> DEFINE S == {j \in a : spans[j].depth < m}  f == [j \in a |-> spans[j].depth]
  <2>1. IsFiniteSet(S)
    <3>1. S \subseteq a
      OBVIOUS
    <3> QED BY <1>3, <3>1, FS_Subset
  <2>2. \A j \in S : f[j] \in 0 .. m - 1
    BY <1>2
  <2>3. \A j, k \in S : f[j] = f[k] => j = k
    BY <1>2
  <2>4. \A d \in 0 .. m - 1 : \E j \in S : f[j] = d
    <3> TAKE d \in 0 .. m - 1
    <3>1. d \in 0 .. n /\ d < m
      BY <1>2
    <3>2. PICK j \in a : spans[j].depth = d
      BY <1>2, <3>1
    <3> QED BY <3>1, <3>2
  <2>5. m \in Nat
    BY <1>2
  <2> HIDE DEF S, f
  <2>6. Cardinality(S) = m
    BY <2>1, <2>2, <2>3, <2>4, <2>5, AsMany
  <2> QED BY <2>6 DEF S
<1>5. Cardinality(a) = n + 1
  <2>1. \A j \in a : spans[j].depth < n + 1
    <3> TAKE j \in a
    <3>1. spans[j].depth \in 0 .. n /\ n \in Nat
      BY <1>2
    <3> QED BY <3>1
  <2>2. {j \in a : spans[j].depth < n + 1} = a
    BY <2>1
  <2>3. n + 1 \in 0 .. n + 1
    BY <1>2
  <2>4. Cardinality({j \in a : spans[j].depth < n + 1}) = n + 1
    BY <1>4, <2>3
  <2> QED BY <2>2, <2>4
<1>6. ASSUME NEW j \in a PROVE spans[j].depth + 1 \in 1 .. n + 1 /\ found(spans[j].depth + 1) = spans[j]
  <2> DEFINE d == spans[j].depth
  <2>1. d \in 0 .. n /\ d \in 0 .. n + 1 /\ d + 1 \in 1 .. n + 1 /\ (d + 1) - 1 = d
    BY <1>2
  <2>2. Cardinality({k \in a : spans[k].depth < d}) = d
    <3> HIDE DEF d
    <3> QED BY <1>4, <2>1
  <2>3. ASSUME NEW x \in {spans[k] : k \in a}, Cardinality({k \in a : spans[k].depth < x.depth}) = d PROVE x = spans[j]
    <3>1. PICK k \in a : x = spans[k]
      OBVIOUS
    <3>2. spans[k].depth \in 0 .. n + 1
      BY <1>2
    <3>3. Cardinality({l \in a : spans[l].depth < spans[k].depth}) = spans[k].depth
      BY <1>4, <3>2
    <3>4. spans[k].depth = spans[j].depth
      BY <2>3, <3>1, <3>3
    <3> QED BY <1>2, <3>1, <3>4
  <2>4. spans[j] \in {spans[k] : k \in a}
    OBVIOUS
  <2>5. found(d + 1) = spans[j]
    BY <2>1, <2>2, <2>3, <2>4
  <2> QED BY <2>1, <2>5
<1> HIDE DEF found
<1>7. Chain(spans[i]) = [d \in 1 .. n + 1 |-> found(d).name]
  BY <1>1, <1>5
<1> QED BY <1>6, <1>7 DEF a, n

(* What comes between one of them and the span in the order is deeper. *)
LEMMA BetweenIsDeeper ==
  ASSUME Walked, NEW i \in Lasting, NEW j \in Above(i), NEW q \in 1 .. Len(spans), ~spans[q].point,
         Precedes(j, q), Precedes(q, i)
  PROVE  spans[j].depth < spans[q].depth
<1>1. WalkTypes /\ Len(spans) \in Nat
  BY DEF Walked, IInv, WalkTypes
<1>2. \A k \in 1 .. Len(spans) : spans[k].enter \in Nat /\ spans[k].exit \in Nat /\ spans[k].depth \in Nat /\ spans[k].enter <= spans[k].exit
  BY <1>1, TypedTimes DEF Timed, Walked, IInv, Walking, Bounded
<1>3. /\ i \in 1 .. Len(spans) /\ j \in 1 .. Len(spans) /\ spans[i].enter < spans[i].exit
      /\ spans[j].enter <= spans[i].enter /\ spans[i].exit <= spans[j].exit /\ ~spans[j].point
  <2>1. /\ i \in 1 .. Len(spans) /\ j \in 1 .. Len(spans) /\ j \in Lasting
        /\ spans[j].enter <= spans[i].enter /\ spans[i].exit <= spans[j].exit
    BY AboveIsChain
  <2> QED BY <1>2, <2>1 DEF Lasting, Drawn
<1>4. SUFFICES ASSUME ~(spans[j].depth < spans[q].depth) PROVE FALSE
  OBVIOUS
<1>5. spans[j].enter <= spans[q].enter /\ spans[q].enter <= spans[i].enter /\ q # j
  BY <1>2, <1>3, PrecedesOrders, <1>1, SMTT(30) DEF Precedes
<1>6. \A k, l \in 1 .. Len(spans) : k < l => Within(spans[k], spans[l])
  BY DEF Walked, IInv, Walking, Nested, Nest
<1>7. CASE q < j
  <2>1. Within(spans[q], spans[j])
    BY <1>3, <1>6, <1>7
  <2>2. spans[q].exit <= spans[j].enter
    BY <1>2, <1>3, <1>4, <2>1 DEF Within
  <2>3. spans[q].enter = spans[j].enter
    BY <1>2, <1>3, <1>5, <2>2
  <2> QED BY <1>2, <1>3, <1>4, <1>7, <2>3 DEF Precedes
<1>8. CASE j < q
  <2>1. Within(spans[j], spans[q])
    BY <1>3, <1>6, <1>8
  <2>2. ~(spans[j].exit <= spans[q].enter)
    BY <1>2, <1>3, <1>5, SMTT(30)
  <2>3. spans[q].enter <= spans[j].enter /\ spans[q].depth < spans[j].depth
    BY <2>1, <2>2 DEF Within
  <2>4. spans[q].enter = spans[j].enter
    BY <1>2, <1>3, <1>5, <2>3
  <2> QED BY <1>2, <1>3, <2>3, <2>4, SMTT(30) DEF Precedes
<1> QED BY <1>1, <1>3, <1>5, <1>7, <1>8

-------------------------------------------------------------------------------
(* The path of nodes *)

(* After the first m spans in order, o has at its depth each lasting span  *)
(* that only deeper ones came after.                                       *)
DeeperAfter(p, m) == \A q \in p + 1 .. m : order[q] \in Drawn => spans[order[p]].depth < spans[order[q]].depth
PathHolds(o, m) ==
  \A p \in 1 .. m :
    order[p] \in Lasting /\ DeeperAfter(p, m) =>
      spans[order[p]].depth < Len(o) /\ o[spans[order[p]].depth + 1] = spans[order[p]].name

(* Spans have names and depths. *)
LEMMA TypedSpans ==
  ASSUME WalkTypes
  PROVE  /\ Len(spans) \in Nat /\ DOMAIN spans = 1 .. Len(spans)
         /\ \A i \in 1 .. Len(spans) : spans[i].name \in Nat \X Nat /\ spans[i].depth \in Nat
                                       /\ spans[i].enter \in Nat /\ spans[i].exit \in Nat
<1>1. Len(spans) \in Nat /\ DOMAIN spans = 1 .. Len(spans) /\ \A i \in 1 .. Len(spans) : spans[i] \in Span
  BY DEF WalkTypes
<1> QED BY <1>1 DEF Span

(* A path keeps of a longer one what is above the depth of a span. *)
LEMMA TrimIs ==
  ASSUME NEW o \in Seq(Nat \X Nat), NEW s, s.depth \in Nat, s.name \in Nat \X Nat
  PROVE  LET path == Append(Trim(o, s), s.name)
             n == IF Len(o) > s.depth THEN s.depth ELSE Len(o)
         IN  /\ path \in Seq(Nat \X Nat) /\ Len(path) = n + 1 /\ path[n + 1] = s.name
             /\ \A k \in 1 .. n : path[k] = o[k]
<1> DEFINE n == IF Len(o) > s.depth THEN s.depth ELSE Len(o)
<1>1. n \in 0 .. Len(o)
  OBVIOUS
<1>2. Trim(o, s) = SubSeq(o, 1, n)
  BY DEF Trim
<1> HIDE DEF n
<1>3. /\ SubSeq(o, 1, n) \in Seq(Nat \X Nat) /\ Len(SubSeq(o, 1, n)) = n
      /\ \A k \in 1 .. n : SubSeq(o, 1, n)[k] = o[k]
  BY <1>1, FirstPart
<1>4. \A t \in Seq(Nat \X Nat), x \in Nat \X Nat :
        /\ Append(t, x) \in Seq(Nat \X Nat) /\ Len(Append(t, x)) = Len(t) + 1 /\ Append(t, x)[Len(t) + 1] = x
        /\ \A k \in 1 .. Len(t) : Append(t, x)[k] = t[k]
  OBVIOUS
<1> DEFINE t == SubSeq(o, 1, n)  path == Append(t, s.name)
<1> HIDE DEF t
<1>5. /\ path \in Seq(Nat \X Nat) /\ Len(path) = n + 1 /\ path[n + 1] = s.name
      /\ \A k \in 1 .. n : path[k] = t[k]
  BY <1>3, <1>4 DEF t
<1> HIDE DEF path
<1>6. \A k \in 1 .. n : path[k] = o[k]
  BY <1>3, <1>5 DEF t
<1> QED BY <1>2, <1>5, <1>6 DEF path, t, n

(* Where the span that comes next lies is on the path. *)
LEMMA AboveIsOnPath ==
  ASSUME Walked, NEW m \in Nat, m + 1 \in 1 .. Len(spans), NEW o, PathHolds(o, m), order[m + 1] \in Lasting,
         NEW j \in Above(order[m + 1]), j # order[m + 1]
  PROVE  spans[j].depth < Len(o) /\ o[spans[j].depth + 1] = spans[j].name
<1> DEFINE i == order[m + 1]
<1>1. WalkTypes /\ InOrder(order, Len(spans)) /\ Len(spans) \in Nat /\ DOMAIN spans = 1 .. Len(spans)
  BY DEF Walked, IInv, WalkTypes
<1>2. j \in Lasting /\ j \in 1 .. Len(spans) /\ Precedes(j, i)
  BY AboveIsChain
<1>3. PICK p \in 1 .. Len(spans) : order[p] = j
  BY <1>1, <1>2 DEF InOrder
<1>4. p < m + 1
  BY <1>1, <1>2, <1>3, PlacesFollow
<1>5. ASSUME NEW q \in p + 1 .. m, order[q] \in Drawn PROVE spans[j].depth < spans[order[q]].depth
  <2>1. q \in 1 .. Len(spans) /\ p < q /\ q < m + 1
    BY <1>1
  <2>2. order[q] \in 1 .. Len(spans) /\ Precedes(j, order[q]) /\ Precedes(order[q], i)
    BY <1>1, <1>3, <2>1, PlacesFollow
  <2>3. ~spans[order[q]].point
    BY <1>5 DEF Drawn
  <2> HIDE DEF i
  <2>4. i \in Lasting /\ j \in Above(i)
    BY DEF i
  <2> QED BY <2>2, <2>3, <2>4, BetweenIsDeeper
<1>6. p \in 1 .. m
  BY <1>1, <1>4
<1>7. DeeperAfter(p, m)
  BY <1>3, <1>5 DEF DeeperAfter
<1> QED BY <1>2, <1>3, <1>6, <1>7 DEF PathHolds

(* So the node of a span that lasts is at its chain. *)
LEMMA NextIsChain ==
  ASSUME Walked, NEW m \in Nat, m + 1 \in 1 .. Len(spans), NEW o \in Seq(Nat \X Nat), PathHolds(o, m), order[m + 1] \in Lasting
  PROVE  LET s == spans[order[m + 1]]
         IN  s.depth <= Len(o) /\ Append(Trim(o, s), s.name) = Chain(s)
<1> DEFINE i == order[m + 1]  s == spans[i]  n == s.depth  path == Append(Trim(o, s), s.name)
<1>1. /\ i \in Above(i) /\ i \in 1 .. Len(spans) /\ n \in Nat
      /\ \A d \in 0 .. n : \E j \in Above(i) : spans[j].depth = d
  BY AboveIsChain
<1>2. s.name \in Nat \X Nat
  BY <1>1, TypedSpans DEF Walked, IInv
<1>3. ASSUME NEW j \in Above(i), j # i PROVE spans[j].depth < Len(o) /\ o[spans[j].depth + 1] = spans[j].name
  BY <1>3, AboveIsOnPath
<1>4. n <= Len(o)
  <2>1. CASE n = 0
    BY <2>1
  <2>2. CASE n # 0
    <3>1. n - 1 \in 0 .. n
      BY <1>1, <2>2, SMTT(30)
    <3>2. PICK j \in Above(i) : spans[j].depth = n - 1
      BY <1>1, <3>1
    <3>3. j # i
      BY <1>1, <3>2
    <3>4. n - 1 < Len(o)
      BY <1>3, <3>2, <3>3
    <3> HIDE DEF n
    <3> QED BY <1>1, <3>4
  <2> QED BY <2>1, <2>2
<1>5. /\ path \in Seq(Nat \X Nat) /\ Len(path) = n + 1 /\ path[n + 1] = s.name
      /\ \A k \in 1 .. n : path[k] = o[k]
  <2> DEFINE l == IF Len(o) > s.depth THEN s.depth ELSE Len(o)
  <2>1. l = n
    BY <1>1, <1>4
  <2>2. /\ path \in Seq(Nat \X Nat) /\ Len(path) = l + 1 /\ path[l + 1] = s.name
        /\ \A k \in 1 .. l : path[k] = o[k]
    <3>1. s.depth \in Nat
      BY <1>1
    <3> HIDE DEF s, n
    <3> QED BY <1>2, <3>1, TrimIs
  <2> HIDE DEF l, path, n, s
  <2> QED BY <2>1, <2>2
<1>6. /\ Chain(s) = [d \in 1 .. n + 1 |-> Chain(s)[d]]
      /\ \A j \in Above(i) : spans[j].depth + 1 \in 1 .. n + 1 /\ Chain(s)[spans[j].depth + 1] = spans[j].name
  BY ChainIs
<1> HIDE DEF path
<1>7. ASSUME NEW d \in 1 .. n + 1 PROVE path[d] = Chain(s)[d]
  <2>1. d - 1 \in 0 .. n /\ (d - 1) + 1 = d
    <3>1. n \in Nat
      BY <1>1
    <3> HIDE DEF n
    <3> QED BY <3>1
  <2>2. PICK j \in Above(i) : spans[j].depth = d - 1
    BY <1>1, <2>1
  <2>3. Chain(s)[d] = spans[j].name
    BY <1>6, <2>1, <2>2
  <2>4. CASE j = i
    BY <1>5, <2>1, <2>2, <2>3, <2>4
  <2>5. CASE j # i
    <3>1. o[d] = spans[j].name
      BY <1>3, <2>1, <2>2, <2>5
    <3>2. d \in 1 .. n
      <4>1. d - 1 < n
        BY <2>2, <2>5, AboveIsChain
      <4> QED BY <1>1, <4>1
    <3> QED BY <1>5, <2>3, <3>1, <3>2
  <2> QED BY <2>4, <2>5
<1>8. path = [d \in 1 .. n + 1 |-> path[d]]
  BY <1>5, SMTT(30)
<1>9. path = Chain(s)
  <2> HIDE DEF s, n
  <2>1. [d \in 1 .. n + 1 |-> path[d]] = [d \in 1 .. n + 1 |-> Chain(s)[d]]
    BY <1>7
  <2> QED BY <1>6, <1>8, <2>1
<1> QED BY <1>4, <1>9 DEF path

(* With its node the path holds. *)
LEMMA PathGoesOn ==
  ASSUME Walked, NEW m \in Nat, m + 1 \in 1 .. Len(spans), NEW o \in Seq(Nat \X Nat), PathHolds(o, m)
  PROVE  LET s == spans[order[m + 1]]
         IN  PathHolds(IF s.point THEN o ELSE Append(Trim(o, s), s.name), m + 1)
<1> DEFINE i == order[m + 1]  s == spans[i]  l == IF Len(o) > s.depth THEN s.depth ELSE Len(o)
           path == Append(Trim(o, s), s.name)  next == IF s.point THEN o ELSE path
<1>1. WalkTypes /\ DOMAIN spans = 1 .. Len(spans) /\ i \in 1 .. Len(spans) /\ s.depth \in Nat /\ s.name \in Nat \X Nat /\ Len(spans) \in Nat
  <2>1. WalkTypes /\ i \in 1 .. Len(spans)
    BY PlacesFollow DEF Walked, IInv
  <2> QED BY <2>1, TypedSpans
<1>2. /\ Len(path) = l + 1 /\ path[l + 1] = s.name
      /\ \A k \in 1 .. l : path[k] = o[k]
  <2> HIDE DEF s
  <2> QED BY <1>1, TrimIs, ZenonT(40)
<1> SUFFICES PathHolds(next, m + 1)
  OBVIOUS
<1> HIDE DEF path, next
<1>3. SUFFICES ASSUME NEW p \in 1 .. m + 1, order[p] \in Lasting, DeeperAfter(p, m + 1)
               PROVE  spans[order[p]].depth < Len(next) /\ next[spans[order[p]].depth + 1] = spans[order[p]].name
  BY DEF PathHolds
<1>4. CASE p = m + 1
  <2>1. i \in Lasting /\ ~s.point
    BY <1>3, <1>4 DEF Lasting, Drawn
  <2>2. s.depth <= Len(o)
    BY <2>1, NextIsChain
  <2>3. l = s.depth
    BY <1>1, <2>2
  <2> HIDE DEF l, s
  <2>4. next = path
    BY <2>1 DEF next
  <2> QED BY <1>1, <1>2, <1>4, <2>3, <2>4 DEF s
<1>5. CASE p # m + 1
  <2> DEFINE d == spans[order[p]].depth
  <2>1. p \in 1 .. m /\ p \in 1 .. Len(spans) /\ m + 1 \in p + 1 .. m + 1 /\ \A q \in p + 1 .. m : q \in p + 1 .. m + 1
    BY <1>1, <1>5
  <2>2. DeeperAfter(p, m)
    BY <1>3, <2>1 DEF DeeperAfter
  <2>3. d < Len(o) /\ o[d + 1] = spans[order[p]].name
    BY <1>3, <2>1, <2>2 DEF PathHolds
  <2>4. CASE s.point
    BY <2>3, <2>4 DEF next
  <2>5. CASE ~s.point
    <3>1. i \in Drawn
      BY <1>1, <2>5 DEF Drawn
    <3>2. d < s.depth
      BY <1>3, <2>1, <3>1 DEF DeeperAfter
    <3>3. d \in Nat
      <4>1. order[p] \in 1 .. Len(spans)
        BY <1>1, <2>1, PlacesFollow DEF Walked
      <4> QED BY <1>1, <4>1, TypedSpans
    <3> HIDE DEF d, s
    <3>4. d + 1 \in 1 .. l /\ l \in Nat
      <4> DEFINE e == s.depth  k == Len(o)
      <4>1. e \in Nat /\ k \in Nat /\ d < e /\ d < k
        BY <1>1, <2>3, <3>2, SMTT(30)
      <4> HIDE DEF e, k
      <4>2. d + 1 \in 1 .. (IF k > e THEN e ELSE k) /\ (IF k > e THEN e ELSE k) \in Nat
        BY <3>3, <4>1
      <4> QED BY <4>2 DEF e, k
    <3> HIDE DEF l
    <3>5. d < Len(path) /\ path[d + 1] = o[d + 1]
      BY <1>2, <3>3, <3>4
    <3>6. next = path
      BY <2>5 DEF next
    <3> QED BY <2>3, <3>5, <3>6 DEF d
  <2> QED BY <2>4, <2>5
<1> QED BY <1>4, <1>5

-------------------------------------------------------------------------------
(* The nodes of the global graph *)

(* A tree that is not merged but drawn: nodes at the paths c of the spans  *)
(* in S, each as wide as w says they are together.                         *)
TreeOf(c, w, S) == [p \in {c[j] : j \in S} |-> SumOver(w, {j \in S : c[j] = p})]

(* What one more span makes of a tree. *)
WithNode(t, path, w) ==
  [p \in DOMAIN t \cup {path} |-> (IF p \in DOMAIN t THEN t[p] ELSE 0) + (IF p = path THEN w ELSE 0)]

(* S are some of n spans that have weights w, and i is another. *)
OneMore(n, w, S, i) == n \in Nat /\ w \in [1 .. n -> Int] /\ S \in SUBSET (1 .. n) /\ i \in 1 .. n /\ i \notin S

(* It is the tree of one more. *)
LEMMA OneMoreNode ==
  ASSUME NEW n, NEW c, NEW w, NEW S, NEW i, OneMore(n, w, S, i)
  PROVE  WithNode(TreeOf(c, w, S), c[i], w[i]) = TreeOf(c, w, S \cup {i})
<1> DEFINE at(p) == {j \in S : c[j] = p}  more(p) == {j \in S \cup {i} : c[j] = p}
           P == {c[j] : j \in S}  Q == {c[j] : j \in S \cup {i}}
           t == TreeOf(c, w, S)
<1> USE DEF OneMore
<1>1. IsFiniteSet(1 .. n)
  BY FS_Interval
<1>2. \A p : IsFiniteSet(at(p)) /\ at(p) \subseteq 1 .. n
  <2> TAKE p
  <2>1. at(p) \subseteq 1 .. n
    OBVIOUS
  <2> HIDE DEF at
  <2> QED BY <1>1, <2>1, FS_Subset
<1>3. DOMAIN t = P /\ \A p \in P : t[p] = SumOver(w, at(p))
  BY DEF TreeOf
<1>4. Q = P \cup {c[i]}
  OBVIOUS
<1>5. \A p : p \notin P => at(p) = {}
  OBVIOUS
<1>6. \A p : more(p) = IF p = c[i] THEN at(p) \cup {i} ELSE at(p)
  <2> TAKE p
  <2>1. CASE p = c[i] BY <2>1
  <2>2. CASE p # c[i] BY <2>2
  <2> QED BY <2>1, <2>2
<1>7. \A p : i \notin at(p)
  OBVIOUS
<1>8. TreeOf(c, w, S \cup {i}) = [p \in Q |-> SumOver(w, more(p))]
  BY DEF TreeOf
<1> HIDE DEF at, more, P, Q, t
<1>9. \A p : SumOver(w, at(p)) \in Int
  <2> TAKE p
  <2>1. IsFiniteSet(at(p)) /\ \A j \in at(p) : w[j] \in Int
    BY <1>2
  <2> QED BY <2>1, SumType
<1>10. ASSUME NEW p \in Q
       PROVE  (IF p \in P THEN t[p] ELSE 0) + (IF p = c[i] THEN w[i] ELSE 0) = SumOver(w, more(p))
  <2>1. (IF p \in P THEN t[p] ELSE 0) = SumOver(w, at(p))
    <3>1. CASE p \in P BY <1>3, <3>1
    <3>2. CASE p \notin P
      <4>1. SumOver(w, at(p)) = 0
        BY <1>5, <3>2, SumEmpty
      <4> QED BY <3>2, <4>1
    <3> QED BY <3>1, <3>2
  <2>2. CASE p = c[i]
    <3>1. more(p) = at(p) \cup {i}
      BY <1>6, <2>2
    <3>2. IsFiniteSet(at(p)) /\ i \notin at(p) /\ \A j \in at(p) \cup {i} : w[j] \in Int
      BY <1>2, <1>7
    <3>3. SumOver(w, at(p) \cup {i}) = SumOver(w, at(p)) + w[i]
      BY <3>2, SumWith
    <3> QED BY <2>1, <2>2, <3>1, <3>3
  <2>3. CASE p # c[i]
    <3>1. more(p) = at(p)
      BY <1>6, <2>3
    <3>2. SumOver(w, at(p)) + 0 = SumOver(w, at(p))
      BY <1>9
    <3> QED BY <2>1, <2>3, <3>1, <3>2
  <2> QED BY <2>2, <2>3
<1>11. WithNode(t, c[i], w[i]) = [p \in Q |-> (IF p \in P THEN t[p] ELSE 0) + (IF p = c[i] THEN w[i] ELSE 0)]
  BY <1>3, <1>4 DEF WithNode
<1> QED BY <1>8, <1>10, <1>11 DEF t

Paths == [i \in 1 .. Len(spans) |-> Chain(spans[i])]
Weights == [i \in 1 .. Len(spans) |-> Weight(spans[i])]

(* The lasting spans among the first m in order. *)
Merged(m) == {i \in Lasting : \E p \in 1 .. m : order[p] = i}

(* The path o and the tree t after as many. *)
Merging(o, t, m) ==
  /\ o \in Seq(Nat \X Nat) /\ PathHolds(o, m)
  /\ \A i \in Merged(m) : Paths[i] \in DOMAIN t
  /\ Lasting = Drawn => t = TreeOf(Paths, Weights, Merged(m))

(* Weights are numbers. *)
LEMMA WeightsAre ==
  ASSUME WalkTypes, Forever \in Nat
  PROVE  (\A i \in 1 .. Len(spans) : Weights[i] = Weight(spans[i])) /\ Weights \in [1 .. Len(spans) -> Int]
<1>1. \A i \in 1 .. Len(spans) : Weights[i] = Weight(spans[i])
  BY DEF Weights
<1>2. ASSUME NEW i \in 1 .. Len(spans) PROVE Weight(spans[i]) \in Int
  <2>1. spans[i].enter \in Nat /\ spans[i].exit \in Nat
    BY TypedSpans
  <2> DEFINE a == spans[i].enter  b == spans[i].exit
  <2>2. Weight(spans[i]) = IF b = Forever \/ b = a THEN 1 ELSE b - a
    BY DEF Weight
  <2>3. a \in Nat /\ b \in Nat
    BY <2>1
  <2> HIDE DEF a, b
  <2> QED BY <2>2, <2>3
<1>3. Weights \in [1 .. Len(spans) -> Int]
  BY <1>2 DEF Weights
<1> QED BY <1>1, <1>3

(* The span merged next. *)
LEMMA MergedOneMore ==
  ASSUME Walked, NEW m \in Nat, m + 1 \in 1 .. Len(spans)
  PROVE  /\ order[m + 1] \in 1 .. Len(spans) /\ order[m + 1] \notin Merged(m)
         /\ Merged(m) \in SUBSET (1 .. Len(spans))
         /\ Merged(m + 1) = IF order[m + 1] \in Lasting THEN Merged(m) \cup {order[m + 1]} ELSE Merged(m)
<1>1. /\ WalkTypes /\ InOrder(order, Len(spans)) /\ Len(spans) \in Nat /\ DOMAIN spans = 1 .. Len(spans)
  BY DEF Walked, IInv, WalkTypes
<1>2. order[m + 1] \in 1 .. Len(spans)
  BY <1>1, PlacesFollow
<1>3. ASSUME NEW p \in 1 .. m, order[p] = order[m + 1] PROVE FALSE
  <2>1. p \in 1 .. Len(spans) /\ p # m + 1
    BY <1>1
  <2> QED BY <1>1, <1>3, <2>1, PlacesFollow
<1>4. order[m + 1] \notin Merged(m)
  BY <1>3 DEF Merged
<1>5. Lasting \subseteq 1 .. Len(spans)
  BY <1>1 DEF Lasting, Drawn
<1>6. 1 .. m + 1 = (1 .. m) \cup {m + 1}
  OBVIOUS
<1>7. \A i : (\E p \in 1 .. m + 1 : order[p] = i) <=> (\E p \in 1 .. m : order[p] = i) \/ i = order[m + 1]
  BY <1>6
<1>8. Merged(m + 1) = IF order[m + 1] \in Lasting THEN Merged(m) \cup {order[m + 1]} ELSE Merged(m)
  <2>1. \A i : i \in Merged(m + 1) <=> i \in Merged(m) \/ (i \in Lasting /\ i = order[m + 1])
    BY <1>7 DEF Merged
  <2> QED BY <2>1
<1>9. Merged(m) \in SUBSET (1 .. Len(spans))
  BY <1>5 DEF Merged
<1> QED BY <1>2, <1>4, <1>8, <1>9

(* A point changes nothing. *)
LEMMA PointMerges ==
  ASSUME Walked, NEW m \in Nat, m + 1 \in 1 .. Len(spans), NEW o, NEW t, Merging(o, t, m), spans[order[m + 1]].point
  PROVE  Merging(o, t, m + 1)
<1>1. order[m + 1] \notin Lasting
  BY DEF Lasting, Drawn
<1>2. Merged(m + 1) = Merged(m)
  BY <1>1, MergedOneMore
<1>3. o \in Seq(Nat \X Nat) /\ PathHolds(o, m)
  BY DEF Merging
<1>4. PathHolds(IF spans[order[m + 1]].point THEN o ELSE Append(Trim(o, spans[order[m + 1]]), spans[order[m + 1]].name), m + 1)
  BY <1>3, PathGoesOn
<1>5. PathHolds(o, m + 1)
  BY <1>4
<1> QED BY <1>2, <1>3, <1>5 DEF Merging

(* Any other span has its node. *)
LEMMA NodeMerges ==
  ASSUME Walked, NEW m \in Nat, m + 1 \in 1 .. Len(spans), NEW o, NEW t, Merging(o, t, m), ~spans[order[m + 1]].point
  PROVE  LET s == spans[order[m + 1]]
             path == Append(Trim(o, s), s.name)
         IN  Merging(path, WithNode(t, path, Weight(s)), m + 1)
<1> DEFINE i == order[m + 1]  s == spans[i]  path == Append(Trim(o, s), s.name)
<1>1. /\ i \in 1 .. Len(spans) /\ i \notin Merged(m) /\ Merged(m) \in SUBSET (1 .. Len(spans))
      /\ Merged(m + 1) = IF i \in Lasting THEN Merged(m) \cup {i} ELSE Merged(m)
  BY MergedOneMore
<1>2. /\ o \in Seq(Nat \X Nat) /\ PathHolds(o, m)
      /\ \A j \in Merged(m) : Paths[j] \in DOMAIN t
      /\ Lasting = Drawn => t = TreeOf(Paths, Weights, Merged(m))
  BY DEF Merging
<1>3. WalkTypes /\ Len(spans) \in Nat /\ DOMAIN spans = 1 .. Len(spans) /\ Forever \in Nat
  BY MarkerAssumption DEF Walked, IInv, WalkTypes
<1>4. path \in Seq(Nat \X Nat)
  <2>1. s.depth \in Nat /\ s.name \in Nat \X Nat
    BY <1>1, <1>3, TypedSpans
  <2> HIDE DEF s
  <2> QED BY <1>2, <2>1, TrimIs
<1>5. PathHolds(path, m + 1)
  <2>1. PathHolds(IF s.point THEN o ELSE path, m + 1)
    BY <1>2, PathGoesOn
  <2>2. (IF s.point THEN o ELSE path) = path
    OBVIOUS
  <2> HIDE DEF path, s
  <2> QED BY <2>1, <2>2
<1>6. i \in Lasting => path = Paths[i]
  <2> SUFFICES ASSUME i \in Lasting PROVE path = Paths[i]
    OBVIOUS
  <2>1. path = Chain(s)
    BY <1>2, NextIsChain
  <2>2. Paths[i] = Chain(spans[i])
    BY <1>1 DEF Paths
  <2> QED BY <2>1, <2>2
<1>7. Weights[i] = Weight(s) /\ Weights \in [1 .. Len(spans) -> Int]
  BY <1>1, <1>3, WeightsAre
<1> HIDE DEF path, s
<1> DEFINE u == WithNode(t, path, Weight(s))
<1>8. DOMAIN u = DOMAIN t \cup {path}
  BY DEF WithNode
<1> HIDE DEF i
<1>9. \A j \in Merged(m + 1) : Paths[j] \in DOMAIN u
  <2> HIDE DEF u
  <2> QED BY <1>1, <1>2, <1>6, <1>8
<1>10. ASSUME Lasting = Drawn PROVE u = TreeOf(Paths, Weights, Merged(m + 1))
  <2>1. i \in Lasting
    BY <1>1, <1>3, <1>10 DEF Drawn, i
  <2>2. t = TreeOf(Paths, Weights, Merged(m))
    BY <1>2, <1>10
  <2>3. WithNode(TreeOf(Paths, Weights, Merged(m)), Paths[i], Weights[i]) = TreeOf(Paths, Weights, Merged(m) \cup {i})
    <3> DEFINE n == Len(spans)  S == Merged(m)  w == Weights  c == Paths
    <3>1. OneMore(n, w, S, i)
      BY <1>1, <1>3, <1>7 DEF OneMore
    <3> HIDE DEF n, S, w, c
    <3>2. WithNode(TreeOf(c, w, S), c[i], w[i]) = TreeOf(c, w, S \cup {i})
      BY <3>1, OneMoreNode, SMT
    <3> QED BY <3>2 DEF S, w, c
  <2> QED BY <1>1, <1>6, <1>7, <2>1, <2>2, <2>3
<1>11. Merging(path, u, m + 1)
  BY <1>4, <1>5, <1>9, <1>10 DEF Merging
<1> QED BY <1>11 DEF path, s, i

-------------------------------------------------------------------------------
(* All that the global graph relies on. *)
GInv ==
  /\ IInv
  /\ phase \in {"trace", "walk"} => open = <<>> /\ tree = <<>> /\ cursor = 1
  /\ phase = "sorted" => cursor = 1
  /\ phase \in {"sorted", "merge"} =>
       /\ Len(stack) = 0 /\ InOrder(order, Len(spans))
       /\ cursor \in Nat \ {0} /\ cursor <= Len(spans) + 1 /\ Merging(open, tree, cursor - 1)

(* The chain of a span s among the spans sp. *)
ChainIn(sp, s) ==
  LET aroundIt == {i \in DOMAIN sp : ~sp[i].point /\ sp[i].enter <= s.enter /\ s.enter < sp[i].exit}
      around == {i \in aroundIt : sp[i].exit >= s.exit /\ sp[i].depth <= s.depth}
  IN  [d \in 1 .. Cardinality(around) |-> (CHOOSE x \in {sp[i] : i \in around} :
          Cardinality({j \in around : sp[j].depth < x.depth}) = d - 1).name]

(* Paths, nodes and what is merged are the same as long as the spans and   *)
(* their order are.                                                        *)
LEMMA SameMerging ==
  ASSUME UNCHANGED <<spans, order>>, NEW o, NEW t, NEW m, Merging(o, t, m), open' = o, tree' = t, cursor' - 1 = m
  PROVE  Merging(open, tree, cursor - 1)'
<1>1. Drawn' = Drawn /\ Lasting' = Lasting
  BY DEF Drawn, Lasting
<1>2. \A p : DeeperAfter(p, cursor - 1)' <=> DeeperAfter(p, m)
  BY <1>1 DEF DeeperAfter
<1>3. PathHolds(open, cursor - 1)'
  BY <1>1, <1>2 DEF PathHolds, Merging
<1>4. Merged(cursor - 1)' = Merged(m)
  BY <1>1 DEF Merged
<1>6. \A s : Chain(s)' = Chain(s)
  <2>1. \A s : Chain(s) = ChainIn(spans, s) /\ Chain(s)' = ChainIn(spans', s)
    BY Zenon DEF Chain, Around, ChainIn
  <2> QED BY <2>1
<1>7. Paths' = Paths
  BY <1>6 DEF Paths
<1>8. Weights' = Weights
  BY DEF Weights, Weight
<1> QED BY <1>1, <1>3, <1>4, <1>7, <1>8 DEF Merging

(* At first there is no node. *)
LEMMA SortMerges == ASSUME GInv, IInv', Sort PROVE GInv'
<1>1. /\ WalkTypes /\ Len(stack) = 0 /\ order' = Sorted
      /\ phase' = "sorted" /\ spans' = spans /\ stack' = stack /\ cursor' = 1 /\ open' = <<>> /\ tree' = <<>>
  BY DEF GInv, IInv, Sort, walked, Depth
<1>2. InOrder(Sorted, Len(spans))
  BY <1>1, SortedInOrder
<1>3. InOrder(order, Len(spans))'
  BY <1>1, <1>2 DEF InOrder, Precedes
<1>4. PathHolds(open, cursor - 1)'
  BY <1>1 DEF PathHolds
<1>5. Merged(cursor - 1)' = {}
  BY <1>1 DEF Merged
<1>6. TreeOf(Paths, Weights, {})' = <<>>
  <2>1. \A c, w : TreeOf(c, w, {}) = <<>>
    BY DEF TreeOf
  <2> QED BY <2>1
<1>7. Merging(open, tree, cursor - 1)'
  BY <1>1, <1>4, <1>5, <1>6 DEF Merging
<1> QED BY <1>1, <1>3, <1>7 DEF GInv, WalkTypes

(* Then each span adds its node. *)
LEMMA MergeMerges == ASSUME GInv, IInv', Merge PROVE GInv'
<1>1. /\ Walked /\ Len(spans) \in Nat /\ cursor \in Nat \ {0} /\ Merging(open, tree, cursor - 1)
      /\ UNCHANGED <<stack, spans, order>> /\ phase' = "merge" /\ cursor' = cursor + 1 /\ cursor <= Len(order)
  BY SMTT(30) DEF GInv, Walked, IInv, WalkTypes, Merge, walked
<1>2. Len(order) = Len(spans)
  <2>1. DOMAIN order = 1 .. Len(spans)
    BY <1>1 DEF Walked, InOrder
  <2> QED BY <1>1, <2>1
<1>3. PICK m \in Nat : m = cursor - 1
  BY <1>1
<1>4. m + 1 = cursor /\ m + 1 \in 1 .. Len(spans) /\ Merging(open, tree, m) /\ cursor' - 1 = m + 1
  BY <1>1, <1>2, <1>3
<1> DEFINE s == spans[order[m + 1]]  path == Append(Trim(open, s), s.name)
<1>5. ASSUME s.point PROVE Merging(open, tree, cursor - 1)'
  <2>1. open' = open /\ tree' = tree
    BY <1>4, <1>5 DEF Merge
  <2>2. Merging(open, tree, m + 1)
    BY <1>1, <1>4, <1>5, PointMerges
  <2>3. Merging(open, tree, cursor - 1)'
    BY <1>1, <1>4, <2>1, <2>2, SameMerging
  <2> QED BY <2>3
<1>6. ASSUME ~s.point PROVE Merging(open, tree, cursor - 1)'
  <2>1. open' = path /\ tree' = WithNode(tree, path, Weight(s))
    BY <1>4, <1>6 DEF Merge, WithNode
  <2>2. Merging(path, WithNode(tree, path, Weight(s)), m + 1)
    BY <1>1, <1>4, <1>6, NodeMerges
  <2> HIDE DEF path, s
  <2>3. Merging(open, tree, cursor - 1)'
    BY <1>1, <1>4, <2>1, <2>2, SameMerging
  <2> QED BY <2>3
<1>7. Merging(open, tree, cursor - 1)'
  BY <1>5, <1>6
<1>8. InOrder(order, Len(spans))'
  BY <1>1, SameOrder DEF Walked
<1>9. Len(stack') = 0 /\ cursor' \in Nat \ {0} /\ cursor' <= Len(spans') + 1
  BY <1>1, <1>2 DEF Walked
<1> QED BY <1>1, <1>7, <1>8, <1>9 DEF GInv

(* It holds at first. *)
LEMMA InitGInv == Init => GInv
BY InitIInv DEF Init, GInv

(* Every step keeps it. *)
LEMMA NextGInv == ASSUME GInv, [Next]_vars PROVE GInv'
<1>0. IInv'
  BY NextIInv DEF GInv
<1>1. CASE \/ \E k \in Kernels : StartWave(k)
           \/ \E b \in BOOLEAN : EndWave(b)
           \/ \E m \in UNION {Sends[k] : k \in Kernels}, d \in 0 .. 1, b \in BOOLEAN : Emit(m.kind, m.id, d, b)
           \/ Stop \/ Walk \/ Drain
  <2>1. phase \in {"trace", "walk"} /\ phase' \in {"trace", "walk"} /\ UNCHANGED <<open, tree, cursor>>
    BY <1>1 DEF StartWave, EndWave, Emit, Stop, Walk, Drain, drawn
  <2> QED BY <1>0, <2>1 DEF GInv
<1>2. CASE Sort
  BY <1>0, <1>2, SortMerges
<1>3. CASE Merge
  BY <1>0, <1>3, MergeMerges
<1>4. ASSUME NEW t \in 0 .. clock, Attribute(t) PROVE GInv'
  <2>1. phase' = "attribute"
    BY <1>4 DEF Attribute
  <2> QED BY <1>0, <2>1 DEF GInv
<1>5. CASE UNCHANGED vars
  <2>1. UNCHANGED <<phase, stack, spans, order, cursor, open, tree>>
    BY <1>5 DEF vars, walked, drawn
  <2>2. Merging(open, tree, cursor - 1) => Merging(open, tree, cursor - 1)'
    BY <2>1, SameMerging
  <2>3. InOrder(order, Len(spans)) => InOrder(order, Len(spans))'
    BY <2>1, SameOrder
  <2> QED BY <1>0, <2>1, <2>2, <2>3 DEF GInv
<1> QED BY <1>1, <1>2, <1>3, <1>4, <1>5 DEF Next

(* The weights of spans, as the sum of a function. *)
LEMMA WeightsAdd ==
  ASSUME NEW S \in SUBSET (1 .. Len(spans))
  PROVE  MapThenSumSet(LAMBDA i : Weight(spans[i]), S) = SumOver(Weights, S)
<1> DEFINE added(g) == [s \in SUBSET S |-> IF s = {} THEN 0 ELSE Weight(spans[Pick(s)]) + g[s \ {Pick(s)}]]
           sum(g) == [s \in SUBSET S |-> Body(g, Weights, s)]
<1>1. \A s \in SUBSET S : s # {} => Weights[Pick(s)] = Weight(spans[Pick(s)])
  BY PickIsElement DEF Weights
<1>2. \A g : added(g) = sum(g)
  BY <1>1 DEF Body
<1>3. MapThenSumSet(LAMBDA i : Weight(spans[i]), S) = (CHOOSE g : g = added(g))[S]
  BY Zenon DEF MapThenSumSet, MapThenFoldSet, Pick
<1>4. SumOver(Weights, S) = (CHOOSE g : g = sum(g))[S]
  BY SumIsPartial, Zenon DEF Partial
<1>5. (CHOOSE g : g = added(g)) = (CHOOSE g : g = sum(g))
  <2> HIDE DEF added, sum
  <2> QED BY <1>2, Zenon
<1> QED BY <1>3, <1>4, <1>5, Zenon

-------------------------------------------------------------------------------
(* Nodes within their parents *)

(* The scopes at a node, those right below it, and the scope that one lies *)
(* in right above.                                                         *)
AtNode(p) == {i \in Lasting : Paths[i] = p}
UnderNode(p) == {i \in Lasting : Paths[i] \in Children(p)}
Parents == [i \in 1 .. Len(spans) |-> CHOOSE j \in Above(i) : spans[j].depth = spans[i].depth - 1]

(* Times, depths and the path of a scope that lasts. *)
LEMMA LastingIs ==
  ASSUME Walked, NEW i \in Lasting
  PROVE  /\ i \in 1 .. Len(spans) /\ ~spans[i].point /\ Paths[i] = Chain(spans[i])
         /\ spans[i].enter \in Nat /\ spans[i].exit \in Nat /\ spans[i].depth \in Nat
         /\ spans[i].enter < spans[i].exit
         /\ spans[i].exit # Forever => spans[i].exit <= clock
         /\ Len(Paths[i]) = spans[i].depth + 1 /\ DOMAIN Paths[i] = 1 .. spans[i].depth + 1
         /\ Paths[i] = [d \in 1 .. spans[i].depth + 1 |-> Paths[i][d]]
<1>1. WalkTypes /\ Bounded /\ Len(spans) \in Nat /\ DOMAIN spans = 1 .. Len(spans)
  BY DEF Walked, IInv, WalkTypes, Walking
<1>2. i \in 1 .. Len(spans) /\ ~spans[i].point /\ spans[i].exit > spans[i].enter
  BY <1>1 DEF Lasting, Drawn
<1>3. spans[i].enter \in Nat /\ spans[i].exit \in Nat /\ spans[i].depth \in Nat
  BY <1>1, <1>2, TypedSpans
<1>4. spans[i].exit # Forever => spans[i].exit <= clock
  BY <1>1, <1>2 DEF Bounded
<1>5. Paths[i] = Chain(spans[i])
  BY <1>2 DEF Paths
<1> DEFINE n == spans[i].depth + 1  c == Paths[i]
<1>6. c = [d \in 1 .. n |-> c[d]]
  <2>1. Chain(spans[i]) = [d \in 1 .. n |-> Chain(spans[i])[d]]
    BY ChainIs
  <2> QED BY <1>5, <2>1
<1>7. n \in Nat
  BY <1>3
<1> HIDE DEF n, c
<1>8. Len(c) = n /\ DOMAIN c = 1 .. n
  <2>1. \A f, k : k \in Nat => Len([d \in 1 .. k |-> f[d]]) = k
    OBVIOUS
  <2>2. Len([d \in 1 .. n |-> c[d]]) = n
    BY <1>7, <2>1
  <2>3. DOMAIN [d \in 1 .. n |-> c[d]] = 1 .. n
    OBVIOUS
  <2> QED BY <1>6, <2>2, <2>3, Zenon
<1> QED BY <1>2, <1>3, <1>4, <1>5, <1>6, <1>8 DEF n, c

(* The path of a scope that another lies in begins the other's. *)
LEMMA PathBegins ==
  ASSUME Walked, NEW i \in Lasting, NEW j \in Above(i)
  PROVE  \A d \in 1 .. spans[j].depth + 1 : Chain(spans[j])[d] = Chain(spans[i])[d]
<1>1. /\ i \in 1 .. Len(spans) /\ j \in Lasting /\ j \in 1 .. Len(spans)
      /\ spans[j].enter <= spans[i].enter /\ spans[i].exit <= spans[j].exit /\ spans[j].depth \in 0 .. spans[i].depth
  BY AboveIsChain
<1>2. /\ spans[i].enter \in Nat /\ spans[i].exit \in Nat /\ spans[i].depth \in Nat /\ spans[i].enter < spans[i].exit
      /\ spans[j].enter \in Nat /\ spans[j].exit \in Nat /\ spans[j].depth \in Nat
  BY <1>1, LastingIs
<1>3. ASSUME NEW k \in Above(j) PROVE k \in Above(i)
  <2>1. /\ k \in Lasting /\ k \in 1 .. Len(spans)
        /\ spans[k].enter <= spans[j].enter /\ spans[j].exit <= spans[k].exit /\ spans[k].depth \in 0 .. spans[j].depth
    BY <1>1, AboveIsChain
  <2>2. spans[k].enter \in Nat /\ spans[k].exit \in Nat /\ ~spans[k].point
    BY <2>1, LastingIs
  <2>3. /\ spans[k].enter <= spans[i].enter /\ spans[i].enter < spans[k].exit
        /\ spans[k].exit >= spans[i].exit /\ spans[k].depth <= spans[i].depth
    <3>1. \A x, y, z \in Nat : x <= y /\ y <= z => x <= z
      OBVIOUS
    <3>2. spans[k].enter <= spans[i].enter /\ spans[i].exit <= spans[k].exit
      BY <1>1, <1>2, <2>1, <2>2, <3>1
    <3>3. spans[i].enter < spans[k].exit
      BY <1>2, <2>2, <3>2
    <3>4. spans[k].depth <= spans[i].depth
      BY <1>1, <1>2, <2>1
    <3> QED BY <3>2, <3>3, <3>4
  <2>4. k \in DOMAIN spans
    BY <2>1 DEF Lasting, Drawn
  <2> QED BY <2>2, <2>3, <2>4 DEF Above, Around
<1>4. ASSUME NEW d \in 1 .. spans[j].depth + 1 PROVE Chain(spans[j])[d] = Chain(spans[i])[d]
  <2>1. d - 1 \in 0 .. spans[j].depth /\ (d - 1) + 1 = d
    BY <1>2
  <2>2. PICK k \in Above(j) : spans[k].depth = d - 1
    BY <1>1, <2>1, AboveIsChain
  <2>3. k \in Above(i)
    BY <1>3
  <2>4. Chain(spans[j])[spans[k].depth + 1] = spans[k].name
    BY <1>1, ChainIs
  <2>5. Chain(spans[i])[spans[k].depth + 1] = spans[k].name
    BY <2>3, ChainIs
  <2> QED BY <2>1, <2>2, <2>4, <2>5
<1> QED BY <1>4

(* A scope right below a node lies in one at the node. *)
LEMMA ParentIs ==
  ASSUME Walked, NEW p \in {Paths[j] : j \in Lasting}, NEW i \in UnderNode(p)
  PROVE  /\ Parents[i] \in AtNode(p) /\ spans[i].depth = Len(p)
         /\ spans[Parents[i]].enter <= spans[i].enter /\ spans[i].exit <= spans[Parents[i]].exit
<1>1. i \in Lasting /\ Len(Paths[i]) = Len(p) + 1 /\ SubSeq(Paths[i], 1, Len(p)) = p
  BY DEF UnderNode, Children
<1>2. PICK k \in Lasting : p = Paths[k]
  OBVIOUS
<1> DEFINE n == spans[k].depth + 1  c == Paths[i]
<1>3. n \in Nat /\ n >= 1 /\ Len(p) = n /\ DOMAIN p = 1 .. n /\ p = [d \in 1 .. n |-> p[d]]
  BY <1>2, LastingIs
<1>4. i \in 1 .. Len(spans) /\ spans[i].depth \in Nat /\ Len(c) = spans[i].depth + 1 /\ c = Chain(spans[i])
  BY <1>1, LastingIs
<1> HIDE DEF n, c
<1>5. spans[i].depth = n /\ n - 1 \in 0 .. spans[i].depth
  <2>1. Len(c) = n + 1
    BY <1>1, <1>3 DEF c
  <2> QED BY <1>3, <1>4, <2>1
<1> DEFINE j == Parents[i]
<1>6. j \in Above(i) /\ spans[j].depth = n - 1
  <2>1. \E m \in Above(i) : spans[m].depth = spans[i].depth - 1
    BY <1>1, <1>5, AboveIsChain
  <2>2. j = CHOOSE m \in Above(i) : spans[m].depth = spans[i].depth - 1
    BY <1>4 DEF Parents
  <2>3. j \in Above(i) /\ spans[j].depth = spans[i].depth - 1
    <3> HIDE DEF j
    <3> QED BY <2>1, <2>2
  <2> QED BY <1>5, <2>3
<1> HIDE DEF j
<1>7. j \in Lasting /\ spans[j].enter <= spans[i].enter /\ spans[i].exit <= spans[j].exit
  BY <1>1, <1>6, AboveIsChain
<1>8. spans[j].depth + 1 = n
  BY <1>3, <1>6
<1>9. Paths[j] = Chain(spans[j]) /\ Paths[j] = [d \in 1 .. n |-> Paths[j][d]]
  BY <1>7, <1>8, LastingIs
<1>10. \A d \in 1 .. n : p[d] = c[d]
  <2>1. \A d \in 1 .. n : SubSeq(c, 1, n)[d] = c[d]
    BY <1>3
  <2> QED BY <1>1, <1>3, <2>1 DEF c
<1>11. \A d \in 1 .. n : Paths[j][d] = p[d]
  <2>1. \A d \in 1 .. n : Chain(spans[j])[d] = Chain(spans[i])[d]
    BY <1>1, <1>6, <1>8, PathBegins
  <2> QED BY <1>4, <1>9, <1>10, <2>1
<1>12. Paths[j] = p
  <2>1. [d \in 1 .. n |-> Paths[j][d]] = [d \in 1 .. n |-> p[d]]
    BY <1>11
  <2> QED BY <1>3, <1>9, <2>1, Zenon
<1> QED BY <1>3, <1>5, <1>7, <1>12 DEF AtNode, j

(* The sizes of what lies in one scope, one after the other. *)
LEMMA ScopeHasRoom ==
  ASSUME Walked, NEW p \in {Paths[j] : j \in Lasting}, NEW j \in AtNode(p), spans[j].exit # Forever
  PROVE  SumOver(Weights, {i \in UnderNode(p) : Parents[i] = j}) <= Weights[j]
<1> DEFINE S == {i \in UnderNode(p) : Parents[i] = j}
           from == [i \in 1 .. Len(spans) |-> spans[i].enter]
           to == [i \in 1 .. Len(spans) |-> spans[i].exit]
<1>1. WalkTypes /\ Forever \in Nat /\ clock \in Nat /\ clock < Forever /\ Len(spans) \in Nat
  BY MarkerAssumption DEF Walked, IInv, WalkTypes, TraceTypes
<1>2. /\ j \in Lasting /\ j \in 1 .. Len(spans) /\ spans[j].enter \in Nat /\ spans[j].exit \in Nat
      /\ spans[j].enter < spans[j].exit /\ spans[j].exit <= clock
  BY LastingIs DEF AtNode
<1>3. ASSUME NEW i \in S
      PROVE  /\ i \in Lasting /\ i \in 1 .. Len(spans) /\ spans[i].enter \in Nat /\ spans[i].exit \in Nat
             /\ spans[i].enter < spans[i].exit /\ spans[i].depth = Len(p)
             /\ spans[j].enter <= spans[i].enter /\ spans[i].exit <= spans[j].exit
             /\ from[i] = spans[i].enter /\ to[i] = spans[i].exit
             /\ Weights[i] = spans[i].exit - spans[i].enter
  <2>1. i \in Lasting /\ i \in UnderNode(p) /\ Parents[i] = j
    BY DEF UnderNode
  <2>2. i \in 1 .. Len(spans) /\ spans[i].enter \in Nat /\ spans[i].exit \in Nat /\ spans[i].enter < spans[i].exit
    BY <2>1, LastingIs
  <2>3. spans[i].depth = Len(p) /\ spans[j].enter <= spans[i].enter /\ spans[i].exit <= spans[j].exit
    BY <2>1, ParentIs
  <2>4. spans[i].exit # Forever /\ spans[i].exit # spans[i].enter
    BY <1>1, <1>2, <2>2, <2>3
  <2>5. Weights[i] = spans[i].exit - spans[i].enter
    BY <1>1, <2>2, <2>4, WeightsAre DEF Weight
  <2> QED BY <2>1, <2>2, <2>3, <2>5
<1>4. Weights[j] = spans[j].exit - spans[j].enter
  <2>1. spans[j].exit # Forever /\ spans[j].exit # spans[j].enter
    BY <1>2
  <2> QED BY <1>1, <1>2, <2>1, WeightsAre DEF Weight
<1>5. IsFiniteSet(S)
  <2>1. S \subseteq 1 .. Len(spans)
    BY <1>3
  <2> HIDE DEF S
  <2>2. IsFiniteSet(1 .. Len(spans))
    BY <1>1, FS_Interval
  <2> QED BY <2>1, <2>2, FS_Subset
<1> HIDE DEF S, from, to
<1>6. ASSUME NEW i \in S, NEW k \in S PROVE i = k \/ to[i] <= from[k] \/ to[k] <= from[i]
  <2>1. \A a, b \in 1 .. Len(spans) : a < b => Within(spans[a], spans[b])
    BY DEF Walked, IInv, Walking, Nested, Nest
  <2>2. i \in 1 .. Len(spans) /\ k \in 1 .. Len(spans) /\ spans[i].depth = spans[k].depth
    BY <1>3
  <2>3. spans[i].depth \in Nat /\ spans[k].depth \in Nat
    BY <1>1, <2>2, TypedSpans
  <2>4. CASE i < k
    <3>1. spans[i].exit <= spans[k].enter
      BY <2>1, <2>2, <2>3, <2>4 DEF Within
    <3> QED BY <1>3, <3>1
  <2>5. CASE k < i
    <3>1. spans[k].exit <= spans[i].enter
      BY <2>1, <2>2, <2>3, <2>5 DEF Within
    <3> QED BY <1>3, <3>1
  <2>6. i < k \/ k < i \/ i = k
    BY <1>1, <2>2
  <2> QED BY <2>4, <2>5, <2>6
<1>7. ASSUME NEW i \in S PROVE from[i] \in Int /\ to[i] \in Int /\ from[i] < to[i] /\ from[i] <= to[i]
  <2>1. spans[i].enter \in Nat /\ spans[i].exit \in Nat /\ spans[i].enter < spans[i].exit
    BY <1>3
  <2>2. from[i] = spans[i].enter /\ to[i] = spans[i].exit
    BY <1>3
  <2> QED BY <2>1, <2>2
<1>8. Apart(S, from, to)
  BY <1>6, <1>7 DEF Apart
<1> DEFINE a == spans[j].enter  b == spans[j].exit
<1>9. a \in Int /\ b \in Int /\ a <= b
  BY <1>2
<1>10. ASSUME NEW i \in S
       PROVE  Weights[i] = to[i] - from[i] /\ a <= from[i] /\ to[i] <= b
  <2>1. from[i] = spans[i].enter /\ to[i] = spans[i].exit /\ Weights[i] = spans[i].exit - spans[i].enter
    BY <1>3
  <2>2. a <= spans[i].enter /\ spans[i].exit <= b
    BY <1>3
  <2> QED BY <2>1, <2>2
<1>11. Weights[j] = b - a
  BY <1>4
<1> HIDE DEF a, b
<1>12. SumOver(Weights, S) <= b - a
  <2> DEFINE w == Weights
  <2>1. (\A x \in S : w[x] = to[x] - from[x] /\ from[x] < to[x]) /\ \A x \in S : a <= from[x] /\ to[x] <= b
    BY <1>7, <1>10
  <2> HIDE DEF w
  <2>2. SumOver(w, S) <= b - a
    BY <1>5, <1>8, <1>9, <2>1, Packed
  <2> QED BY <2>2 DEF w
<1> QED BY <1>11, <1>12 DEF S

(* So the children of a node have room within it. *)
LEMMA ChildrenFit ==
  ASSUME Walked, tree = TreeOf(Paths, Weights, Lasting), NEW p \in DOMAIN tree, AllClosed(p)
  PROVE  MapThenSumSet(LAMBDA c : tree[c], Children(p)) <= tree[p]
<1> DEFINE kids == Children(p)  w == Weights  S == UnderNode(p)  R == AtNode(p)
           above == [c \in kids |-> SumOver(w, {i \in S : Paths[i] = c})]
           within == [j \in R |-> SumOver(w, {i \in S : Parents[i] = j})]
<1>1. WalkTypes /\ Forever \in Nat /\ Len(spans) \in Nat /\ DOMAIN spans = 1 .. Len(spans)
  BY MarkerAssumption DEF Walked, IInv, WalkTypes
<1>2. DOMAIN tree = {Paths[j] : j \in Lasting} /\ \A c \in DOMAIN tree : tree[c] = SumOver(w, {i \in Lasting : Paths[i] = c})
  BY DEF TreeOf
<1>3. Lasting \subseteq 1 .. Len(spans) /\ IsFiniteSet(Lasting)
  <2>1. Lasting \subseteq 1 .. Len(spans)
    BY <1>1 DEF Lasting, Drawn
  <2>2. IsFiniteSet(1 .. Len(spans))
    BY <1>1, FS_Interval
  <2> QED BY <2>1, <2>2, FS_Subset
<1>4. S \subseteq Lasting /\ R \subseteq Lasting /\ kids \subseteq {Paths[j] : j \in Lasting}
  BY <1>2 DEF UnderNode, AtNode, Children
<1>5. IsFiniteSet(S) /\ IsFiniteSet(R)
  <2> HIDE DEF S, R
  <2> QED BY <1>3, <1>4, FS_Subset
<1>6. IsFiniteSet(kids)
  <2>1. IsFiniteSet({Paths[j] : j \in Lasting})
    <3> DEFINE f == [j \in Lasting |-> Paths[j]]
    <3>1. f \in Surjection(Lasting, {Paths[j] : j \in Lasting})
      BY DEF Surjection
    <3> HIDE DEF f
    <3> QED BY <1>3, <3>1, FS_Surjection
  <2> HIDE DEF kids
  <2> QED BY <1>4, <2>1, FS_Subset
<1>7. \A i \in Lasting : w[i] \in Int
  BY <1>1, <1>3, WeightsAre
<1>8. \A i \in S : Paths[i] \in kids /\ Parents[i] \in R
  BY <1>2, ParentIs DEF UnderNode
<1>9. ASSUME NEW c \in kids PROVE tree[c] = above[c]
  <2>1. {i \in Lasting : Paths[i] = c} = {i \in S : Paths[i] = c}
    BY DEF UnderNode
  <2>2. tree[c] = SumOver(w, {i \in Lasting : Paths[i] = c})
    BY <1>2, <1>4
  <2> QED BY <2>1, <2>2
<1>10. ASSUME NEW j \in R PROVE within[j] \in Int /\ w[j] \in Int /\ within[j] <= w[j]
  <2>1. {i \in S : Parents[i] = j} \subseteq S
    OBVIOUS
  <2>2. IsFiniteSet({i \in S : Parents[i] = j})
    BY <1>5, <2>1, FS_Subset
  <2>3. \A i \in {i \in S : Parents[i] = j} : w[i] \in Int
    BY <1>4, <1>7
  <2>4. within[j] \in Int
    BY <2>2, <2>3, SumType
  <2>5. j \in Lasting /\ Paths[j] = p
    BY DEF AtNode
  <2>6. spans[j].exit # Forever
    <3>1. j \in Drawn /\ Chain(spans[j]) = p
      BY <2>5, LastingIs DEF Lasting
    <3> QED BY <3>1 DEF AllClosed
  <2>7. within[j] <= w[j]
    BY <1>2, <2>6, ScopeHasRoom
  <2> QED BY <1>7, <2>4, <2>5, <2>7
<1>11. tree[p] = SumOver(w, R)
  BY <1>2 DEF AtNode
<1> HIDE DEF kids, w, S, R
<1>12. SumOver(tree, kids) = SumOver(above, kids)
  <2> HIDE DEF above
  <2> QED BY <1>6, <1>9, SumAgrees
<1>13. SumOver(w, S) = SumOver(above, kids)
  <2> DEFINE m == Paths
  <2>1. \A x \in S : m[x] \in kids /\ w[x] \in Int
    BY <1>4, <1>7, <1>8
  <2> HIDE DEF m
  <2>2. SumOver(w, S) = SumOver([c \in kids |-> SumOver(w, {i \in S : m[i] = c})], kids)
    BY <1>5, <1>6, <2>1, SumGrouped
  <2> QED BY <2>2 DEF m
<1>14. SumOver(w, S) = SumOver(within, R)
  <2> DEFINE m == Parents
  <2>1. \A x \in S : m[x] \in R /\ w[x] \in Int
    BY <1>4, <1>7, <1>8
  <2> HIDE DEF m
  <2>2. SumOver(w, S) = SumOver([c \in R |-> SumOver(w, {i \in S : m[i] = c})], R)
    BY <1>5, <2>1, SumGrouped
  <2> QED BY <2>2 DEF m
<1>15. SumOver(within, R) <= SumOver(w, R)
  <2> HIDE DEF within
  <2> QED BY <1>5, <1>10, SumNoGreater
<1>16. MapThenSumSet(LAMBDA c : tree[c], kids) = SumOver(tree, kids)
  BY DEF SumOver
<1>17. SumOver(tree, kids) <= tree[p]
  BY <1>11, <1>12, <1>13, <1>14, <1>15
<1> QED BY <1>16, <1>17 DEF kids

-------------------------------------------------------------------------------
(* All spans merged *)

(* When all spans are merged, the tree is that of all that last, and the *)
(* children of nodes fit.                                                *)
LEMMA AllMerged == ASSUME GInv PROVE GlobalTree
<1> SUFFICES ASSUME phase = "merge", cursor > Len(order)
             PROVE  /\ \A i \in Lasting : Chain(spans[i]) \in DOMAIN tree
                    /\ Lasting = Drawn =>
                         /\ tree = [p \in {Chain(spans[i]) : i \in Lasting} |->
                                      MapThenSumSet(LAMBDA i : Weight(spans[i]), {i \in Lasting : Chain(spans[i]) = p})]
                         /\ \A p \in DOMAIN tree :
                              AllClosed(p) => MapThenSumSet(LAMBDA c : tree[c], Children(p)) <= tree[p]
  BY DEF GlobalTree
<1>1. /\ WalkTypes /\ Len(spans) \in Nat /\ DOMAIN spans = 1 .. Len(spans) /\ InOrder(order, Len(spans))
      /\ cursor \in Nat \ {0} /\ cursor <= Len(spans) + 1 /\ Merging(open, tree, cursor - 1)
  BY DEF GInv, IInv, WalkTypes
<1>2. cursor - 1 = Len(spans)
  <2>1. DOMAIN order = 1 .. Len(spans)
    BY <1>1 DEF InOrder
  <2>2. Len(order) = Len(spans)
    BY <1>1, <2>1
  <2> QED BY <1>1, <2>2
<1>3. Lasting \subseteq 1 .. Len(spans)
  BY <1>1 DEF Lasting, Drawn
<1>4. Merged(cursor - 1) = Lasting
  BY <1>1, <1>2, <1>3 DEF Merged, InOrder
<1>5. \A i \in Lasting : Paths[i] = Chain(spans[i])
  BY <1>3 DEF Paths
<1>6. \A i \in Lasting : Chain(spans[i]) \in DOMAIN tree
  BY <1>1, <1>4, <1>5 DEF Merging
<1>7. ASSUME Lasting = Drawn
      PROVE  tree = [p \in {Chain(spans[i]) : i \in Lasting} |->
                       MapThenSumSet(LAMBDA i : Weight(spans[i]), {i \in Lasting : Chain(spans[i]) = p})]
  <2>1. tree = TreeOf(Paths, Weights, Lasting)
    BY <1>1, <1>4, <1>7 DEF Merging
  <2>2. {Paths[i] : i \in Lasting} = {Chain(spans[i]) : i \in Lasting}
    BY <1>5
  <2>3. ASSUME NEW p
        PROVE  MapThenSumSet(LAMBDA i : Weight(spans[i]), {i \in Lasting : Chain(spans[i]) = p})
                 = SumOver(Weights, {i \in Lasting : Paths[i] = p})
    <3>1. {i \in Lasting : Paths[i] = p} = {i \in Lasting : Chain(spans[i]) = p}
      BY <1>5
    <3>2. {i \in Lasting : Chain(spans[i]) = p} \in SUBSET (1 .. Len(spans))
      BY <1>3
    <3>3. MapThenSumSet(LAMBDA i : Weight(spans[i]), {i \in Lasting : Chain(spans[i]) = p})
            = SumOver(Weights, {i \in Lasting : Chain(spans[i]) = p})
      BY <3>2, WeightsAdd
    <3> QED BY <3>1, <3>3
  <2>4. tree = [p \in {Chain(spans[i]) : i \in Lasting} |-> SumOver(Weights, {i \in Lasting : Paths[i] = p})]
    BY <2>1, <2>2 DEF TreeOf
  <2> QED BY <2>3, <2>4, Zenon
<1>8. ASSUME Lasting = Drawn, NEW p \in DOMAIN tree, AllClosed(p)
      PROVE  MapThenSumSet(LAMBDA c : tree[c], Children(p)) <= tree[p]
  <2>1. Walked
    BY <1>1 DEF GInv, Walked
  <2>2. tree = TreeOf(Paths, Weights, Lasting)
    BY <1>1, <1>4, <1>8 DEF Merging
  <2> QED BY <1>8, <2>1, <2>2, ChildrenFit
<1> QED BY <1>6, <1>7, <1>8

(* The global flame graph has a node at the chain of scopes of every scope  *)
(* that lasts; if all do it has no other, each is as wide as the closed     *)
(* scopes there are long and by one for every open scope, and the children  *)
(* of a node without open scopes fit into it, for any records and any code  *)
(* objects.                                                                 *)
THEOREM GraphIsTree == Spec => []GlobalTree
<1>1. GInv /\ [Next]_vars => GInv'
  BY NextGInv
<1>2. GInv => GlobalTree
  BY AllMerged
<1> QED BY InitGInv, <1>1, <1>2, PTL DEF Spec
===============================================================================
