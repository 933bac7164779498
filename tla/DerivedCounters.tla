---------------------------- MODULE DerivedCounters ----------------------------
(***************************************************************************)
(* The plot of sampled counters: a capture is loaded and aligned           *)
(* (SpmCapture), its counters are drawn, definitions of derived counters   *)
(* are read, evaluated in the order of a hash table by a recursive         *)
(* evaluator with a cache (CounterContext, derived_counter.cpp), and the   *)
(* results drawn against the clocks of their XCCs (spm_series.cpp), as     *)
(* CounterPlotView::UpdateDerivedCounters does (specialized_plots.cpp).    *)
(*                                                                         *)
(* A definition applies one operation to names; an expression within       *)
(* another is a definition of its own.  A literal is a name too.           *)
(***************************************************************************)
EXTENDS SpmCapture

CONSTANTS
  Captures,     \* sequences of records
  Drawn,        \* the captures whose counters are drawn as well
  AnchorSets,   \* sets of REALTIME records [se, real, clock] of a trace
  Texts,        \* what the editor may hold: functions of names to definitions
  Literals,     \* the values of literals, by name
  Hidden,       \* the names that begin with an underscore
  MaxUpdates

Builtins == {"NUM_XCC", "NUM_SE", "NUM_CU", "NUM_SAMPLES"}
Clocks == {"SCLOCK", "SPM_CLOCK"}
Names == STRING \ {""}

Operations == {"negate", "reduce", "delta", "linear", "binary", "elementwise", "select", "remove", "range"}
Operands(op) == IF op = "range" THEN 4 ELSE IF op \in {"negate", "reduce", "delta", "linear"} THEN 1 ELSE 2

(* A capture has records.  A definition has a name and all operands of its *)
(* operation, and a literal is spelled like no name.                       *)
ASSUME CounterAssumption ==
  /\ "SQ_CYCLES" \in Counters /\ Drawn \subseteq Captures /\ MaxUpdates \in Nat
  /\ IsFiniteSet(Counters) /\ \A c \in Counters, a \in {XCC, SE, CU} : Metadata[c][a] \in Nat
  /\ \A r \in Captures :
       /\ r # <<>>
       /\ r \in Seq([counter : Counters, xcc : Nat, se : Nat, cu : Nat, time : Int, value : Int])
  /\ \A a \in AnchorSets : IsFiniteSet(a) /\ a \subseteq [se : Nat, real : Int, clock : Int]
  /\ DOMAIN Literals \cap (Counters \cup Builtins \cup Clocks) = {}
  /\ \A text \in Texts :
       /\ IsFiniteSet(DOMAIN text) /\ DOMAIN text \cap (DOMAIN Literals \cup {""}) = {}
       /\ \A n \in DOMAIN text :
            /\ text[n].args \in Seq(Names) /\ Len(text[n].args) = Operands(text[n].op)
            /\ text[n].op \in Operations /\ text[n].axis \in Axes

VARIABLES
  phase,        \* import, loaded, failed, imported, evaluate, draw, shown
  records,
  attached, anchors,  \* the trace that the file is attached to, if it is to one
  spm,          \* data_store->spm; <<>> before
  updates,      \* how often definitions were read
  text,         \* ghost: the definitions read last
  defs,         \* m_derivedCounters
  todo,         \* the names not evaluated yet
  asked,        \* the name evaluated now, "" if none
  calls,        \* the calls of evaluate() in progress: [name, args], the values of arguments got so far
  cache, errors, accessed,  \* m_cache, m_errorCounters, m_accessedRawCounters
  results,      \* what getDerived returns
  hidden,       \* the raw counters whose curve is disabled
  pending,      \* the names to draw
  merge,        \* mergeXcc at work: [name, events, current, points], <<>> if it is not
  curves        \* the points of each curve

file == <<records, attached, anchors, spm>>
context == <<text, defs, todo, asked, calls, cache, errors, accessed, results>>
plot == <<pending, merge, curves>>
vars == <<phase, file, updates, context, hidden, plot>>

Init ==
  /\ phase = "import" /\ records \in Captures /\ spm = <<>>
  /\ attached \in BOOLEAN /\ anchors \in IF attached THEN AnchorSets ELSE {{}}
  /\ updates = 0 /\ text = <<>> /\ defs = <<>> /\ todo = {} /\ asked = "" /\ calls = <<>>
  /\ cache = <<>> /\ errors = {} /\ accessed = {} /\ results = <<>>
  /\ hidden = {} /\ pending = {} /\ merge = <<>> /\ curves = <<>>

-------------------------------------------------------------------------------
(* loadSpmForTrace: a capture is loaded, and aligned if it is attached to  *)
(* a trace, which takes it only if it has REALTIME records that allow it.  *)
Load ==
  /\ phase = "import"
  /\ phase' = IF attached THEN "loaded" ELSE "imported"
  /\ spm' \in Loaded(records)
  /\ UNCHANGED <<records, attached, anchors, updates, context, hidden, plot>>

Align ==
  /\ phase = "loaded"
  /\ LET aligned == IF anchors = {} THEN {} ELSE Aligned(spm, anchors)
     IN  \/ aligned # {} /\ phase' = "imported" /\ spm' \in aligned
         \/ aligned = {} /\ phase' = "failed" /\ spm' = <<>>
  /\ UNCHANGED <<records, attached, anchors, updates, context, hidden, plot>>

(* A map with the entries of f and those of g that f has not. *)
Over(f, g) == [n \in DOMAIN f \cup DOMAIN g |-> IF n \in DOMAIN f THEN f[n] ELSE g[n]]
Entry(n, t) == [m \in {n} |-> t]

(* The counters of an expression: registerCounters. *)
Raw == Over(spm.counters, [c \in Clocks |-> IF c = "SCLOCK" THEN spm.clock ELSE spm.spmClock])

(* UpdateDataSelection: the collected counters are drawn first. *)
UpdateDataSelection ==
  /\ phase = "imported" /\ records \in Drawn
  /\ phase' = "draw" /\ pending' = DOMAIN spm.counters
  /\ UNCHANGED <<file, updates, context, hidden, merge, curves>>

(* A bug this code could have: the manager is kept over an update. *)
UpdateKeepsManager(t) ==
  /\ phase = "shown" /\ updates < MaxUpdates
  /\ phase' = "evaluate" /\ updates' = updates + 1
  /\ text' = t /\ defs' = Over(t, defs) /\ todo' = DOMAIN t
  /\ cache' = [n \in DOMAIN cache \ DOMAIN t |-> cache[n]]
  /\ results' = <<>>
  /\ curves' = [n \in DOMAIN curves \cap DOMAIN spm.counters |-> curves[n]]
  /\ UNCHANGED <<file, asked, calls, errors, accessed, hidden, pending, merge>>

(* UpdateDerivedCounters: the curves of derived counters are removed and a *)
(* new manager reads the definitions; a text that does not parse leaves    *)
(* none.                                                                   *)
Update(t) ==
  /\ phase = "shown" /\ updates < MaxUpdates
  /\ phase' = "evaluate" /\ updates' = updates + 1
  /\ text' = t /\ defs' = t /\ todo' = DOMAIN t
  /\ cache' = <<>> /\ errors' = {} /\ accessed' = {} /\ results' = <<>>
  /\ curves' = [n \in DOMAIN curves \cap DOMAIN spm.counters |-> curves[n]]
  /\ UNCHANGED <<file, asked, calls, hidden, pending, merge>>

-------------------------------------------------------------------------------
(* CounterContext.                                                          *)
Ask(n) ==
  /\ phase = "evaluate" /\ asked = "" /\ n \in todo
  /\ asked' = n /\ todo' = todo \ {n}
  /\ UNCHANGED <<phase, file, updates, text, defs, calls, cache, errors, accessed, results, hidden, plot>>

(* The name that is got next, "" if the innermost call has its arguments. *)
Wanted ==
  IF asked = "" THEN ""
  ELSE IF calls = <<>> THEN asked
  ELSE LET call == Last(calls) IN IF Len(call.args) = Len(defs[call.name].args) THEN "" ELSE defs[call.name].args[Len(call.args) + 1]

Size(shape) == shape[XCC] * shape[SE] * shape[CU] * shape[Time]

(* Of equally large counters the first in the order of the hash table, for *)
(* which CHOOSE stands.                                                    *)
BuiltinScalar(n) ==
  LET largest == CHOOSE c \in DOMAIN Raw : \A d \in DOMAIN Raw : Size(Raw[d].shape) <= Size(Raw[c].shape)
      axis == CASE n = "NUM_XCC" -> XCC [] n = "NUM_SE" -> SE [] n = "NUM_CU" -> CU [] n = "NUM_SAMPLES" -> Time
  IN  Literal(Raw[largest].shape[axis])

(* A value goes to the call that wants it, or to the caller of evaluate. *)
Deliver(inner, t) ==
  IF inner = <<>>
  THEN /\ results' = Over(results, Entry(asked, t)) /\ asked' = "" /\ calls' = <<>>
  ELSE /\ calls' = [inner EXCEPT ![Len(inner)].args = Append(@, t)]
       /\ UNCHANGED <<results, asked>>

(* A bug this code could have: calls that failed count as in progress. *)
ThrowWithoutGuard ==
  /\ errors' = errors \cup {calls[i].name : i \in DOMAIN calls}
  /\ asked' = ""
  /\ UNCHANGED <<calls, results, cache, accessed>>

(* An exception unwinds all calls; each of them has an error. *)
Throw ==
  /\ errors' = errors \cup {calls[i].name : i \in DOMAIN calls}
  /\ calls' = <<>> /\ asked' = ""
  /\ UNCHANGED <<results, cache, accessed>>

GetCounter ==
  /\ phase = "evaluate" /\ Wanted # ""
  /\ \/ /\ Wanted \in DOMAIN Literals
        /\ Deliver(calls, Literal(Literals[Wanted]))
        /\ UNCHANGED <<cache, errors, accessed>>
     \/ /\ Wanted \in DOMAIN cache
        /\ Deliver(calls, cache[Wanted])
        /\ UNCHANGED <<cache, errors, accessed>>
     \/ /\ Wanted \in Builtins \ DOMAIN cache
        /\ cache' = Over(cache, Entry(Wanted, BuiltinScalar(Wanted)))
        /\ Deliver(calls, cache'[Wanted])
        /\ UNCHANGED <<errors, accessed>>
     \/ /\ Wanted \in DOMAIN Raw \ (DOMAIN cache \cup Builtins)
        /\ accessed' = accessed \cup {Wanted}
        /\ Deliver(calls, Raw[Wanted])
        /\ UNCHANGED <<cache, errors>>
     \/ /\ Wanted \in DOMAIN defs \ (DOMAIN cache \cup Builtins \cup DOMAIN Raw)
        /\ \A i \in DOMAIN calls : calls[i].name # Wanted
        /\ calls' = Append(calls, [name |-> Wanted, args |-> <<>>])
        /\ UNCHANGED <<asked, results, cache, errors, accessed>>
     \/ /\ Wanted \notin DOMAIN Literals \cup DOMAIN cache \cup Builtins \cup DOMAIN Raw
        /\ Wanted \in DOMAIN defs => \E i \in DOMAIN calls : calls[i].name = Wanted
        /\ Throw
  /\ UNCHANGED <<phase, file, updates, text, defs, todo, hidden, plot>>

(* What a definition does with the values of its arguments.  A negative    *)
(* size is cast to one that cannot be allocated.                           *)
Apply(d, args) ==
  LET scalars == \A i \in 2 .. Len(args) : IsScalar(args[i])
      arg(i) == ScalarOf(args[i])
  IN  CASE d.op = "negate" -> {[args[1] EXCEPT !.at = [c \in DOMAIN @ |-> -@[c]]]}
        [] d.op = "binary" -> InPlace(args[1], args[2], d.f)
        [] d.op = "elementwise" -> Broadcast(args[1], args[2], d.f)
        [] d.op = "reduce" -> {Reduced(args[1], d.axes, d.f)}
        [] d.op = "select" -> IF scalars THEN Selected(args[1], arg(2), d.axis) ELSE {}
        [] d.op = "range" -> IF scalars THEN SelectedRange(args[1], arg(2), arg(3), arg(4), d.axis) ELSE {}
        [] d.op = "remove" -> IF scalars THEN Removed(args[1], arg(2), d.axis) ELSE {}
        [] d.op = "delta" -> Delta(args[1], d.axis)
        [] d.op = "linear" -> IF IsScalar(args[1]) /\ arg(1) \in Nat THEN {Linear(arg(1), d.axis)} ELSE {}

Evaluate ==
  /\ phase = "evaluate" /\ calls # <<>> /\ Wanted = ""
  /\ LET call == Last(calls)
         value == Apply(defs[call.name], call.args)
     IN  IF value = {} THEN Throw
         ELSE LET t == CHOOSE t \in value : TRUE
              IN  /\ cache' = Over(cache, Entry(call.name, t))
                  /\ Deliver(Front(calls), t)
                  /\ UNCHANGED <<errors, accessed>>
  /\ UNCHANGED <<phase, file, updates, text, defs, todo, hidden, plot>>

(* All names were tried: definitions with errors are dropped, and if any   *)
(* counter is left to draw, those that were read are hidden.               *)
Collect ==
  LET visible == DOMAIN results \ Hidden
  IN  /\ phase = "evaluate" /\ asked = "" /\ todo = {}
      /\ phase' = "draw" /\ pending' = visible
      /\ defs' = [n \in DOMAIN defs \ errors |-> defs[n]]
      /\ cache' = [n \in DOMAIN cache \ errors |-> cache[n]]
      /\ errors' = {}
      /\ hidden' = IF visible = {} THEN hidden ELSE hidden \cup (accessed \cap DOMAIN spm.counters)
      /\ UNCHANGED <<file, updates, text, todo, asked, calls, accessed, results, merge, curves>>

-------------------------------------------------------------------------------
(* makePlotSeries.                                                          *)
SumSpatial(t) ==
  LET axes == {a \in {SE, CU} : t.shape[a] > 1} IN IF axes = {} THEN t ELSE Reduced(t, axes, "sum")

(* A bug this code could have: every row on the clock of its place. *)
ClockOfPlace(t, x) == x
ClockXcc(t, x) == IF Labelled(t) THEN t.xccs[x + 1] ELSE x

ValidAt(clock, x, n) == <<x, 0, 0, n>> \in DOMAIN clock.at
At(clock, x, n) == clock.at[<<x, 0, 0, n>>]
ValidSamples(t, clock, x) ==
  LET n == Min({t.shape[Time], clock.shape[Time]})
  IN  Max({0} \cup {k \in 1 .. n : ValidAt(clock, ClockXcc(t, x), k - 1)})
(* When a sample begins; the first is as long as the second. *)
WindowStart(clock, x, n, samples) ==
  IF n > 0 THEN At(clock, x, n - 1)
  ELSE IF samples > 1 THEN At(clock, x, 0) - (At(clock, x, 1) - At(clock, x, 0)) ELSE At(clock, x, 0)

(* The clock of counters that were reduced over several XCCs. *)
AverageClock(t, clock) ==
  LET shape == <<1, 1, 1, clock.shape[Time]>>
      valid(n) == {i \in DOMAIN t.xccs : t.xccs[i] < clock.shape[XCC] /\ ValidAt(clock, t.xccs[i], n)}
  IN  Collected(shape, [c \in {d \in Cells(shape) : valid(d[Time]) # {}} |->
        MapThenSumSet(LAMBDA i : At(clock, t.xccs[i], c[Time]), valid(c[Time])) \div Cardinality(valid(c[Time]))])

Interval(t, clock) ==
  LET samples == ValidSamples(t, clock, 0)
      x == ClockXcc(t, 0)
      measured == SelectSeq(Iota(samples), LAMBDA n : ValidAt(t, 0, n))
      points == [i \in DOMAIN measured |-> [time |-> WindowStart(clock, x, measured[i], samples), value |-> At(t, 0, measured[i])]]
  IN  IF points = <<>> THEN <<>> ELSE Append(points, [Last(points) EXCEPT !.time = At(clock, x, samples - 1)])

(* The tensor of a curve as it is drawn, and the samples of a row of it. *)
TensorOf(n) == SumSpatial(IF n \in DOMAIN results THEN results[n] ELSE spm.counters[n])
Counts(t) == [x \in 0 .. t.shape[XCC] - 1 |->
                IF ClockXcc(t, x) < spm.clock.shape[XCC] THEN ValidSamples(t, spm.clock, x) ELSE 0]

(* One curve for each counter; the XCCs of a counter that has several are  *)
(* merged.                                                                 *)
AddSeries(n) ==
  LET t == TensorOf(n)
      counts == Counts(t)
      events == {<<WindowStart(spm.clock, ClockXcc(t, x), 0, counts[x]), x, 0>> : x \in {y \in DOMAIN counts : counts[y] > 0}}
      series == IF t.shape[XCC] > 1 THEN <<>>
                ELSE IF Len(t.xccs) <= 1 THEN Interval(t, spm.clock) ELSE Interval(t, AverageClock(t, spm.clock))
  IN  /\ phase = "draw" /\ merge = <<>> /\ n \in pending
      /\ IF t.shape[XCC] > 1 /\ events # {}
         THEN /\ merge' = [name |-> n, events |-> events, current |-> [x \in DOMAIN counts |-> 0],
                           points |-> <<[time |-> Min({e[1] : e \in events}) - 1, value |-> 0]>>]
              /\ UNCHANGED <<curves, pending>>
         ELSE /\ curves' = Over(Entry(n, series), curves)
              /\ pending' = pending \ {n}
              /\ UNCHANGED merge
      /\ UNCHANGED <<phase, file, updates, context, hidden>>

(* mergeXcc: the samples that begin next, all of one time at once. *)
Advance ==
  /\ phase = "draw" /\ merge # <<>> /\ merge.events # {}
  /\ LET t == TensorOf(merge.name)
         counts == Counts(t)
         time == Min({e[1] : e \in merge.events})
         begin(x, n) == WindowStart(spm.clock, ClockXcc(t, x), n, counts[x])
         now == {e \in merge.events : e[1] = time}
         reached(e) == {n \in e[3] .. counts[e[2]] - 1 : \A k \in e[3] + 1 .. n : begin(e[2], k) = time}
         fresh(e) == {n \in reached(e) : ValidAt(t, e[2], n)}
         following == {<<begin(e[2], Max(reached(e)) + 1), e[2], Max(reached(e)) + 1>> :
                         e \in {d \in now : Max(reached(d)) + 1 < counts[d[2]]}}
         current == [x \in DOMAIN merge.current |->
                       IF \E e \in now : e[2] = x /\ fresh(e) # {}
                       THEN LET e == CHOOSE e \in now : e[2] = x IN At(t, x, Max(fresh(e))) ELSE merge.current[x]]
     IN  merge' = [merge EXCEPT !.events = (@ \ now) \cup following, !.current = current,
                     !.points = IF \A e \in now : fresh(e) = {} THEN @
                                ELSE Append(@, [time |-> time, value |-> Total(current)])]
  /\ UNCHANGED <<phase, file, updates, context, hidden, pending, curves>>

EndSeries ==
  LET t == TensorOf(merge.name)
      counts == Counts(t)
      final == Max({0} \cup {At(spm.clock, ClockXcc(t, x), counts[x] - 1) : x \in {y \in DOMAIN counts : counts[y] > 0}})
      points == IF Last(merge.points).time < final
                THEN Append(merge.points, [Last(merge.points) EXCEPT !.time = final]) ELSE merge.points
  IN  /\ phase = "draw" /\ merge # <<>> /\ merge.events = {}
      /\ curves' = Over(Entry(merge.name, points), curves)
      /\ pending' = pending \ {merge.name} /\ merge' = <<>>
      /\ UNCHANGED <<phase, file, updates, context, hidden>>

Show ==
  /\ phase = "draw" /\ merge = <<>> /\ pending = {}
  /\ phase' = "shown"
  /\ UNCHANGED <<file, updates, context, hidden, plot>>

Next ==
  \/ Load \/ Align \/ UpdateDataSelection
  \/ \E t \in Texts : Update(t)
  \/ \E n \in todo : Ask(n)
  \/ GetCounter \/ Evaluate \/ Collect
  \/ \E n \in pending : AddSeries(n)
  \/ Advance \/ EndSeries \/ Show

Spec == Init /\ [][Next]_vars

-------------------------------------------------------------------------------
(* Properties.                                                             *)

WellFormed(t) == DOMAIN t.at \subseteq Cells(t.shape) /\ Len(t.from) = t.shape[XCC]

(* Type invariant: every value got so far has its cells within its shape   *)
(* and a source for each row, and the calls of the recursive evaluator are *)
(* of different definitions and end with the evaluation they belong to.    *)
TypeOK ==
  /\ phase \in {"import", "loaded", "failed", "imported", "evaluate", "draw", "shown"}
  /\ \A n \in DOMAIN cache : WellFormed(cache[n])
  /\ \A n \in DOMAIN results : WellFormed(results[n])
  /\ \A i, j \in DOMAIN calls : calls[i].name = calls[j].name => i = j
  /\ {calls[i].name : i \in DOMAIN calls} \subseteq DOMAIN defs
  /\ asked = "" => calls = <<>>
  /\ asked # "" => phase = "evaluate" /\ asked \notin todo
  /\ errors # {} => phase = "evaluate"
  /\ hidden # {} => hidden \subseteq DOMAIN spm.counters

Magnitude(n) == IF n < 0 THEN - n ELSE n

(* The windows of an XCC have whole shares of what was counted in them. *)
Even(timeline) == \A n \in DOMAIN timeline : \A i \in timeline[n].group : records[i].value % timeline[n].windows = 0

(* The samples of an XCC are in order, and what each instance of a counter *)
(* counted is on them, whether windows were reconstructed or not, if it    *)
(* can be divided among them without a remainder and is, in all, below the *)
(* numbers that a float rounds.                                            *)
CountsConserved ==
  \A x \in DOMAIN spm.times :
    /\ \A n \in 2 .. Len(spm.times[x]) : spm.times[x][n - 1] <= spm.times[x][n]
    /\ Even(Timeline(records, x)) =>
         \A c \in DOMAIN spm.counters : \A s \in 0 .. spm.counters[c].shape[SE] - 1, u \in 0 .. spm.counters[c].shape[CU] - 1 :
           LET at == spm.counters[c].at
               cells == {v \in DOMAIN at : v[XCC] = x /\ v[SE] = s /\ v[CU] = u}
               counted == {i \in Of(records, c) \cap On(records, x) : records[i].se = s /\ records[i].cu = u}
           IN  Total([i \in counted |-> Magnitude(records[i].value)]) < Precision =>
                 Total([v \in cells |-> at[v]]) = Total([i \in counted |-> records[i].value])

(* How far apart the floats around a stored clock are, if it is rounded.   *)
Rounding(n) == IF Magnitude(n) < Precision THEN 0 ELSE Spacing(n)

(* The aligned clock of each XCC passes through the first REALTIME record: *)
(* on the interval that holds its time, or the outermost one if none does, *)
(* up to the rounding of one quotient and of the two clocks, each by half  *)
(* of what floats of its size are apart.                                   *)
AnchorMeets ==
  LET anchor == FirstAnchor(anchors)
  IN  \A x \in DOMAIN spm.times :
        LET t == spm.times[x]
            past == {n \in 2 .. Len(t) : anchor.real <= t[n]}
            i == IF past = {} THEN Len(t) ELSE Min(past)
            clock(n) == spm.clock.at[<<x, 0, 0, n - 1>>]
            off == (anchor.clock - clock(i - 1)) * (t[i] - t[i - 1]) - (clock(i) - clock(i - 1)) * (anchor.real - t[i - 1])
            slack == Rounding(clock(i - 1)) * Magnitude(t[i] - anchor.real) + Rounding(clock(i)) * Magnitude(anchor.real - t[i - 1])
        IN  Len(t) > 1 /\ t[i - 1] < t[i] => 2 * off \in 0 - slack .. 2 * (t[i] - t[i - 1] - 1) + slack

(* A loaded capture is true to its records as far as floats are: no count  *)
(* is lost or made up where windows are reconstructed, and every XCC's     *)
(* clock agrees with the trace at the moment of the trace's first REALTIME *)
(* record.                                                                 *)
SamplesFaithful == phase \notin {"import", "failed"} => CountsConserved /\ (attached /\ phase # "loaded" => AnchorMeets)

(* The values that the names of a text have: those of literals, built-in   *)
(* names and collected counters, and in rounds those of the definitions    *)
(* whose arguments have values.                                            *)
Given == Over([n \in DOMAIN Literals |-> Literal(Literals[n])], Over([n \in Builtins |-> BuiltinScalar(n)], Raw))
ValuesOf(t, known, n) == Apply(t[n], [i \in DOMAIN t[n].args |-> known[t[n].args[i]]])
Ready(t, known) ==
  {n \in DOMAIN t \ DOMAIN known : (\A i \in DOMAIN t[n].args : t[n].args[i] \in DOMAIN known) /\ ValuesOf(t, known, n) # {}}
Round(t, known) == Over(known, [n \in Ready(t, known) |-> CHOOSE v \in ValuesOf(t, known, n) : TRUE])
Meaning(given, t) ==
  LET rounds[i \in 0 .. Cardinality(DOMAIN t)] == IF i = 0 THEN given ELSE Round(t, rounds[i - 1])
  IN  rounds[Cardinality(DOMAIN t)]

(* What the plot shows of derived counters follows from the text that was  *)
(* read last and the capture alone: not from the order in which the hash   *)
(* table gives the names, nor from what other definitions failed on the    *)
(* way or were read before.                                                *)
Determined ==
  phase \in {"draw", "shown"} /\ updates > 0 =>
    LET meaning == Meaning(Given, text) IN results = [n \in DOMAIN text \cap DOMAIN meaning |-> meaning[n]]

(* The XCC on whose clock a row was measured, where it is of one XCC only. *)
MeasuredOn(t, x) == IF ~IsScalar(t) /\ Cardinality(t.from[x + 1]) = 1 THEN CHOOSE k \in t.from[x + 1] : TRUE ELSE ClockXcc(t, x)

(* A curve that is drawn shows at every time the sum of what each XCC      *)
(* measured last, each on the clock that it was measured with; it has a    *)
(* point wherever a measured sample begins and ends when the last XCC ends *)
(* (one of several XCCs not before zero).  An averaged clock may run back, *)
(* where an XCC whose clock is ahead ends first: nothing is said of curves *)
(* on such a clock.                                                        *)
CurveIsLatest ==
  \A n \in DOMAIN curves : n \in DOMAIN results \cup DOMAIN spm.counters =>
    LET t == TensorOf(n)
        mixed == t.shape[XCC] = 1 /\ Len(t.xccs) > 1
        clock == IF mixed THEN AverageClock(t, spm.clock) ELSE spm.clock
        on(x) == IF mixed THEN 0 ELSE MeasuredOn(t, x)
        size == [x \in 0 .. t.shape[XCC] - 1 |->
                   Max({0} \cup {k \in 1 .. Min({t.shape[Time], clock.shape[Time]}) : ValidAt(clock, on(x), k - 1)})]
        forward == \A x \in DOMAIN size : \A k \in 1 .. size[x] - 1 : At(clock, on(x), k - 1) <= At(clock, on(x), k)
        samples == {<<x, k>> : x \in DOMAIN size, k \in 0 .. t.shape[Time] - 1}
        valid == {s \in samples : s[2] < size[s[1]] /\ ValidAt(t, s[1], s[2])}
        begin(s) == WindowStart(clock, on(s[1]), s[2], size[s[1]])
        begun(x, time) == {s[2] : s \in {v \in valid : v[1] = x /\ begin(v) <= time}}
        total(time) == MapThenSumSet(LAMBDA x : IF begun(x, time) = {} THEN 0 ELSE At(t, x, Max(begun(x, time))), DOMAIN size)
        ends == {At(clock, on(x), size[x] - 1) : x \in {y \in DOMAIN size : size[y] > 0}}
        points == curves[n]
    IN  valid # {} /\ (mixed => forward) =>
          /\ \A i \in DOMAIN points : \/ i < Len(points) /\ points[i].time = points[i + 1].time
                                      \/ points[i].value = total(points[i].time)
          /\ {begin(s) : s \in valid} \subseteq {points[i].time : i \in DOMAIN points}
          /\ Last(points).time = Max(IF t.shape[XCC] > 1 THEN ends \cup {0} ELSE ends)
===============================================================================
