------------------------------ MODULE SpmCapture ------------------------------
(***************************************************************************)
(* A capture of sampled counters (src/data/spm_json.cpp): its records are  *)
(* put on one row of samples for each XCC, samples that the hardware left  *)
(* out are reconstructed, and the clock of each XCC is fitted to the       *)
(* REALTIME records of the trace it is attached to.                        *)
(*                                                                         *)
(* A capture is a sequence of records [counter, xcc, se, cu, time, value]. *)
(* Text and dimensions are parsed already; times and counts are whole      *)
(* numbers.  What the code keeps in a 32-bit float is rounded to one;      *)
(* doubles hold the whole numbers they get, and of quotients their floor.  *)
(***************************************************************************)
EXTENDS Tensors, SequencesExt

CONSTANTS
  Counters,     \* names of counters, with "SQ_CYCLES"
  Metadata,     \* the dimensions that the file states of each, <<xcc, se, cu>>
  Precision,    \* below it a float holds every whole number; 2^24 in the code
  Spacings      \* between neighbouring floats of whole numbers; 1, 2, 4 ... 2^104

ASSUME FloatAssumption ==
  /\ Precision \in Nat \ {0} /\ Precision % 2 = 0
  /\ IsFiniteSet(Spacings) /\ Spacings \subseteq Nat \ {0} /\ 1 \in Spacings
  /\ \A u \in Spacings \ {1} : \E v \in Spacings : u = 2 * v
  /\ \A u, v \in Spacings : u < v => 2 * u <= v

(* The finest spacing in which there is a float as large as a number.      *)
Spacing(n) ==
  LET fine == {u \in Spacings : - Precision * u < n /\ n < Precision * u}
  IN  IF fine = {} THEN Max(Spacings) ELSE Min(fine)

(* static_cast<float>: the nearest float, of two the one whose last bit is *)
(* clear.                                                                  *)
Float(n) ==
  LET u == Spacing(n)
      place == n \div u
      rest == n - u * place
  IN  IF 2 * rest < u \/ (2 * rest = u /\ place % 2 = 0) THEN u * place ELSE u * place + u

(* A float to which values are added one by one, in the order of records.  *)
FloatSum(values) ==
  MapThenFoldSet(LAMBDA value, sum : Float(sum + value), 0, LAMBDA i : values[i], Max, DOMAIN values)

Order(S) == [i \in 1 .. Cardinality(S) |-> CHOOSE t \in S : Cardinality({u \in S : u < t}) = i - 1]
Closest(a, b) == (2 * a + b) \div (2 * b)     \* llround(a / b)

(* The records of a counter; of an XCC; and of a group, one time of an XCC. *)
Of(records, c) == {i \in DOMAIN records : records[i].counter = c}
On(records, x) == {i \in DOMAIN records : records[i].xcc = x}
Group(records, x, t) == {i \in On(records, x) : records[i].time = t}
Times(records, x) == Order({records[i].time : i \in On(records, x)})

(* A dimension is as large as the metadata or the records say. *)
XccCount(records) ==
  Max({Metadata[c][XCC] : c \in Counters} \cup {records[i].xcc + 1 : i \in DOMAIN records})
Dimensions(records, c) ==
  <<XccCount(records),
    Max({Metadata[c][SE]} \cup {records[i].se + 1 : i \in Of(records, c)}),
    Max({Metadata[c][CU]} \cup {records[i].cu + 1 : i \in Of(records, c)})>>

(* The mean of SQ_CYCLES in a group, zero if there is none. *)
Cycles(records, group) ==
  LET counted == {i \in group : records[i].counter = "SQ_CYCLES" /\ records[i].value > 0}
  IN  IF counted = {} THEN 0 ELSE MapThenSumSet(LAMBDA i : Float(records[i].value), counted) \div Cardinality(counted)
NominalCycles(records, x) ==
  LET means == SelectSeq([k \in DOMAIN Times(records, x) |-> Cycles(records, Group(records, x, Times(records, x)[k]))],
                         LAMBDA n : n > 0)
  IN  IF means = <<>> THEN 0 ELSE SortSeq(means, <)[Len(means) \div 2 + 1]

(* How many windows a group stands for: as many as its cycles are a        *)
(* multiple of the usual, if they nearly are.                              *)
Windows(cycles, nominal) ==
  LET n == Closest(cycles, nominal)
  IN  IF nominal > 0 /\ cycles > 0 /\ n \in Nat \ {0, 1} /\ 5 * (cycles - n * nominal) \in 1 - nominal .. nominal - 1 THEN n ELSE 1

(* buildTimelines *)
Timeline(records, x) ==
  LET times == Times(records, x)
      nominal == NominalCycles(records, x)
      samples(k) ==
        LET group == Group(records, x, times[k])
            n == IF k = 1 THEN 1 ELSE Windows(Cycles(records, group), nominal)
            at(w) == IF n = 1 THEN times[k] ELSE times[k - 1] + Closest((times[k] - times[k - 1]) * w, n)
        IN  [w \in 1 .. n |-> [time |-> at(w), group |-> group, windows |-> n]]
  IN  FlattenSeq([k \in DOMAIN times |-> samples(k)])

(* A bug this code could have: every window gets what was counted in all. *)
WholeShare(value, windows) == Float(value)

(* What was counted in several windows is divided evenly among them. *)
Share(value, windows) == Float(Float(value) \div windows)

(* The samples of a capture, once they are on a row for each XCC. *)
Filled(records, timelines) ==
  LET xccs == 1 + Max(DOMAIN timelines)
      samples == Max({Len(timelines[x]) : x \in DOMAIN timelines})
      sampled(cell) == cell[Time] < Len(timelines[cell[XCC]])
      shared(c, cell) == {i \in timelines[cell[XCC]][cell[Time] + 1].group \cap Of(records, c) :
                            records[i].se = cell[SE] /\ records[i].cu = cell[CU]}
      counter(c) ==
        LET shape == Append(Dimensions(records, c), samples)
        IN  Collected(shape,
              [cell \in {d \in Cells(shape) : sampled(d) /\ shared(c, d) # {}} |->
                 FloatSum([i \in shared(c, cell) |-> Share(records[i].value, timelines[cell[XCC]][cell[Time] + 1].windows)])])
      perSample(f(_, _)) ==
        LET shape == <<xccs, 1, 1, samples>>
        IN  Collected(shape, [cell \in {d \in Cells(shape) : sampled(d)} |-> f(cell[XCC], cell[Time] + 1)])
      time(x, n) == timelines[x][n].time
      step(x, n) == IF n > 1 THEN time(x, n) - time(x, n - 1)
                    ELSE IF Len(timelines[x]) > 1
                         THEN (time(x, Len(timelines[x])) - time(x, 1)) \div (Len(timelines[x]) - 1) ELSE 0
      earliest == Min({records[i].time : i \in DOMAIN records})
  IN  [counters |-> [c \in {d \in Counters : Of(records, d) # {}} |-> counter(c)],
       times |-> [x \in DOMAIN timelines |-> [n \in DOMAIN timelines[x] |-> time(x, n)]],
       clock |-> perSample(LAMBDA x, n : Float(time(x, n) - earliest)),
       spmClock |-> perSample(LAMBDA x, n : Float(step(x, n)))]

(* loadSpmJson: the clock is the time since the first record until it is  *)
(* aligned, and SPM_CLOCK the times between samples, the first of which   *)
(* gets their average.                                                    *)
Loaded(records) ==
  {Filled(records, timelines) : timelines \in {[x \in 0 .. XccCount(records) - 1 |-> Timeline(records, x)]}}

-------------------------------------------------------------------------------
(* nearestTimestamp, as a place in a sequence of times. *)
Nearest(times, t) ==
  LET before == Cardinality({n \in DOMAIN times : times[n] < t})
  IN  IF before = 0 THEN 1
      ELSE IF before = Len(times) THEN before
      ELSE IF t - times[before] <= times[before + 1] - t THEN before ELSE before + 1

(* counterValue: the mean over the instances of a shader engine, or of all *)
(* engines if it has none.                                                 *)
CounterValue(t, x, se, n) ==
  LET positive(s) == {v \in DOMAIN t.at : v[XCC] = x /\ v[SE] = s /\ v[Time] = n /\ t.at[v] > 0}
      mean(s) == Total([v \in positive(s) |-> t.at[v]]) \div Cardinality(positive(s))
      engines == {s \in 0 .. t.shape[SE] - 1 : positive(s) # {}}
  IN  IF se \in engines THEN mean(se)
      ELSE IF engines = {} THEN 0 ELSE Total([s \in engines |-> mean(s)]) \div Cardinality(engines)

(* A bug this code could have: the rate of the interval after the pivot,   *)
(* whichever side of it the anchor is on.                                  *)
IntervalAfter(times, pivot, t) == IF pivot < Len(times) THEN pivot + 1 ELSE pivot

(* The interval, named by its end, whose rate leads from an anchor to the  *)
(* sample nearest to it.                                                   *)
AnchorInterval(times, pivot, t) ==
  IF times[pivot] < t /\ pivot < Len(times) THEN pivot + 1 ELSE IF pivot > 1 THEN pivot ELSE 2

(* The REALTIME record that the clocks are aligned by: the first. *)
FirstAnchor(anchors) == CHOOSE a \in anchors : \A b \in anchors : a.real <= b.real

(* alignSpmClock: the capture with its clock aligned, none if a sample has *)
(* no cycles and the trace no rate to replace them.                        *)
Aligned(spm, anchors) ==
  LET first == FirstAnchor(anchors)
      last == CHOOSE a \in anchors : a.se = first.se /\ \A b \in anchors : b.se = first.se => b.real <= a.real
      hasSlope == last.real > first.real /\ last.clock > first.clock
      slope(duration) == ((last.clock - first.clock) * duration) \div (last.real - first.real)
      measured(x, n) == IF "SQ_CYCLES" \in DOMAIN spm.counters
                        THEN CounterValue(spm.counters["SQ_CYCLES"], x, first.se, n - 1) ELSE 0
      cycles(x, n) == IF measured(x, n) > 0 THEN measured(x, n) ELSE slope(spm.times[x][n] - spm.times[x][n - 1])
      sampled == {x \in DOMAIN spm.times : spm.times[x] # <<>>}
      pivot == [x \in sampled |-> Nearest(spm.times[x], first.real)]
      interval(x) == AnchorInterval(spm.times[x], pivot[x], first.real)
      duration(x) == spm.times[x][interval(x)] - spm.times[x][interval(x) - 1]
      away(x) == spm.times[x][pivot[x]] - first.real
      rated(x) == Len(spm.times[x]) > 1 /\ duration(x) > 0
      moved(x) == IF away(x) = 0 THEN 0
                  ELSE IF rated(x) THEN (away(x) * cycles(x, interval(x))) \div duration(x) ELSE slope(away(x))
      sum(x, ns) == Total([n \in ns |-> cycles(x, n)])
      clock(x, n) == IF n >= pivot[x] THEN first.clock + moved(x) + sum(x, pivot[x] + 1 .. n)
                     ELSE first.clock + moved(x) - sum(x, n + 1 .. pivot[x])
  IN  IF hasSlope \/ \A x \in sampled : /\ \A n \in 2 .. Len(spm.times[x]) : measured(x, n) > 0
                                        /\ away(x) = 0 \/ rated(x)
      THEN {[spm EXCEPT !.clock.at = [cell \in DOMAIN @ |-> Float(clock(cell[XCC], cell[Time] + 1))]]}
      ELSE {}
===============================================================================
