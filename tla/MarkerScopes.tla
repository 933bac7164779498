----------------------------- MODULE MarkerScopes -----------------------------
(***************************************************************************)
(* Instrumentation markers: from the tokens that the waves of one hardware *)
(* slot send, through the stack walk (src/data/marker_walker.cpp) under    *)
(* ShaderDataManager::ResolveMarkers (src/data/shaderdata.cpp) with the    *)
(* resolver of either emitter, to the two flame graphs that are drawn from *)
(* its spans (src/collection/flamegraph/stack_builder.cpp).                *)
(*                                                                         *)
(* The waves and what the trace keeps of them are external.  The scopes    *)
(* they really enter and leave are kept as a ghost, to compare with.  A    *)
(* packed token is its kind and id; a marker's kind, name and source are   *)
(* the code object and id they are found by.  Marker ids mean something    *)
(* only within a code object, so which one was active is half the work.    *)
(***************************************************************************)
EXTENDS Integers, Sequences, FiniteSets, SequencesExt

CONSTANTS
  Kernels,
  Sends,        \* the tokens that each kernel's code sends: [kind, id], an exit with id 0
  Object,       \* the code object of each kernel, 0 if its lines of code do not say
  Tag,          \* the code object in the kernel's occupancy rows of the JSON
  NameRows,     \* the code objects with a funcmap row of kind kernel and this kernel's name
  JsonMap,      \* code.json's sqtt_funcmap: the ids of each code object in it
  Traced,       \* the kernels whose waves the JSON has the instructions of
  DecoderMap,   \* the decoder's: of each code object that has entries, their ids
  MaxWaves, MaxTokens,
  Forever       \* INT64_MAX, later than any time

Kinds == {"enter", "exit", "transition", "point"}

ASSUME MarkerAssumption ==
  /\ \A k \in Kernels : \A m \in Sends[k] : m.kind \in Kinds /\ m.id \in Nat
  /\ MaxWaves \in Nat /\ MaxTokens \in Nat /\ Forever \in Nat \ {0}
  /\ \A k \in Kernels : Object[k] \in Nat /\ Tag[k] \in Nat /\ NameRows[k] \subseteq Nat

VARIABLES
  source,       \* what is loaded: "ui", the JSON, or "att", the decoder's records
  clock,
  waves,        \* the waves of the slot: [kernel, begin, end]
  calls,        \* ghost: the scopes the running wave is in, [name, enter]
  scopes,       \* ghost: the scopes left, in that order
  dirt,         \* ghost: what went wrong with the tokens: "lost", "cut", "blind"
  occupancy,    \* the slot's occupancy records: [time, start, kernel]
  records,      \* the slot's shader-data records: [time, kind, id]
  phase,        \* trace, walk, drain, sorted, attribute, merge
  pos,          \* the record walked next
  stack,        \* the walker's stack: [name, enter, depth]
  spans,        \* out_spans
  orphans,      \* the records with a warning that there was no scope to leave
  order,        \* indices of spans, sorted for a flame graph
  cursor,       \* place in order
  tick,         \* time of the instruction attributed last
  open,         \* open_stack: indices of spans; in the merge: the nodes above
  tree          \* weight of each node of the global flame graph, by its path

traced == <<source, clock, waves, calls, scopes, dirt, occupancy, records>>
walked == <<pos, stack, spans, orphans>>
drawn == <<order, cursor, tick, open, tree>>
vars == <<traced, phase, walked, drawn>>

Init ==
  /\ source \in {"ui", "att"} /\ clock = 0
  /\ waves = <<>> /\ calls = <<>> /\ scopes = <<>> /\ dirt = {}
  /\ occupancy = {} /\ records = <<>>
  /\ phase = "trace" /\ pos = 1 /\ stack = <<>> /\ spans = <<>> /\ orphans = {}
  /\ order = <<>> /\ cursor = 1 /\ tick = -1 /\ open = <<>> /\ tree = <<>>

-------------------------------------------------------------------------------
(* CodeobjForKernelName: the one code object with a row of this name. *)
NamedObject(k) == IF \E o \in NameRows[k] : NameRows[k] = {o} THEN CHOOSE o \in NameRows[k] : TRUE ELSE 0

(* The code object of an occupancy record. *)
OccupancyObject(k) ==
  IF source = "att" THEN Object[k]
  ELSE IF Tag[k] \in DOMAIN JsonMap THEN Tag[k] ELSE NamedObject(k)

(* buildBucket: records in the order of their times, an end before a start; *)
(* a start is active until the next record of either kind.                  *)
Follows(r, s) == r.time > s.time \/ (r.time = s.time /\ r.start /\ ~s.start)
UntilNext(r) ==
  LET later == {s \in occupancy : Follows(s, r)}
  IN  IF later = {} THEN Forever ELSE CHOOSE t \in {s.time : s \in later} : \A s \in later : t <= s.time
Intervals ==
  {[begin |-> r.time, end |-> UntilNext(r), object |-> OccupancyObject(r.kernel)] :
     r \in {s \in occupancy : s.start /\ OccupancyObject(s.kernel) # 0}}

(* The last interval that has begun, if it has not ended: a time that is   *)
(* the end of one and the begin of the next belongs to the next.           *)
ActiveAt(intervals, t) ==
  LET last(i) == i.begin <= t /\ \A j \in intervals : j.begin <= t => j.begin <= i.begin
      active(i) == last(i) /\ t <= i.end
  IN  IF \E i \in intervals : active(i) THEN (CHOOSE i \in intervals : active(i)).object ELSE 0

(* codeobjFromWaveCode: by the traced wave that runs and its line of code.  *)
(* The code looks up the line of the wave's last token by the time, and     *)
(* asks the occupancy if there is none yet; here a traced wave has a token  *)
(* at its begin, and all of its lines are of its kernel's object.           *)
TracedIntervals ==
  {[begin |-> waves[i].begin, end |-> waves[i].end, object |-> Object[waves[i].kernel]] :
     i \in {j \in DOMAIN waves : waves[j].kernel \in Traced}}

ObjectAt(t) ==
  LET code == IF source = "ui" THEN ActiveAt(TracedIntervals, t) ELSE 0
  IN  IF code # 0 THEN code ELSE ActiveAt(Intervals, t)

(* Whether an id is found, unknown to an object with metadata, or there is *)
(* no metadata at all.  When records were decoded, an object that only     *)
(* code.json knows has metadata for the ids in it alone.                   *)
Meaning(o, id) ==
  LET inJson == o \in DOMAIN JsonMap /\ id \in JsonMap[o]
      runtime == source = "att" /\ o \in DOMAIN DecoderMap
  IN  IF inJson \/ (runtime /\ id \in DecoderMap[o]) THEN "found"
      ELSE IF runtime \/ (source = "ui" /\ o \in DOMAIN JsonMap) THEN "unknown"
      ELSE "none"
Resolve(id, t) == Meaning(ObjectAt(t), id)

(* What names a scope: an id unknown to its object is only an id. *)
NameIn(o, id) == <<IF Meaning(o, id) = "found" THEN o ELSE 0, id>>
NameAt(id, t) == NameIn(ObjectAt(t), id)

-------------------------------------------------------------------------------
(* The hardware and the trace.                                              *)
Running == waves # <<>> /\ Last(waves).end = Forever

(* The code object that is known of the wave that runs. *)
KnownObject ==
  LET w == Last(waves)
  IN  IF source = "ui" /\ w.kernel \in Traced /\ Object[w.kernel] # 0 THEN Object[w.kernel] ELSE OccupancyObject(w.kernel)
Marked == KnownObject \in DOMAIN JsonMap \/ (source = "att" /\ KnownObject \in DOMAIN DecoderMap)

StartWave(k) ==
  /\ phase = "trace" /\ ~Running /\ Len(waves) < MaxWaves /\ clock + 1 < Forever
  /\ clock' = clock + 1
  /\ waves' = Append(waves, [kernel |-> k, begin |-> clock', end |-> Forever])
  /\ occupancy' = occupancy \cup {[time |-> clock', start |-> TRUE, kernel |-> k]}
  /\ UNCHANGED <<source, calls, scopes, dirt, records, phase, walked, drawn>>

(* A wave ends, in the middle of its scopes perhaps, and the record of it *)
(* may be lost.                                                           *)
EndWave(kept) ==
  /\ phase = "trace" /\ Running
  /\ waves' = [waves EXCEPT ![Len(waves)].end = clock]
  /\ occupancy' = IF kept THEN occupancy \cup {[time |-> clock, start |-> FALSE, kernel |-> Last(waves).kernel]}
                  ELSE occupancy
  /\ dirt' = IF calls # <<>> THEN dirt \cup {"cut"} ELSE dirt
  /\ calls' = <<>>
  /\ UNCHANGED <<source, clock, scopes, records, phase, walked, drawn>>

Left(n, t) ==
  [i \in 1 .. n |-> LET c == calls[Len(calls) + 1 - i]
                    IN  [name |-> c.name, enter |-> c.enter, exit |-> t, depth |-> Len(calls) - i]]

(* A wave sends a token.  Marked code leaves only scopes it is in; the data *)
(* of other code has no meaning, whatever it looks like.                    *)
Emit(kind, id, d, kept) ==
  LET leaves == IF kind \in {"exit", "transition"} THEN 1 ELSE 0
      inside == SubSeq(calls, 1, Len(calls) - leaves)
      call == [name |-> NameIn(KnownObject, id), enter |-> clock']
      unseen == Marked /\ kind \in {"enter", "transition"} /\ Meaning(KnownObject, id) = "none"
  IN
  /\ phase = "trace" /\ Running /\ Len(records) + Cardinality(dirt \cap {"lost"}) < MaxTokens /\ clock + d < Forever
  /\ [kind |-> kind, id |-> id] \in Sends[Last(waves).kernel]
  /\ clock + d > Last(waves).begin
  /\ Marked => leaves <= Len(calls)
  /\ kept \/ ("lost" \notin dirt /\ Marked /\ kind # "point")
  /\ clock' = clock + d
  /\ records' = IF kept THEN Append(records, [time |-> clock', kind |-> kind, id |-> id]) ELSE records
  /\ dirt' = dirt \cup (IF unseen THEN {"blind"} ELSE {}) \cup (IF kept THEN {} ELSE {"lost"})
  /\ IF Marked
     THEN /\ scopes' = scopes \o Left(leaves, clock')
          /\ calls' = IF kind \in {"enter", "transition"} THEN Append(inside, call) ELSE inside
     ELSE UNCHANGED <<calls, scopes>>
  /\ UNCHANGED <<source, waves, occupancy, phase, walked, drawn>>

(* The trace ends, within a wave perhaps. *)
Stop ==
  /\ phase = "trace" /\ records # <<>>
  /\ phase' = "walk"
  /\ waves' = IF Running THEN [waves EXCEPT ![Len(waves)].end = clock] ELSE waves
  /\ scopes' = scopes \o Left(Len(calls), Forever)
  /\ calls' = <<>>
  /\ UNCHANGED <<source, clock, dirt, occupancy, records, walked, drawn>>

-------------------------------------------------------------------------------
(* walkMarkerStream.                                                        *)
Rec == records[pos]
Depth == Len(stack)
Closed(e, t) ==
  [name |-> e.name, enter |-> e.enter, exit |-> t, depth |-> e.depth, point |-> FALSE]
(* A bug this code could have: a depth that counts the spans before. *)
PushedDeeper(s, id, t) ==
  IF Resolve(id, t) = "none" THEN s
  ELSE Append(s, [name |-> NameAt(id, t), enter |-> t, depth |-> Len(s) + Len(spans)])

Pushed(s, id, t) ==
  IF Resolve(id, t) = "none" THEN s
  ELSE Append(s, [name |-> NameAt(id, t), enter |-> t, depth |-> Len(s)])

(* Bugs this code could have. *)
ExitNeedsMeaning ==
  /\ stack' = IF Depth = 0 \/ Resolve(Rec.id, Rec.time) = "none" THEN stack ELSE Front(stack)
  /\ spans' = IF stack' = stack THEN spans ELSE Append(spans, Closed(Last(stack), Rec.time))
  /\ UNCHANGED orphans
TransitionPushesFirst ==
  /\ stack' = IF Depth = 0 THEN Pushed(stack, Rec.id, Rec.time)
              ELSE LET s == Pushed(stack, Rec.id, Rec.time) IN SubSeq(s, 1, Depth - 1) \o SubSeq(s, Depth + 1, Len(s))
  /\ spans' = IF Depth = 0 THEN spans ELSE Append(spans, Closed(Last(stack), Rec.time))
  /\ UNCHANGED orphans
PrecedesInTime(i, j) ==
  spans[i].enter < spans[j].enter \/ (spans[i].enter = spans[j].enter /\ i < j)
TrimOneLess(nodes, s) == SubSeq(nodes, 1, IF Len(nodes) > s.depth + 1 THEN s.depth + 1 ELSE Len(nodes))

(* Pure exit: out of the innermost scope, whatever the record resolves to. *)
Exit ==
  IF Depth > 0
  THEN /\ spans' = Append(spans, Closed(Last(stack), Rec.time))
       /\ stack' = Front(stack)
       /\ UNCHANGED orphans
  ELSE /\ orphans' = IF Resolve(0, Rec.time) = "none" THEN orphans ELSE orphans \cup {pos}
       /\ UNCHANGED <<stack, spans>>

(* Transition: out of the innermost scope and into the next. *)
Transition ==
  IF Depth > 0
  THEN /\ spans' = Append(spans, Closed(Last(stack), Rec.time))
       /\ stack' = Pushed(Front(stack), Rec.id, Rec.time)
       /\ UNCHANGED orphans
  ELSE /\ orphans' = IF Resolve(Rec.id, Rec.time) = "none" THEN orphans ELSE orphans \cup {pos}
       /\ stack' = Pushed(stack, Rec.id, Rec.time)
       /\ UNCHANGED spans

Enter ==
  /\ stack' = Pushed(stack, Rec.id, Rec.time)
  /\ UNCHANGED <<spans, orphans>>

Point ==
  /\ spans' = IF Resolve(Rec.id, Rec.time) = "none" THEN spans
              ELSE Append(spans, [name |-> NameAt(Rec.id, Rec.time), enter |-> Rec.time, exit |-> Rec.time,
                                  depth |-> Depth, point |-> TRUE])
  /\ UNCHANGED <<stack, orphans>>

Walk ==
  /\ phase = "walk" /\ pos <= Len(records)
  /\ \/ Rec.kind = "exit" /\ Exit
     \/ Rec.kind = "transition" /\ Transition
     \/ Rec.kind = "enter" /\ Enter
     \/ Rec.kind = "point" /\ Point
  /\ pos' = pos + 1
  /\ UNCHANGED <<traced, phase, drawn>>

(* The trace ended with scopes open. *)
Drain ==
  /\ phase = "walk" /\ pos > Len(records) /\ Depth > 0
  /\ spans' = Append(spans, Closed(Last(stack), Forever))
  /\ stack' = Front(stack)
  /\ UNCHANGED <<traced, phase, pos, orphans, drawn>>

(* ResolveMarkers sorts by enter time, sortMarkerSpansForWalk by enter time *)
(* and depth; both keep the order of equal ones.                            *)
Precedes(i, j) ==
  \/ spans[i].enter < spans[j].enter
  \/ spans[i].enter = spans[j].enter /\ spans[i].depth < spans[j].depth
  \/ spans[i].enter = spans[j].enter /\ spans[i].depth = spans[j].depth /\ i < j
Before(i) == {j \in DOMAIN spans : Precedes(j, i)}
Sorted == [p \in DOMAIN spans |-> CHOOSE i \in DOMAIN spans : Cardinality(Before(i)) = p - 1]

Sort ==
  /\ phase = "walk" /\ pos > Len(records) /\ Depth = 0
  /\ phase' = "sorted" /\ order' = Sorted
  /\ UNCHANGED <<traced, walked, cursor, tick, open, tree>>

-------------------------------------------------------------------------------
(* buildIntegratedRoots: the scopes of an instruction at t, from those of  *)
(* the one before.                                                         *)
WithoutEnded(o, t) ==
  LET n == CHOOSE n \in 0 .. Len(o) : /\ \A i \in n + 1 .. Len(o) : spans[o[i]].exit <= t
                                      /\ n = 0 \/ spans[o[n]].exit > t
  IN  SubSeq(o, 1, n)
Entered(t) == Cardinality({i \in DOMAIN order : spans[order[i]].enter <= t})
IsOpen(i, t) == ~spans[i].point /\ spans[i].exit > t
PushEach(o, new, t) ==
  FoldLeft(LAMBDA st, i : IF IsOpen(i, t) THEN Append(WithoutEnded(st, spans[i].enter), i) ELSE st, o, new)

Attribute(t) ==
  /\ phase \in {"sorted", "attribute"} /\ t > tick
  /\ phase' = "attribute" /\ tick' = t
  /\ open' = PushEach(WithoutEnded(open, t), SubSeq(order, cursor, Entered(t)), t)
  /\ cursor' = Entered(t) + 1
  /\ UNCHANGED <<traced, walked, order, tree>>

(* buildGlobalMarkerRoots: one node per path of names, found by the depth  *)
(* of a span; a scope that is open, or of no length, has weight one.       *)
Weight(s) == IF s.exit = Forever \/ s.exit = s.enter THEN 1 ELSE s.exit - s.enter
Trim(nodes, s) == SubSeq(nodes, 1, IF Len(nodes) > s.depth THEN s.depth ELSE Len(nodes))

Merge ==
  /\ phase \in {"sorted", "merge"} /\ cursor <= Len(order)
  /\ phase' = "merge" /\ cursor' = cursor + 1
  /\ LET s == spans[order[cursor]]
         path == Append(Trim(open, s), s.name)
     IN  IF s.point THEN UNCHANGED <<open, tree>>
         ELSE /\ open' = path
              /\ tree' = [p \in DOMAIN tree \cup {path} |->
                            (IF p \in DOMAIN tree THEN tree[p] ELSE 0) + (IF p = path THEN Weight(s) ELSE 0)]
  /\ UNCHANGED <<traced, walked, order, tick>>

Next ==
  \/ \E k \in Kernels : StartWave(k)
  \/ \E b \in BOOLEAN : EndWave(b)
  \/ \E m \in UNION {Sends[k] : k \in Kernels}, d \in 0 .. 1, b \in BOOLEAN : Emit(m.kind, m.id, d, b)
  \/ Stop \/ Walk \/ Drain \/ Sort \/ Merge
  \/ \E t \in 0 .. clock : Attribute(t)

Spec == Init /\ [][Next]_vars

-------------------------------------------------------------------------------
(* Type invariant: the walk has read what it counts, the stack holds no    *)
(* more than was sent and each scope at its depth, and no span ends before *)
(* it begins or later than the trace, unless it never ends.                *)
TypeOK ==
  /\ clock \in 0 .. Forever - 1 /\ phase \in {"trace", "walk", "sorted", "attribute", "merge"}
  /\ pos \in 1 .. MaxTokens + 1 /\ Len(stack) <= pos - 1
  /\ \A i \in DOMAIN stack : stack[i].depth = i - 1 /\ stack[i].enter \in 0 .. clock
  /\ \A i \in DOMAIN spans : /\ spans[i].enter \in 0 .. clock /\ spans[i].depth \in 0 .. MaxTokens
                             /\ spans[i].exit \in spans[i].enter .. clock \cup {Forever}
  /\ orphans \subseteq DOMAIN records

(* A span that is left before another is either over before the other is   *)
(* entered, or lies within it and is deeper: what the painter's rows and   *)
(* both flame graphs take for granted ("spans nest"), also when tokens     *)
(* were lost, have no meaning, or a wave ended inside its scopes.          *)
SpansNest ==
  \A i, j \in DOMAIN spans : i < j =>
    \/ spans[i].exit <= spans[j].enter
    \/ ~spans[j].point /\ spans[j].enter <= spans[i].enter /\ spans[i].exit <= spans[j].exit
       /\ spans[j].depth < spans[i].depth

(* A scope as the ghost has it, and the place of a span among the scopes. *)
Scope(s) == [name |-> s.name, enter |-> s.enter, exit |-> s.exit, depth |-> s.depth]
Place(i) == Cardinality({j \in 1 .. i : ~spans[j].point})

(* When no token was lost or without meaning and no wave ended inside its  *)
(* scopes, the spans are the scopes that the marked waves were in, each    *)
(* named in the code object that was running, and nothing else is: data of *)
(* code without markers, waves that were not traced, records of ends that  *)
(* are missing and waves of no length change nothing, and none is an       *)
(* orphan.                                                                 *)
SpansAreScopes ==
  phase = "sorted" /\ dirt = {} =>
    /\ orphans = {} /\ Len(scopes) = Place(Len(spans))
    /\ \A i \in DOMAIN spans : ~spans[i].point => scopes[Place(i)] = Scope(spans[i])

Around(t) == {i \in DOMAIN spans : ~spans[i].point /\ spans[i].enter <= t /\ t < spans[i].exit}

(* An instruction is attributed to exactly the scopes open at its time, the *)
(* outermost first, however far apart the instructions are.                 *)
InnermostScope ==
  phase = "attribute" =>
    /\ ToSet(open) = Around(tick)
    /\ \A i \in DOMAIN open : spans[open[i]].depth = i - 1

(* The scopes a span lies in, and itself, as a path of names. *)
Chain(s) ==
  LET around == {i \in Around(s.enter) : spans[i].exit >= s.exit /\ spans[i].depth <= s.depth}
  IN  [d \in 1 .. Cardinality(around) |-> (CHOOSE x \in {spans[i] : i \in around} :
          Cardinality({j \in around : spans[j].depth < x.depth}) = d - 1).name]

Drawn == {i \in DOMAIN spans : ~spans[i].point}
Lasting == {i \in Drawn : spans[i].exit > spans[i].enter}

(* The nodes right below a node, and whether no scope at a node is open. *)
Children(p) == {c \in DOMAIN tree : Len(c) = Len(p) + 1 /\ SubSeq(c, 1, Len(p)) = p}
AllClosed(p) == \A i \in Drawn : Chain(spans[i]) = p => spans[i].exit # Forever

(* The global flame graph has a node at the chain of scopes of every scope *)
(* that lasts.  If all do, its nodes are those; each is as wide as the     *)
(* closed scopes there are long, and by one for every open scope, however  *)
(* long; and the children of a node at which no scope is open have room    *)
(* within it.  Those of an open scope may be wider than it is: there the   *)
(* layout must make room ("overshoot is the dangerous case").              *)
GlobalTree ==
  phase = "merge" /\ cursor > Len(order) =>
    /\ \A i \in Lasting : Chain(spans[i]) \in DOMAIN tree
    /\ Lasting = Drawn =>
         /\ tree = [p \in {Chain(spans[i]) : i \in Lasting} |->
                      MapThenSumSet(LAMBDA i : Weight(spans[i]), {i \in Lasting : Chain(spans[i]) = p})]
         /\ \A p \in DOMAIN tree :
              AllClosed(p) => MapThenSumSet(LAMBDA c : tree[c], Children(p)) <= tree[p]
===============================================================================
