# Verification of ROCprof Compute Viewer and `rcv-cli`

This directory models parts of the program under `src/` in TLA+. TLC checks the models on small
instances, TLAPS proves the most important properties for every value of the constants.
`PROJECT.json` maps each definition to the lines it models and lists runs, mutants, hazards,
findings and theorems.

## 1. The system

The program reads instruction-level GPU traces and shows them: a Qt viewer, and the headless
`rcv-cli` that turns a trace into a JSON digest and answers questions about it.

| part | state it keeps | operations | interacts with |
|---|---|---|---|
| digest publication (`cli/main.cpp`) | the output path and a temporary file beside it | `analyze`: load, validate the path, write, fsync, close, validate again, rename; `readDigest` | the file system, other processes on the same path |
| CLI queries and reports (`cli/queries`, `compare`, `wait_query`, `format`, `digest*`) | none besides the digest | summary, hotspots, wait, compare | a digest or a loaded store |
| `.att` decoding (`data/trace_decoder_emitter`, `record_dispatcher`, `record_handlers`) | bytes in flight, a semaphore, parse errors, ISA cache, `arch_offset` | one thread per file; callbacks hand records to the dispatcher | the decoder library, the data store under one mutex |
| `ui_output` emitter (`data/json_emitter`) | none besides the store | metadata, code, hierarchy, wave states, occupancy, counters, realtime, shader data, markers | the data store, wave cache |
| loader (`data/trace_loader`, `load_validation`, `input_detector`) | none | detect, clear caches, run an emitter, verify waves, accept or refuse | emitters, caches |
| data store (`data/datastore*`) | wave hierarchy, records, per-engine streams, dispatch index | realtime alignment, `getWave` | everything |
| wave and code caches (`data/wavemanager`, `code/codeload`) | process-wide maps | get or load, invalidate | loader, views, threads of `GatherWaves` |
| markers and dispatches (`data/marker_walker`, `shaderdata`, `dispatch_resolver`, `sqtt_funcmap_json`) | stacks and spans per wave slot | walk a stream, resolve a code object | data store |
| wait-count analysis (`data/waitcnt`) | lists of outstanding memory operations | link each operation to a wait | a wave's tokens |
| latency analyses (`analysis/hidden_latency`, `memory_latency`) | per-line latencies | interval union and intersection, issue-to-return matching | waves, counters |
| SPM and derived counters (`data/spm_json`, `analysis/spm_series`, `derived_counter`) | series with a validity mask, expressions | align, evaluate | realtime records, plots |
| viewer session (`mainwindow`) | store, current path, `lastPath`, selectors, main wave, views, pointers into the store | open, reload, attach, select, scroll | loader, caches, widgets |
| views (`wave`, `code`, `graphics`, `collection`, `summary`) | layout and scroll positions | paint | session |
| configuration (`config`) | stored settings | read, write | session |

What is hard: files that several processes replace and a machine that may stop (publication);
threads that share a budget, a semaphore and the store (decoding); copies of one time in several
places that must move together (alignment); a session of loads of which any may fail half way,
with process-wide caches and non-owning pointers that survive it (viewer); streams of markers with
tokens missing, read without knowing for certain what ran (markers); and a recursive evaluator with a
cache, asked in the order of a hash table, whose values are floats that must remember which clock they are on (counters).
`PROJECT.json` lists 40 hazards at their lines.

## 2. Modules

| module | models | checked by | proved in |
|---|---|---|---|
| `AtomicDigest` | what `analyze -o` promises: atomic replacement of a whole value | through `DigestPublish` | |
| `DigestPublish` | `writeAtomically`, `cmdAnalyze`, `readDigest` and the file system | `MCDigestPublish` | `ReplacementProofs` |
| `AttDecode` | `parseATTFiles`, its threads, the dispatcher and `onWave` | `MCAttDecode` (two cfgs) | `AttDecodeProofs` |
| `RealtimeAlignment` | `applyRealtimeAlignment`, `applyTimeOffsets`, `getWave` | `MCRealtimeAlignment` | `RealtimeAlignmentProofs` |
| `ViewerSession` | `LoadInput`, `LoadInputImpl`, `SetMainWave`, `GatherWaves` and the menu actions | `MCViewerSession` (three cfgs) | `ReplacementProofs` |
| `HotspotGather` | `GatherWaves`' threads, `WaveInstance::Get`, `populateExecMetadata`, `HotspotView::Add` | `MCHotspotGather` | `HotspotGatherProofs` |
| `WaitArrows` | `MemoryCounter`, the walkers for gfx9, gfx10/11 and gfx12, `buildWaitcntFromTokens` | `MCWaitArrows` (two cfgs) | `WaitArrowsProofs` |
| `MarkerScopes` | `MarkerWalker`, `ResolveMarkers`, `ActiveCodeobjIndex`, the resolvers of both emitters, the marker part of `stack_builder` | `MCMarkerScopes` | `MarkerScopesProofs` |
| `Tensors` | the arrays of counters and every operation on them | through `DerivedCounters` | |
| `SpmCapture` | `loadSpmJson`, `buildTimelines`, `alignSpmClock` | through `DerivedCounters` | |
| `DerivedCounters` | `loadSpmForTrace`, `CounterContext`, `UpdateDerivedCounters`, `makePlotSeries` | `MCDerivedCounters` | `DerivedCountersProofs` |
| `FoldLemmas` | nothing: facts about sums, folds and least elements that the proofs share | | itself |

Every module begins with a comment on its abstraction. Operators that stand for bugs the code could
have sit in a section of their own above the actions; each replaces one action or helper
(`PROJECT.json`, "mutants") and breaks the property it is listed with, which shows that the property
depends on that part of the code.

### DigestPublish

One `analyze` is a process with a program counter: `load`, `validate`, `create`, `write`, `fsync`,
`close`, `revalidate`, `rename`, `published`, and the exits `done`, `failed`, `orphaned` (the removal
of the temporary file failed) and `killed`. `dest` is the entry at the output path, `length` the bytes
of each digest in memory, and `diskDest` and `diskLength` what a power loss would leave. A `write(2)`
may be short; every call may fail. The environment kills processes, replaces the path by anything
that is not a digest of ours, writes entries and contents back in any order, and cuts the power.
Readers open and parse in two steps.

`AtomicReplacement` is the refinement: with `Value(dest)` as the path's value, each step is one step of
`AtomicDigest` or a stutter. A digest that is not whole maps to `Malformed`, which the abstract
specification never publishes, so a write that is renamed too early is a step it does not allow.

### AttDecode

The main thread measures a file, waits for the budget, takes a permit, starts a thread. A
thread opens, reads, decodes, and on every way out gives back its bytes and its permit. `InsertWave` and
`PickInstance` are two steps because `onWave` reads the last instance number before it inserts;
the dispatcher's mutex is held in between. A wave is identified by the file and record that
reported it, so "no wave is lost" can be said. The decoder itself is external: it reports a fixed
sequence of records, loses data or fails at any time.

`hierarchy` has the entries, `waveRecords` what the waves hold. Its key is an id written from the slot, the CU
and the begin time, so two files of one engine may report two waves with one id; `wave_records.emplace`
(`record_handlers.cpp:46-47`) then leaves the first one's record as it is (`Emplace`) and the second wave is an entry
without a record of its own. A load that succeeds is complete in its entries, not in its records:
`OkIsComplete` says that every wave has an entry and which wave's record each entry shows, the one of the first
instance of the slot with its id.

### RealtimeAlignment

The clocks of shader engines as integers, with exact rationals for the code's doubles: `Origin` is
scaled by `DeltaShader`, so the quotient that the code truncates is `\div` of integers. `Moved` adds
an engine's offset to entries, records, REALTIME samples and its other records. `GetWave` fills
the cache under the key the code uses. A record shared by two entries with one id is moved twice, as in
the code. `states` is `wave_state_series`: a UI directory whose waves are all of one engine has it before the alignment
(`json_emitter.cpp:302`, `426-460`), and `applyTimeOffsets` does not move it (`datastore.cpp:226-319`). If that
engine is moved, its wave states stay on the clock that the rest of it has left; `OneClock` says so. Nothing in
the repository promises otherwise, so it is not listed as a finding.

### ViewerSession

Handlers run to completion on the event loop, so one user operation is one action. A store is named
by the load that made it; `shader`, `selector`, `views`, `main` and `cache` say of which store each thing
is. `LoadInput` has the ways a load ends: `LoadRefused` (before anything is touched), `Skipped` (the input
loaded last), `LoadFails`, `Loaded`, `PlotsFail`. With Replace, a failure puts back what `restored`
lists and leaves the rest as the failed load left it. Using a dead selector, or a missing main wave, is
undefined behaviour or a null pointer in the code: the process may end.

### HotspotGather

The main thread visits the entries of the hierarchy, starts a thread for each in range, and puts its
future into a ring; the future that was there is destroyed, which waits for its thread. A thread
looks the wave up under the shared lock, loads it without a lock, puts it into the cache under the
exclusive lock, and adds its tokens to the histogram. The two compare-and-swaps that give a line its
type are steps of their own, since other threads may be between them. A wave may be unreadable (it is
then cached without tokens) or fail to load (nothing is cached, and the main thread tries again when it draws).
Views are numbered: `target` is the one whose pointer a thread was given, `view` the one that exists.

`getBin` divides towards zero, so the first bin also holds the lines less than a bin before it;
`HotspotComplete` says so.

### WaitArrows

A wave is a sequence of tokens, memory operations of some kind (the counters it is counted on, how
often, whether it may return out of order, whether it is flat) and waits. `Record` is what the walker notes
of an operation, `Count` what the hardware counts; `Found` is what the walker makes of a wait, `Complete` what
the hardware had to complete before the wave went on. The two never look at each other; the
properties compare `arrows` with `waited`. A counter with anything that may return out of order says nothing
until it is zero, so a wait for another value completes nothing for certain. The hardware is taken to count what
`classify` recognises (`gfx9.cpp:50-80`, `gfx10.cpp:66-109`, `gfx12.cpp:78-151`); a mnemonic that it drops, or puts on
another counter than the hardware does, is outside the comparison.

`Read` is `extract_waitcnt`: a value that follows the name of two counters (`s_wait_loadcnt_dscnt`), or
the register of `s_waitcnt_vscnt null, 1`, is read as zero, or as both values in one number for the last name.
How the disassembler writes these is an assumption: no file of the repository shows one. The
properties speak of waves whose values were read as meant (`misread` is false).

### MarkerScopes

The waves of one hardware slot send tokens; a trace keeps the occupancy of the slot, and of the tokens
what was not lost. That part is external and is remembered as a ghost: which scopes the waves were
really in. The rest is the code. `Intervals` is the index that says which code object was active when
(each start lasts until the next record of the slot, an end sorts before a start of the same time),
`ObjectAt` what either emitter makes of it, `Walk` one record of `MarkerWalker` (enter, exit, transition,
point), `Drain` its end. Then `Sort` and `Attribute` are the walk of a flame graph over the
instructions of the slot, `Merge` the global graph.

The stack belongs to the slot, not to a wave: what a wave leaves open stays open under the next wave's
scopes. An enter whose code object has no metadata is not pushed though its exit pops. Spans nest all the
same, whatever arrives; that they are the program's scopes is stated of streams in which nothing was
lost, cut off or blind (`dirt`). In the global graph a span that is open or empty weighs one
(`stack_builder.cpp:630-631`). `GlobalTree` therefore promises room for the children only within a node at which no
scope is open; an open scope of weight one may hold closed ones that are wider, the case that
`layout.cpp:99-104` calls dangerous and makes room for. An empty span that is entered at the time of another may get
that one as its parent: `GlobalTree` speaks of spans that last. `TracedIntervals` gives a traced wave one object over
all its time; the code looks up the line of the wave's last token by that time and asks the occupancy when there
is none yet (`json_emitter.cpp:155-168`), which is the same if the wave has a token at its begin and all its lines
are of one object.

### Tensors, SpmCapture and DerivedCounters

A tensor is a function of its valid cells; the code keeps an array and a mask. `xccs` is what the
code remembers of the XCC of each row, `from` a ghost: which XCCs a row was really computed from. An
operation returns the set of its results, empty where the code throws.

`SpmCapture` puts the records on one line of samples for each XCC. A group with nearly a multiple of the
usual cycles stands for several windows; `Share` divides what it counted. `Aligned` carries the clock
from the first REALTIME record to the nearest sample of each XCC and on from there.

Values and stored clocks are 32-bit floats (`spm_json.cpp:282`, `321-324`, `358-359`, `473-476`). `Float` rounds a
whole number to the nearest of them, of two the one with an even last place; `Precision` is the number below which nothing
is rounded (2^24 in the code, 256 in the run) and `Spacings` are the steps between floats above it. `FloatSum` adds
values one after the other and rounds each time, as the code does with the records of a cell. What the code computes in
doubles is exact in the model, but for quotients, which are rounded down. `SamplesFaithful` says of an instance of a
counter that nothing is lost or made up if its windows have whole shares and all it counted is below `Precision`, and of
an aligned clock that it meets the REALTIME record up to the remainder of one quotient and, where a stored
clock is at `Precision` or above, half of what floats of its size are apart (`Rounding`). With 2^24 that is after
some milliseconds of a shader clock. Beyond what a capture holds, values are exact in the model
though the code goes on in floats: the operations of `Tensors`, the average of clocks, the starts of windows and the
totals of `makePlotSeries`.

`DerivedCounters` evaluates definitions one call at a time: `Ask` takes any name that is left, since the
names come out of a hash table; `GetCounter` looks into the cache, the built-in names, the collected
counters and the definitions in the code's order; `Evaluate` applies a definition whose arguments are
there; `Throw` unwinds. An expression within another is a definition of its own with a name that is not
drawn, which keeps the order of evaluation. `Collect` drops what failed and hides the counters that were
read. `AddSeries`, `Advance` and `EndSeries` are `makePlotSeries`, one time of the merge a step.

The evaluator never drops the results of definitions that depend on one that is replaced; it need not,
since every update builds a new manager. The mutant of `Determined` keeps the manager. A counter that was
read stays hidden when a later text does not read it, and failing definitions count as readers: the curves
are only ever disabled. A built-in name reads the size of the largest counter; of several as large the code takes the
first of the hash table (`derived_counter.cpp:1308-1313`), for which `CHOOSE` stands. `linear()` counts as measured on XCC 0, as its label says. Rows of different
XCCs that are added with equal shapes keep the left one's label (`inPlaceOp`); `broadcastOp` would drop
it. `CurveIsLatest` therefore speaks of the XCC's clock where a row is of one XCC, and otherwise of the
clock the label names.

Three things about curves are in the code and stated as they are. A counter reduced over XCCs is drawn on the
average of their clocks; where an XCC whose clock is ahead ends first, the average runs back
(`averageClock`), and the cursor then searches an unsorted curve (`plot.cpp:50-58`): `CurveIsLatest` is silent
about curves on such a clock. A curve of several XCCs that all end before time zero is drawn on to zero, since
`mergeXcc` starts its maximum there. And `linear()` of a negative size asks for a size that cannot be
allocated, which counts as a failure of the definition.

## 3. Runs

| run | instance | shows |
|---|---|---|
| `digest_publish` | two writers, one reader, digests of two writes, one acceptable and two refused foreign entries | a digest is whole wherever it can be seen (`NeverPartial`); what a failed analyze wrote is nowhere (`FailureNeverVisible`); a failure removes its file (`FailureCleansUp`); the refinement (`AtomicReplacement`); every analyze ends (`EveryAnalyzeEnds`) |
| `att_decode` | four files, one larger than the budget and one empty, two permits, two slots shared by files, two waves with one id | `BudgetRespected`, `ThreadsBounded`, `NoWaveLost`, `OkIsComplete`, `LoadEnds` |
| `selection_order` | the same | a violation: instance numbers follow the threads |
| `realtime_alignment` | three engines, three possible samples (every subset), three waves of which two share an id | `SameMoment`, `OneClock`, `AllOrNothing` |
| `viewer_session` | a ui_output directory, a capture directory of two files, two SPM files, four loads | `SuccessIsClean`, `ShaderDataAlive`, `ReloadShowsTheSame` |
| `viewer_pick` | the same, two loads | a violation: what is picked is not what is loaded |
| `viewer_stale_wave` | the same, two loads | a violation: a failed Replace leaves its waves in the cache |
| `hotspot_gather` | four entries of three waves, a ring of two, two gathers of any of them, a new trace in between | `RingBounded`, `ViewAlive`, `HotspotComplete`, `LinesKnowTheirType`, `TypeSettles`, `GatherEnds` |
| `wait_arrows` | every wave of five tokens on gfx9 and gfx10/11, of four on gfx12; values 0 and 1 | `NoArrowTooEarly`, `FoundOnce`, `ArrowsOfTracked` |
| `wait_flat` | the same | a violation: a flat store's wait has no arrow |
| `marker_scopes` | three kernels (known to both resolvers, to one, to none), two waves, four tokens, times 0 to 4, tokens and end records lost | `SpansNest`, `SpansAreScopes`, `InnermostScope`, `GlobalTree` |
| `derived_counters` | two XCCs; 125 captures with any cycles in three samples of one XCC against eight sets of REALTIME records, one of them too short to give a rate and one at clock zero after all samples, or none; three captures with missing windows and values and one of large counts, floats exact below 256; these four drawn with every pair of nine texts | `TypeOK`, `SamplesFaithful`, `Determined`, `CurveIsLatest` |

Why the bounds are enough. Two writers are the least that can overlap, a digest of two writes the least
that can be partial. Four files and two permits make the main thread wait for bytes and for a
permit; an empty file is charged beside the one that is larger than the budget; three files share slots, so two threads meet in `onWave`. Three engines allow one without
samples, one without waves and one that measures the clock ratio while the others do not. Four
loads allow a success, a failure that restores, a success after it and a reload. A ring of two makes a
third thread replace a future, two entries of one wave make two threads fill one place of the
cache, and three waves give one line three types. Five tokens are two
operations, a wait that may complete one of them, another operation and the wait that shows what
was kept; the counters of gfx12 that are treated alike are represented by `exp`. Four tokens are two scopes with both
ends, or three with transitions; a lost token counts as one of the four. Two waves let the scopes of one
meet the code object of the other. Three samples give a usual number of cycles (their median) and one
group that differs; the captures that are drawn have one XCC with more samples than the other, a
reconstructed window, missing values at the start, within and at the end, and in one of them an
XCC without samples; in another the XCC with fewer samples is ahead of the other, so that an average clock runs back. Each text exercises a part of the algebra: chains, cycles, unknown
names, a definition with a collected counter's name, a selection out of range, empty text. Two updates
are what is needed to find something left of the first. Quotients are exact in all of these but the
alignment by the anchor at 101, where each clock is rounded once, and the windows of the capture of large counts. A
float of 256 makes the clocks near 1000 multiples of four or eight; without the slack for it, or with conservation
claimed of sums above it, `SamplesFaithful` is violated. `Spacings` go to 32, beyond any number of the run.

Deadlock is not checked where the system stops: after the load (`att_decode`), after the alignment and
all waves were read (`realtime_alignment`), after the process ended (`viewer_session`), after the last
token (`wait_arrows`), the last gather (`hotspot_gather`), the graphs (`marker_scopes`), and after a
failed import or the last update (`derived_counters`).
`digest_publish` has an environment that never stops.

Fairness. `EveryAnalyzeEnds` assumes that the operating system runs each process
(`WF_vars(Analyze(p))`) and that a `write` is not interrupted for ever; `LoadEnds` that it runs the main
thread and each decoder thread. No stronger assumption: a thread that waits for the mutex gets it since
each file has finitely many records. `GatherEnds` assumes the same of the main thread (`Main`) and of each
loading thread (`Preload`); the exclusive lock is free infinitely often and no thread can hold the shared
one twice. The other runs state safety only.

### What the violations say

1. `selection_order`: `README.md:227-228` calls the selection of waves deterministic "in ascending
   SE/SIMD/slot/instance order". Instance numbers are given in the order in which decoder threads
   reach the dispatcher (`record_handlers.cpp:42-44`), so two files that report waves of one slot
   may be numbered either way.
2. `viewer_pick`: the dispatch dialog narrows `input_info`, but the load starts from the path
   (`mainwindow.cpp:1147`) and detects all files again.
3. `viewer_stale_wave`: a failed Replace restores the store, not the caches
   (`mainwindow.cpp:1001-1007`); a generated wave id of the failed trace is then served for the restored one.
4. `wait_flat`: for the counter shared by flat loads and flat stores, the stores are looked at only if
   something else was found (`gfx10.cpp:186-191`, `gfx12.cpp:267-276`); `README.md:361` says that arrows
   link memory operations to the waits for them. A flat store alone gets no arrow at its wait and one
   at a later wait, or none.

## 4. Proofs

`ReplacementProofs` has the two components in which something whole takes the place of
something else. Of the digest, for any finite or infinite set of processes and any digest size. The safety
properties are not inductive. `IInv` adds: how much is written and synced at each program counter
(`Progress`), whatever is visible was renamed by a process that had synced it (`VisibleIsPublished`), a
reader parsed what it opened (`ParsedIsOpened`), and a temporary file belongs to a process that has one
(`TempOwned`). From it follow `NeverPartial`, `FailureNeverVisible`, `FailureCleansUp` and, with
one lemma for the initial states and one for the steps, the refinement of `AtomicDigest`.

`FoldLemmas` has what five of the proofs share. The library's induction theorems take an operator and
cannot be cited here; `Induction` and `SetInduction` say the same of a *set* of numbers or of finite sets that
has the base and is closed under the step, and follow from the well-foundedness of the numbers. With them
come the least element of a finite set of integers, sums over a finite set one element at a time
(`MapThenSumSet`), that a sum does not depend on the names of its elements nor, over a table, on taking it by
rows or by columns (`SumImage`, `SumExchanged`), that intervals which do not overlap are not longer together than what
they lie in (`Packed`), and that a fold over a sequence is computed from its end.

`AttDecodeProofs`, for any number of files, any sizes, budget and permits, and any records. `IInv` has
`ThreadsBounded`, `Numbering` (each slot's numbers are dense, a number picked is still the next one
while the mutex is held, and everything entered is there), `Started` and `Accounted` (a thread that ends
without an error has entered everything). `NoWaveLost` follows. `Recording`
says that every entry is in the slot its wave was reported for (`ListedInPlace`), that an id that has a record is that of a wave
that is listed (`RecordIsListed`), and that each entry shows the first instance with its id
(`FirstRecorded`): a wave is entered behind those of its slot, so whoever has its id already comes first. With it
`OkIsComplete` follows. `Budgeted` says that `inflight` is the sum over the files
charged, and that above the budget one of them has all the bytes; each charge and each return is one element
of a finite sum. From it follows `BudgetRespected`. The bytes reach zero before the last
thread has ended if what is left is empty, so it is the files that have bytes of which only one may
exceed the budget.

`RealtimeAlignmentProofs`, for any engines, samples, ratios of the clocks and finite set of waves. `Placed` says that
everything is where the emitters left it, moved by its engine's offset; `Recorded` that a decoded wave's record
moved with its entry unless another entry shares its id; `Cached` that the wave cache holds what a read
returns; `Complete` that engines were moved only if all that hold anything have records. `OneClock` follows from
the first three, that the wave states stay from the steps themselves. `NoEngineLeft` needs also that offsets are not negative and one is zero, which is the engine
of the least origin; it exists since the engines with records are finite (`HasLeast`). `EnginesAgree` is arithmetic:
each offset truncates one quotient of non-negative integers, and the error of two of them is
less than the divisor either way.

Of the viewer session (`ReplacementProofs`), for any inputs and any number of loads: the four invariants together are
inductive. `SuccessIsClean` needs the types of the cache and of the store; one lemma for each way a load
ends, one step for each operation.

`HotspotGatherProofs`, for any waves, entries in range and size of the ring. `Held` is the strengthening:
for each running thread the main thread has a future, in the ring or just replaced. It gives
`ViewAlive`, since the block is left only when all futures' threads have ended, and `RingBounded`,
since the futures held are the image of a finite interval. `Known` is about the types of lines:
a thread between its two compare-and-swaps has settled the tokens before its place, and what is
settled only grows; `LinesKnowTheirType` and `TypeSettles` follow. `Counted` is about the histogram: each
bin holds the sum over the tokens that threads have been through, so that each addition is one
element more of a finite sum, whichever thread makes it. When the block has ended, these are all
tokens of the waves in range that could be read: `HotspotComplete`.

`MarkerScopesProofs`, for any kernels, tokens, resolution of markers and numbers of waves. `SpansNest`
alone is not inductive: a span that is put out now has to be compared with those that later leave the
stack. `Nested` relates both: scopes on the stack are at their depth and in the order they were
entered, and each span that is out was over before such a scope was entered or lies within it and
is deeper. `Bounded` says that nothing is later than the record that is walked. Both are stated of
functions on `1 .. n`, which keeps the sequences out of the arithmetic; closing and opening a scope are
lemmas, and a transition is the two one after the other. No assumption is made on what a token means or
which tokens arrive. `Enclosed` adds that a span lies in a scope of every lesser depth, on the stack or
over.

`InnermostScope` stands on top of that. The order of the spans is given by rank: `Before` counts what precedes
a span, and the ranks are a bijection (`SortedInOrder`), so that the spans entered by a time are the
first in it (`EnteredFirst`). The scopes around a time are a chain with one of each depth
(`AroundIsChain`). `Opened` is the invariant of the walk over the spans in order: the stack is exactly those of
the spans so far that are open at the instruction, each at its depth. The next instruction takes off what has ended,
which is the end of a chain (`OpenedLater`), and each span then belongs right behind those that stay
(`OpenedStep`), by induction for any number of them (`OpenedAll`).

`SpansAreScopes` compares two walks over one stream with the trace between them, which has forgotten who sent
what. While nothing is lost, cut or without meaning there is a `History`: the wave of each record, the calls
that were open before the first and after each, and how many scopes were left by then; `UpToNow` ties
its end to the ghosts while the trace is taken, `AllOver` when it has ended. A step of the trace extends the
history (`EmitHistory`) or leaves it (`HistoryKept`). `Slots` says what a slot's rows tell: waves run one after
the other, each has the row of its start, and every row is of one of them. So one interval at most is active at
the time of a record, that of its wave, with or without the rows of ends (`RowsKnow`, `CodeKnows`), and
`ObjectAt` finds the object that was known of the wave (`ObjectIsKnown`). Then the walk follows the
history record by record: its stack is the calls of that time, and its spans that are no points are the
scopes left until then, place for place (`Follow`).

`GlobalTree` is about a merge that finds the place of a span by its depth alone, in an invariant over the
first spans of the order (`Merging`). `PathHolds`: the path of nodes has at its depth every lasting span that only
deeper ones came after. Whatever comes between a span and a scope around it is deeper
(`BetweenIsDeeper`), so the path has all scopes around the span that comes next (`AboveIsOnPath`), and they
are one of each depth (`AboveIsChain`, `ChainIs`); its node is therefore at its chain (`NextIsChain`). The
tree is then that of one span more, by the lemmas on sums (`OneMoreNode`). Spans of no length are why
the invariant speaks of those that last: the path may keep one in the place of a parent. That children have
room is a count: a closed span of a child lies within one span of the node (`ParentIs`), those within one
span do not overlap and are not longer together than it is (`ScopeHasRoom`, with `Packed` of `FoldLemmas`), and the
spans of all children are grouped by the span they lie in (`ChildrenFit`, with `SumGrouped`).

`WaitArrowsProofs`, for any counters in use, waves and values of any size. `Behind` is the
strengthening that matters: an operation in a list that no wait has waited for is also pending in the
hardware's counter, at least as far from its end as it is from the end of the list; so what
a list gives up for a value, the hardware completed for it. A flat operation is in no such list:
`UnderWay` says that it makes its counters loose, and `Cautious` that a loose counter is never in order for the
analysis while values are read right. `Walked` is the invariant of one wait, over the counters it names:
what is left of a list is its end, and what was found is justified by a value. No induction is needed for it, since
each walker looks at a fixed number of counters. From it follow `TypeOK` and `NoArrowTooEarly`.

Two more invariants stand on top of it. `FoundOnce`: an operation has as many arrows and places in lists
together as it was counted, at most (`Budget`): each arrow costs the operation a place, and `Slots` says where
its places can be.
`ArrowsOfTracked`: `Exact` says that the analysis and the hardware know the same while nothing happened that
the analysis loses track of. A list in order is the counter's pending operations, place for place; of a loose
one whatever is listed is pending, and whatever is pending is listed, is among the flat loads or has its arrow;
the flat loads are pending on loose counters; and the arrows are among the waits, with one
no later than each of these. The invariant of one wait (`Exactly`) is
parameterised by the set of counters the walker has been at, and says of those that they are as
the hardware's will be after the wait.

`DerivedCountersProofs`, for any captures, texts, literals and order of the hash table. `Determined` compares an
evaluator that recurses, caches and throws with a meaning that is computed in rounds. `MeaningIs` says all that is
used of the rounds: in the end no definition is ready, every name that has a value has it from
arguments that have one, and a rank, the round in which a name was found, falls from each computed name to
its computed arguments. The rounds exist by an induction over numbers, and end since each adds a name of
a finite text (`CountStep`). `Tracked` is about the calls in progress: each waits for the one within it and holds the
values of its arguments before that, so that if a call has a value, all calls within it have one, of lower
rank. A call within itself would be below itself, so a cycle, an unknown name or a failing operation all
say the same when the evaluator throws: the innermost call has no value, nor has any around it, and the name
asked is rightly left out (`AskedInVain`). What was cached on the way is right all the same (`Right`),
as a value never depends on who asked. `CounterInv` puts these together with what is known of the capture;
`ShownAsWritten` follows.

`TypeCorrect` needs more than `TypeOK`: arguments held by a call are not in the cache yet, and an
operation keeps the cells of its result within the shape only if its operands' shapes are sequences of four
numbers and it has a source for each row (`IsTensor`). Each operation of `Tensors` has its lemma; `ApplyIs` collects
them. The capture that is loaded has this form since timelines are sequences and dimensions finite maxima (`LoadedAre`),
and the alignment keeps it (`AlignedAre`). `TypeInv` says it of the capture, of the cache, of the results and of the
values held.

`TrueToRecords` is about the capture alone, so that its invariant is short (`FileInv`: what is plotted is the capture as
it is loaded, or one that `Aligned` makes of it) and the work is in the operators. `Windowed` says how a flattened timeline is laid out:
the windows of each group one after the other, the first of a group where the group before ends. Samples are in
order since the times of the groups are and `Closest` grows with the window (`SamplesInOrder`). A record is in as many
samples as its group has windows (`HoldingIs`); a table of samples and records, summed both ways, gives
`RowConserved`. For the clock, times being in order makes the interval that `AnchorInterval` chooses the one that holds
the record's time, with the nearest sample at one of its ends (`IntervalIs`); the clock grows over it by its cycles, and
what is left of the claim is the remainder of one quotient (`MetIs`). The floats come on top. Below `Precision` the
spacing is one, so `Float` changes nothing (`FloatExact`), nor does a sum one by one if the magnitudes together stay
below it (`FloatSumExact`, by an induction over finite sets of addends): the shares, the cells (`CellExact`) and with them
the counts (`CountKept`) are then those of the exact capture. Anywhere `Float` is off by at most half of `Spacing`
(`FloatNear`), and so is a stored clock from the exact one, which turns `MetIs` into the claim with slack (`MetRounded`).

Assumptions are the named ASSUMEs of the modules (`SizeAssumption`, `NamesAssumption`,
`ConfigAssumption`, `InputAssumption`, `ShapeAssumption`, `GatherAssumption`, `BoundsAssumption`, `MarkerAssumption`,
`CounterAssumption`, `IdAssumption`, `FloatAssumption`); TLC evaluates them in the runs.

Only model-checked: the liveness properties (fairness and ENABLED are beyond the prover), and of the safety properties
`CurveIsLatest`, which needs a simulation of one step of the merge, and that labels of rows say where
rows are from.

## 5. Not modelled, and the plan

Not modelled, because there is nothing to check but wording or layout: painting, layout and menus;
configuration; the third-party JSON library; the decoder library; the contents of a digest. Not
modelled of the modelled parts: the parser of derived definitions, their division, and the plot of trace counters; `DispatchResolver`; the stacks of instructions in the flame graph;
`ActiveCodeobjIndex::clear()`, whose callers all run before anything reads the index.

What a next step would take up:

1. **Code cache and ISA cache**: `arch_offset`, which decoder threads set and read without the lock, the ISA
   callback and `buildCodeFromISACache`, as part of `AttDecode`.
2. **Latency** (`HiddenLatency`, `MemoryLatency`): interval operators against sets of cycles.
3. **Command line** (`DigestQueries`): selection, percentile, comparison against reference definitions.

The theorem worth proving next is `CurveIsLatest`.
