------------------------------ MODULE AttDecode ------------------------------
(***************************************************************************)
(* src/data/trace_decoder_emitter.cpp, parseATTFiles: the main thread      *)
(* starts one thread per .att file under a byte budget and a counting      *)
(* semaphore; the threads decode at the same time and hand every wave to   *)
(* the record dispatcher, whose mutex guards WaveHandler::onWave and with  *)
(* it the wave hierarchy and the map of the waves' records; the main       *)
(* thread joins them, and loadTrace refuses the capture if any of them     *)
(* reported an error.                                                      *)
(*                                                                         *)
(* Files are numbered in the order of std::sort over their paths.  What    *)
(* the decoder reports of a file is a sequence of wave records; a record   *)
(* handleWave ignores (wrong size, null payload) has no slot.  A wave's id *)
(* is written from its slot, its CU and its begin time, so that two waves  *)
(* of one slot may have the same id (two files of one shader engine that   *)
(* both begin at the same clock), and waves of two slots may not.          *)
(***************************************************************************)
EXTENDS Integers, Sequences, FiniteSets, FiniteSetsExt

CONSTANTS
  N,          \* number of .att files
  SizeOf,     \* bytes of each
  Budget,     \* MEMORY_BUDGET
  Permits,    \* the semaphore's initial value
  Slots,      \* (SE, SIMD, wave slot) triples
  Records,    \* of each file, the waves its decoder reports, in order
  Ignored,    \* the slot of a record that handleWave ignores
  IdOf        \* of each file, the ids of its waves, in order

Files == 1 .. N

ASSUME ConfigAssumption ==
  /\ N \in Nat
  /\ Budget \in Nat /\ Permits \in Nat \ {0}
  /\ SizeOf \in [Files -> Nat]
  /\ Ignored \notin Slots
  /\ Records \in [Files -> Seq(Slots \cup {Ignored})]

ASSUME IdAssumption ==
  /\ \A f \in Files : DOMAIN IdOf[f] = DOMAIN Records[f]
  /\ \A f, g \in Files : \A i \in DOMAIN Records[f], j \in DOMAIN Records[g] :
       IdOf[f][i] = IdOf[g][j] => Records[f][i] = Records[g][j]

VARIABLES
  mainPc,     \* the main thread: "stat", "budget", "acquire", "done"
  next,       \* the file its loop is at
  inflight,   \* inflight_bytes
  permits,    \* the semaphore
  pc,         \* each file's thread
  at,         \* how many records its decoder reported so far
  mutex,      \* the holder of dispatch_mutex, 0 when free
  pick,       \* next_id in onWave, a local of the thread
  hierarchy,  \* of each slot, the map from instance number to the wave
  waveRecords,\* wave_records: the map from an id to the wave it holds the record of
  errors,     \* the files parse_errors says something about
  verdict     \* what loadTrace returns: "none" until then, "ok", "failed"

sched == <<mainPc, next, permits>>
waves == <<mutex, pick, hierarchy, waveRecords>>
vars == <<mainPc, next, inflight, permits, pc, at, mutex, pick, hierarchy, waveRecords, errors,
          verdict>>

(* A wave is identified by the file and the record that reported it. *)
Wave(f, i) == <<f, i>>
WaveId(w) == IdOf[w[1]][w[2]]

Running == {"open", "read", "parse", "pick", "insert", "uncharge", "release"}
Charged == Running \ {"release"}

(* A bug Init could have: a semaphore that starts one permit too high. *)
InitExtraPermit ==
  /\ mainPc = "stat" /\ next = 1
  /\ inflight = 0 /\ permits = Permits + 1
  /\ pc = [f \in Files |-> "none"]
  /\ at = [f \in Files |-> 0]
  /\ mutex = 0
  /\ pick = [f \in Files |-> 0]
  /\ hierarchy = [s \in Slots |-> <<>>]
  /\ waveRecords = <<>>
  /\ errors = {}
  /\ verdict = "none"

Init ==
  /\ mainPc = "stat" /\ next = 1
  /\ inflight = 0 /\ permits = Permits
  /\ pc = [f \in Files |-> "none"]
  /\ at = [f \in Files |-> 0]
  /\ mutex = 0
  /\ pick = [f \in Files |-> 0]
  /\ hierarchy = [s \in Slots |-> <<>>]
  /\ waveRecords = <<>>
  /\ errors = {}
  /\ verdict = "none"

Goto(f, from, to) ==
  /\ pc[f] = from
  /\ pc' = [pc EXCEPT ![f] = to]

Report(f) == errors' = errors \cup {f}

------------------------------------------------------------------------------
(* Bugs this code could have, one per property below: each stands in for the *)
(* operator named after the dash and must break its property.                *)

(* ChargeFile - compares the bytes in flight without the new file's. *)
ChargeUnchecked ==
  /\ mainPc = "budget"
  /\ inflight <= Budget
  /\ inflight' = inflight + SizeOf[next]
  /\ mainPc' = "acquire"
  /\ UNCHANGED <<next, permits, pc, at, waves, errors, verdict>>

(* OpenFile - the early return for a file that does not open keeps the *)
(* permit.                                                             *)
OpenKeepsPermit(f) ==
  /\ \/ Goto(f, "open", "read") /\ UNCHANGED <<inflight, errors>>
     \/ /\ Goto(f, "open", "exited") /\ Report(f)
        /\ inflight' = inflight - SizeOf[f]
  /\ UNCHANGED <<sched, at, waves, verdict>>

(* OpenFile - the early return for a file that does not open keeps the *)
(* bytes charged.                                                      *)
OpenKeepsBytes(f) ==
  /\ \/ Goto(f, "open", "read") /\ UNCHANGED errors
     \/ Goto(f, "open", "release") /\ Report(f)
  /\ UNCHANGED <<sched, inflight, at, waves, verdict>>

(* LockDispatcher - the dispatcher without its lock_guard. *)
LockLeftOut(f) ==
  /\ at[f] < Len(Records[f]) /\ Records[f][at[f] + 1] # Ignored
  /\ Goto(f, "parse", "pick")
  /\ UNCHANGED <<sched, inflight, at, waves, errors, verdict>>

(* ReadFile - a short read is not reported. *)
ReadShortUnreported(f) ==
  /\ \/ Goto(f, "read", "parse")
     \/ Goto(f, "read", "uncharge")
  /\ UNCHANGED <<sched, inflight, at, waves, errors, verdict>>

------------------------------------------------------------------------------
(* The main thread *)

(* fs::file_size: a file that cannot be measured is reported and skipped. *)
StatFile ==
  /\ mainPc = "stat" /\ next \in Files
  /\ \/ mainPc' = "budget" /\ UNCHANGED <<next, errors>>
     \/ Report(next) /\ next' = next + 1 /\ UNCHANGED mainPc
  /\ UNCHANGED <<inflight, permits, pc, at, waves, verdict>>

(* The spin on the budget, and the charge.  Only this thread adds to *)
(* inflight, so nothing but a decrease can come between the two.     *)
ChargeFile ==
  /\ mainPc = "budget"
  /\ inflight + SizeOf[next] <= Budget \/ inflight = 0
  /\ inflight' = inflight + SizeOf[next]
  /\ mainPc' = "acquire"
  /\ UNCHANGED <<next, permits, pc, at, waves, errors, verdict>>

(* semaphore.acquire and the start of the thread. *)
SpawnThread ==
  /\ mainPc = "acquire" /\ permits > 0
  /\ permits' = permits - 1
  /\ Goto(next, "none", "open")
  /\ next' = next + 1
  /\ mainPc' = "stat"
  /\ UNCHANGED <<inflight, at, waves, errors, verdict>>

(* The join of every thread.  loadTrace then refuses a capture with parse *)
(* errors; without any it may still refuse it (no code, no waves).        *)
JoinThreads ==
  /\ mainPc = "stat" /\ next = N + 1
  /\ \A f \in Files : pc[f] \in {"none", "exited"}
  /\ mainPc' = "done"
  /\ \/ verdict' = "failed"
     \/ errors = {} /\ verdict' = "ok"
  /\ UNCHANGED <<next, inflight, permits, pc, at, waves, errors>>

Main == StatFile \/ ChargeFile \/ SpawnThread \/ JoinThreads

------------------------------------------------------------------------------
(* The thread of a file *)

(* ifstream, and the read of the whole file: a failure is reported. *)
OpenFile(f) ==
  /\ \/ Goto(f, "open", "read") /\ UNCHANGED errors
     \/ Goto(f, "open", "uncharge") /\ Report(f)
  /\ UNCHANGED <<sched, inflight, at, waves, verdict>>

ReadFile(f) ==
  /\ \/ Goto(f, "read", "parse") /\ UNCHANGED errors
     \/ Goto(f, "read", "uncharge") /\ Report(f)
  /\ UNCHANGED <<sched, inflight, at, waves, verdict>>

More(f) == at[f] < Len(Records[f])
Slot(f) == Records[f][at[f] + 1]

(* handleWave returns early for a record it cannot use. *)
IgnoreRecord(f) ==
  /\ pc[f] = "parse" /\ More(f) /\ Slot(f) = Ignored
  /\ at' = [at EXCEPT ![f] = @ + 1]
  /\ UNCHANGED <<sched, inflight, pc, waves, errors, verdict>>

(* dispatchWave takes the dispatcher's mutex... *)
LockDispatcher(f) ==
  /\ More(f) /\ Slot(f) # Ignored
  /\ mutex = 0 /\ mutex' = f
  /\ Goto(f, "parse", "pick")
  /\ UNCHANGED <<sched, inflight, at, pick, hierarchy, waveRecords, errors, verdict>>

(* ... and onWave numbers the wave after the last one in its slot... *)
NextInstance(map) == IF DOMAIN map = {} THEN 0 ELSE Max(DOMAIN map) + 1

PickInstance(f) ==
  /\ Goto(f, "pick", "insert")
  /\ pick' = [pick EXCEPT ![f] = NextInstance(hierarchy[Slot(f)])]
  /\ UNCHANGED <<sched, inflight, at, mutex, hierarchy, waveRecords, errors, verdict>>

(* ... and enters it under that number.  What the wave holds goes into    *)
(* wave_records, whose emplace leaves the record of an id it has as it is: *)
(* of two waves with one id the second is entered without a record.  The   *)
(* mutex is released.                                                      *)
Emplace(map, id, w) ==
  IF id \in DOMAIN map
  THEN map
  ELSE [d \in DOMAIN map \cup {id} |-> IF d = id THEN w ELSE map[d]]

InsertWave(f) ==
  /\ Goto(f, "insert", "parse")
  /\ hierarchy' = [hierarchy EXCEPT ![Slot(f)] =
                     [i \in DOMAIN @ \cup {pick[f]} |->
                        IF i = pick[f] THEN Wave(f, at[f] + 1) ELSE @[i]]]
  /\ waveRecords' = Emplace(waveRecords, IdOf[f][at[f] + 1], Wave(f, at[f] + 1))
  /\ at' = [at EXCEPT ![f] = @ + 1]
  /\ mutex' = 0
  /\ UNCHANGED <<sched, inflight, pick, errors, verdict>>

(* INFO DATA_LOST or STITCH_INCOMPLETE may come at any time. *)
LoseData(f) ==
  /\ pc[f] = "parse" /\ f \notin errors
  /\ Report(f)
  /\ UNCHANGED <<sched, inflight, pc, at, waves, verdict>>

(* The decoder returns: SUCCESS after the last record, or an error status *)
(* anywhere, which is reported.                                           *)
EndParse(f) ==
  /\ Goto(f, "parse", "uncharge")
  /\ \/ ~More(f) /\ UNCHANGED errors
     \/ Report(f)
  /\ UNCHANGED <<sched, inflight, at, waves, verdict>>

(* Every way out of the thread gives back the bytes and the permit. *)
Uncharge(f) ==
  /\ Goto(f, "uncharge", "release")
  /\ inflight' = inflight - SizeOf[f]
  /\ UNCHANGED <<sched, at, waves, errors, verdict>>

ReleasePermit(f) ==
  /\ Goto(f, "release", "exited")
  /\ permits' = permits + 1
  /\ UNCHANGED <<mainPc, next, inflight, at, waves, errors, verdict>>

Thread(f) ==
  \/ OpenFile(f) \/ ReadFile(f) \/ IgnoreRecord(f) \/ LockDispatcher(f)
  \/ PickInstance(f) \/ InsertWave(f) \/ LoseData(f) \/ EndParse(f)
  \/ Uncharge(f) \/ ReleasePermit(f)

Next == Main \/ \E f \in Files : Thread(f)

(* The operating system runs every thread.  A thread that waits for the *)
(* mutex gets it: every file has finitely many records.                 *)
Fairness == WF_vars(Main) /\ \A f \in Files : WF_vars(Thread(f))

Spec == Init /\ [][Next]_vars
FairSpec == Spec /\ Fairness

------------------------------------------------------------------------------
(* Properties *)

TypeOK ==
  /\ mainPc \in {"stat", "budget", "acquire", "done"}
  /\ next \in 1 .. N + 1
  /\ inflight \in Int
  /\ permits \in 0 .. Permits
  /\ pc \in [Files -> {"none", "exited"} \cup Running]
  /\ at \in [Files -> Nat] /\ \A f \in Files : at[f] <= Len(Records[f])
  /\ mutex \in 0 .. N
  /\ pick \in [Files -> Nat]
  /\ hierarchy = [s \in Slots |-> hierarchy[s]]
  /\ waveRecords = [d \in DOMAIN waveRecords |-> waveRecords[d]]
  /\ errors \subseteq Files
  /\ verdict \in {"none", "ok", "failed"}

(* The files whose bytes are counted: the main thread counts a file before *)
(* its thread exists.                                                      *)
ChargedFiles ==
  {f \in Files : pc[f] \in Charged} \cup (IF mainPc = "acquire" THEN {next} ELSE {})

(* "Parse all SEs with bounded parallelism": the bytes in flight are those *)
(* of the files charged, no more than the budget unless one file alone is  *)
(* larger (an empty file may be charged beside it: the spin waits for the  *)
(* bytes to reach 0, not for the threads), and nothing stays charged once  *)
(* every thread was joined.                                                *)
BudgetRespected ==
  /\ inflight = MapThenSumSet(LAMBDA f : SizeOf[f], ChargedFiles)
  /\ inflight > Budget => Cardinality({f \in ChargedFiles : SizeOf[f] > 0}) = 1
  /\ mainPc = "done" => inflight = 0

RunningFiles == {f \in Files : pc[f] \in Running}

(* Every permit is either free or held by one thread, so no more than *)
(* Permits threads decode at once.                                    *)
ThreadsBounded == permits + Cardinality(RunningFiles) = Permits

(* What a file's thread has entered so far. *)
Entered(f) == {i \in 1 .. at[f] : Records[f][i] # Ignored}

(* onWave reads the last instance number and writes the next one: however  *)
(* the threads of two files of one shader engine interleave, no wave       *)
(* overwrites another, the numbers have no gap, and waves of one file keep *)
(* their order.                                                            *)
NoWaveLost ==
  /\ \A s \in Slots : DOMAIN hierarchy[s] = 0 .. Cardinality(DOMAIN hierarchy[s]) - 1
  /\ \A f \in Files : \A i \in Entered(f) :
       \E n \in DOMAIN hierarchy[Records[f][i]] : hierarchy[Records[f][i]][n] = Wave(f, i)
  /\ \A s \in Slots : \A m, n \in DOMAIN hierarchy[s] :
       (m < n /\ hierarchy[s][m][1] = hierarchy[s][n][1])
         => hierarchy[s][m][2] < hierarchy[s][n][2]

(* Instance m is the first of a slot's instances with the id d. *)
FirstWith(map, d, m) ==
  /\ m \in DOMAIN map /\ WaveId(map[m]) = d
  /\ \A n \in DOMAIN map : WaveId(map[n]) = d => m <= n

(* What is shown of instance n, the record of its id, is what the first *)
(* instance with that id holds.                                         *)
ShowsFirst(map, n) ==
  LET d == WaveId(map[n])
  IN  /\ d \in DOMAIN waveRecords
      /\ \E m \in DOMAIN map : FirstWith(map, d, m) /\ waveRecords[d] = map[m]

(* A capture that loads has an entry for every wave: every thread has ended *)
(* and every wave of every file is in the hierarchy.  Every entry's id has  *)
(* a record.  It is the wave's own for every wave whose id no earlier       *)
(* instance of its slot has; a later wave with that id keeps its entry but  *)
(* not its record, and what is shown of it is the first one's.              *)
OkIsComplete ==
  verdict = "ok" =>
    /\ \A f \in Files :
         /\ pc[f] = "exited"
         /\ \A i \in 1 .. Len(Records[f]) : Records[f][i] # Ignored =>
              \E n \in DOMAIN hierarchy[Records[f][i]] :
                hierarchy[Records[f][i]][n] = Wave(f, i)
    /\ \A s \in Slots : \A n \in DOMAIN hierarchy[s] : ShowsFirst(hierarchy[s], n)

(* The load ends: no path out of a thread keeps bytes or a permit that the *)
(* main thread waits for.                                                  *)
LoadEnds == <>(mainPc = "done")

(* "Selection is deterministic: the first matching waves in ascending     *)
(* SE/SIMD/slot/instance order" (README.md): of two captures that decode  *)
(* without error, the instance a number names is the same, namely the one *)
(* that decoding the files one after the other gives.                     *)
Before(v, w) == v[1] < w[1] \/ (v[1] = w[1] /\ v[2] < w[2])
InFileOrder(s) ==
  \A m, n \in DOMAIN hierarchy[s] : m < n => Before(hierarchy[s][m], hierarchy[s][n])
SelectionDeterministic == verdict = "ok" => \A s \in Slots : InFileOrder(s)
=============================================================================
