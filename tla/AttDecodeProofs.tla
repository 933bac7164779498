--------------------------- MODULE AttDecodeProofs ---------------------------
(***************************************************************************)
(* For any number of .att files, sizes, permits and records: no more       *)
(* threads run than the semaphore has permits, the bytes in flight keep to *)
(* the budget, dispatch_mutex makes the numbering of waves lossless, and a *)
(* capture that loads has an entry for every wave and, for every id, the   *)
(* record of the first wave of that id.                                    *)
(*                                                                         *)
(* The numbering is right because of Picked: between the read of the last  *)
(* instance number and the insertion under the next one, the thread holds  *)
(* the mutex, so the number is still free when it is used.  Completeness   *)
(* is right because of Accounted: a file that contributes fewer records    *)
(* than it has is in parse_errors before its thread gives anything back.   *)
(* What an entry shows is right because of Recording: a record is emplaced *)
(* with the first entry of its id, and an id never leaves its slot.        *)
(* The budget holds because of Budgeted, which names the one file that     *)
(* weighs when the bytes in flight exceed it.                              *)
(***************************************************************************)
EXTENDS AttDecode, FoldLemmas

(* dispatch_mutex is held by the one thread inside onWave. *)
MutexHeld ==
  \A f \in Files : pc[f] \in {"pick", "insert"} <=> mutex = f

AtWave ==
  \A f \in Files : pc[f] \in {"pick", "insert"} =>
    at[f] < Len(Records[f]) /\ Slot(f) \in Slots

Dense == \A s \in Slots : \E n \in Nat : DOMAIN hierarchy[s] = 0 .. n - 1

Picked ==
  \A f \in Files : pc[f] = "insert" => DOMAIN hierarchy[Slot(f)] = 0 .. pick[f] - 1

EnteredIsListed ==
  \A f \in Files : \A i \in Entered(f) :
    \E n \in DOMAIN hierarchy[Records[f][i]] : hierarchy[Records[f][i]][n] = Wave(f, i)

ListedIsEntered ==
  \A s \in Slots : \A n \in DOMAIN hierarchy[s] :
    \E f \in Files : \E i \in 1 .. at[f] : hierarchy[s][n] = Wave(f, i)

Ordered ==
  \A s \in Slots : \A m, n \in DOMAIN hierarchy[s] :
    (m < n /\ hierarchy[s][m][1] = hierarchy[s][n][1])
      => hierarchy[s][m][2] < hierarchy[s][n][2]

(* The main loop starts the threads in file order. *)
Started ==
  /\ mainPc \in {"budget", "acquire"} => next \in Files
  /\ \A f \in Files : pc[f] # "none" => f < next

(* A file that gave fewer records than it has is among the errors. *)
Accounted ==
  /\ \A f \in Files : (pc[f] = "none" /\ f < next) => f \in errors
  /\ \A f \in Files : pc[f] \in {"uncharge", "release", "exited"} =>
       f \in errors \/ at[f] = Len(Records[f])
  /\ verdict # "none" => mainPc = "done"
  /\ verdict = "ok" =>
       errors = {} /\ \A f \in Files : pc[f] = "exited"

(* inflight_bytes counts the files charged.  When it exceeds the budget, one *)
(* of them has all the bytes, and none is left when the threads were joined. *)
Budgeted ==
  /\ inflight = SumOver(SizeOf, ChargedFiles)
  /\ inflight > Budget => \E f \in ChargedFiles : \A g \in ChargedFiles : SizeOf[g] > 0 <=> g = f
  /\ mainPc = "done" => ChargedFiles = {}

Numbering == AtWave /\ MutexHeld /\ Dense /\ Picked /\ EnteredIsListed /\ ListedIsEntered /\ Ordered

(* An entry is listed in the slot its file says... *)
InPlace(s, w) ==
  \E f \in Files : \E i \in DOMAIN Records[f] : w = Wave(f, i) /\ Records[f][i] = s

ListedInPlace == \A s \in Slots : \A n \in DOMAIN hierarchy[s] : InPlace(s, hierarchy[s][n])

(* ... an id that has a record has an entry... *)
RecordIsListed ==
  \A d \in DOMAIN waveRecords : \E s \in Slots : \E n \in DOMAIN hierarchy[s] :
    WaveId(hierarchy[s][n]) = d

(* ... and every entry shows the record of the first entry with its id. *)
FirstRecorded == \A s \in Slots : \A n \in DOMAIN hierarchy[s] : ShowsFirst(hierarchy[s], n)

Recording == ListedInPlace /\ RecordIsListed /\ FirstRecorded

IInv ==
  TypeOK /\ ThreadsBounded /\ Budgeted /\ Numbering /\ Recording /\ Started /\ Accounted

USE DEF Files, Running, sched, waves, Goto, Report, Wave, Entered

(* There are finitely many .att files. *)
LEMMA FilesFinite == IsFiniteSet(Files)
  BY ConfigAssumption, FS_Interval

(* The threads that run can be counted. *)
LEMMA RunningFinite == IsFiniteSet(RunningFiles) /\ Cardinality(RunningFiles) \in Nat
  BY FilesFinite, FS_Subset, FS_CardinalityType DEF RunningFiles

(* At the start no thread runs, every permit is free and no wave is entered. *)
LEMMA InitIInv == Init => IInv
<1> SUFFICES ASSUME Init PROVE IInv OBVIOUS
<1> USE ConfigAssumption DEF Init
<1>1. TypeOK BY DEF TypeOK
<1>2. ThreadsBounded
  <2>1. RunningFiles = {} BY DEF RunningFiles
  <2> QED BY <2>1, FS_EmptySet DEF ThreadsBounded
<1>3. Dense
  <2>1. \A s \in Slots : DOMAIN hierarchy[s] = 0 .. 0 - 1 OBVIOUS
  <2> QED BY <2>1 DEF Dense
<1>4. Numbering
  BY <1>3 DEF Numbering, AtWave, MutexHeld, Picked, EnteredIsListed, ListedIsEntered, Ordered
<1>5. Started /\ Accounted BY DEF Started, Accounted
<1>6. Budgeted
  <2>1. ChargedFiles = {} BY DEF ChargedFiles, Charged
  <2>2. inflight = SumOver(SizeOf, ChargedFiles) BY <2>1, SumEmpty
  <2> QED BY <2>1, <2>2 DEF Budgeted
<1>7. Recording BY DEF Recording, ListedInPlace, RecordIsListed, FirstRecorded
<1> QED BY <1>1, <1>2, <1>4, <1>5, <1>6, <1>7 DEF IInv

(* The semaphore: a permit goes to a thread with its start and comes back *)
(* with its last step.                                                    *)
LEMMA ThreadsStep == IInv /\ [Next]_vars => ThreadsBounded'
<1> SUFFICES ASSUME IInv, [Next]_vars PROVE ThreadsBounded' OBVIOUS
<1> USE ConfigAssumption DEF IInv, TypeOK
<1>0. permits + Cardinality(RunningFiles) = Permits BY DEF ThreadsBounded
<1>1. CASE SpawnThread
  <2>1. next \in Files /\ next \notin RunningFiles
    BY <1>1 DEF SpawnThread, Started, RunningFiles
  <2>2. RunningFiles' = RunningFiles \cup {next}
    BY <1>1, <2>1 DEF SpawnThread, RunningFiles
  <2>3. Cardinality(RunningFiles') = Cardinality(RunningFiles) + 1
    BY <2>1, <2>2, RunningFinite, FS_AddElement
  <2>4. permits' = permits - 1 BY <1>1 DEF SpawnThread
  <2>5. permits' + Cardinality(RunningFiles') = Permits
    BY <1>0, <2>3, <2>4, RunningFinite
  <2> QED BY <2>5 DEF ThreadsBounded
<1>2. ASSUME NEW f \in Files, ReleasePermit(f) PROVE ThreadsBounded'
  <2>1. f \in RunningFiles BY <1>2 DEF ReleasePermit, RunningFiles
  <2>2. RunningFiles' = RunningFiles \ {f} BY <1>2 DEF ReleasePermit, RunningFiles
  <2>3. Cardinality(RunningFiles') = Cardinality(RunningFiles) - 1
    BY <2>1, <2>2, RunningFinite, FS_RemoveElement
  <2>4. permits' = permits + 1 BY <1>2 DEF ReleasePermit
  <2>5. permits' + Cardinality(RunningFiles') = Permits
    BY <1>0, <2>3, <2>4, RunningFinite
  <2> QED BY <2>5 DEF ThreadsBounded
<1>3. ASSUME permits' = permits, RunningFiles' = RunningFiles PROVE ThreadsBounded'
  BY <1>0, <1>3 DEF ThreadsBounded
<1>4. CASE StatFile \/ ChargeFile \/ JoinThreads
  BY <1>3, <1>4 DEF StatFile, ChargeFile, JoinThreads, RunningFiles
<1>5. ASSUME NEW f \in Files, Thread(f), ~ReleasePermit(f) PROVE ThreadsBounded'
  <2>1. permits' = permits
    BY <1>5 DEF Thread, OpenFile, ReadFile, IgnoreRecord, LockDispatcher, PickInstance,
                InsertWave, LoseData, EndParse, Uncharge
  <2>2. \A g \in Files : pc'[g] \in Running <=> pc[g] \in Running
    BY <1>5 DEF Thread, OpenFile, ReadFile, IgnoreRecord, LockDispatcher, PickInstance,
                InsertWave, LoseData, EndParse, Uncharge
  <2>3. RunningFiles' = RunningFiles BY <2>2 DEF RunningFiles
  <2> QED BY <1>3, <2>1, <2>3
<1>6. CASE UNCHANGED vars BY <1>3, <1>6 DEF vars, RunningFiles
<1> QED BY <1>1, <1>2, <1>4, <1>5, <1>6 DEF Next, Main

(* A thread that has a record left may count it. *)
LEMMA AtAdvances ==
  ASSUME NEW f \in Files, at \in [Files -> Nat],
         \A g \in Files : at[g] <= Len(Records[g]) /\ Len(Records[g]) \in Nat,
         at[f] < Len(Records[f]), at' = [at EXCEPT ![f] = @ + 1]
  PROVE  at' \in [Files -> Nat] /\ \A g \in Files : at'[g] <= Len(Records[g])
<1>1. at' \in [Files -> Nat] OBVIOUS
<1>2. ASSUME NEW g \in Files PROVE at'[g] <= Len(Records[g])
  <2>1. CASE g = f BY <2>1
  <2>2. CASE g # f BY <2>2
  <2> QED BY <2>1, <2>2
<1> QED BY <1>1, <1>2

(* Every step keeps the types; that a permit given back is one that was *)
(* taken needs the accounting of ThreadsBounded.                        *)
LEMMA TypeStep == IInv /\ [Next]_vars => TypeOK'
<1> SUFFICES ASSUME IInv, [Next]_vars PROVE TypeOK' OBVIOUS
<1> USE DEF IInv, TypeOK
<1>0. N \in Nat /\ Permits \in Nat /\ \A f \in Files : SizeOf[f] \in Nat /\ Len(Records[f]) \in Nat
  BY ConfigAssumption
<1>1. CASE StatFile BY <1>0, <1>1 DEF StatFile
<1>2. CASE ChargeFile
  <2>1. inflight' \in Int BY <1>0, <1>2 DEF ChargeFile, Started
  <2> QED BY <1>2, <2>1 DEF ChargeFile
<1>3. CASE SpawnThread
  <2>1. next \in Files BY <1>3 DEF SpawnThread, Started
  <2>2. next' \in 1 .. N + 1 /\ permits' \in 0 .. Permits
    BY <1>0, <1>3, <2>1 DEF SpawnThread
  <2>3. pc' \in [Files -> {"none", "exited"} \cup Running]
    BY <1>3, <2>1 DEF SpawnThread
  <2> QED BY <1>3, <2>2, <2>3 DEF SpawnThread
<1>4. CASE JoinThreads BY <1>4 DEF JoinThreads
<1>5. ASSUME NEW f \in Files, Thread(f) PROVE TypeOK'
  <2>1. CASE OpenFile(f) BY <2>1 DEF OpenFile
  <2>2. CASE ReadFile(f) BY <2>2 DEF ReadFile
  <2>3. CASE IgnoreRecord(f)
    <3>1. at' = [at EXCEPT ![f] = @ + 1] /\ at[f] < Len(Records[f])
      BY <2>3 DEF IgnoreRecord, More
    <3>2. at' \in [Files -> Nat] /\ \A g \in Files : at'[g] <= Len(Records[g])
      BY <1>0, <3>1, AtAdvances
    <3> QED BY <2>3, <3>2 DEF IgnoreRecord
  <2>4. CASE LockDispatcher(f)
    <3>1. mutex' \in 0 .. N BY <1>0, <2>4 DEF LockDispatcher
    <3> QED BY <2>4, <3>1 DEF LockDispatcher
  <2>5. CASE PickInstance(f)
    <3>1. NextInstance(hierarchy[Slot(f)]) \in Nat
      <4>1. Slot(f) \in Slots BY <2>5 DEF PickInstance, Numbering, AtWave
      <4>2. PICK n \in Nat : DOMAIN hierarchy[Slot(f)] = 0 .. n - 1
        BY <4>1 DEF Numbering, Dense
      <4>3. CASE n = 0
        <5>1. 0 .. n - 1 = {} BY <4>3
        <5> QED BY <4>2, <5>1 DEF NextInstance
      <4>4. CASE n > 0
        <5>1. Max(0 .. n - 1) = n - 1 BY <4>4 DEF Max
        <5> QED BY <4>2, <4>4, <5>1 DEF NextInstance
      <4> QED BY <4>3, <4>4
    <3> QED BY <2>5, <3>1 DEF PickInstance
  <2>6. CASE InsertWave(f)
    <3>1. at[f] < Len(Records[f]) BY <2>6 DEF InsertWave, Numbering, AtWave
    <3>2. at' \in [Files -> Nat] /\ \A g \in Files : at'[g] <= Len(Records[g])
      BY <1>0, <2>6, <3>1, AtAdvances DEF InsertWave
    <3>3. hierarchy' = [s \in Slots |-> hierarchy'[s]] BY <2>6 DEF InsertWave
    <3>4. mutex' \in 0 .. N BY <1>0, <2>6 DEF InsertWave
    <3>5. waveRecords' = [d \in DOMAIN waveRecords' |-> waveRecords'[d]]
      BY <2>6 DEF InsertWave, Emplace
    <3> QED BY <2>6, <3>2, <3>3, <3>4, <3>5 DEF InsertWave
  <2>7. CASE LoseData(f) BY <2>7 DEF LoseData
  <2>8. CASE EndParse(f) BY <2>8 DEF EndParse
  <2>9. CASE Uncharge(f)
    <3>1. inflight' \in Int BY <1>0, <2>9 DEF Uncharge
    <3> QED BY <2>9, <3>1 DEF Uncharge
  <2>10. CASE ReleasePermit(f)
    <3>1. permits' + Cardinality(RunningFiles') = Permits
      BY ThreadsStep DEF ThreadsBounded
    <3>2. RunningFiles' = RunningFiles \ {f} /\ f \in RunningFiles
      BY <2>10 DEF ReleasePermit, RunningFiles
    <3>3. Cardinality(RunningFiles') \in Nat
      BY <3>2, RunningFinite, FS_RemoveElement, FS_CardinalityType
    <3>4. permits' \in 0 .. Permits BY <2>10, <3>1, <3>3 DEF ReleasePermit
    <3> QED BY <2>10, <3>4 DEF ReleasePermit
  <2> QED BY <1>5, <2>1, <2>2, <2>3, <2>4, <2>5, <2>6, <2>7, <2>8, <2>9, <2>10 DEF Thread
<1>6. CASE UNCHANGED vars BY <1>6 DEF vars
<1> QED BY <1>1, <1>2, <1>3, <1>4, <1>5, <1>6 DEF Next, Main

(* Which files were started, and which are accounted for. *)
LEMMA AccountStep == IInv /\ [Next]_vars => Started' /\ Accounted'
<1> SUFFICES ASSUME IInv, [Next]_vars PROVE Started' /\ Accounted' OBVIOUS
<1> USE DEF IInv, TypeOK, Started, Accounted
<1>0. N \in Nat /\ \A f \in Files : Len(Records[f]) \in Nat
  BY ConfigAssumption
<1>1. CASE StatFile
  <2>1. next' \in Int /\ next <= next' /\ \A f \in Files : f < next' => f < next \/ f \in errors'
    BY <1>0, <1>1 DEF StatFile
  <2>2. mainPc' # "acquire" /\ (mainPc' = "budget" => next' \in Files) /\ verdict = "none"
    BY <1>1 DEF StatFile
  <2>3. \A f \in Files : f < next => f < next' BY <1>0, <2>1
  <2>4. errors \subseteq errors' BY <1>1 DEF StatFile
  <2> QED BY <1>1, <2>1, <2>2, <2>3, <2>4 DEF StatFile
<1>2. CASE ChargeFile BY <1>2 DEF ChargeFile
<1>3. CASE SpawnThread
  <2>1. verdict = "none" /\ next \in Files BY <1>3 DEF SpawnThread
  <2>2. next' = next + 1 /\ pc' = [pc EXCEPT ![next] = "open"] BY <1>3 DEF SpawnThread
  <2>3. ASSUME NEW f \in Files
        PROVE  /\ pc'[f] # "none" => f < next'
               /\ (pc'[f] = "none" /\ f < next') => f \in errors
    <3>1. CASE f = next BY <1>0, <2>1, <2>2, <3>1
    <3>2. CASE f # next BY <1>0, <2>1, <2>2, <3>2
    <3> QED BY <3>1, <3>2
  <2> QED BY <1>3, <2>1, <2>3 DEF SpawnThread
<1>4. CASE JoinThreads
  <2>1. \A f \in Files : f < next BY <1>0, <1>4 DEF JoinThreads
  <2>2. errors = {} => \A f \in Files : pc[f] = "exited" BY <1>4, <2>1 DEF JoinThreads
  <2> QED BY <1>4, <2>2 DEF JoinThreads
<1>5. ASSUME NEW f \in Files, Thread(f) PROVE Started' /\ Accounted'
  <2>0. verdict # "ok" \/ pc[f] = "exited" OBVIOUS
  <2>1. CASE OpenFile(f) BY <2>1 DEF OpenFile
  <2>2. CASE ReadFile(f) BY <2>2 DEF ReadFile
  <2>3. CASE IgnoreRecord(f) BY <2>3 DEF IgnoreRecord, More
  <2>4. CASE LockDispatcher(f) BY <2>4 DEF LockDispatcher
  <2>5. CASE PickInstance(f) BY <2>5 DEF PickInstance
  <2>6. CASE InsertWave(f) BY <2>6 DEF InsertWave
  <2>7. CASE LoseData(f) BY <2>7 DEF LoseData
  <2>8. CASE EndParse(f)
    <3>1. f \in errors' \/ at'[f] = Len(Records[f])
      BY <1>0, <2>8 DEF EndParse, More
    <3> QED BY <2>0, <2>8, <3>1 DEF EndParse
  <2>9. CASE Uncharge(f) BY <2>9 DEF Uncharge
  <2>10. CASE ReleasePermit(f) BY <2>10 DEF ReleasePermit
  <2> QED BY <1>5, <2>1, <2>2, <2>3, <2>4, <2>5, <2>6, <2>7, <2>8, <2>9, <2>10 DEF Thread
<1>6. CASE UNCHANGED vars BY <1>6 DEF vars
<1> QED BY <1>1, <1>2, <1>3, <1>4, <1>5, <1>6 DEF Next, Main

(* The files charged are finitely many, and their sizes are numbers. *)
LEMMA ChargedFinite ==
  IInv => /\ IsFiniteSet(ChargedFiles) /\ ChargedFiles \subseteq Files
          /\ \A f \in ChargedFiles : SizeOf[f] \in Nat /\ SizeOf[f] \in Int
<1> SUFFICES ASSUME IInv
             PROVE  /\ IsFiniteSet(ChargedFiles) /\ ChargedFiles \subseteq Files
                    /\ \A f \in ChargedFiles : SizeOf[f] \in Nat /\ SizeOf[f] \in Int
  OBVIOUS
<1>1. ChargedFiles \subseteq Files BY DEF ChargedFiles, IInv, Started
<1>2. IsFiniteSet(ChargedFiles)
  <2> HIDE DEF Files
  <2> QED BY <1>1, FilesFinite, FS_Subset
<1>3. \A f \in Files : SizeOf[f] \in Nat BY ConfigAssumption
<1> QED BY <1>1, <1>2, <1>3

(* The byte budget: a file is charged before its thread starts and given *)
(* back by every way out of the thread.                                  *)
LEMMA BudgetStep == IInv /\ [Next]_vars => Budgeted'
<1> SUFFICES ASSUME IInv, [Next]_vars PROVE Budgeted' OBVIOUS
<1> USE DEF IInv, TypeOK
<1>0. /\ IsFiniteSet(ChargedFiles) /\ ChargedFiles \subseteq Files
      /\ \A f \in ChargedFiles : SizeOf[f] \in Nat /\ SizeOf[f] \in Int
  BY ChargedFinite
<1>1. Budget \in Nat /\ SizeOf \in [Files -> Nat] BY ConfigAssumption
<1>2. inflight = SumOver(SizeOf, ChargedFiles) /\ inflight \in Nat
  <2>1. \A f \in ChargedFiles : SizeOf[f] \in Nat BY <1>0
  <2>2. SumOver(SizeOf, ChargedFiles) \in Nat BY ONLY <1>0, <2>1, SumBounds
  <2> QED BY <2>2 DEF Budgeted
<1>3. CASE ChargeFile
  <2>1. next \in Files /\ pc[next] = "none" /\ mainPc = "budget" BY <1>3 DEF ChargeFile, Started
  <2>2. next \notin ChargedFiles /\ ChargedFiles' = ChargedFiles \cup {next}
    BY <1>3, <2>1 DEF ChargeFile, ChargedFiles, Charged
  <2>3. inflight' = inflight + SizeOf[next] /\ mainPc' = "acquire" BY <1>3 DEF ChargeFile
  <2>4. \A f \in ChargedFiles \cup {next} : SizeOf[f] \in Int BY <1>0, <1>1, <2>1
  <2>5. SumOver(SizeOf, ChargedFiles \cup {next}) = SumOver(SizeOf, ChargedFiles) + SizeOf[next]
    BY <1>0, <2>2, <2>4, SumWith
  <2>6. inflight' = SumOver(SizeOf, ChargedFiles') BY <1>2, <2>2, <2>3, <2>5
  <2>7. ASSUME inflight' > Budget
        PROVE  \A g \in ChargedFiles' : SizeOf[g] > 0 <=> g = next
    <3>1. inflight = 0 BY <1>3, <2>3, <2>7, <1>1, <1>2, <2>1 DEF ChargeFile
    <3>2. \A g \in ChargedFiles : SizeOf[g] <= 0 BY <1>0, <1>2, <3>1, SumBounds
    <3>3. SizeOf[next] > 0 BY <1>1, <2>1, <2>3, <2>7, <3>1
    <3> QED BY <1>0, <2>2, <3>2, <3>3
  <2> QED BY <2>2, <2>3, <2>6, <2>7 DEF Budgeted
<1>4. ASSUME NEW f \in Files, Uncharge(f) PROVE Budgeted'
  <2>1. f \in ChargedFiles /\ pc[f] = "uncharge" BY <1>4 DEF Uncharge, ChargedFiles, Charged
  <2>2. f # next \/ mainPc # "acquire" BY <2>1 DEF Started
  <2>3. ChargedFiles' = ChargedFiles \ {f}
    BY <1>4, <2>2 DEF Uncharge, ChargedFiles, Charged
  <2>4. inflight' = inflight - SizeOf[f] /\ mainPc' = mainPc BY <1>4 DEF Uncharge
  <2>5. SumOver(SizeOf, ChargedFiles) = SizeOf[f] + SumOver(SizeOf, ChargedFiles \ {f})
    BY <1>0, <2>1, SumWithout
  <2>6. IsFiniteSet(ChargedFiles \ {f}) /\ \A g \in ChargedFiles \ {f} : SizeOf[g] \in Nat
    BY <1>0, FS_Subset
  <2>7. SumOver(SizeOf, ChargedFiles \ {f}) \in Nat BY <2>6, SumBounds
  <2>8. inflight' = SumOver(SizeOf, ChargedFiles') BY <1>0, <1>2, <2>1, <2>3, <2>4, <2>5, <2>7
  <2>9. ASSUME inflight' > Budget
        PROVE  \E h \in ChargedFiles' : \A g \in ChargedFiles' : SizeOf[g] > 0 <=> g = h
    <3>1. inflight > Budget BY <1>0, <1>1, <1>2, <2>1, <2>4, <2>9
    <3>2. PICK h \in ChargedFiles : \A g \in ChargedFiles : SizeOf[g] > 0 <=> g = h
      BY <3>1 DEF Budgeted
    <3>3. CASE h = f
      <4>1. \A g \in ChargedFiles \ {f} : SizeOf[g] = 0 BY <1>0, <3>2, <3>3
      <4>2. SumOver(SizeOf, ChargedFiles \ {f}) = 0 BY <2>6, <4>1, SumZero
      <4> QED BY <1>1, <2>3, <2>8, <2>9, <4>2
    <3>4. CASE h # f BY <2>3, <3>2, <3>4
    <3> QED BY <3>3, <3>4
  <2> QED BY <2>3, <2>4, <2>8, <2>9 DEF Budgeted
<1>5. ASSUME inflight' = inflight, ChargedFiles' = ChargedFiles,
             mainPc' = "done" => mainPc = "done" \/ ChargedFiles = {}
      PROVE  Budgeted'
  BY <1>5 DEF Budgeted
<1>6. CASE StatFile BY <1>5, <1>6 DEF StatFile, ChargedFiles
<1>7. CASE SpawnThread
  <2>1. next \in Files /\ pc[next] = "none" BY <1>7 DEF SpawnThread, Started
  <2>2. ChargedFiles' = ChargedFiles BY <1>7, <2>1 DEF SpawnThread, ChargedFiles, Charged
  <2> QED BY <1>5, <1>7, <2>2 DEF SpawnThread
<1>8. CASE JoinThreads
  <2>1. ChargedFiles = {} /\ ChargedFiles' = ChargedFiles
    BY <1>8 DEF JoinThreads, ChargedFiles, Charged
  <2> QED BY <1>5, <1>8, <2>1 DEF JoinThreads
<1>9. ASSUME NEW f \in Files, Thread(f), ~Uncharge(f) PROVE Budgeted'
  <2>1. inflight' = inflight /\ mainPc' = mainPc /\ next' = next
    BY <1>9 DEF Thread, OpenFile, ReadFile, IgnoreRecord, LockDispatcher, PickInstance,
                InsertWave, LoseData, EndParse, ReleasePermit
  <2>2. \A g \in Files : pc'[g] \in Charged <=> pc[g] \in Charged
    BY <1>9, ZenonT(40) DEF Thread, OpenFile, ReadFile, IgnoreRecord, LockDispatcher, PickInstance,
                InsertWave, LoseData, EndParse, ReleasePermit, Charged
  <2>3. ChargedFiles' = ChargedFiles BY <2>1, <2>2 DEF ChargedFiles
  <2> QED BY <1>5, <2>1, <2>3
<1>10. CASE UNCHANGED vars BY <1>5, <1>10 DEF vars, ChargedFiles
<1> QED BY <1>3, <1>4, <1>6, <1>7, <1>8, <1>9, <1>10 DEF Next, Main

(* A step outside the dispatcher leaves the numbering as it is. *)
LEMMA OutsideDispatcher ==
  ASSUME IInv, UNCHANGED <<waves, at>>,
         \A g \in Files : (pc'[g] = "pick" <=> pc[g] = "pick") /\ (pc'[g] = "insert" <=> pc[g] = "insert")
  PROVE  Numbering'
<1> USE DEF IInv, Numbering
<1>1. AtWave' BY DEF AtWave, Slot
<1>2. MutexHeld' BY DEF MutexHeld
<1>3. Dense' BY DEF Dense
<1>4. Picked' BY DEF Picked, Slot
<1>5. EnteredIsListed' BY DEF EnteredIsListed
<1>6. ListedIsEntered' BY DEF ListedIsEntered
<1>7. Ordered' BY DEF Ordered
<1> QED BY <1>1, <1>2, <1>3, <1>4, <1>5, <1>6, <1>7

(* What a file's decoder reports is a finite sequence. *)
LEMMA RecordsAreSequences ==
  \A f \in Files : Records[f] \in Seq(Slots \cup {Ignored}) /\ Len(Records[f]) \in Nat
  BY ConfigAssumption

(* A record that handleWave ignores is counted and entered nowhere. *)
LEMMA IgnoreStep ==
  ASSUME IInv, NEW f \in Files, IgnoreRecord(f)
  PROVE  Numbering'
<1> USE DEF IInv, TypeOK, Numbering, IgnoreRecord
<1>0. at' = [at EXCEPT ![f] = at[f] + 1] /\ at[f] \in Nat /\ Records[f][at[f] + 1] = Ignored
  BY DEF Slot
<1>1. \A g \in Files : g # f => at'[g] = at[g] /\ Slot(g)' = Slot(g) BY <1>0 DEF Slot
<1>2. at'[f] = at[f] + 1 BY <1>0
<1>3. AtWave' BY <1>1 DEF AtWave
<1>4. MutexHeld' BY DEF MutexHeld
<1>5. Dense' BY DEF Dense
<1>6. Picked' BY <1>1 DEF Picked
<1>7. EnteredIsListed'
  <2>1. \A g \in Files : \A i \in Entered(g)' : i \in Entered(g) BY <1>0, <1>1, <1>2, SMTT(30)
  <2> QED BY <2>1 DEF EnteredIsListed
<1>8. ListedIsEntered'
  <2>1. \A g \in Files : \A i \in 1 .. at[g] : i \in 1 .. at'[g] BY <1>0, <1>1, <1>2
  <2> QED BY <2>1, SMTT(30) DEF ListedIsEntered
<1>9. Ordered' BY DEF Ordered
<1> QED BY <1>3, <1>4, <1>5, <1>6, <1>7, <1>8, <1>9

(* The mutex goes to one thread, at a record that has a slot. *)
LEMMA LockStep ==
  ASSUME IInv, NEW f \in Files, LockDispatcher(f)
  PROVE  Numbering'
<1> USE DEF IInv, TypeOK, Numbering, LockDispatcher
<1>0. pc' = [pc EXCEPT ![f] = "pick"] /\ mutex = 0 /\ mutex' = f /\ 0 \notin Files
  BY ConfigAssumption
<1>1. AtWave'
  <2>1. Slot(f) \in Slots /\ at[f] < Len(Records[f])
    <3>1. at[f] < Len(Records[f]) /\ at[f] \in Nat /\ Records[f] \in Seq(Slots \cup {Ignored})
      BY ConfigAssumption DEF More
    <3>2. Records[f][at[f] + 1] \in Slots \cup {Ignored} BY <3>1
    <3> QED BY <3>1, <3>2 DEF Slot
  <2> QED BY <1>0, <2>1 DEF AtWave, Slot
<1>2. MutexHeld' BY <1>0 DEF MutexHeld
<1>3. Dense' BY DEF Dense
<1>4. Picked' BY <1>0 DEF Picked, Slot
<1>5. EnteredIsListed' BY DEF EnteredIsListed
<1>6. ListedIsEntered' BY DEF ListedIsEntered
<1>7. Ordered' BY DEF Ordered
<1> QED BY <1>1, <1>2, <1>3, <1>4, <1>5, <1>6, <1>7

(* The next instance of a slot whose instances are 0 .. n - 1 is n. *)
LEMMA NextOfDense ==
  ASSUME NEW map, NEW n \in Nat, DOMAIN map = 0 .. n - 1
  PROVE  NextInstance(map) = n
<1>1. CASE n = 0
  <2>1. 0 .. n - 1 = {} BY <1>1
  <2> QED BY <1>1, <2>1 DEF NextInstance
<1>2. CASE n > 0
  <2>1. Max(0 .. n - 1) = n - 1 BY <1>2 DEF Max
  <2> QED BY <1>2, <2>1 DEF NextInstance
<1> QED BY <1>1, <1>2

(* The number the thread picks is the one after the last. *)
LEMMA PickStep ==
  ASSUME IInv, NEW f \in Files, PickInstance(f)
  PROVE  Numbering'
<1> USE DEF IInv, TypeOK, Numbering, PickInstance
<1>0. pc' = [pc EXCEPT ![f] = "insert"] /\ pc[f] = "pick" OBVIOUS
<1>1. AtWave' BY <1>0 DEF AtWave, Slot
<1>2. MutexHeld' BY <1>0 DEF MutexHeld
<1>3. Dense' BY DEF Dense
<1>4. Picked'
  <2>1. Slot(f) \in Slots BY <1>0 DEF AtWave
  <2>2. PICK n \in Nat : DOMAIN hierarchy[Slot(f)] = 0 .. n - 1 BY <2>1 DEF Dense
  <2>3. NextInstance(hierarchy[Slot(f)]) = n BY <2>2, NextOfDense
  <2>4. pick'[f] = n BY <2>3
  <2>5. \A g \in Files : pc'[g] = "insert" => g = f BY <1>0 DEF MutexHeld
  <2> QED BY <2>2, <2>4, <2>5 DEF Picked, Slot
<1>5. EnteredIsListed' BY DEF EnteredIsListed
<1>6. ListedIsEntered' BY DEF ListedIsEntered
<1>7. Ordered' BY DEF Ordered
<1> QED BY <1>1, <1>2, <1>3, <1>4, <1>5, <1>6, <1>7

(* What the insertion changes: one new number in one slot. *)
LEMMA Inserted ==
  ASSUME IInv, NEW f \in Files, InsertWave(f)
  PROVE  /\ Slot(f) \in Slots /\ pick[f] \in Nat /\ DOMAIN hierarchy[Slot(f)] = 0 .. pick[f] - 1
         /\ DOMAIN hierarchy'[Slot(f)] = 0 .. pick[f]
         /\ hierarchy'[Slot(f)][pick[f]] = Wave(f, at[f] + 1)
         /\ \A i \in 0 .. pick[f] - 1 : hierarchy'[Slot(f)][i] = hierarchy[Slot(f)][i]
         /\ \A t \in Slots : t # Slot(f) => hierarchy'[t] = hierarchy[t]
<1> DEFINE s == Slot(f)
           n == pick[f]
<1> USE DEF IInv, TypeOK, Numbering, InsertWave
<1>1. s \in Slots /\ n \in Nat /\ DOMAIN hierarchy[s] = 0 .. n - 1
  BY DEF AtWave, Picked
<1>2. hierarchy'[s] = [i \in (0 .. n - 1) \cup {n} |->
                         IF i = n THEN Wave(f, at[f] + 1) ELSE hierarchy[s][i]]
  BY <1>1
<1>3. (0 .. n - 1) \cup {n} = 0 .. n BY <1>1
<1>4. \A t \in Slots : t # s => hierarchy'[t] = hierarchy[t] BY <1>1
<1>5. n \in 0 .. n /\ \A i \in 0 .. n - 1 : i \in 0 .. n /\ i # n BY <1>1
<1> QED BY <1>1, <1>2, <1>3, <1>4, <1>5

(* The wave is entered under a free number, after every other of its slot. *)
LEMMA InsertStep ==
  ASSUME IInv, NEW f \in Files, InsertWave(f)
  PROVE  Numbering'
<1> DEFINE s == Slot(f)
           n == pick[f]
           k == at[f] + 1
<1>0. /\ s \in Slots /\ n \in Nat /\ DOMAIN hierarchy[s] = 0 .. n - 1
      /\ DOMAIN hierarchy'[s] = 0 .. n
      /\ hierarchy'[s][n] = Wave(f, k)
      /\ \A i \in 0 .. n - 1 : hierarchy'[s][i] = hierarchy[s][i]
      /\ \A t \in Slots : t # s => hierarchy'[t] = hierarchy[t]
  BY Inserted
<1> USE DEF IInv, TypeOK, Numbering
<1>1. /\ pc' = [pc EXCEPT ![f] = "parse"] /\ pc[f] = "insert"
      /\ at' = [at EXCEPT ![f] = k] /\ mutex' = 0 /\ pick' = pick
      /\ at[f] \in Nat /\ k \in Nat /\ Records[f][k] = s
  BY DEF InsertWave, Slot
<1>2. \A g \in Files : g # f => pc[g] \notin {"pick", "insert"}
  BY <1>1 DEF MutexHeld
<1>3. \A g \in Files : pc'[g] \notin {"pick", "insert"} BY <1>1, <1>2
<1>4. AtWave' /\ Picked' BY <1>3 DEF AtWave, Picked
<1>5. MutexHeld'
  <2>1. 0 \notin Files BY ConfigAssumption
  <2> QED BY <1>1, <1>3, <2>1 DEF MutexHeld
<1>6. Dense'
  <2>1. n + 1 \in Nat /\ DOMAIN hierarchy'[s] = 0 .. (n + 1) - 1 BY <1>0, SMTT(30)
  <2> QED BY <1>0, <2>1 DEF Dense
<1>7. \A g \in Files : g # f => at'[g] = at[g] BY <1>1
<1>8. at'[f] = k BY <1>1
<1>9. \A t \in Slots : \A m \in DOMAIN hierarchy[t] :
        m \in DOMAIN hierarchy'[t] /\ hierarchy'[t][m] = hierarchy[t][m]
  <2> TAKE t \in Slots
  <2>1. CASE t = s
    <3>1. \A m \in 0 .. n - 1 : m \in 0 .. n BY <1>0
    <3> QED BY <1>0, <2>1, <3>1
  <2>2. CASE t # s BY <1>0, <2>2
  <2> QED BY <2>1, <2>2
<1>10. EnteredIsListed'
  <2>1. SUFFICES ASSUME NEW g \in Files, NEW i \in Entered(g)'
                 PROVE  \E m \in DOMAIN hierarchy'[Records[g][i]] :
                          hierarchy'[Records[g][i]][m] = Wave(g, i)
    BY DEF EnteredIsListed
  <2>2. CASE g = f /\ i = k
    <3>1. n \in DOMAIN hierarchy'[s] BY <1>0
    <3> QED BY <1>0, <1>1, <2>2, <3>1
  <2>3. CASE ~(g = f /\ i = k)
    <3>1. i \in Entered(g) BY <1>1, <1>7, <1>8, <2>3
    <3>2. Records[g][i] \in Slots
      <4>1. Records[g] \in Seq(Slots \cup {Ignored}) /\ i \in 1 .. Len(Records[g])
        <5>1. Records[g] \in Seq(Slots \cup {Ignored}) /\ Len(Records[g]) \in Nat
          BY RecordsAreSequences
        <5>2. i \in 1 .. at[g] /\ at[g] \in Nat /\ at[g] <= Len(Records[g]) BY <3>1
        <5> QED BY <5>1, <5>2, SMTT(30)
      <4> QED BY <3>1, <4>1, SMTT(30)
    <3>3. PICK m \in DOMAIN hierarchy[Records[g][i]] : hierarchy[Records[g][i]][m] = Wave(g, i)
      BY <3>1 DEF EnteredIsListed
    <3> QED BY <1>9, <3>2, <3>3
  <2> QED BY <2>2, <2>3
<1>11. ListedIsEntered'
  <2>1. SUFFICES ASSUME NEW t \in Slots, NEW m \in DOMAIN hierarchy'[t]
                 PROVE  \E g \in Files : \E i \in 1 .. at'[g] : hierarchy'[t][m] = Wave(g, i)
    BY DEF ListedIsEntered
  <2>2. CASE t = s /\ m = n
    <3>1. k \in 1 .. at'[f] BY <1>1, <1>8
    <3> QED BY <1>0, <2>2, <3>1
  <2>3. CASE ~(t = s /\ m = n)
    <3>1. m \in DOMAIN hierarchy[t]
      <4>1. \A j \in 0 .. n : j # n => j \in 0 .. n - 1 BY <1>0
      <4> QED BY <1>0, <2>3, <4>1
    <3>2. PICK g \in Files : \E i \in 1 .. at[g] : hierarchy[t][m] = Wave(g, i)
      BY <3>1 DEF ListedIsEntered
    <3>3. PICK i \in 1 .. at[g] : hierarchy[t][m] = Wave(g, i) BY <3>2
    <3>4. i \in 1 .. at'[g] BY <1>1, <1>7, <1>8
    <3> QED BY <1>9, <3>1, <3>3, <3>4
  <2> QED BY <2>2, <2>3
<1>12. Ordered'
  <2>1. SUFFICES ASSUME NEW t \in Slots, NEW m \in DOMAIN hierarchy'[t], NEW j \in DOMAIN hierarchy'[t],
                        m < j, hierarchy'[t][m][1] = hierarchy'[t][j][1]
                 PROVE  hierarchy'[t][m][2] < hierarchy'[t][j][2]
    BY DEF Ordered
  <2>2. CASE t # s BY <1>0, <2>1, <2>2 DEF Ordered
  <2>3. CASE t = s /\ j # n
    <3>1. m \in 0 .. n - 1 /\ j \in 0 .. n - 1 BY <1>0, <2>1, <2>3, SMTT(30)
    <3>2. hierarchy'[t][m] = hierarchy[t][m] /\ hierarchy'[t][j] = hierarchy[t][j]
      BY <1>0, <2>3, <3>1
    <3> QED BY <1>0, <2>1, <2>3, <3>1, <3>2 DEF Ordered
  <2>4. CASE t = s /\ j = n
    <3>1. m \in 0 .. n - 1 BY <1>0, <2>1, <2>4, SMTT(30)
    <3>2. hierarchy'[t][m] = hierarchy[t][m] BY <1>0, <2>4, <3>1
    <3>3. PICK g \in Files : \E i \in 1 .. at[g] : hierarchy[t][m] = Wave(g, i)
      <4>1. t \in Slots /\ m \in DOMAIN hierarchy[t] BY <1>0, <2>4, <3>1
      <4>2. ListedIsEntered OBVIOUS
      <4> HIDE DEF s, n, k, IInv, TypeOK, Numbering
      <4> QED BY <4>1, <4>2 DEF ListedIsEntered
    <3>4. PICK i \in 1 .. at[g] : hierarchy[t][m] = Wave(g, i) BY <3>3
    <3>5. hierarchy'[t][m] = <<g, i>> /\ hierarchy'[t][j] = <<f, k>>
      BY <1>0, <2>4, <3>2, <3>4
    <3>6. g = f
      <4> HIDE DEF s, n, k, IInv, TypeOK, Numbering
      <4> QED BY <2>1, <3>5
    <3>7. i < k BY <1>1, <3>6
    <3>8. hierarchy'[t][m][2] = i /\ hierarchy'[t][j][2] = k
      <4> HIDE DEF s, n, k, IInv, TypeOK, Numbering
      <4> QED BY <3>5
    <3> QED BY <3>7, <3>8
  <2> QED BY <2>2, <2>3, <2>4
<1> QED BY <1>4, <1>5, <1>6, <1>10, <1>11, <1>12

(* The numbering of the waves, through every step. *)
LEMMA NumberingStep == IInv /\ [Next]_vars => Numbering'
<1> SUFFICES ASSUME IInv, [Next]_vars PROVE Numbering' OBVIOUS
<1> USE DEF IInv, TypeOK
<1>1. CASE StatFile \/ ChargeFile \/ JoinThreads
  BY <1>1, OutsideDispatcher DEF StatFile, ChargeFile, JoinThreads
<1>2. CASE SpawnThread
  <2>1. next \in Files /\ pc[next] = "none" BY <1>2 DEF SpawnThread, Started
  <2> QED BY <1>2, <2>1, OutsideDispatcher DEF SpawnThread
<1>3. ASSUME NEW f \in Files,
             \/ OpenFile(f) \/ ReadFile(f) \/ LoseData(f) \/ EndParse(f) \/ Uncharge(f)
             \/ ReleasePermit(f)
      PROVE  Numbering'
  <2>1. UNCHANGED <<waves, at>>
    BY <1>3 DEF OpenFile, ReadFile, LoseData, EndParse, Uncharge, ReleasePermit
  <2>2. \A g \in Files : (pc'[g] = "pick" <=> pc[g] = "pick") /\ (pc'[g] = "insert" <=> pc[g] = "insert")
    BY <1>3 DEF OpenFile, ReadFile, LoseData, EndParse, Uncharge, ReleasePermit
  <2> QED BY <2>1, <2>2, OutsideDispatcher
<1>4. CASE UNCHANGED vars BY <1>4, OutsideDispatcher DEF vars
<1> QED
  BY <1>1, <1>2, <1>3, <1>4, IgnoreStep, LockStep, PickStep, InsertStep DEF Next, Main, Thread

(* Two entries with one id are of one slot. *)
LEMMA SameSlot ==
  ASSUME NEW s, NEW t, NEW v, NEW w, InPlace(s, v), InPlace(t, w), WaveId(v) = WaveId(w)
  PROVE  s = t
<1>1. PICK f \in Files : \E i \in DOMAIN Records[f] : v = <<f, i>> /\ Records[f][i] = s
  BY DEF InPlace
<1>2. PICK i \in DOMAIN Records[f] : v = <<f, i>> /\ Records[f][i] = s BY <1>1
<1>3. PICK g \in Files : \E j \in DOMAIN Records[g] : w = <<g, j>> /\ Records[g][j] = t
  BY DEF InPlace
<1>4. PICK j \in DOMAIN Records[g] : w = <<g, j>> /\ Records[g][j] = t BY <1>3
<1>5. WaveId(v) = IdOf[f][i] BY <1>2 DEF WaveId
<1>6. WaveId(w) = IdOf[g][j] BY <1>4 DEF WaveId
<1>7. Records[f][i] = Records[g][j] BY <1>5, <1>6, IdAssumption
<1> QED BY <1>2, <1>4, <1>7

(* The first entry of an id brings its record; a later one leaves it. *)
LEMMA RecordStep ==
  ASSUME IInv, NEW f \in Files, InsertWave(f)
  PROVE  Recording'
<1> DEFINE s == Slot(f)
           n == pick[f]
           k == at[f] + 1
           w == Wave(f, k)
           id == IdOf[f][k]
<1>1. /\ s \in Slots /\ n \in Nat /\ DOMAIN hierarchy[s] = 0 .. n - 1
      /\ DOMAIN hierarchy'[s] = 0 .. n
      /\ hierarchy'[s][n] = w
      /\ \A i \in 0 .. n - 1 : hierarchy'[s][i] = hierarchy[s][i]
      /\ \A t \in Slots : t # s => hierarchy'[t] = hierarchy[t]
  BY Inserted
<1>2. /\ DOMAIN waveRecords' = DOMAIN waveRecords \cup {id}
      /\ \A d \in DOMAIN waveRecords : waveRecords'[d] = waveRecords[d]
      /\ id \notin DOMAIN waveRecords => waveRecords'[id] = w
  <2>1. waveRecords' = Emplace(waveRecords, id, w) BY DEF InsertWave
  <2> HIDE DEF id, w
  <2> QED BY <2>1 DEF Emplace
<1>3. InPlace(s, w)
  <2>1. k \in DOMAIN Records[f]
    <3>1. at[f] \in Nat /\ at[f] < Len(Records[f]) BY DEF IInv, TypeOK, Numbering, AtWave, InsertWave
    <3>2. Records[f] \in Seq(Slots \cup {Ignored}) /\ Len(Records[f]) \in Nat BY RecordsAreSequences
    <3> QED BY <3>1, <3>2
  <2> QED BY <2>1 DEF InPlace, Slot
<1>4. WaveId(w) = id BY DEF WaveId
<1>5. ListedInPlace /\ RecordIsListed /\ FirstRecorded BY DEF IInv, Recording
<1> HIDE DEF s, k, w, id, n
<1>6. \A t \in Slots : \A m \in DOMAIN hierarchy[t] :
        m \in DOMAIN hierarchy'[t] /\ hierarchy'[t][m] = hierarchy[t][m]
  <2> TAKE t \in Slots
  <2>1. CASE t = s
    <3>1. \A m \in 0 .. n - 1 : m \in 0 .. n BY <1>1
    <3> QED BY <1>1, <2>1, <3>1
  <2>2. CASE t # s BY <1>1, <2>2
  <2> QED BY <2>1, <2>2
<1>7. ASSUME NEW t \in Slots, NEW m \in DOMAIN hierarchy'[t]
      PROVE  (t = s /\ m = n) \/ m \in DOMAIN hierarchy[t]
  <2>1. CASE t = s
    <3>1. \A j \in 0 .. n : j = n \/ j \in 0 .. n - 1 BY <1>1
    <3> QED BY <1>1, <2>1, <3>1
  <2>2. CASE t # s BY <1>1, <2>2
  <2> QED BY <2>1, <2>2
<1>8. ListedInPlace'
  <2>1. ASSUME NEW t \in Slots, NEW m \in DOMAIN hierarchy'[t]
        PROVE  InPlace(t, hierarchy'[t][m])
    <3>1. CASE t = s /\ m = n BY <1>1, <1>3, <3>1
    <3>2. CASE m \in DOMAIN hierarchy[t] BY <1>5, <1>6, <3>2 DEF ListedInPlace
    <3> QED BY <1>7, <3>1, <3>2
  <2>2. \A t \in Slots : \A m \in DOMAIN hierarchy'[t] : InPlace(t, hierarchy'[t][m])
    BY <2>1
  <2> QED BY <2>2 DEF ListedInPlace, InPlace
<1>9. RecordIsListed'
  <2>1. ASSUME NEW d \in DOMAIN waveRecords'
        PROVE  \E t \in Slots : \E m \in DOMAIN hierarchy'[t] : WaveId(hierarchy'[t][m]) = d
    <3>1. CASE d = id
      <4>1. n \in DOMAIN hierarchy'[s] BY <1>1
      <4> QED BY <1>1, <1>4, <3>1, <4>1
    <3>2. CASE d \in DOMAIN waveRecords
      <4>1. PICK t \in Slots : \E m \in DOMAIN hierarchy[t] : WaveId(hierarchy[t][m]) = d
        BY <1>5, <3>2 DEF RecordIsListed
      <4>2. PICK m \in DOMAIN hierarchy[t] : WaveId(hierarchy[t][m]) = d BY <4>1
      <4> QED BY <1>6, <4>2
    <3> QED BY <1>2, <3>1, <3>2
  <2> QED BY <2>1 DEF RecordIsListed, WaveId
<1>10. ASSUME NEW t \in Slots, NEW m \in DOMAIN hierarchy[t], NEW d, FirstWith(hierarchy[t], d, m)
       PROVE  FirstWith(hierarchy'[t], d, m)
  <2>1. m \in DOMAIN hierarchy'[t] /\ WaveId(hierarchy'[t][m]) = d BY <1>6, <1>10 DEF FirstWith
  <2>2. ASSUME NEW j \in DOMAIN hierarchy'[t], WaveId(hierarchy'[t][j]) = d
        PROVE  m <= j
    <3>1. CASE t = s /\ j = n
      <4>1. m \in 0 .. n - 1 BY <1>1, <3>1
      <4> QED BY <1>1, <3>1, <4>1
    <3>2. CASE j \in DOMAIN hierarchy[t] BY <1>6, <1>10, <2>2, <3>2 DEF FirstWith
    <3> QED BY <1>7, <3>1, <3>2
  <2> QED BY <2>1, <2>2 DEF FirstWith
<1>11. ASSUME NEW t \in Slots, NEW m \in DOMAIN hierarchy'[t]
       PROVE  ShowsFirst(hierarchy[t], m)'
  <2>0. PICK d : d = WaveId(hierarchy'[t][m]) OBVIOUS
  <2>1. SUFFICES /\ d \in DOMAIN waveRecords'
                 /\ \E j \in DOMAIN hierarchy'[t] : FirstWith(hierarchy'[t], d, j) /\ waveRecords'[d] = hierarchy'[t][j]
    BY <2>0 DEF ShowsFirst, WaveId, FirstWith
  <2>2. ASSUME NEW j \in DOMAIN hierarchy[t], WaveId(hierarchy[t][j]) = d
        PROVE  /\ d \in DOMAIN waveRecords'
               /\ \E i \in DOMAIN hierarchy'[t] : FirstWith(hierarchy'[t], d, i) /\ waveRecords'[d] = hierarchy'[t][i]
    <3>1. ShowsFirst(hierarchy[t], j) BY <1>5 DEF FirstRecorded
    <3>2. d \in DOMAIN waveRecords BY <2>2, <3>1 DEF ShowsFirst
    <3>3. PICK i \in DOMAIN hierarchy[t] : FirstWith(hierarchy[t], d, i) /\ waveRecords[d] = hierarchy[t][i]
      BY <2>2, <3>1 DEF ShowsFirst
    <3>4. FirstWith(hierarchy'[t], d, i) BY <1>10, <3>3
    <3>5. waveRecords'[d] = hierarchy'[t][i] /\ i \in DOMAIN hierarchy'[t] BY <1>2, <1>6, <3>2, <3>3
    <3> QED BY <1>2, <3>2, <3>4, <3>5
  <2>3. CASE m \in DOMAIN hierarchy[t] BY <1>6, <2>0, <2>2, <2>3
  <2>4. CASE t = s /\ m = n
    <3>1. d = id BY <1>1, <1>4, <2>0, <2>4
    <3>2. CASE id \in DOMAIN waveRecords
      <4>1. PICK u \in Slots : \E j \in DOMAIN hierarchy[u] : WaveId(hierarchy[u][j]) = id
        BY <1>5, <3>2 DEF RecordIsListed
      <4>2. PICK j \in DOMAIN hierarchy[u] : WaveId(hierarchy[u][j]) = id BY <4>1
      <4>3. InPlace(u, hierarchy[u][j]) BY <1>5, <4>2 DEF ListedInPlace
      <4>4. u = s BY <1>3, <1>4, <4>2, <4>3, SameSlot
      <4> QED BY <2>2, <2>4, <3>1, <4>2, <4>4
    <3>3. CASE id \notin DOMAIN waveRecords
      <4>1. \A j \in DOMAIN hierarchy[s] : WaveId(hierarchy[s][j]) # id
        BY <1>1, <1>5, <3>3 DEF FirstRecorded, ShowsFirst
      <4>2. ASSUME NEW j \in DOMAIN hierarchy'[s], WaveId(hierarchy'[s][j]) = id PROVE n <= j
        <5>1. CASE j = n BY <1>1, <5>1
        <5>2. CASE j \in DOMAIN hierarchy[s] BY <1>1, <1>6, <4>1, <4>2, <5>2
        <5> QED BY <1>1, <1>7, <5>1, <5>2
      <4>3. n \in DOMAIN hierarchy'[s] /\ WaveId(hierarchy'[s][n]) = id BY <1>1, <1>4
      <4>4. FirstWith(hierarchy'[s], id, n) BY <4>2, <4>3 DEF FirstWith
      <4>5. waveRecords'[id] = hierarchy'[s][n] BY <1>1, <1>2, <3>3
      <4> QED BY <1>2, <2>4, <3>1, <4>3, <4>4, <4>5
    <3> QED BY <3>2, <3>3
  <2> QED BY <1>7, <2>3, <2>4
<1>12. FirstRecorded' BY <1>11 DEF FirstRecorded
<1> QED BY <1>8, <1>9, <1>12 DEF Recording

(* The records, through every step: only onWave touches them. *)
LEMMA RecordingStep == IInv /\ [Next]_vars => Recording'
<1> SUFFICES ASSUME IInv, [Next]_vars PROVE Recording' OBVIOUS
<1>1. ASSUME UNCHANGED <<hierarchy, waveRecords>> PROVE Recording'
  BY <1>1 DEF IInv, Recording, ListedInPlace, InPlace, RecordIsListed, FirstRecorded, ShowsFirst,
              FirstWith, WaveId
<1>2. CASE Main BY <1>1, <1>2 DEF Main, StatFile, ChargeFile, SpawnThread, JoinThreads
<1>3. ASSUME NEW f \in Files, Thread(f), ~InsertWave(f) PROVE Recording'
  BY <1>1, <1>3 DEF Thread, OpenFile, ReadFile, IgnoreRecord, LockDispatcher, PickInstance,
                    LoseData, EndParse, Uncharge, ReleasePermit
<1>4. CASE UNCHANGED vars BY <1>1, <1>4 DEF vars
<1> QED BY <1>2, <1>3, <1>4, RecordStep DEF Next

(* IInv is inductive. *)
LEMMA StepIInv == IInv /\ [Next]_vars => IInv'
  BY TypeStep, ThreadsStep, BudgetStep, NumberingStep, RecordingStep, AccountStep DEF IInv

(* Every reachable state has the inductive invariant. *)
THEOREM Invariance == Spec => []IInv
  BY InitIInv, StepIInv, PTL DEF Spec

(* The state has its types: in particular the semaphore never exceeds the *)
(* permits it started with.                                               *)
THEOREM TypeCorrect == Spec => []TypeOK
<1>1. IInv => TypeOK BY DEF IInv
<1> QED BY <1>1, Invariance, PTL

(* No more threads decode at once than parseATTFiles allows. *)
THEOREM NeverTooManyThreads == Spec => []ThreadsBounded
<1>1. IInv => ThreadsBounded BY DEF IInv
<1> QED BY <1>1, Invariance, PTL

(* The bytes in flight are those of the files charged and exceed the budget *)
(* only for one file that does so alone, whatever the sizes are.            *)
THEOREM BudgetKept == Spec => []BudgetRespected
<1>1. IInv => BudgetRespected
  <2> SUFFICES ASSUME IInv PROVE BudgetRespected OBVIOUS
  <2>1. MapThenSumSet(LAMBDA f : SizeOf[f], ChargedFiles) = SumOver(SizeOf, ChargedFiles)
    BY DEF SumOver
  <2>2. ASSUME inflight > Budget PROVE Cardinality({f \in ChargedFiles : SizeOf[f] > 0}) = 1
    <3>1. PICK h \in ChargedFiles : \A g \in ChargedFiles : SizeOf[g] > 0 <=> g = h
      BY <2>2 DEF IInv, Budgeted
    <3>2. {f \in ChargedFiles : SizeOf[f] > 0} = {h} BY <3>1
    <3> QED BY <3>2, FS_Singleton
  <2>3. ASSUME mainPc = "done" PROVE inflight = 0 BY <2>3, SumEmpty DEF IInv, Budgeted
  <2>4. inflight = SumOver(SizeOf, ChargedFiles) BY DEF IInv, Budgeted
  <2> QED BY <2>1, <2>2, <2>3, <2>4 DEF BudgetRespected
<1> QED BY <1>1, Invariance, PTL

(* However the decoding threads interleave, onWave loses no wave, leaves no *)
(* gap in the numbers of a slot and keeps the order of a file.              *)
THEOREM NumberingIsLossless == Spec => []NoWaveLost
<1>1. IInv => NoWaveLost
  <2> SUFFICES ASSUME IInv PROVE NoWaveLost OBVIOUS
  <2>1. EnteredIsListed /\ Ordered BY DEF IInv, Numbering
  <2>2. \A s \in Slots : DOMAIN hierarchy[s] = 0 .. Cardinality(DOMAIN hierarchy[s]) - 1
    <3> TAKE s \in Slots
    <3>1. PICK n \in Nat : DOMAIN hierarchy[s] = 0 .. n - 1 BY DEF IInv, Numbering, Dense
    <3>2. Cardinality(0 .. n - 1) = n
      <4>1. CASE n = 0
        <5>1. 0 .. n - 1 = {} BY <4>1
        <5> QED BY <4>1, <5>1, FS_EmptySet
      <4>2. CASE n > 0 BY <4>2, FS_Interval
      <4> QED BY <4>1, <4>2
    <3> QED BY <3>1, <3>2
  <2> QED BY <2>1, <2>2 DEF NoWaveLost, EnteredIsListed, Ordered
<1> QED BY <1>1, Invariance, PTL

(* A capture that loads without an error has an entry for every wave of     *)
(* every file, and every entry shows the record of the first wave of its    *)
(* slot with its id: its own, unless that id came before.                   *)
THEOREM LoadedIsComplete == Spec => []OkIsComplete
<1>1. IInv => OkIsComplete
  <2> SUFFICES ASSUME IInv, verdict = "ok" PROVE OkIsComplete BY DEF OkIsComplete
  <2>1. ASSUME NEW f \in Files
        PROVE  /\ pc[f] = "exited"
               /\ \A i \in 1 .. Len(Records[f]) : Records[f][i] # Ignored =>
                    \E n \in DOMAIN hierarchy[Records[f][i]] :
                      hierarchy[Records[f][i]][n] = Wave(f, i)
    <3>1. pc[f] = "exited" /\ at[f] = Len(Records[f]) BY DEF IInv, Accounted
    <3>2. EnteredIsListed BY DEF IInv, Numbering
    <3>3. \A i \in 1 .. Len(Records[f]) : Records[f][i] # Ignored => i \in Entered(f)
      BY <3>1
    <3> QED BY <3>1, <3>2, <3>3 DEF EnteredIsListed
  <2>2. FirstRecorded BY DEF IInv, Recording
  <2> QED BY <2>1, <2>2 DEF OkIsComplete, FirstRecorded
<1> QED BY <1>1, Invariance, PTL

=============================================================================
