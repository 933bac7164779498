--------------------------- MODULE ReplacementProofs ---------------------------
(***************************************************************************)
(* Two components that put something new in the place of something old and *)
(* may fail on the way: analyze, which replaces a digest (DigestPublish),  *)
(* and a load, which replaces what the viewer shows (ViewerSession).       *)
(*                                                                         *)
(* For any number of analyze processes, readers and write(2) units: the    *)
(* output path never holds part of a digest, a failed analyze never        *)
(* becomes visible, and DigestPublish implements AtomicDigest.  The        *)
(* argument is one inductive invariant.  A process past its write loop has *)
(* a whole file and one past fsync has it on the disk (Progress); a file   *)
(* that anybody can see belongs to a process past its rename               *)
(* (VisibleIsPublished); neither a kill nor a crash makes a file visible.  *)
(*                                                                         *)
(* For every set of inputs and every bound on the loads the invariants of  *)
(* ViewerSession hold; they are inductive together.                        *)
(***************************************************************************)
EXTENDS DigestPublish, ViewerSession, TLAPS

Written == {"fsync", "close", "revalidate", "rename", "published", "done"}
Synced == Written \ {"fsync"}
Renamed == {"published", "done", "killed"}

Progress ==
  \A p \in Writers :
    /\ pc[p] \in Written => length[p] = Size
    /\ pc[p] \in Synced => diskLength[p] = Size

Shown(p) == p = dest \/ p = diskDest \/ \E r \in Readers : handle[r] = p

VisibleIsPublished ==
  \A p \in Writers : Shown(p) =>
    pc[p] \in Renamed /\ length[p] = Size /\ diskLength[p] = Size

ParsedIsOpened ==
  \A r \in Readers : result[r] # Nothing => result[r] = handle[r]

TempOwned == \A p \in temps : pc[p] \in WithTemp \cup {"orphaned", "killed"}

IInv == TypeOK /\ Progress /\ VisibleIsPublished /\ ParsedIsOpened /\ TempOwned

(* The constants that cannot be confused, and the tuples spelled out. *)
USE DEF Outside, States, Entries, Ended, BeforeTemp, WithTemp, ram, disk, readers

(* Before anything runs there is no temporary file and no digest of ours. *)
LEMMA InitIInv == Init => IInv
  BY SizeAssumption, NamesAssumption
  DEF Init, IInv, TypeOK, Progress, VisibleIsPublished, ParsedIsOpened, TempOwned, Shown,
      Written, Synced, Renamed

(* The type invariant is preserved by every step. *)
LEMMA TypeStep == TypeOK /\ [Next]_vars => TypeOK'
<1> SUFFICES ASSUME TypeOK, [Next]_vars PROVE TypeOK'
  OBVIOUS
<1> USE SizeAssumption, NamesAssumption DEF TypeOK, Goto
<1>1. ASSUME NEW p \in Writers, Analyze(p) PROVE TypeOK'
  <2>1. CASE Prepare(p) BY <2>1 DEF Prepare
  <2>2. CASE Validate(p) BY <2>2 DEF Validate
  <2>3. CASE CreateTemp(p) BY <2>3 DEF CreateTemp
  <2>4. CASE Write(p) BY <2>4 DEF Write
  <2>5. CASE Fsync(p) BY <2>5 DEF Fsync
  <2>6. CASE Close(p) BY <2>6 DEF Close
  <2>7. CASE Revalidate(p) BY <2>7 DEF Revalidate
  <2>8. CASE Rename(p) BY <2>8 DEF Rename
  <2>9. CASE Succeed(p) BY <2>9 DEF Succeed
  <2>10. CASE Unwind(p) BY <2>10 DEF Unwind
  <2> QED BY <1>1, <2>1, <2>2, <2>3, <2>4, <2>5, <2>6, <2>7, <2>8, <2>9, <2>10 DEF Analyze
<1>2. ASSUME NEW r \in Readers, OpenDigest(r) \/ ParseDigest(r) PROVE TypeOK'
  BY <1>2 DEF OpenDigest, ParseDigest
<1>3. ASSUME NEW p \in Writers, Kill(p) \/ FlushData(p) PROVE TypeOK'
  BY <1>3 DEF Kill, FlushData
<1>4. CASE Interfere \/ FlushEntries BY <1>4 DEF Interfere, FlushEntries
<1>5. CASE MachineCrash BY <1>5 DEF MachineCrash
<1>6. CASE UNCHANGED vars BY <1>6 DEF vars
<1> QED BY <1>1, <1>2, <1>3, <1>4, <1>5, <1>6 DEF Next, Environment

(* Each step keeps the strengthening: what it changes of a process that is *)
(* past its write loop, and what it makes visible.                         *)
LEMMA ProgressStep == IInv /\ [Next]_vars => Progress'
<1> SUFFICES ASSUME IInv, [Next]_vars, NEW q \in Writers
             PROVE  /\ pc'[q] \in Written => length'[q] = Size
                    /\ pc'[q] \in Synced => diskLength'[q] = Size
  BY DEF Progress
<1> USE SizeAssumption DEF IInv, TypeOK, Progress, Written, Synced, Goto
<1>1. ASSUME NEW p \in Writers, Analyze(p)
      PROVE  /\ pc'[q] \in Written => length'[q] = Size
             /\ pc'[q] \in Synced => diskLength'[q] = Size
  <2>1. CASE Prepare(p) \/ Validate(p) \/ CreateTemp(p)
    BY <2>1 DEF Prepare, Validate, CreateTemp
  <2>2. CASE Write(p) BY <2>2 DEF Write
  <2>3. CASE Fsync(p) BY <2>3 DEF Fsync
  <2>4. CASE Close(p) \/ Revalidate(p) BY <2>4 DEF Close, Revalidate
  <2>5. CASE Rename(p) \/ Succeed(p) \/ Unwind(p)
    BY <2>5 DEF Rename, Succeed, Unwind
  <2> QED BY <1>1, <2>1, <2>2, <2>3, <2>4, <2>5 DEF Analyze
<1>2. CASE \E r \in Readers : OpenDigest(r) \/ ParseDigest(r)
  BY <1>2 DEF OpenDigest, ParseDigest
<1>3. CASE \E p \in Writers : Kill(p) BY <1>3 DEF Kill
<1>4. CASE \E p \in Writers : FlushData(p) BY <1>4 DEF FlushData
<1>5. CASE Interfere \/ FlushEntries BY <1>5 DEF Interfere, FlushEntries
<1>6. CASE MachineCrash BY <1>6 DEF MachineCrash
<1>7. CASE UNCHANGED vars BY <1>7 DEF vars
<1> QED BY <1>1, <1>2, <1>3, <1>4, <1>5, <1>6, <1>7 DEF Next, Environment

(* Only a rename puts a digest at the path, and by then it was flushed; the *)
(* disk copy and the open files get what the path held.                     *)
LEMMA VisibleStep == IInv /\ [Next]_vars => VisibleIsPublished'
<1> SUFFICES ASSUME IInv, [Next]_vars, NEW q \in Writers, Shown(q)'
             PROVE  pc'[q] \in Renamed /\ length'[q] = Size /\ diskLength'[q] = Size
  BY DEF VisibleIsPublished
<1> USE SizeAssumption, NamesAssumption
    DEF IInv, TypeOK, VisibleIsPublished, Renamed, Goto
<1>1. ASSUME NEW p \in Writers, Analyze(p)
      PROVE  pc'[q] \in Renamed /\ length'[q] = Size /\ diskLength'[q] = Size
  <2>1. CASE Prepare(p) \/ Validate(p) \/ CreateTemp(p)
    BY <2>1 DEF Shown, Prepare, Validate, CreateTemp
  <2>2. CASE Write(p) BY <2>2 DEF Shown, Write
  <2>3. CASE Fsync(p) BY <2>3 DEF Shown, Fsync
  <2>4. CASE Close(p) \/ Revalidate(p) BY <2>4 DEF Shown, Close, Revalidate
  <2>5. CASE Rename(p) BY <2>5 DEF Shown, Rename, Progress, Written, Synced
  <2>6. CASE Succeed(p) \/ Unwind(p) BY <2>6 DEF Shown, Succeed, Unwind
  <2> QED BY <1>1, <2>1, <2>2, <2>3, <2>4, <2>5, <2>6 DEF Analyze
<1>2. CASE \E r \in Readers : OpenDigest(r) \/ ParseDigest(r)
  <2>1. Shown(q) BY <1>2 DEF Shown, OpenDigest, ParseDigest
  <2> QED BY <1>2, <2>1 DEF OpenDigest, ParseDigest
<1>3. CASE \E p \in Writers : Kill(p) BY <1>3 DEF Shown, Kill
<1>4. CASE \E p \in Writers : FlushData(p) BY <1>4 DEF Shown, FlushData
<1>5. CASE Interfere \/ FlushEntries BY <1>5 DEF Shown, Interfere, FlushEntries
<1>6. CASE MachineCrash
  <2>1. Shown(q) BY <1>6 DEF Shown, MachineCrash
  <2> QED BY <1>6, <2>1 DEF MachineCrash
<1>7. CASE UNCHANGED vars BY <1>7 DEF Shown, vars
<1> QED BY <1>1, <1>2, <1>3, <1>4, <1>5, <1>6, <1>7 DEF Next, Environment

(* A reader parses what it opened, through every rename meanwhile. *)
LEMMA ParsedStep == IInv /\ [Next]_vars => ParsedIsOpened'
<1> SUFFICES ASSUME IInv, [Next]_vars, NEW s \in Readers, result'[s] # Nothing
             PROVE  result'[s] = handle'[s]
  BY DEF ParsedIsOpened
<1> USE DEF IInv, TypeOK, ParsedIsOpened
<1>1. ASSUME NEW p \in Writers, Analyze(p) PROVE result'[s] = handle'[s]
  BY <1>1 DEF Analyze, Prepare, Validate, CreateTemp, Write, Fsync, Close, Revalidate,
              Rename, Succeed, Unwind
<1>2. ASSUME NEW r \in Readers, OpenDigest(r) PROVE result'[s] = handle'[s]
  <2>1. result[r] = Nothing BY <1>2, NamesAssumption DEF OpenDigest
  <2> QED BY <1>2, <2>1 DEF OpenDigest
<1>3. ASSUME NEW r \in Readers, ParseDigest(r) PROVE result'[s] = handle'[s]
  <2>1. Whole(handle[r]) BY DEF VisibleIsPublished, Shown, Whole
  <2> QED BY <1>3, <2>1 DEF ParseDigest
<1>4. CASE Environment
  BY <1>4 DEF Environment, Kill, FlushData, Interfere, FlushEntries, MachineCrash
<1>5. CASE UNCHANGED vars BY <1>5 DEF vars
<1> QED BY <1>1, <1>2, <1>3, <1>4, <1>5 DEF Next

(* A temporary file belongs to an analyze that still works on it or could *)
(* not remove it.                                                         *)
LEMMA TempStep == IInv /\ [Next]_vars => TempOwned'
<1> SUFFICES ASSUME IInv, [Next]_vars, NEW q \in temps'
             PROVE  pc'[q] \in WithTemp \cup {"orphaned", "killed"}
  BY DEF TempOwned
<1> USE DEF IInv, TypeOK, TempOwned, Goto
<1>1. ASSUME NEW p \in Writers, Analyze(p)
      PROVE  pc'[q] \in WithTemp \cup {"orphaned", "killed"}
  <2>1. CASE Prepare(p) \/ Validate(p) \/ CreateTemp(p)
    BY <2>1 DEF Prepare, Validate, CreateTemp
  <2>2. CASE Write(p) \/ Fsync(p) BY <2>2 DEF Write, Fsync
  <2>3. CASE Close(p) \/ Revalidate(p) BY <2>3 DEF Close, Revalidate
  <2>4. CASE Rename(p) \/ Succeed(p) \/ Unwind(p)
    BY <2>4 DEF Rename, Succeed, Unwind
  <2> QED BY <1>1, <2>1, <2>2, <2>3, <2>4 DEF Analyze
<1>2. CASE \E r \in Readers : OpenDigest(r) \/ ParseDigest(r)
  BY <1>2 DEF OpenDigest, ParseDigest
<1>3. CASE Environment
  BY <1>3 DEF Environment, Kill, FlushData, Interfere, FlushEntries, MachineCrash
<1>4. CASE UNCHANGED vars BY <1>4 DEF vars
<1> QED BY <1>1, <1>2, <1>3, <1>4 DEF Next

(* The strengthened invariant is inductive. *)
LEMMA StepIInv == IInv /\ [Next]_vars => IInv'
  BY TypeStep, ProgressStep, VisibleStep, ParsedStep, TempStep DEF IInv

(* Every reachable state has the inductive invariant. *)
THEOREM Invariance == Spec => []IInv
<1> QED BY InitIInv, StepIInv, PTL DEF Spec

(* Every variable keeps its type for every number of processes. *)
THEOREM TypeCorrect == Spec => []TypeOK
<1>1. IInv => TypeOK BY DEF IInv
<1> QED BY Invariance, <1>1, PTL

(* The path, its copy on the disk and every open file are whole. *)
THEOREM DigestsAreWhole == Spec => []NeverPartial
<1>1. IInv => NeverPartial
  BY DEF IInv, VisibleIsPublished, Shown, NeverPartial, Whole, WholeOnDisk
<1> QED BY Invariance, <1>1, PTL

(* An analyze that ends with code 1 was never visible. *)
THEOREM FailuresAreInvisible == Spec => []FailureNeverVisible
<1>1. IInv => FailureNeverVisible
  BY DEF IInv, VisibleIsPublished, Shown, Renamed, FailureNeverVisible
<1> QED BY Invariance, <1>1, PTL

(* Every failure that could remove its temporary file did. *)
THEOREM FailuresCleanUp == Spec => FailureCleansUp
<1>1. IInv /\ [Next]_vars =>
        [\A p \in Writers : (pc[p] \notin Ended /\ pc'[p] = "failed") => p \notin temps']_vars
  <2> SUFFICES ASSUME IInv, [Next]_vars, NEW q \in Writers,
                      pc[q] \notin Ended, pc'[q] = "failed"
               PROVE  q \notin temps'
    OBVIOUS
  <2> USE DEF IInv, TypeOK, TempOwned, Goto
  <2>1. ASSUME NEW p \in Writers, Analyze(p) PROVE q \notin temps'
    BY <2>1 DEF Analyze, Prepare, Validate, CreateTemp, Write, Fsync, Close, Revalidate,
                Rename, Succeed, Unwind
  <2>2. CASE \E r \in Readers : OpenDigest(r) \/ ParseDigest(r)
    BY <2>2 DEF OpenDigest, ParseDigest
  <2>3. CASE Environment
    BY <2>3 DEF Environment, Kill, FlushData, Interfere, FlushEntries, MachineCrash
  <2>4. CASE UNCHANGED vars BY <2>4 DEF vars
  <2> QED BY <2>1, <2>2, <2>3, <2>4 DEF Next
<1> QED BY Invariance, <1>1, PTL DEF Spec, FailureCleansUp

------------------------------------------------------------------------------
(* The refinement.  In every state the invariant allows, what is visible is *)
(* whole, so the mapped value of the path is its entry.                     *)
LEMMA ValueIsEntry ==
  IInv => /\ Value(dest) = dest /\ Value(diskDest) = diskDest
  BY DEF IInv, VisibleIsPublished, Shown, Value, Whole

(* The start maps to the start of the abstract register. *)
LEMMA InitRefines == Init => Abstract!AInit
  BY NamesAssumption, SizeAssumption
  DEF Init, Abstract!AInit, Phase, Value, Whole

(* What a reader is mapped to: what it opened. *)
SeenBy == [r \in Readers |-> IF result[r] = Nothing THEN handle[r] ELSE result[r]]
PhaseOf == [p \in Writers |-> Phase(p)]

(* What a reader parsed is what it opened, so it maps to that. *)
LEMMA SeenIsOpened == IInv => SeenBy = handle
  BY DEF IInv, TypeOK, ParsedIsOpened, SeenBy

(* Each step of the code is a step of the abstract register or none. *)
LEMMA StepRefines ==
  IInv /\ IInv' /\ [Next]_vars => [Abstract!ANext]_(Abstract!avars)
<1> SUFFICES ASSUME IInv, IInv', [Next]_vars
             PROVE  Abstract!ANext \/ UNCHANGED <<dest, diskDest, PhaseOf, SeenBy>>
  BY ValueIsEntry DEF Abstract!avars, PhaseOf, SeenBy, IInv, VisibleIsPublished, Shown, Value,
    Whole
<1>a. SeenBy = handle BY DEF IInv, TypeOK, ParsedIsOpened, SeenBy
<1>b. SeenBy' = handle' BY DEF IInv, TypeOK, ParsedIsOpened, SeenBy
<1>c. Value(dest) = dest /\ Value(diskDest) = diskDest BY ValueIsEntry
<1>d. (Value(dest))' = dest' /\ (Value(diskDest))' = diskDest'
  BY DEF IInv, VisibleIsPublished, Shown, Value, Whole
<1>e. pc \in [Writers -> States] /\ pc' \in [Writers -> States] BY DEF IInv, TypeOK
<1>1. ASSUME NEW p \in Writers, Analyze(p)
      PROVE  Abstract!ANext \/ UNCHANGED <<dest, diskDest, PhaseOf, SeenBy>>
  \* The steps that leave the path alone: a failure ends the analyze, the
  \* others are not seen.
  <2>1. CASE UNCHANGED <<dest, diskDest, handle>> /\ pc[p] \notin Renamed
             /\ \E to \in States : to \notin {"published", "done", "killed"} /\ Goto(p, pc[p], to)
             /\ pc[p] \notin {"failed", "orphaned"}
    <3>1. CASE pc'[p] \in {"failed", "orphaned"}
      <4>1. Abstract!Fail(p)
        BY <2>1, <3>1, <1>a, <1>b, <1>c, <1>d, <1>e, ZenonT(40)
        DEF Renamed, Goto, Abstract!Fail, Phase, SeenBy
      <4> QED BY <4>1 DEF Abstract!ANext
    <3>2. CASE pc'[p] \notin {"failed", "orphaned"}
      BY <2>1, <3>2, <1>a, <1>b, <1>e DEF Renamed, Goto, PhaseOf, Phase
    <3> QED BY <3>1, <3>2
  <2>2. CASE Prepare(p) \/ Validate(p) \/ CreateTemp(p)
    BY <2>1, <2>2 DEF Prepare, Validate, CreateTemp, Goto, Renamed
  <2>3. CASE Write(p)
    BY <2>1, <2>3 DEF Write, Goto, Renamed
  <2>4. CASE Fsync(p) \/ Close(p) \/ Revalidate(p) \/ Unwind(p)
    BY <2>1, <2>4 DEF Fsync, Close, Revalidate, Unwind, Goto, Renamed
  <2>5. CASE Rename(p)
    <3>1. CASE dest' = p /\ dest # Folder /\ Goto(p, "rename", "published")
      <4>1. Abstract!Publish(p)
        BY <2>5, <3>1, <1>a, <1>b, <1>c, <1>d, <1>e
        DEF Rename, Goto, Abstract!Publish, Phase, SeenBy
      <4> QED BY <4>1 DEF Abstract!ANext
    <3>2. CASE ~(dest' = p /\ dest # Folder /\ Goto(p, "rename", "published"))
      BY <2>1, <2>5, <3>2 DEF Rename, Goto, Renamed
    <3> QED BY <3>1, <3>2
  <2>6. CASE Succeed(p)
    <3>1. Abstract!Succeed(p)
      BY <2>6, <1>a, <1>b, <1>c, <1>d, <1>e
      DEF Succeed, Goto, Abstract!Succeed, Phase, SeenBy
    <3> QED BY <3>1 DEF Abstract!ANext
  <2> QED BY <1>1, <2>2, <2>3, <2>4, <2>5, <2>6 DEF Analyze
<1>2. ASSUME NEW r \in Readers, OpenDigest(r)
      PROVE  Abstract!ANext \/ UNCHANGED <<dest, diskDest, PhaseOf, SeenBy>>
  <2>1. Abstract!Read(r)
    BY <1>2, <1>a, <1>b, <1>c, <1>d DEF OpenDigest, Abstract!Read, Phase, SeenBy
  <2> QED BY <2>1 DEF Abstract!ANext
<1>3. CASE \E r \in Readers : ParseDigest(r)
  BY <1>3, <1>a, <1>b DEF ParseDigest, PhaseOf, Phase
<1>4. ASSUME NEW p \in Writers, Kill(p)
      PROVE  Abstract!ANext \/ UNCHANGED <<dest, diskDest, PhaseOf, SeenBy>>
  <2>1. Abstract!Kill(p)
    BY <1>4, <1>a, <1>b, <1>c, <1>d, <1>e
    DEF Kill, Abstract!Kill, Abstract!Live, Phase, SeenBy
  <2> QED BY <2>1 DEF Abstract!ANext
<1>5. CASE \E p \in Writers : FlushData(p)
  BY <1>5, <1>a, <1>b DEF FlushData, PhaseOf, Phase
<1>6. CASE Interfere
  <2>1. Abstract!Interfere
    BY <1>6, <1>a, <1>b, <1>c, <1>d DEF Interfere, Abstract!Interfere, Phase, SeenBy
  <2> QED BY <2>1 DEF Abstract!ANext
<1>7. CASE FlushEntries
  <2>1. Abstract!Flush
    BY <1>7, <1>a, <1>b, <1>c, <1>d DEF FlushEntries, Abstract!Flush, Phase, SeenBy
  <2> QED BY <2>1 DEF Abstract!ANext
<1>8. CASE MachineCrash
  <2>1. PhaseOf' \in [Writers -> Abstract!Phases]
    BY <1>e DEF PhaseOf, Phase, Abstract!Phases
  <2>2. \A p \in Writers :
          PhaseOf'[p] = PhaseOf[p] \/ (Abstract!Live(p) /\ PhaseOf'[p] = "killed")
    BY <1>8, <1>e DEF MachineCrash, PhaseOf, Phase, Abstract!Live
  <2>3. /\ SeenBy' \in [Readers -> {SeenBy[r] : r \in Readers} \cup {Nothing}]
        /\ \A r \in Readers : SeenBy'[r] \in {SeenBy[r], Nothing}
    BY <1>8, <1>a, <1>b DEF MachineCrash, IInv, TypeOK
  <2>4. dest' = diskDest /\ UNCHANGED diskDest
    BY <1>8 DEF MachineCrash
  <2>5. Abstract!MachineCrash
    BY <2>1, <2>2, <2>3, <2>4, <1>c, <1>d DEF PhaseOf, SeenBy, Abstract!MachineCrash
  <2> QED BY <2>5 DEF Abstract!ANext
<1>9. CASE UNCHANGED vars
  BY <1>9, <1>a, <1>b DEF vars, PhaseOf, Phase
<1> QED BY <1>1, <1>2, <1>3, <1>4, <1>5, <1>6, <1>7, <1>8, <1>9 DEF Next, Environment

(* writeAtomically implements the atomic replacement. *)
THEOREM Refinement == Spec => AtomicReplacement
<1> QED BY Invariance, InitRefines, StepRefines, PTL DEF Spec, AtomicReplacement, Abstract!ASpec

-------------------------------------------------------------------------------
(* The viewer's session *)

SessionInv == SessionTypeOK /\ SuccessIsClean /\ ShaderDataAlive /\ ReloadShowsTheSame

IsKey(k) == k[1] \in Paths \cup {NoPath} /\ k[2] \subseteq Files

(* The files found under a path, and those picked of them, are .att files. *)
LEMMA DetectedFiles == ASSUME NEW path PROVE Detected(path) \subseteq Files
<1> USE InputAssumption DEF Detected
<1>1. CASE path \in AttDirs BY <1>1
<1>2. CASE path \notin AttDirs BY <1>2
<1> QED BY <1>1, <1>2

(* What a dialog selects is among the files it shows. *)
LEMMA SelectedFiles ==
  ASSUME NEW files \in SUBSET Files, NEW chosen \in Selections(files)
  PROVE chosen \subseteq Files
BY DEF Selections

(* The cache keys of an input are keys of the cache. *)
LEMMA KeysAreKeys == ASSUME NEW path PROVE KeysOf(path) \subseteq Keys
BY DEF KeysOf, Keys

(* The key a load leaves behind is one the next load can compare with. *)
LEMMA KeyTyped ==
  ASSUME NEW path \in Paths, NEW files \in SUBSET Files
  PROVE IsKey(Key(path, files)) /\ IsKey(NoKey)
BY DEF IsKey, Key, NoKey

(* What every way to make a store does to the list of stores. *)
LEMMA OpenedTyped ==
  ASSUME SessionTypeOK, NEW path \in Paths, loads < MaxLoads, opened' = Append(opened, path)
  PROVE /\ opened' \in Seq(Paths) /\ loads \in Nat
        /\ Len(opened') = loads + 1 /\ loads + 1 <= MaxLoads
BY InputAssumption DEF SessionTypeOK, loads

(* A cache that holds the waves of one store only. *)
LEMMA OnlyTyped ==
  ASSUME NEW keys, NEW id
  PROVE Only(keys, id) \in [Keys -> {0, id}]
BY DEF Only

(* A load that is refused touches nothing. *)
LEMMA RefusedStep ==
  ASSUME SessionInv, NEW key, IsKey(key), LoadRefused(key)
  PROVE SessionInv'
BY DEF SessionInv, SessionTypeOK, SuccessIsClean, ShaderDataAlive, ReloadShowsTheSame, IsKey,
  LoadRefused, widgets, loads

(* An input that is the one loaded last is not loaded again. *)
LEMMA SkippedStep ==
  ASSUME SessionInv, NEW path \in Paths, NEW files \in SUBSET Files, NEW key, IsKey(key),
         Skipped(path, files, key)
  PROVE SessionInv'
<1>1. SessionTypeOK' BY DEF SessionInv, SessionTypeOK, Skipped, widgets, loads
<1>2. status' = "skipped" BY DEF Skipped
<1> QED BY <1>1, <1>2 DEF SessionInv, SuccessIsClean, ShaderDataAlive, ReloadShowsTheSame,
  Skipped, widgets

(* A failed load: with Replace the data of the session before comes back,   *)
(* otherwise an incomplete store stays and nothing points into the old one. *)
LEMMA LoadFailsStep ==
  ASSUME SessionInv, NEW replace \in BOOLEAN, NEW path \in Paths, NEW files \in SUBSET Files,
         NEW key, IsKey(key), LoadFails(replace, path, files, key)
  PROVE SessionInv'
<1>1. /\ opened' \in Seq(Paths) /\ loads \in Nat
      /\ loads' = loads + 1 /\ loads' <= MaxLoads
  BY OpenedTyped DEF SessionInv, LoadFails, loads
<1>2. cache' \in [Keys -> 0 .. loads']
  <2>1. PICK keys : cache' = Only(keys, loads + 1) BY DEF LoadFails
  <2> QED BY <2>1, <1>1, OnlyTyped
<1>3. status' = "failed" /\ asked' = files /\ main' = 0
      /\ running' = running /\ selector' = selector /\ views' = views
  BY DEF LoadFails
<1>4. CASE replace
  <2>1. UNCHANGED <<store, current, last, spm, shader>> BY <1>4 DEF LoadFails, restored
  <2>2. SessionTypeOK' BY <1>1, <1>2, <1>3, <2>1, SMTT(30) DEF SessionInv, SessionTypeOK
  <2>3. (SuccessIsClean /\ ShaderDataAlive /\ ReloadShowsTheSame)'
    BY <1>3, <2>1 DEF SessionInv, SuccessIsClean, ShaderDataAlive, ReloadShowsTheSame
  <2> QED BY <2>2, <2>3 DEF SessionInv
<1>5. CASE ~replace
  <2>1. store' = Broken(path) /\ current' = path /\ last' = key /\ shader' = 0 /\ spm' = spm
    BY <1>5 DEF LoadFails
  <2>2. SessionTypeOK' BY <1>1, <1>2, <1>3, <2>1 DEF SessionInv, SessionTypeOK, Broken, IsKey
  <2>3. (SuccessIsClean /\ ShaderDataAlive /\ ReloadShowsTheSame)'
    BY <1>3, <2>1 DEF SuccessIsClean, ShaderDataAlive, ReloadShowsTheSame, Broken
  <2> QED BY <2>2, <2>3 DEF SessionInv
<1> QED BY <1>4, <1>5

(* What the widgets and the data keep once everything was shown. *)
LEMMA ShowLoadedTyped ==
  ASSUME SessionInv, NEW path \in Paths, ShowLoaded(path)
  PROVE /\ opened' \in Seq(Paths) /\ loads \in Nat
        /\ loads' = loads + 1 /\ loads' <= MaxLoads
        /\ cache' \in [Keys -> {0, loads + 1}]
        /\ selector' = loads + 1 /\ {main', views'} \subseteq {0, loads + 1}
        /\ running' = running
<1>1. opened' = Append(opened, path) /\ loads < MaxLoads BY DEF ShowLoaded
<1>2. opened' \in Seq(Paths) /\ loads \in Nat /\ loads' = loads + 1 /\ loads' <= MaxLoads
  BY <1>1, OpenedTyped DEF SessionInv, loads
<1> QED BY <1>2, OnlyTyped DEF ShowLoaded

(* What a complete load keeps: its store, its path and its pointers. *)
LEMMA KeepLoadedTyped ==
  ASSUME SessionInv, NEW replace \in BOOLEAN, NEW path \in Paths, NEW files \in SUBSET Files,
         KeepLoaded(replace, path, files)
  PROVE /\ store' = Filled(path) /\ current' = path /\ IsKey(last')
        /\ shader' \in {0, loads + 1} /\ spm' \in SpmFiles \cup {NoPath}
BY KeyTyped DEF KeepLoaded, SessionInv, SessionTypeOK

(* A load that succeeds to the end. *)
LEMMA LoadedStep ==
  ASSUME SessionInv, NEW replace \in BOOLEAN, NEW path \in Paths, NEW files \in SUBSET Files,
         Loaded(replace, path, files)
  PROVE SessionInv'
<1>1. /\ opened' \in Seq(Paths) /\ loads \in Nat
      /\ loads' = loads + 1 /\ loads' <= MaxLoads
      /\ cache' \in [Keys -> {0, loads + 1}]
      /\ selector' = loads + 1 /\ {main', views'} \subseteq {0, loads + 1}
      /\ running' = running
  BY ShowLoadedTyped DEF Loaded
<1>2. /\ store' = Filled(path) /\ current' = path /\ IsKey(last')
      /\ shader' \in {0, loads + 1} /\ spm' \in SpmFiles \cup {NoPath}
  BY KeepLoadedTyped DEF Loaded
<1>3. status' = "success" /\ asked' = files BY DEF Loaded
<1>4. Detected(path) \subseteq Files BY DetectedFiles
<1>5. SessionTypeOK'
  <2>1. (/\ store.id \in 0 .. loads /\ store.path \in Paths \cup {NoPath}
         /\ store.files \subseteq Files /\ store.whole \in BOOLEAN)'
    BY <1>1, <1>2, <1>4 DEF Filled
  <2>2. cache' \in [Keys -> 0 .. loads'] /\ {shader', selector', views', main'} \subseteq 0 .. loads'
    BY <1>1, <1>2
  <2> QED BY <1>1, <1>2, <1>3, <2>1, <2>2 DEF SessionInv, SessionTypeOK, IsKey
<1>6. (SuccessIsClean /\ ShaderDataAlive /\ ReloadShowsTheSame)'
  BY <1>1, <1>2 DEF SuccessIsClean, ShaderDataAlive, ReloadShowsTheSame, Filled
<1> QED BY <1>5, <1>6 DEF SessionInv

(* A load whose plots fail when the new store is in place. *)
LEMMA PlotsFailStep ==
  ASSUME SessionInv, NEW replace \in BOOLEAN, NEW path \in Paths, NEW files \in SUBSET Files,
         PlotsFail(replace, path, files)
  PROVE SessionInv'
<1>1. /\ opened' \in Seq(Paths) /\ loads \in Nat
      /\ loads' = loads + 1 /\ loads' <= MaxLoads
      /\ cache' \in [Keys -> {0, loads + 1}]
      /\ selector' = loads + 1 /\ {main', views'} \subseteq {0, loads + 1}
      /\ running' = running
  BY ShowLoadedTyped DEF PlotsFail
<1>2. status' = "failed" /\ asked' = files BY DEF PlotsFail
<1>3. CASE replace
  <2>1. UNCHANGED <<store, current, last, spm, shader>> BY <1>3 DEF PlotsFail, restored
  <2>2. /\ store.id \in 0 .. loads' /\ {shader, selector', views', main'} \subseteq 0 .. loads'
        /\ cache' \in [Keys -> 0 .. loads']
    <3>1. store.id \in 0 .. loads /\ shader \in 0 .. loads BY DEF SessionInv, SessionTypeOK
    <3> QED BY <1>1, <3>1
  <2>3. SessionTypeOK' BY <1>1, <1>2, <2>1, <2>2 DEF SessionInv, SessionTypeOK
  <2>4. (SuccessIsClean /\ ShaderDataAlive /\ ReloadShowsTheSame)'
    BY <1>2, <2>1 DEF SessionInv, SuccessIsClean, ShaderDataAlive, ReloadShowsTheSame
  <2> QED BY <2>3, <2>4 DEF SessionInv
<1>4. CASE ~replace
  <2>1. /\ store' = Filled(path) /\ current' = path /\ IsKey(last')
        /\ shader' \in {0, loads + 1} /\ spm' \in SpmFiles \cup {NoPath}
    BY <1>4, KeepLoadedTyped DEF PlotsFail
  <2>2. Detected(path) \subseteq Files BY DetectedFiles
  <2>3. SessionTypeOK'
    <3>1. (/\ store.id \in 0 .. loads /\ store.path \in Paths \cup {NoPath}
           /\ store.files \subseteq Files /\ store.whole \in BOOLEAN)'
      BY <1>1, <2>1, <2>2 DEF Filled
    <3>2. cache' \in [Keys -> 0 .. loads'] /\ {shader', selector', views', main'} \subseteq 0 .. loads'
      BY <1>1, <2>1
    <3> QED BY <1>1, <1>2, <2>1, <3>1, <3>2 DEF SessionInv, SessionTypeOK, IsKey
  <2> QED BY <1>1, <1>2, <2>1, <2>3
      DEF SessionInv, SuccessIsClean, ShaderDataAlive, ReloadShowsTheSame, Filled
<1> QED BY <1>3, <1>4

(* Whatever ends a load, the invariant survives it. *)
LEMMA LoadInputStep ==
  ASSUME SessionInv, NEW replace \in BOOLEAN, NEW path \in Paths, NEW files \in SUBSET Files,
         NEW key, IsKey(key), LoadInput(replace, path, files, key)
  PROVE SessionInv'
<1> DEFINE before == IF replace THEN NoKey ELSE key
           after == IF replace THEN last ELSE key
<1>1. IsKey(before) /\ IsKey(after) BY KeyTyped DEF SessionInv, SessionTypeOK, IsKey
<1> HIDE DEF before, after
<1>2. CASE LoadRefused(after) BY <1>1, <1>2, RefusedStep
<1>3. ASSUME NEW chosen \in Selections(files), Skipped(path, chosen, before)
      PROVE SessionInv'
  BY <1>1, <1>3, SelectedFiles, SkippedStep
<1>4. ASSUME NEW chosen \in Selections(files), LoadFails(replace, path, chosen, after)
      PROVE SessionInv'
  BY <1>1, <1>4, SelectedFiles, LoadFailsStep
<1>5. ASSUME NEW chosen \in Selections(files), Loaded(replace, path, chosen)
      PROVE SessionInv'
  BY <1>5, SelectedFiles, LoadedStep
<1>6. ASSUME NEW chosen \in Selections(files), PlotsFail(replace, path, chosen)
      PROVE SessionInv'
  BY <1>6, SelectedFiles, PlotsFailStep
<1> QED BY <1>2, <1>3, <1>4, <1>5, <1>6 DEF LoadInput, before, after

(* Loading waves on demand adds waves of the current store only. *)
LEMMA FillingTyped ==
  ASSUME SessionInv, NEW keys
  PROVE /\ Filling(keys) \in [Keys -> 0 .. loads]
        /\ \A k \in Keys : Filling(keys)[k] \in {cache[k], store.id}
BY DEF Filling, SessionInv, SessionTypeOK

(* A wave is selected. *)
LEMMA SetMainWaveStep == ASSUME SessionInv, SetMainWave PROVE SessionInv'
<1>1. PICK k \in KeysOf(store.path) :
       /\ main' \in (IF cache[k] # 0 THEN {cache[k]} ELSE {0, store.id})
       /\ \/ main' = 0 /\ UNCHANGED <<views, cache>>
          \/ main' # 0 /\ main # 0 /\ cache' = Filling({k}) /\ UNCHANGED views
          \/ main' # 0 /\ Gather({k})
  BY DEF SetMainWave
<1>2. k \in Keys BY KeysAreKeys
<1>3. main' \in {0, store.id, cache[k]} BY <1>1
<1>4. views' \in {views, store.id} BY <1>1 DEF Gather
<1>5. /\ cache' \in [Keys -> 0 .. loads]
      /\ \A j \in Keys : cache'[j] \in {cache[j], store.id}
  BY <1>1, FillingTyped, ZenonT(40) DEF Gather, SessionInv, SessionTypeOK
<1>6. UNCHANGED <<running, store, current, last, spm, shader, opened, selector, asked, status>>
  BY DEF SetMainWave, restored
<1>7. SessionTypeOK' BY <1>2, <1>3, <1>4, <1>5, <1>6, SMTT(30) DEF SessionInv, SessionTypeOK, loads
<1>8. SuccessIsClean' BY <1>2, <1>3, <1>4, <1>5, <1>6 DEF SessionInv, SuccessIsClean
<1> QED BY <1>6, <1>7, <1>8 DEF SessionInv, ShaderDataAlive, ReloadShowsTheSame

(* The visible range is edited, and the histogram gathered anew. *)
LEMMA EditRangeStep == ASSUME SessionInv, EditRange PROVE SessionInv'
<1>1. views' \in {views, store.id} BY DEF EditRange, Gather
<1>2. /\ cache' \in [Keys -> 0 .. loads]
      /\ \A j \in Keys : cache'[j] \in {cache[j], store.id}
  BY FillingTyped DEF EditRange, Gather, SessionInv, SessionTypeOK
<1>3. UNCHANGED <<store, current, last, spm, shader, opened, selector, main, asked, status>>
      /\ running' \in BOOLEAN
  BY DEF EditRange, restored, SessionInv, SessionTypeOK
<1>4. SessionTypeOK' BY <1>1, <1>2, <1>3 DEF SessionInv, SessionTypeOK, loads
<1>5. SuccessIsClean' BY <1>1, <1>2, <1>3 DEF SessionInv, SuccessIsClean
<1> QED BY <1>3, <1>4, <1>5 DEF SessionInv, ShaderDataAlive, ReloadShowsTheSame

(* Before the first load nothing is held. *)
LEMMA SessionStarts == SessionInit => SessionInv
<1> SUFFICES ASSUME SessionInit PROVE SessionInv OBVIOUS
<1>1. opened \in Seq(Paths) /\ loads = 0 BY DEF SessionInit, loads
<1>2. SessionTypeOK BY <1>1, InputAssumption DEF SessionInit, SessionTypeOK, NoStore, NoKey
<1> QED BY <1>2 DEF SessionInv, SessionInit, SuccessIsClean, ShaderDataAlive,
  ReloadShowsTheSame, NoStore

(* Every step keeps the four invariants together. *)
LEMMA SessionInductive == SessionInv /\ [SessionNext]_sessionVars => SessionInv'
<1> SUFFICES ASSUME SessionInv, [SessionNext]_sessionVars PROVE SessionInv' OBVIOUS
<1>1. IsKey(last) /\ IsKey(NoKey) BY DEF SessionInv, SessionTypeOK, IsKey, NoKey
<1>2. CASE OpenFolder
  <2>1. PICK path \in JsonDirs \cup AttDirs : LoadInput(TRUE, path, Detected(path), last)
    BY <1>2 DEF OpenFolder
  <2> QED BY <2>1, <1>1, DetectedFiles, LoadInputStep DEF Paths
<1>3. CASE OpenAttFiles
  <2>1. PICK picked \in SUBSET Files : \E first \in picked : LoadInput(TRUE, first, picked, last)
    BY <1>3 DEF OpenAttFiles
  <2>2. PICK first \in picked : LoadInput(TRUE, first, picked, last) BY <2>1
  <2> QED BY <2>2, <1>1, LoadInputStep DEF Paths
<1>4. CASE AttachSpm
  BY <1>4 DEF AttachSpm, SessionInv, SessionTypeOK, SuccessIsClean, ShaderDataAlive,
    ReloadShowsTheSame, widgets, loads
<1>5. CASE OpenSpm
  <2>1. PICK path \in SpmFiles : LoadInput(FALSE, path, {}, last) BY <1>5 DEF OpenSpm
  <2> QED BY <2>1, <1>1, LoadInputStep DEF Paths
<1>6. CASE OpenRocpd
  BY <1>6 DEF OpenRocpd, SessionInv, SessionTypeOK, SuccessIsClean, ShaderDataAlive,
    ReloadShowsTheSame, widgets, loads
<1>7. CASE ReloadCurrent
  <2>1. LoadInput(FALSE, current, Detected(current), NoKey) /\ current \in Paths
    BY <1>7 DEF ReloadCurrent, SessionInv, SessionTypeOK
  <2> QED BY <2>1, <1>1, DetectedFiles, LoadInputStep
<1>8. CASE SetMainWave BY <1>8, SetMainWaveStep
<1>9. CASE UseDeadSelector
  BY <1>9 DEF UseDeadSelector, SessionInv, SessionTypeOK, SuccessIsClean, ShaderDataAlive,
    ReloadShowsTheSame, restored, widgets, loads
<1>10. CASE EditRange BY <1>10, EditRangeStep
<1>11. CASE UNCHANGED sessionVars
  BY <1>11, ZenonT(40) DEF sessionVars, SessionInv, SessionTypeOK, SuccessIsClean, ShaderDataAlive,
    ReloadShowsTheSame, widgets, loads
<1> QED BY <1>2, <1>3, <1>4, <1>5, <1>6, <1>7, <1>8, <1>9, <1>10, <1>11 DEF SessionNext

(* The four invariants together are inductive: each needs the types, and *)
(* what a click may show rests on what the load before it left behind.   *)
THEOREM SessionInvariance == SessionSpec => []SessionInv
BY SessionStarts, SessionInductive, PTL DEF SessionSpec

(* The session's variables keep their types through every load. *)
THEOREM SessionTypeCorrect == SessionSpec => []SessionTypeOK
<1>1. SessionInv => SessionTypeOK BY DEF SessionInv
<1> QED BY <1>1, SessionInvariance, PTL

(* LoadInputImpl and the wave callbacks: after a successful load nothing of *)
(* an earlier trace is shown or cached, until the next load.                *)
THEOREM NothingStaleIsShown == SessionSpec => []SuccessIsClean
<1>1. SessionInv => SuccessIsClean BY DEF SessionInv
<1> QED BY <1>1, SessionInvariance, PTL

(* LoadInput's order of clearing and restoring: shaderdata_manager never *)
(* outlives the store that owns its memory.                              *)
THEOREM PointersStayAlive == SessionSpec => []ShaderDataAlive
<1>1. SessionInv => ShaderDataAlive BY DEF SessionInv
<1> QED BY <1>1, SessionInvariance, PTL

(* LoadInput's restoration of current_path: a reload asks for the trace *)
(* that is loaded.                                                      *)
THEOREM ReloadIsFaithful == SessionSpec => []ReloadShowsTheSame
<1>1. SessionInv => ReloadShowsTheSame BY DEF SessionInv
<1> QED BY <1>1, SessionInvariance, PTL
================================================================================
