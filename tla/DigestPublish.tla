---------------------------- MODULE DigestPublish ----------------------------
(***************************************************************************)
(* src/cli/main.cpp: several "rcv-cli analyze" processes that write the    *)
(* same output path (cmdAnalyze, writeAtomically, validateDestination),    *)
(* processes that query it (readDigest), other programs that change the    *)
(* path, kills at any step and crashes of the machine.                     *)
(*                                                                         *)
(* A process writes one temporary file, so the file is named by the        *)
(* process.  The entry at the path and the contents of files exist twice:  *)
(* as running processes see them and as the disk holds them, which is what *)
(* a machine crash leaves.  Contents are a length, in units of the least   *)
(* count write(2) returns.                                                 *)
(***************************************************************************)
EXTENDS Naturals

CONSTANTS
  Writers,    \* the analyze processes
  Readers,    \* the processes that call readDigest
  Size,       \* write(2) units in a whole digest
  Accepted,   \* what validateDestination accepts: earlier digests, a free name
  Refused,    \* what it refuses: symlinks, directories, special files
  Folder,     \* a directory
  Nothing,    \* a reader that has not opened the path
  Malformed   \* a reader whose parse failed on a digest that is not whole

ASSUME SizeAssumption == Size \in Nat \ {0}

Outside == Accepted \cup Refused

ASSUME NamesAssumption ==
  /\ Accepted \cap Refused = {}
  /\ Folder \in Refused
  /\ Writers \cap (Outside \cup {Nothing, Malformed}) = {}
  /\ Nothing \notin Outside
  /\ Malformed \notin Outside \cup {Nothing}

VARIABLES
  pc,         \* where each analyze is
  dest,       \* the entry at the output path
  temps,      \* the .rcv-digest-XXXXXX entries beside it
  length,     \* contents of each temporary file
  diskDest, diskLength,   \* the entry and the contents on the disk
  handle,     \* what each reader opened
  result      \* what each reader parsed

ram == <<dest, temps, length>>
disk == <<diskDest, diskLength>>
readers == <<handle, result>>
vars == <<pc, dest, temps, length, diskDest, diskLength, handle, result>>

Ended == {"done", "failed", "orphaned", "killed"}
BeforeTemp == {"load", "validate", "create"}
WithTemp == {"write", "fsync", "close", "revalidate", "rename", "unwind"}

Init ==
  /\ pc = [p \in Writers |-> "load"]
  /\ dest \in Outside
  /\ temps = {}
  /\ length = [p \in Writers |-> 0]
  /\ diskDest = dest
  /\ diskLength = [p \in Writers |-> 0]
  /\ handle = [r \in Readers |-> Nothing]
  /\ result = [r \in Readers |-> Nothing]

Goto(p, from, to) ==
  /\ pc[p] = from
  /\ pc' = [pc EXCEPT ![p] = to]

------------------------------------------------------------------------------
(* Bugs this code could have, one per property below: each stands in for the *)
(* operator named after the dash and must break its property.                *)

(* Write - counts past the end of the digest. *)
WriteOverrun(p) ==
  /\ \E n \in 1 .. Size :
       /\ length' = [length EXCEPT ![p] = @ + n]
       /\ Goto(p, "write", IF length[p] + n >= Size THEN "fsync" ELSE "write")
  /\ UNCHANGED <<dest, temps, disk, readers>>

(* Write - takes a short count for the whole digest. *)
WriteOnce(p) ==
  /\ \E n \in 1 .. (Size - length[p]) :
       /\ length' = [length EXCEPT ![p] = @ + n]
       /\ Goto(p, "write", "fsync")
  /\ UNCHANGED <<dest, temps, disk, readers>>

(* Fsync - left out. *)
FsyncLeftOut(p) ==
  /\ Goto(p, "fsync", "close")
  /\ UNCHANGED <<ram, disk, readers>>

(* Rename - an error after the rename is reported as a failed analyze. *)
RenameThenFail(p) ==
  /\ Goto(p, "rename", "unwind")
  /\ dest # Folder
  /\ dest' = p
  /\ temps' = temps \ {p}
  /\ UNCHANGED <<length, disk, readers>>

(* Unwind - returns without removing the temporary file. *)
UnwindKeepsTemp(p) ==
  /\ Goto(p, "unwind", "failed")
  /\ UNCHANGED <<ram, disk, readers>>

(* Revalidate - waits for an acceptable path instead of giving up. *)
RevalidateWaits(p) ==
  /\ dest \notin Refused
  /\ Goto(p, "revalidate", "rename")
  /\ UNCHANGED <<ram, disk, readers>>

------------------------------------------------------------------------------
(* cmdAnalyze *)

(* loadTrace, tokenTypesSupportHiddenLatency, HiddenLatencyAnalysis::analyze *)
(* and buildDigest: any of them may fail, and then nothing was written.      *)
Prepare(p) ==
  /\ \/ Goto(p, "load", "validate")
     \/ Goto(p, "load", "failed")
  /\ UNCHANGED <<ram, disk, readers>>

(* validateDestination accepts a regular file or a free name.  The stat *)
(* itself may fail, so refusing is always possible.                     *)
DestinationOk == dest \notin Refused

(* The first call of validateDestination, before the temporary file exists. *)
Validate(p) ==
  /\ \/ DestinationOk /\ Goto(p, "validate", "create")
     \/ Goto(p, "validate", "failed")
  /\ UNCHANGED <<ram, disk, readers>>

(* mkstemp *)
CreateTemp(p) ==
  /\ \/ /\ Goto(p, "create", "write")
        /\ temps' = temps \cup {p}
     \/ /\ Goto(p, "create", "failed")
        /\ UNCHANGED temps
  /\ UNCHANGED <<dest, length, disk, readers>>

(* One write(2): any positive count, or an error that ends the loop.  EINTR *)
(* repeats the call and changes nothing.                                    *)
Write(p) ==
  /\ \/ \E n \in 1 .. (Size - length[p]) :
          /\ length' = [length EXCEPT ![p] = @ + n]
          /\ Goto(p, "write", IF length[p] + n = Size THEN "fsync" ELSE "write")
     \/ /\ Goto(p, "write", "unwind")
        /\ UNCHANGED length
  /\ UNCHANGED <<dest, temps, disk, readers>>

(* fsync makes the contents durable, not the directory entry. *)
Fsync(p) ==
  /\ \/ /\ Goto(p, "fsync", "close")
        /\ diskLength' = [diskLength EXCEPT ![p] = length[p]]
     \/ /\ Goto(p, "fsync", "unwind")
        /\ UNCHANGED diskLength
  /\ UNCHANGED <<ram, diskDest, readers>>

Close(p) ==
  /\ \/ Goto(p, "close", "revalidate")
     \/ Goto(p, "close", "unwind")
  /\ UNCHANGED <<ram, disk, readers>>

(* The second validateDestination: the path may have changed meanwhile. *)
Revalidate(p) ==
  /\ \/ DestinationOk /\ Goto(p, "revalidate", "rename")
     \/ Goto(p, "revalidate", "unwind")
  /\ UNCHANGED <<ram, disk, readers>>

(* rename(2) moves the entry in one step; it cannot replace a directory and *)
(* may fail for other reasons.                                              *)
Rename(p) ==
  /\ \/ /\ Goto(p, "rename", "published")
        /\ dest # Folder
        /\ dest' = p
        /\ temps' = temps \ {p}
     \/ /\ Goto(p, "rename", "unwind")
        /\ UNCHANGED <<dest, temps>>
  /\ UNCHANGED <<length, disk, readers>>

(* temp.path.clear(), the "wrote" message and exit code 0. *)
Succeed(p) ==
  /\ Goto(p, "published", "done")
  /\ UNCHANGED <<ram, disk, readers>>

(* ~TemporaryFile and exit code 1; an error of remove is ignored. *)
Unwind(p) ==
  /\ \/ /\ Goto(p, "unwind", "failed")
        /\ temps' = temps \ {p}
     \/ /\ Goto(p, "unwind", "orphaned")
        /\ UNCHANGED temps
  /\ UNCHANGED <<dest, length, disk, readers>>

Analyze(p) ==
  \/ Prepare(p) \/ Validate(p) \/ CreateTemp(p) \/ Write(p) \/ Fsync(p) \/ Close(p)
  \/ Revalidate(p) \/ Rename(p) \/ Succeed(p) \/ Unwind(p)

------------------------------------------------------------------------------
(* readDigest *)

Whole(e) == e \in Writers => length[e] = Size

(* The file is opened once; a later rename does not change what was opened. *)
OpenDigest(r) ==
  /\ handle[r] = Nothing
  /\ handle' = [handle EXCEPT ![r] = dest]
  /\ UNCHANGED <<pc, ram, disk, result>>

(* Parsing what was opened, and "malformed digest" if it is not whole. *)
ParseDigest(r) ==
  /\ handle[r] # Nothing /\ result[r] = Nothing
  /\ result' = [result EXCEPT ![r] = IF Whole(handle[r]) THEN handle[r] ELSE Malformed]
  /\ UNCHANGED <<pc, ram, disk, handle>>

------------------------------------------------------------------------------
(* The environment *)

(* A kill leaves the temporary file and runs no destructor. *)
Kill(p) ==
  /\ pc[p] \notin Ended
  /\ pc' = [pc EXCEPT ![p] = "killed"]
  /\ UNCHANGED <<ram, disk, readers>>

(* Some other program puts anything but a digest of ours at the path. *)
Interfere ==
  /\ dest' \in Outside
  /\ UNCHANGED <<pc, temps, length, disk, readers>>

(* The file system writes directory entries back when it likes... *)
FlushEntries ==
  /\ diskDest' = dest
  /\ UNCHANGED <<pc, ram, diskLength, readers>>

(* ... and file contents too, in no order relative to the entries. *)
FlushData(p) ==
  /\ diskLength' = [diskLength EXCEPT ![p] = length[p]]
  /\ UNCHANGED <<pc, ram, diskDest, readers>>

(* Power loss: every process that runs dies and only the disk remains.  A   *)
(* query that had not finished may be started again.  Which temporary files *)
(* survive is not tracked: nothing ever looks for them.                     *)
MachineCrash ==
  /\ pc' = [p \in Writers |-> IF pc[p] \in Ended THEN pc[p] ELSE "killed"]
  /\ dest' = diskDest
  /\ length' = diskLength
  /\ handle' = [r \in Readers |-> IF result[r] = Nothing THEN Nothing ELSE handle[r]]
  /\ UNCHANGED <<temps, disk, result>>

Environment ==
  \/ \E p \in Writers : Kill(p) \/ FlushData(p)
  \/ Interfere \/ FlushEntries \/ MachineCrash

Next ==
  \/ \E p \in Writers : Analyze(p)
  \/ \E r \in Readers : OpenDigest(r) \/ ParseDigest(r)
  \/ Environment

(* The operating system runs each analyze; a write(2) is not interrupted for ever. *)
Fairness == \A p \in Writers : WF_vars(Analyze(p))

Spec == Init /\ [][Next]_vars
FairSpec == Spec /\ Fairness

------------------------------------------------------------------------------
(* Properties *)

States == BeforeTemp \cup WithTemp \cup {"published"} \cup Ended
Entries == Writers \cup Outside

TypeOK ==
  /\ pc \in [Writers -> States]
  /\ dest \in Entries /\ diskDest \in Entries
  /\ temps \subseteq Writers
  /\ length \in [Writers -> 0 .. Size]
  /\ diskLength \in [Writers -> 0 .. Size]
  /\ handle \in [Readers -> Entries \cup {Nothing}]
  /\ result \in [Readers -> Entries \cup {Nothing, Malformed}]

(* Digest output is "checked and closed before atomic replacement": what  *)
(* the output path, its copy on the disk or a reader's open file holds is *)
(* whole in memory and on the disk.                                       *)
WholeOnDisk(e) == e \in Writers => diskLength[e] = Size
NeverPartial ==
  /\ Whole(dest) /\ WholeOnDisk(dest)
  /\ Whole(diskDest) /\ WholeOnDisk(diskDest)
  /\ \A r \in Readers : Whole(handle[r]) /\ WholeOnDisk(handle[r])

(* "Decode or hidden-latency analysis failures return 1 without publishing *)
(* a digest": what an analyze that ends with code 1 wrote is nowhere to be *)
(* found, neither at the path nor in a reader's hands.                     *)
FailureNeverVisible ==
  \A p \in Writers : pc[p] \in {"failed", "orphaned"} =>
    p # dest /\ p # diskDest /\ \A r \in Readers : handle[r] # p

(* An analyze that fails and could remove its temporary file leaves none *)
(* behind, on every path out of writeAtomically.                         *)
FailureCleansUp ==
  [][\A p \in Writers : (pc[p] \notin Ended /\ pc'[p] = "failed") => p \notin temps']_vars

(* Every analyze ends, through success, failure or a kill: neither the write *)
(* loop nor the checks can run for ever.                                     *)
EveryAnalyzeEnds == \A p \in Writers : <>(pc[p] \in Ended)

(* writeAtomically implements the atomic replacement of AtomicDigest.       *)
Phase(p) ==
  IF pc[p] = "done" THEN "ok"
  ELSE IF pc[p] \in {"failed", "orphaned"} THEN "failed"
  ELSE IF pc[p] \in {"published", "killed"} THEN pc[p]
  ELSE "running"

(* Only a whole digest counts as the value at the path. *)
Value(e) == IF Whole(e) THEN e ELSE Malformed

Abstract == INSTANCE AtomicDigest WITH
  Others <- Outside, Unwritable <- {Folder},
  current <- Value(dest), flushed <- Value(diskDest),
  phase <- [p \in Writers |-> Phase(p)],
  seen <- [r \in Readers |-> IF result[r] = Nothing THEN handle[r] ELSE result[r]]

AtomicReplacement == Abstract!ASpec
=============================================================================
