---------------------------- MODULE AtomicDigest ----------------------------
(***************************************************************************)
(* What "rcv-cli analyze -o digest.json" promises to everyone who looks at *)
(* the output path: the path holds one whole value at a time.  An analyze  *)
(* replaces it at one instant or not at all, a reader obtains the value    *)
(* that was there at one instant, and a machine crash may take the path    *)
(* back to the value last flushed, never to a mixture.                     *)
(*                                                                         *)
(* DigestPublish describes how src/cli/main.cpp does it and implements     *)
(* this specification.                                                     *)
(***************************************************************************)

CONSTANTS
  Writers,    \* the analyze processes; also the digest each one produces
  Readers,    \* the processes that query a digest
  Others,     \* what the path may hold that no analyze wrote
  Unwritable, \* the members of Others that a file cannot replace
  Nothing     \* a reader that has not opened the path yet

VARIABLES
  current,    \* what the path holds
  flushed,    \* what it would hold after a machine crash
  phase,      \* how far each analyze is
  seen        \* what each reader obtained

avars == <<current, flushed, phase, seen>>

Phases == {"running", "published", "ok", "failed", "killed"}

Live(p) == phase[p] \in {"running", "published"}

AInit ==
  /\ current \in Others
  /\ flushed = current
  /\ phase = [p \in Writers |-> "running"]
  /\ seen = [r \in Readers |-> Nothing]

(* The whole digest of p replaces the value at the path. *)
Publish(p) ==
  /\ phase[p] = "running"
  /\ current \notin Unwritable
  /\ current' = p
  /\ phase' = [phase EXCEPT ![p] = "published"]
  /\ UNCHANGED <<flushed, seen>>

(* Exit code 0, only after publishing. *)
Succeed(p) ==
  /\ phase[p] = "published"
  /\ phase' = [phase EXCEPT ![p] = "ok"]
  /\ UNCHANGED <<current, flushed, seen>>

(* Exit code 1, only without having published. *)
Fail(p) ==
  /\ phase[p] = "running"
  /\ phase' = [phase EXCEPT ![p] = "failed"]
  /\ UNCHANGED <<current, flushed, seen>>

Kill(p) ==
  /\ Live(p)
  /\ phase' = [phase EXCEPT ![p] = "killed"]
  /\ UNCHANGED <<current, flushed, seen>>

Read(r) ==
  /\ seen[r] = Nothing
  /\ seen' = [seen EXCEPT ![r] = current]
  /\ UNCHANGED <<current, flushed, phase>>

(* Somebody else changes the path. *)
Interfere ==
  /\ current' \in Others
  /\ UNCHANGED <<flushed, phase, seen>>

Flush ==
  /\ flushed' = current
  /\ UNCHANGED <<current, phase, seen>>

(* The machine stops: running analyzes die and the path falls back. *)
(* An unfinished query may be started again.                        *)
MachineCrash ==
  /\ current' = flushed
  /\ phase' \in [Writers -> Phases]
  /\ \A p \in Writers : phase'[p] = phase[p] \/ (Live(p) /\ phase'[p] = "killed")
  /\ seen' \in [Readers -> {seen[r] : r \in Readers} \cup {Nothing}]
  /\ \A r \in Readers : seen'[r] \in {seen[r], Nothing}
  /\ UNCHANGED flushed

ANext ==
  \/ \E p \in Writers : Publish(p) \/ Succeed(p) \/ Fail(p) \/ Kill(p)
  \/ \E r \in Readers : Read(r)
  \/ Interfere
  \/ Flush
  \/ MachineCrash

ASpec == AInit /\ [][ANext]_avars

=============================================================================
