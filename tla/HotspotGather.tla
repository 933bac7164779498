---------------------------- MODULE HotspotGather ----------------------------
(***************************************************************************)
(* MainWindow::GatherWaves (src/mainwindow.cpp) and what its threads do:   *)
(* each loads one wave through the wave cache (src/data/wavemanager.cpp),  *)
(* agrees with the others on the type of every line of code, and adds the  *)
(* wave's cycles to the histogram of the Hotspot tab                       *)
(* (src/graphics/hotspot_view.cpp).                                        *)
(*                                                                         *)
(* A thread is named by the entry of the hierarchy it was started for.     *)
(* Waves are sequences of tokens; what a token does not tell these three   *)
(* is left out.  Taking a mutex, an atomic operation and the end of a      *)
(* thread are steps; what happens under the exclusive lock is one step.    *)
(***************************************************************************)
EXTENDS Integers, Sequences, FiniteSets, SequencesExt

CONSTANTS
  Tokens,       \* of each key of the cache, its wave's tokens: [line, type, cycles]
  KeyOf,        \* the key of each entry, in the order of forEachWave
  Lines,        \* the lines of the code, with the custom type of each, or 0
  RingSize,     \* the futures held: 16
  Begin, Step,  \* first line and lines per bin of the histogram
  NumBins,
  MaxGathers    \* bound on the times the waves are gathered

None == 0
Entries == DOMAIN KeyOf
Keys == DOMAIN Tokens
Bins == 0 .. NumBins - 1

(* What a wave is loaded as: the wave, an instance without tokens because *)
(* its file is not readable, or nothing because loading threw.  From the  *)
(* records of a decoded trace it is always the wave.                      *)
Outcomes == {"wave", "empty", "throws"}

(* The type of a line or token that waits for memory or is not known. *)
Weak == 9

ASSUME GatherAssumption ==
  /\ KeyOf \in Seq(Keys)
  /\ \A k \in Keys : Tokens[k] \in Seq([line : Int, type : 1 .. 15, cycles : Nat])
  /\ \A l \in DOMAIN Lines : Lines[l] \in 0 .. 15
  /\ RingSize \in Nat \ {0} /\ Step \in Nat \ {0} /\ NumBins \in Nat /\ Begin \in Nat
  /\ MaxGathers \in Nat

VARIABLES
  main,         \* the main thread: idle, launch, draw
  range,        \* the entries in the visible range of cycles
  next,         \* the entry that forEachWave visits next
  ring,         \* the entry whose future is in each place, or None
  replaced,     \* the future replaced last; its thread is waited for
  launched,     \* threads started in this gather
  pc,           \* of each thread, its next step
  at,           \* of each thread, the token it is at
  instance,     \* of each thread, what it was given
  target,       \* of each thread, the view it adds to
  view,         \* the view that exists: views are numbered, 0 is none
  bins,         \* the cycles in its bins
  readers,      \* threads that hold wave_mutex shared
  cache,        \* reader_cache: "wave", "empty" or "none" for each key
  type,         \* the type of each line
  gathers

threads == <<pc, at, instance, target>>
shared == <<bins, readers, cache, type>>
vars == <<main, range, next, ring, replaced, launched, threads, view, shared, gathers>>

Init ==
  /\ main = "idle" /\ range = {} /\ next = 1 /\ ring = [i \in 0 .. RingSize - 1 |-> None] /\ replaced = None
  /\ launched = 0 /\ gathers = 0 /\ view = 0
  /\ pc = [e \in Entries |-> "off"] /\ at = [e \in Entries |-> 1]
  /\ instance = [e \in Entries |-> "none"] /\ target = [e \in Entries |-> 0]
  /\ bins = [b \in Bins |-> 0] /\ readers = {}
  /\ cache = [k \in Keys |-> "none"] /\ type = [l \in DOMAIN Lines |-> 0]

------------------------------------------------------------------------------
(* A token, after populateExecMetadata gave it the custom type of its line. *)
Wave(e) == Tokens[KeyOf[e]]
Typed(tok) ==
  IF tok.line \in DOMAIN Lines /\ Lines[tok.line] # 0 THEN Lines[tok.line] ELSE tok.type

(* getBin: the division of C++ rounds towards zero. *)
BinOf(line) ==
  IF line >= Begin THEN (line - Begin) \div Step ELSE -((Begin - line) \div Step)

Added(hist, tok) ==
  LET b == BinOf(tok.line) IN IF b \in Bins THEN [hist EXCEPT ![b] = @ + tok.cycles] ELSE hist

(* The step after one on the token the thread is at: tokens on no line of *)
(* the code are passed over.                                              *)
Finished(e) == at[e] > Len(Wave(e))
Token(e) == Wave(e)[at[e]]
NextToken(e) == at' = [at EXCEPT ![e] = @ + 1] /\ pc' = [pc EXCEPT ![e] = "type"]
OnType(e, l, t) == type' = [type EXCEPT ![l] = t]

------------------------------------------------------------------------------
(* Bugs this code could have, one per property below: each stands in for the *)
(* action or operator named after the dash and must break its property.      *)

(* Populated - the wave's tokens are not gone back to, Add starts after them. *)
PopulatedStays(e) ==
  /\ pc[e] = "type" /\ Finished(e)
  /\ pc' = [pc EXCEPT ![e] = "insert"] /\ at' = [at EXCEPT ![e] = @ + 1]
  /\ UNCHANGED <<main, range, next, ring, replaced, launched, instance, target, view, shared, gathers>>

(* Launch - the future it replaces is let go without waiting. *)
LaunchWithoutWait ==
  /\ main = "launch" /\ next \in range
  /\ LET i == launched % RingSize IN
     /\ next' = next + 1 /\ launched' = launched + 1
     /\ ring' = [ring EXCEPT ![i] = next] /\ replaced' = ring[i]
     /\ pc' = [pc EXCEPT ![next] = "start"] /\ target' = [target EXCEPT ![next] = view]
  /\ UNCHANGED <<main, range, at, instance, view, shared, gathers>>

(* JoinAll - the waves are shown while threads still run. *)
JoinLeftOut ==
  /\ main = "launch" /\ next > Len(KeyOf)
  /\ main' = "draw"
  /\ UNCHANGED <<range, next, ring, replaced, launched, threads, view, shared, gathers>>

(* Look - the shared lock is kept while the wave is loaded. *)
LookKeepsLock(e) ==
  /\ pc[e] = "look"
  /\ instance' = [instance EXCEPT ![e] = cache[KeyOf[e]]]
  /\ pc' = [pc EXCEPT ![e] = IF cache[KeyOf[e]] = "none" THEN "load" ELSE "add"]
  /\ readers' = IF cache[KeyOf[e]] = "none" THEN readers ELSE readers \ {e}
  /\ UNCHANGED <<main, range, next, ring, replaced, launched, at, target, view, bins, cache, type, gathers>>

(* CompareZero - a line that has a type keeps it. *)
CompareZeroOnly(e) ==
  /\ pc[e] = "type" /\ ~Finished(e)
  /\ LET l == Token(e).line IN
     /\ IF l \in DOMAIN Lines /\ type[l] = 0 THEN OnType(e, l, Typed(Token(e))) ELSE UNCHANGED type
     /\ NextToken(e)
  /\ UNCHANGED <<main, range, next, ring, replaced, launched, instance, target, view, bins, readers, cache,
                 gathers>>

(* CompareWeak - the type is stored whatever it is by now. *)
StoreType(e) ==
  /\ pc[e] = "weak"
  /\ OnType(e, Token(e).line, Typed(Token(e))) /\ NextToken(e)
  /\ UNCHANGED <<main, range, next, ring, replaced, launched, instance, target, view, bins, readers, cache,
                 gathers>>

(* Add - the cycles are not atomic: an addition may be lost to another one. *)
AddRacy(e) ==
  /\ pc[e] = "add"
  /\ IF instance[e] = "wave" /\ ~Finished(e)
     THEN /\ at' = [at EXCEPT ![e] = @ + 1] /\ pc' = pc
          /\ \/ bins' = Added(bins, Token(e))
             \/ /\ \E f \in Entries \ {e} : pc[f] = "add" /\ instance[f] = "wave" /\ ~Finished(f)
                                             /\ BinOf(Token(f).line) = BinOf(Token(e).line)
                /\ bins' = bins
     ELSE pc' = [pc EXCEPT ![e] = "done"] /\ UNCHANGED <<at, bins>>
  /\ UNCHANGED <<main, range, next, ring, replaced, launched, instance, target, view, readers, cache, type,
                 gathers>>

------------------------------------------------------------------------------
(* The main thread *)

(* GatherWaves up to its loop over the waves: any of them may be in range. *)
Gather(inRange) ==
  /\ main = "idle" /\ gathers < MaxGathers
  /\ main' = "launch" /\ next' = 1 /\ gathers' = gathers + 1
  /\ ring' = [i \in 0 .. RingSize - 1 |-> None] /\ replaced' = None /\ launched' = 0
  /\ range' = inRange /\ view' = view + 1 /\ bins' = [b \in Bins |-> 0]
  /\ pc' = [e \in Entries |-> "off"] /\ instance' = [e \in Entries |-> "none"]
  /\ UNCHANGED <<at, target, readers, cache, type>>

(* std::async starts the next wave's thread, then the assignment destroys *)
(* the future that was in its place, which waits for that one's thread.   *)
Launch ==
  /\ main = "launch" /\ next \in range
  /\ replaced # None => pc[replaced] = "done"
  /\ LET i == launched % RingSize IN
     /\ next' = next + 1 /\ launched' = launched + 1
     /\ ring' = [ring EXCEPT ![i] = next] /\ replaced' = ring[i]
     /\ pc' = [pc EXCEPT ![next] = "start"] /\ target' = [target EXCEPT ![next] = view]
  /\ UNCHANGED <<main, range, at, instance, view, shared, gathers>>

(* A wave outside the range is passed over. *)
PassOver ==
  /\ main = "launch" /\ next \in Entries \ range
  /\ replaced # None => pc[replaced] = "done"
  /\ next' = next + 1
  /\ UNCHANGED <<main, range, ring, replaced, launched, threads, view, shared, gathers>>

(* The end of the block destroys the futures. *)
JoinAll ==
  /\ main = "launch" /\ next > Len(KeyOf)
  /\ replaced # None => pc[replaced] = "done"
  /\ \A i \in DOMAIN ring : ring[i] # None => pc[ring[i]] = "done"
  /\ main' = "draw"
  /\ UNCHANGED <<range, next, ring, replaced, launched, threads, view, shared, gathers>>

(* The two exchanges that give a line its type, when no other thread runs. *)
Settle(types, tok) ==
  IF tok.line \in DOMAIN types /\ types[tok.line] \in {0, Weak}
  THEN [types EXCEPT ![tok.line] = Typed(tok)]
  ELSE types

(* The rest of GatherWaves asks for the waves in range again: one that *)
(* could not be loaded is tried once more.                             *)
Draw ==
  /\ main = "draw"
  /\ main' = "idle"
  /\ \E got \in [{KeyOf[e] : e \in range} -> Outcomes] :
       LET now == [k \in DOMAIN got |->
                     IF cache[k] = "none" /\ got[k] # "throws" THEN got[k] ELSE cache[k]]
           Read(e) == e \in range /\ cache[KeyOf[e]] = "none" /\ now[KeyOf[e]] = "wave"
       IN
       /\ cache' = [k \in Keys |-> IF k \in DOMAIN now THEN now[k] ELSE cache[k]]
       /\ type' = FoldLeft(Settle, type,
                           FlattenSeq([e \in Entries |-> IF Read(e) THEN Wave(e) ELSE <<>>]))
  /\ UNCHANGED <<range, next, ring, replaced, launched, threads, view, bins, readers, gathers>>

(* InvalidadeCache, when another trace is loaded: both caches are emptied, *)
(* and with the code come new lines.  The view stays until waves are       *)
(* gathered.                                                               *)
InvalidadeCache ==
  /\ main = "idle" /\ readers = {}
  /\ cache' = [k \in Keys |-> "none"] /\ type' = [l \in DOMAIN Lines |-> 0]
  /\ UNCHANGED <<main, range, next, ring, replaced, launched, threads, view, bins, readers, gathers>>

------------------------------------------------------------------------------
(* A thread: preload_wave *)

(* WaveInstance::Get and GetFromRecord: the lookup, under the shared lock. *)
LockShared(e) ==
  /\ pc[e] = "start"
  /\ pc' = [pc EXCEPT ![e] = "look"] /\ readers' = readers \cup {e}
  /\ at' = [at EXCEPT ![e] = 1]
  /\ UNCHANGED <<main, range, next, ring, replaced, launched, instance, target, view, bins, cache, type,
                 gathers>>

Look(e) ==
  /\ pc[e] = "look"
  /\ instance' = [instance EXCEPT ![e] = cache[KeyOf[e]]]
  /\ pc' = [pc EXCEPT ![e] = IF cache[KeyOf[e]] = "none" THEN "load" ELSE "add"]
  /\ readers' = readers \ {e}
  /\ UNCHANGED <<main, range, next, ring, replaced, launched, at, target, view, bins, cache, type, gathers>>

(* WaveInstance::WaveInstance reads the wave, with no lock on the cache. *)
Load(e) ==
  /\ pc[e] = "load"
  /\ \/ instance' = [instance EXCEPT ![e] = "wave"] /\ pc' = [pc EXCEPT ![e] = "type"]
     \/ instance' = [instance EXCEPT ![e] = "empty"] /\ pc' = [pc EXCEPT ![e] = "insert"]
     \/ instance' = instance /\ pc' = [pc EXCEPT ![e] = "done"]
  /\ UNCHANGED <<main, range, next, ring, replaced, launched, at, target, view, shared, gathers>>

(* populateExecMetadata: a line without a type gets the token's ... *)
CompareZero(e) ==
  /\ pc[e] = "type" /\ ~Finished(e)
  /\ LET l == Token(e).line  t == Typed(Token(e)) IN
     IF l \in DOMAIN Lines /\ type[l] = 0
     THEN OnType(e, l, t) /\ NextToken(e)
     ELSE /\ IF l \in DOMAIN Lines /\ type[l] = Weak /\ t # Weak
             THEN pc' = [pc EXCEPT ![e] = "weak"] /\ UNCHANGED at
             ELSE NextToken(e)
          /\ UNCHANGED type
  /\ UNCHANGED <<main, range, next, ring, replaced, launched, instance, target, view, bins, readers, cache,
                 gathers>>

(* ... and the weak type gives way to any other, if it is still there. *)
CompareWeak(e) ==
  /\ pc[e] = "weak"
  /\ LET l == Token(e).line IN
     IF type[l] = Weak THEN OnType(e, l, Typed(Token(e))) ELSE UNCHANGED type
  /\ NextToken(e)
  /\ UNCHANGED <<main, range, next, ring, replaced, launched, instance, target, view, bins, readers, cache,
                 gathers>>

Populated(e) ==
  /\ pc[e] = "type" /\ Finished(e)
  /\ pc' = [pc EXCEPT ![e] = "insert"] /\ at' = [at EXCEPT ![e] = 1]
  /\ UNCHANGED <<main, range, next, ring, replaced, launched, instance, target, view, shared, gathers>>

(* The instance goes into the cache, under the exclusive lock, in place of *)
(* one that another thread put there meanwhile.                            *)
Insert(e) ==
  /\ pc[e] = "insert" /\ readers = {}
  /\ cache' = [cache EXCEPT ![KeyOf[e]] = instance[e]]
  /\ pc' = [pc EXCEPT ![e] = "add"]
  /\ UNCHANGED <<main, range, next, ring, replaced, launched, at, instance, target, view, bins, readers,
                 type, gathers>>

(* HotspotView::Add, one atomic addition for each token. *)
Add(e) ==
  /\ pc[e] = "add"
  /\ IF instance[e] = "wave" /\ ~Finished(e)
     THEN at' = [at EXCEPT ![e] = @ + 1] /\ bins' = Added(bins, Token(e)) /\ pc' = pc
     ELSE pc' = [pc EXCEPT ![e] = "done"] /\ UNCHANGED <<at, bins>>
  /\ UNCHANGED <<main, range, next, ring, replaced, launched, instance, target, view, readers, cache, type,
                 gathers>>

------------------------------------------------------------------------------
Main == Launch \/ PassOver \/ JoinAll \/ Draw

Preload(e) ==
  \/ LockShared(e) \/ Look(e) \/ Load(e)
  \/ CompareZero(e) \/ CompareWeak(e) \/ Populated(e)
  \/ Insert(e) \/ Add(e)

Next ==
  \/ \E inRange \in SUBSET Entries : Gather(inRange)
  \/ Main \/ InvalidadeCache
  \/ \E e \in Entries : Preload(e)

Spec == Init /\ [][Next]_vars /\ WF_vars(Main) /\ \A e \in Entries : WF_vars(Preload(e))

------------------------------------------------------------------------------
(* Properties *)

Running == {e \in Entries : pc[e] \notin {"off", "done"}}

TypeOK ==
  /\ main \in {"idle", "launch", "draw"} /\ range \subseteq Entries /\ next \in 1 .. Len(KeyOf) + 1
  /\ ring \in [0 .. RingSize - 1 -> Entries \cup {None}] /\ replaced \in Entries \cup {None}
  /\ launched \in Nat /\ gathers \in 0 .. MaxGathers /\ view \in Nat
  /\ pc \in [Entries -> {"off", "start", "look", "load", "type", "weak", "insert", "add", "done"}]
  /\ at \in [Entries -> Nat] /\ \A e \in Entries : at[e] \in 1 .. Len(Wave(e)) + 1
  /\ instance \in [Entries -> {"none", "empty", "wave"}] /\ target \in [Entries -> Nat]
  /\ bins \in [Bins -> Nat] /\ readers \subseteq Entries
  /\ cache \in [Keys -> {"none", "empty", "wave"}] /\ type \in [DOMAIN Lines -> 0 .. 15]

(* However many waves are in range, no more threads run than the ring has *)
(* places, and the one started before the replaced one is waited for.     *)
RingBounded == Cardinality(Running) <= RingSize + 1

(* The view is deleted and made again by a plain pointer that each thread *)
(* was given: whoever still runs has the one that exists.                 *)
ViewAlive == \A e \in Running : main = "launch" /\ target[e] = view

(* "The hotspot is computed over all waves within the range": when the      *)
(* threads are done each bin has the cycles of its lines in every wave that *)
(* could be loaded, none of them lost and none counted twice, whether it    *)
(* came from the cache or not.  The first bin also has the lines less than  *)
(* a bin before it.                                                         *)
Covers(b, line) ==
  \/ line \in Begin + b * Step .. Begin + (b + 1) * Step - 1
  \/ b = 0 /\ line \in Begin - Step + 1 .. Begin - 1

HotspotComplete ==
  main # "launch" /\ view # 0 =>
    \A b \in Bins :
      bins[b] = LET cells == UNION {{<<e, i>> : i \in DOMAIN Wave(e)} :
                                    e \in {f \in range : instance[f] = "wave"}}
                    counted == {c \in cells : Covers(b, Wave(c[1])[c[2]].line)}
                IN MapThenSumSet(LAMBDA c : Wave(c[1])[c[2]].cycles, counted)

(* A line's type, once it is one that says something, is not changed by any *)
(* wave loaded later or at the same time; only a new trace clears it.       *)
TypeSettles ==
  [][\A l \in DOMAIN Lines :
       type[l] \notin {0, Weak} /\ type'[l] # type[l] => type' = [j \in DOMAIN Lines |-> 0]]_vars

(* Every line a cached wave executed has a type, and has the weak one only *)
(* if the wave has no better: in whatever order waves were loaded, none is *)
(* left with less than it knows.                                           *)
LinesKnowTheirType ==
  \A k \in Keys : cache[k] = "wave" =>
    \A i \in DOMAIN Tokens[k] :
      LET tok == Tokens[k][i] IN
      tok.line \in DOMAIN Lines =>
        type[tok.line] # 0 /\ (type[tok.line] = Weak => Typed(tok) = Weak)

(* GatherWaves comes back: neither the lock nor the ring blocks it for ever. *)
GatherEnds == main = "launch" ~> main = "idle"
=============================================================================
