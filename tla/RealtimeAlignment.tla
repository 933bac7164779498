-------------------------- MODULE RealtimeAlignment --------------------------
(***************************************************************************)
(* src/data/datastore.cpp, applyRealtimeAlignment: every shader engine     *)
(* counts its own clock; REALTIME records pair that clock with a global    *)
(* one, and after the emitters ran all records of a shader engine are      *)
(* moved by one offset onto a common clock.  A wave exists several times:  *)
(* as an entry of the hierarchy, as a record of the decoder shared by all  *)
(* entries with its id or as a file read later, and in the wave cache.     *)
(*                                                                         *)
(* Clocks are integers; the code's doubles are taken as exact rationals.   *)
(* What an engine's other records hold (occupancy, counters, events,       *)
(* dispatches, other SIMDs, shader data) is a set of times.  The REALTIME  *)
(* records of one engine are at different shader clocks.  The wave states  *)
(* of wstates*.json, which a UI directory has if one engine has waves, are *)
(* times of that engine too, but nothing moves them.                       *)
(***************************************************************************)
EXTENDS Integers, FiniteSets, FiniteSetsExt

CONSTANTS
  SEs,
  Samples,    \* the REALTIME records an engine may have: (shader, real) clocks
  Times,      \* the times its other records and waves may have
  Waves,      \* places in the hierarchy
  SE,         \* the engine of each
  Id,         \* the wave id of each; the decoder's may repeat, file names do not
  Decoded,    \* the places a decoder fills; the others come from files
  None        \* nothing there

ASSUME ShapeAssumption ==
  /\ IsFiniteSet(SEs) /\ IsFiniteSet(Samples) /\ IsFiniteSet(Waves)
  /\ Samples \subseteq Int \X Int /\ Times \subseteq Int
  /\ SE \in [Waves -> SEs] /\ DOMAIN Id = Waves
  /\ Decoded \subseteq Waves
  /\ None \notin Int
  /\ \A v, w \in Waves : Id[v] = Id[w] => SE[v] = SE[w] /\ (v \in Decoded <=> w \in Decoded)
  /\ \A v, w \in Waves \ Decoded : Id[v] = Id[w] => v = w

Ids == {Id[w] : w \in Waves}

VARIABLES
  phase,      \* "emitted", then "aligned" (realtime_alignment_applied) or "refused"
  realtime,   \* realtime_by_se
  events,     \* the times of the other records of each engine
  states,     \* wave_state_series: the times of the samples
  entry,      \* the hierarchy: begin of each wave's entry, or None
  offset,     \* time_offset of each entry
  record,     \* wave_records: begin of the decoded wave of each id, or None
  cache,      \* reader_cache: the keys, each with the begin of its wave
  emitted     \* realtime, events, states and entry as the emitters left them

vars == <<phase, realtime, events, states, entry, offset, record, cache, emitted>>

Listed == {w \in Waves : entry[w] # None}

(* One record per shader clock. *)
Recordings == {r \in SUBSET Samples : \A s, t \in r : s[1] = t[1] => s = t}

(* After the emitters.  Decoded waves with one id share a record; the id *)
(* holds the begin time, so they begin at the same clock.  Wave states   *)
(* are read from a UI directory, whose waves are files, if its waves are *)
(* of one engine.                                                        *)
Init ==
  /\ phase = "emitted"
  /\ realtime \in [SEs -> Recordings]
  /\ events \in [SEs -> SUBSET Times]
  /\ entry \in [Waves -> Times \cup {None}]
  /\ states \in SUBSET Times
  /\ states # {} => /\ Listed \cap Decoded = {}
                    /\ \E e \in SEs : {SE[w] : w \in Listed} = {e}
  /\ \A v, w \in Listed : Id[v] = Id[w] => entry[v] = entry[w]
  /\ offset = [w \in Waves |-> 0]
  /\ record \in [Ids -> Times \cup {None}]
  /\ \A w \in Listed \cap Decoded : record[Id[w]] = entry[w]
  /\ \A i \in Ids : (\A w \in Listed \cap Decoded : Id[w] # i) => record[i] = None
  /\ cache = {}
  /\ emitted = [realtime |-> realtime, events |-> events, states |-> states, entry |-> entry]

------------------------------------------------------------------------------
(* realtimeAlignmentOffsets, from the REALTIME records *)

Sampled(rt) == {e \in SEs : rt[e] # {}}

First(r) == CHOOSE s \in r : \A t \in r : s[1] <= t[1]
Latest(r) == CHOOSE s \in r : \A t \in r : t[1] <= s[1]

(* The engines whose first and last records measure the ratio of the clocks. *)
Measured(rt) == {e \in Sampled(rt) :
  /\ Latest(rt[e])[1] > First(rt[e])[1] /\ First(rt[e])[1] > 0
  /\ Latest(rt[e])[2] > First(rt[e])[2]}
DeltaShader(rt) == 25 + MapThenSumSet(LAMBDA e : Latest(rt[e])[1] - First(rt[e])[1], Measured(rt))
DeltaRealtime(rt) == 1 + MapThenSumSet(LAMBDA e : Latest(rt[e])[2] - First(rt[e])[2], Measured(rt))

(* A bug Origin could have: the real time not scaled to the shader clock. *)
OriginUnscaled(rt, e) == First(rt[e])[2] - First(rt[e])[1] * DeltaRealtime(rt)

(* The real time at shader clock 0, times DeltaShader. *)
Origin(rt, e) == First(rt[e])[2] * DeltaShader(rt) - First(rt[e])[1] * DeltaRealtime(rt)
AnchorOrigin(rt) == Min({Origin(rt, e) : e \in Sampled(rt)})

Offsets(rt) ==
  [e \in Sampled(rt) |-> (Origin(rt, e) - AnchorOrigin(rt)) \div DeltaRealtime(rt)]

(* alignmentRequiredSEs *)
Required == {e \in SEs : events[e] # {} \/ \E w \in Listed : SE[w] = e}

------------------------------------------------------------------------------
(* Bugs this code could have, one per property below: each stands in for the *)
(* operator named after the dash and must break its property.                *)

(* Alignable - asks only for the records of the engines that have waves. *)
WaveEnginesSampled ==
  Cardinality(Sampled(realtime)) > 1 /\ {SE[w] : w \in Listed} \subseteq Sampled(realtime)

(* KeyOf - a file cached under its name alone. *)
KeyWithoutOffset(w) == <<Id[w], None>>

(* Moved - an entry's time_offset left as it was. *)
MovedWithoutOffset(off) ==
  LET By(e) == IF e \in DOMAIN off THEN off[e] ELSE 0
      Entries(i) == {w \in Listed : Id[w] = i}
  IN
  /\ entry' = [w \in Waves |-> IF w \in Listed THEN entry[w] + By(SE[w]) ELSE None]
  /\ UNCHANGED offset
  /\ record' = [i \in Ids |-> IF record[i] = None THEN None
                  ELSE record[i] + MapThenSumSet(LAMBDA w : By(SE[w]), Entries(i))]
  /\ events' = [e \in SEs |-> {t + By(e) : t \in events[e]}]
  /\ realtime' = [e \in SEs |-> {<<s[1] + By(e), s[2]>> : s \in realtime[e]}]
  /\ UNCHANGED states

------------------------------------------------------------------------------
(* applyTimeOffsets: every entry, its record once for each entry, and the *)
(* engine's other records, but not the wave states.                       *)
Moved(off) ==
  LET By(e) == IF e \in DOMAIN off THEN off[e] ELSE 0
      Entries(i) == {w \in Listed : Id[w] = i}
  IN
  /\ entry' = [w \in Waves |-> IF w \in Listed THEN entry[w] + By(SE[w]) ELSE None]
  /\ offset' = [w \in Waves |-> IF w \in Listed THEN offset[w] + By(SE[w]) ELSE offset[w]]
  /\ record' = [i \in Ids |-> IF record[i] = None THEN None
                  ELSE record[i] + MapThenSumSet(LAMBDA w : By(SE[w]), Entries(i))]
  /\ events' = [e \in SEs |-> {t + By(e) : t \in events[e]}]
  /\ realtime' = [e \in SEs |-> {<<s[1] + By(e), s[2]>> : s \in realtime[e]}]
  /\ UNCHANGED states

(* Refused unless two engines or more have records, and every engine that *)
(* holds anything is one of them.                                         *)
Alignable == Cardinality(Sampled(realtime)) > 1 /\ Required \subseteq Sampled(realtime)

Align ==
  /\ phase = "emitted"
  /\ \/ Alignable /\ Moved(Offsets(realtime)) /\ phase' = "aligned"
     \/ /\ ~Alignable /\ phase' = "refused"
        /\ UNCHANGED <<realtime, events, states, entry, offset, record>>
  /\ UNCHANGED <<cache, emitted>>

(* getWave: a decoded wave is cached under its id, a file under its name *)
(* and the entry's offset, which is added to the times of the file.      *)
KeyOf(w) == IF w \in Decoded THEN <<Id[w], 0>> ELSE <<Id[w], offset[w]>>
Read(w) == IF w \in Decoded THEN record[Id[w]] ELSE emitted.entry[w] + offset[w]

Served(w) ==
  IF \E c \in cache : c[1] = KeyOf(w)
  THEN (CHOOSE c \in cache : c[1] = KeyOf(w))[2] ELSE Read(w)

GetWave(w) ==
  /\ phase # "emitted" /\ w \in Listed
  /\ cache' = cache \cup {<<KeyOf(w), Served(w)>>}
  /\ UNCHANGED <<phase, realtime, events, states, entry, offset, record, emitted>>

Next == Align \/ \E w \in Waves : GetWave(w)

Spec == Init /\ [][Next]_vars

------------------------------------------------------------------------------
(* Properties *)

TypeOK ==
  /\ phase \in {"emitted", "aligned", "refused"}
  /\ realtime \in [SEs -> SUBSET (Int \X Int)]
  /\ events \in [SEs -> SUBSET Int]
  /\ states \subseteq Int
  /\ entry \in [Waves -> Int \cup {None}]
  /\ offset \in [Waves -> Int]
  /\ record \in [Ids -> Int \cup {None}]
  /\ cache \subseteq (Ids \X Int) \X Int

(* How far an engine's REALTIME records were moved. *)
Shift(e) ==
  IF realtime[e] = {} THEN 0 ELSE First(realtime[e])[1] - First(emitted.realtime[e])[1]

(* After the alignment two engines agree on the time: where the real clocks *)
(* of their first records are apart, their shader clocks are apart by the   *)
(* same time, to less than a cycle.                                         *)
SameMoment ==
  phase = "aligned" =>
    \A d, e \in Sampled(realtime) :
      LET k == DeltaRealtime(emitted.realtime)
          apart == (First(realtime[d])[1] - First(realtime[e])[1]) * k
                   - (First(realtime[d])[2] - First(realtime[e])[2]) * DeltaShader(emitted.realtime)
      IN -k < apart /\ apart < k

(* What an engine recorded is on one clock, before, after and without an   *)
(* alignment: its waves' entries and its other records were moved by what  *)
(* its REALTIME records were moved by, and a wave that is served begins    *)
(* where it is listed if no other entry shares its id.  Not so the wave    *)
(* states: they keep the emitter's times whatever their engine is moved by *)
(* (applyTimeOffsets leaves out wave_state_series).                        *)
Alone(w) == \A v \in Listed : Id[v] = Id[w] => v = w
OneClock ==
  /\ \A e \in SEs : events[e] = {t + Shift(e) : t \in emitted.events[e]}
  /\ \A w \in Listed : entry[w] = emitted.entry[w] + Shift(SE[w])
  /\ \A w \in Listed : Alone(w) => Served(w) = entry[w]
  /\ states = emitted.states

(* An engine is never left on its own clock while others were moved, and no *)
(* engine is moved back: if anything was moved, every engine that holds     *)
(* anything is placed relative to an engine that stayed.                    *)
AllOrNothing ==
  \/ \A e \in SEs : Shift(e) = 0
  \/ /\ \A e \in SEs : emitted.events[e] # {} => realtime[e] # {}
     /\ \A w \in Waves : emitted.entry[w] # None => realtime[SE[w]] # {}
     /\ \A e \in SEs : Shift(e) >= 0
     /\ \E e \in Sampled(realtime) : Shift(e) = 0
=============================================================================
