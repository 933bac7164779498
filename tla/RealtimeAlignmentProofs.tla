------------------------ MODULE RealtimeAlignmentProofs ------------------------
(***************************************************************************)
(* For any engines, REALTIME records and waves: the alignment puts every   *)
(* engine on the common clock to less than a cycle, moves the entries and  *)
(* the records of an engine by the same time and its wave states not at    *)
(* all, moves no engine back, and a wave that is served afterwards begins  *)
(* where it is listed.                                                     *)
(*                                                                         *)
(* The state is described from what the emitters left: Placed says that    *)
(* what the alignment moves was moved by Move, the engine's offset, Cached *)
(* that the wave cache holds what a read would return, as two places that  *)
(* have one key read one wave.  What is left is arithmetic: an offset      *)
(* times the ratio's denominator is the distance of the origins up to a    *)
(* remainder smaller than the denominator, and First of records that were  *)
(* moved is First of the records, moved.                                   *)
(***************************************************************************)
EXTENDS RealtimeAlignment, FoldLemmas

(* Where applyRealtimeAlignment puts an engine, from its REALTIME records. *)
Delta(rt, e) ==
  IF e \in Sampled(rt) THEN (Origin(rt, e) - AnchorOrigin(rt)) \div DeltaRealtime(rt) ELSE 0

(* How far an engine was moved so far. *)
Move(e) == IF phase = "aligned" THEN Delta(emitted.realtime, e) ELSE 0

MovedBy(m, r) == {<<s[1] + m, s[2]>> : s \in r}

(* What the emitters leave. *)
EmittedShape ==
  /\ emitted.realtime \in [SEs -> Recordings]
  /\ emitted.events \in [SEs -> SUBSET Times]
  /\ emitted.states \subseteq Times
  /\ emitted.entry \in [Waves -> Times \cup {None}]

(* Everything is where the emitters left it, moved by its engine's offset; *)
(* the wave states are where the emitters left them.                       *)
Placed ==
  /\ realtime = [e \in SEs |-> MovedBy(Move(e), emitted.realtime[e])]
  /\ events = [e \in SEs |-> {t + Move(e) : t \in emitted.events[e]}]
  /\ states = emitted.states
  /\ entry = [w \in Waves |-> IF emitted.entry[w] = None THEN None
                                                         ELSE emitted.entry[w] + Move(SE[w])]
  /\ offset = [w \in Waves |-> IF emitted.entry[w] = None THEN 0 ELSE Move(SE[w])]

(* A decoded wave has a record, which moved with the entry if it is the *)
(* only one with its id.                                                *)
Recorded ==
  /\ record \in [Ids -> Int \cup {None}]
  /\ \A w \in Listed \cap Decoded : record[Id[w]] # None
  /\ phase # "aligned" => \A w \in Listed \cap Decoded : record[Id[w]] = entry[w]
  /\ \A w \in Listed \cap Decoded : Alone(w) => record[Id[w]] = entry[w]

(* The engines were moved only if all that hold anything have records. *)
Complete ==
  phase = "aligned" =>
    /\ Sampled(emitted.realtime) # {}
    /\ \A e \in SEs : emitted.events[e] # {} => emitted.realtime[e] # {}
    /\ \A w \in Waves : emitted.entry[w] # None => emitted.realtime[SE[w]] # {}

(* The wave cache holds what a read returns. *)
Cached ==
  /\ phase = "emitted" => cache = {}
  /\ \A c \in cache : \E w \in Listed : c = <<KeyOf(w), Read(w)>>

IInv ==
  /\ phase \in {"emitted", "aligned", "refused"}
  /\ EmittedShape /\ Placed /\ Recorded /\ Complete /\ Cached

-------------------------------------------------------------------------------
(* The first and the last record of an engine *)

(* An engine has finitely many records, at different shader clocks. *)
LEMMA RecordingShape ==
  ASSUME NEW r \in Recordings
  PROVE  /\ IsFiniteSet(r) /\ r \subseteq Samples
         /\ \A s \in r : s = <<s[1], s[2]>> /\ s[1] \in Int /\ s[2] \in Int
         /\ \A s, t \in r : s[1] = t[1] => s = t
<1>1. IsFiniteSet(r) /\ r \subseteq Samples /\ Samples \subseteq Int \X Int
  BY ShapeAssumption, FS_Subset DEF Recordings
<1> QED BY <1>1 DEF Recordings

(* First is the record at the least shader clock. *)
LEMMA FirstIs ==
  ASSUME NEW r \in Recordings, r # {}
  PROVE  First(r) \in r /\ \A t \in r : First(r)[1] <= t[1]
<1> DEFINE f == [s \in r |-> s[1]]
<1>1. IsFiniteSet(r) /\ \A s \in r : f[s] \in Int
  BY RecordingShape
<1>2. \E s \in r : \A t \in r : f[s] <= f[t]
  <2> HIDE DEF f
  <2> QED BY <1>1, HasLeast
<1>3. \E s \in r : \A t \in r : s[1] <= t[1]
  BY <1>2
<1> QED BY <1>3 DEF First

(* Latest is the record at the greatest. *)
LEMMA LastIs ==
  ASSUME NEW r \in Recordings, r # {}
  PROVE  Latest(r) \in r /\ \A t \in r : t[1] <= Latest(r)[1]
<1> DEFINE f == [s \in r |-> s[1]]
<1>1. IsFiniteSet(r) /\ \A s \in r : f[s] \in Int
  BY RecordingShape
<1>2. \E s \in r : \A t \in r : f[t] <= f[s]
  <2> HIDE DEF f
  <2> QED BY <1>1, HasGreatest
<1>3. \E s \in r : \A t \in r : t[1] <= s[1]
  BY <1>2
<1> QED BY <1>3 DEF Latest

(* The first of records that were moved is the first of the records, moved. *)
LEMMA FirstMoves ==
  ASSUME NEW r \in Recordings, r # {}, NEW m \in Int
  PROVE  First(MovedBy(m, r)) = <<First(r)[1] + m, First(r)[2]>>
<1> DEFINE f == First(r)
           moved == MovedBy(m, r)
<1>1. f \in r /\ \A t \in r : f[1] <= t[1]
  BY FirstIs
<1>2. \A s \in r : s = <<s[1], s[2]>> /\ s[1] \in Int /\ s[2] \in Int
  BY RecordingShape
<1>3. <<f[1] + m, f[2]>> \in moved
  BY <1>1 DEF MovedBy
<1>4. \A t \in moved : f[1] + m <= t[1]
  BY <1>1, <1>2 DEF MovedBy
<1>5. ASSUME NEW t \in moved, \A u \in moved : t[1] <= u[1]
      PROVE  t = <<f[1] + m, f[2]>>
  <2>1. PICK s \in r : t = <<s[1] + m, s[2]>>
    BY DEF MovedBy
  <2>2. s[1] = f[1]
    <3>1. t[1] = s[1] + m /\ t[1] <= f[1] + m
      BY <1>3, <1>5, <2>1
    <3> QED BY <1>1, <1>2, <3>1
  <2>3. s = f
    BY <1>1, <2>2, RecordingShape
  <2> QED BY <2>1, <2>3
<1>6. First(moved) \in moved /\ \A u \in moved : First(moved)[1] <= u[1]
  BY <1>3, <1>4 DEF First
<1> QED BY <1>5, <1>6

-------------------------------------------------------------------------------
(* The ratio of the clocks, the origins and the offsets *)

(* How long an engine's records last, on the shader clock and on the real one. *)
ShaderSpan(rt, e) == Latest(rt[e])[1] - First(rt[e])[1]
RealSpan(rt, e) == Latest(rt[e])[2] - First(rt[e])[2]

(* DeltaShader and DeltaRealtime as sums of functions. *)
LEMMA SpansAreSums ==
  ASSUME NEW rt
  PROVE  /\ DeltaShader(rt) = 25 + SumOver([e \in Measured(rt) |-> ShaderSpan(rt, e)], Measured(rt))
         /\ DeltaRealtime(rt) = 1 + SumOver([e \in Measured(rt) |-> RealSpan(rt, e)], Measured(rt))
<1> DEFINE M == Measured(rt)
           fS == [e \in M |-> ShaderSpan(rt, e)]
           fR == [e \in M |-> RealSpan(rt, e)]
           shader(g) == [s \in SUBSET M |-> IF s = {} THEN 0
                           ELSE ShaderSpan(rt, Pick(s)) + g[s \ {Pick(s)}]]
           real(g) == [s \in SUBSET M |-> IF s = {} THEN 0
                           ELSE RealSpan(rt, Pick(s)) + g[s \ {Pick(s)}]]
           sumS(g) == [s \in SUBSET M |-> Body(g, fS, s)]
           sumR(g) == [s \in SUBSET M |-> Body(g, fR, s)]
<1>1. \A s \in SUBSET M : s # {} => Pick(s) \in M
  BY PickIsElement
<1>2. \A g : shader(g) = sumS(g) /\ real(g) = sumR(g)
  BY <1>1 DEF Body
<1>3. MapThenSumSet(LAMBDA e : Latest(rt[e])[1] - First(rt[e])[1], M) = (CHOOSE g : g = shader(g))[M]
  BY Zenon DEF MapThenSumSet, MapThenFoldSet, ShaderSpan, Pick
<1>4. MapThenSumSet(LAMBDA e : Latest(rt[e])[2] - First(rt[e])[2], M) = (CHOOSE g : g = real(g))[M]
  BY Zenon DEF MapThenSumSet, MapThenFoldSet, RealSpan, Pick
<1>5. SumOver(fS, M) = (CHOOSE g : g = sumS(g))[M] /\ SumOver(fR, M) = (CHOOSE g : g = sumR(g))[M]
  BY SumIsPartial, Zenon DEF Partial
<1>6. (CHOOSE g : g = shader(g)) = (CHOOSE g : g = sumS(g))
  <2> HIDE DEF shader, sumS, real, sumR
  <2> QED BY <1>2, Zenon
<1>7. (CHOOSE g : g = real(g)) = (CHOOSE g : g = sumR(g))
  <2> HIDE DEF shader, sumS, real, sumR
  <2> QED BY <1>2, Zenon
<1> HIDE DEF M, fS, fR, shader, real, sumS, sumR
<1>8. DeltaShader(rt) = 25 + SumOver(fS, M)
  BY <1>3, <1>5, <1>6, Zenon DEF DeltaShader, M
<1>9. DeltaRealtime(rt) = 1 + SumOver(fR, M)
  BY <1>4, <1>5, <1>7, Zenon DEF DeltaRealtime, M
<1> QED BY <1>8, <1>9, Zenon DEF M, fS, fR

(* The ratio is one of positive numbers. *)
LEMMA RatioType ==
  ASSUME NEW rt \in [SEs -> Recordings]
  PROVE  DeltaShader(rt) \in Int /\ DeltaRealtime(rt) \in Nat \ {0}
<1> DEFINE M == Measured(rt)
           fS == [e \in M |-> ShaderSpan(rt, e)]
           fR == [e \in M |-> RealSpan(rt, e)]
<1>1. IsFiniteSet(M)
  BY ShapeAssumption, FS_Subset DEF Measured, Sampled
<1>2. ASSUME NEW e \in M PROVE ShaderSpan(rt, e) \in Nat /\ RealSpan(rt, e) \in Nat
  <2>1. rt[e] \in Recordings /\ rt[e] # {}
    BY DEF Measured, Sampled
  <2>2. First(rt[e]) \in rt[e] /\ Latest(rt[e]) \in rt[e]
    BY <2>1, FirstIs, LastIs
  <2>3. \A s \in rt[e] : s[1] \in Int /\ s[2] \in Int
    BY <2>1, RecordingShape
  <2>4. Latest(rt[e])[1] > First(rt[e])[1] /\ Latest(rt[e])[2] > First(rt[e])[2]
    BY DEF Measured
  <2> QED BY <2>2, <2>3, <2>4 DEF ShaderSpan, RealSpan
<1>3. (\A e \in M : fS[e] \in Nat) /\ (\A e \in M : fR[e] \in Nat)
  BY <1>2
<1>4. SumOver(fS, M) \in Nat /\ SumOver(fR, M) \in Nat
  <2> HIDE DEF M, fS, fR
  <2> QED BY <1>1, <1>3, SumBounds
<1>5. DeltaShader(rt) = 25 + SumOver(fS, M) /\ DeltaRealtime(rt) = 1 + SumOver(fR, M)
  BY SpansAreSums, Zenon
<1> HIDE DEF M, fS, fR
<1> QED BY <1>4, <1>5

(* An engine's first record, in an origin. *)
LEMMA OriginIs ==
  ASSUME NEW rt \in [SEs -> Recordings], NEW e \in Sampled(rt)
  PROVE  /\ First(rt[e])[1] \in Int /\ First(rt[e])[2] \in Int
         /\ Origin(rt, e) = First(rt[e])[2] * DeltaShader(rt) - First(rt[e])[1] * DeltaRealtime(rt)
         /\ Origin(rt, e) \in Int
<1>1. rt[e] \in Recordings /\ rt[e] # {}
  BY DEF Sampled
<1>2. First(rt[e])[1] \in Int /\ First(rt[e])[2] \in Int
  BY <1>1, FirstIs, RecordingShape
<1>3. DeltaShader(rt) \in Int /\ DeltaRealtime(rt) \in Int
  BY RatioType
<1> QED BY <1>2, <1>3 DEF Origin

(* The anchor is the least of the origins. *)
LEMMA AnchorIs ==
  ASSUME NEW rt \in [SEs -> Recordings], Sampled(rt) # {}
  PROVE  /\ \E e \in Sampled(rt) : Origin(rt, e) = AnchorOrigin(rt)
         /\ \A e \in Sampled(rt) : AnchorOrigin(rt) <= Origin(rt, e)
         /\ AnchorOrigin(rt) \in Int
<1> DEFINE S == {Origin(rt, e) : e \in Sampled(rt)}
<1>1. IsFiniteSet(Sampled(rt))
  BY ShapeAssumption, FS_Subset DEF Sampled
<1>2. \A e \in Sampled(rt) : Origin(rt, e) \in Int
  BY OriginIs
<1>3. \E x \in S : \A y \in S : x <= y
  <2> DEFINE f == [e \in Sampled(rt) |-> Origin(rt, e)]
  <2>1. \A e \in Sampled(rt) : f[e] \in Int
    BY <1>2
  <2>2. \E d \in Sampled(rt) : \A e \in Sampled(rt) : f[d] <= f[e]
    <3> HIDE DEF f
    <3> QED BY <1>1, <2>1, HasLeast
  <2> QED BY <2>2
<1>4. Min(S) \in S /\ \A y \in S : Min(S) <= y
  BY <1>3 DEF Min
<1>5. AnchorOrigin(rt) = Min(S)
  BY DEF AnchorOrigin
<1> QED BY <1>2, <1>4, <1>5

(* An offset is no step back, and times the denominator it is the distance *)
(* of the origins but for a remainder; one engine stays.                   *)
LEMMA DeltaIs ==
  ASSUME NEW rt \in [SEs -> Recordings]
  PROVE  /\ \A e \in SEs : Delta(rt, e) \in Nat
         /\ \A e \in Sampled(rt) : \E m \in 0 .. DeltaRealtime(rt) - 1 :
              Delta(rt, e) * DeltaRealtime(rt) = Origin(rt, e) - AnchorOrigin(rt) - m
         /\ Sampled(rt) # {} => \E e \in Sampled(rt) : Delta(rt, e) = 0
<1> DEFINE k == DeltaRealtime(rt)
           a == AnchorOrigin(rt)
           o(e) == Origin(rt, e)
<1>1. k \in Nat \ {0}
  BY RatioType
<1>2. ASSUME NEW e \in Sampled(rt) PROVE o(e) - a \in Nat /\ Delta(rt, e) = (o(e) - a) \div k
  <2>1. o(e) \in Int /\ a \in Int /\ a <= o(e)
    BY OriginIs, AnchorIs
  <2> HIDE DEF o, a
  <2>2. o(e) - a \in Nat
    BY <2>1
  <2> QED BY <2>2 DEF Delta, o, a
<1>3. \A n \in Nat : n \div k \in Nat /\ (n \div k) * k <= n /\ n < (n \div k) * k + k
  <2> HIDE DEF k
  <2> QED BY <1>1
<1>4. ASSUME NEW e \in SEs PROVE Delta(rt, e) \in Nat
  <2>1. CASE e \in Sampled(rt) BY <1>2, <1>3, <2>1
  <2>2. CASE e \notin Sampled(rt) BY <2>2 DEF Delta
  <2> QED BY <2>1, <2>2
<1>5. ASSUME NEW e \in Sampled(rt)
      PROVE  \E m \in 0 .. k - 1 : Delta(rt, e) * k = o(e) - a - m
  <2> DEFINE n == o(e) - a
             d == Delta(rt, e)
  <2>1. n \in Nat /\ d \in Nat /\ d * k <= n /\ n < d * k + k
    BY <1>2, <1>3
  <2> HIDE DEF n, d, k
  <2>2. d * k \in Int
    BY <1>1, <2>1
  <2>3. n - d * k \in 0 .. k - 1 /\ d * k = n - (n - d * k)
    BY <1>1, <2>1, <2>2
  <2>4. \E m \in 0 .. k - 1 : d * k = n - m
    BY <2>3
  <2> QED BY <2>4 DEF n, d
<1>6. ASSUME Sampled(rt) # {} PROVE \E e \in Sampled(rt) : Delta(rt, e) = 0
  <2>1. PICK e \in Sampled(rt) : o(e) = a
    BY <1>6, AnchorIs
  <2>2. o(e) - a = 0
    BY <1>2, <2>1, OriginIs, AnchorIs
  <2>3. 0 \div k = 0
    <3> HIDE DEF k
    <3> QED BY <1>1
  <2> QED BY <1>2, <2>2, <2>3
<1> QED BY <1>4, <1>5, <1>6
-------------------------------------------------------------------------------
(* The step *)

By(off, e) == IF e \in DOMAIN off THEN off[e] ELSE 0
Entries(i) == {w \in Listed : Id[w] = i}

(* What applyTimeOffsets adds to a record, as the sum of a function. *)
LEMMA EntriesAdd ==
  ASSUME NEW off, NEW E
  PROVE  MapThenSumSet(LAMBDA w : By(off, SE[w]), E) = SumOver([w \in E |-> By(off, SE[w])], E)
<1> DEFINE f == [w \in E |-> By(off, SE[w])]
           added(g) == [s \in SUBSET E |-> IF s = {} THEN 0 ELSE By(off, SE[Pick(s)]) + g[s \ {Pick(s)}]]
           sum(g) == [s \in SUBSET E |-> Body(g, f, s)]
<1>1. \A s \in SUBSET E : s # {} => Pick(s) \in E
  BY PickIsElement
<1>2. \A g : added(g) = sum(g)
  BY <1>1 DEF Body
<1>3. MapThenSumSet(LAMBDA w : By(off, SE[w]), E) = (CHOOSE g : g = added(g))[E]
  BY Zenon DEF MapThenSumSet, MapThenFoldSet, Pick
<1>4. SumOver(f, E) = (CHOOSE g : g = sum(g))[E]
  BY SumIsPartial, Zenon DEF Partial
<1>5. (CHOOSE g : g = added(g)) = (CHOOSE g : g = sum(g))
  <2> HIDE DEF added, sum
  <2> QED BY <1>2, Zenon
<1> QED BY <1>3, <1>4, <1>5, Zenon

(* Every record is moved once for each of its entries. *)
LEMMA RecordsMove ==
  ASSUME NEW off, Moved(off)
  PROVE  /\ DOMAIN record' = Ids
         /\ \A i \in Ids : record'[i] = IF record[i] = None THEN None
              ELSE record[i] + SumOver([w \in Entries(i) |-> By(off, SE[w])], Entries(i))
<1>1. record' = [i \in Ids |-> IF record[i] = None THEN None
                   ELSE record[i] + MapThenSumSet(LAMBDA w : By(off, SE[w]), Entries(i))]
  BY Zenon DEF Moved, By, Entries
<1>2. \A i \in Ids : record'[i] = IF record[i] = None THEN None
                   ELSE record[i] + MapThenSumSet(LAMBDA w : By(off, SE[w]), Entries(i))
  BY <1>1
<1>3. DOMAIN record' = Ids
  BY <1>1
<1>4. ASSUME NEW i \in Ids
      PROVE  record'[i] = IF record[i] = None THEN None
               ELSE record[i] + SumOver([w \in Entries(i) |-> By(off, SE[w])], Entries(i))
  <2>1. MapThenSumSet(LAMBDA w : By(off, SE[w]), Entries(i))
          = SumOver([w \in Entries(i) |-> By(off, SE[w])], Entries(i))
    BY EntriesAdd, Zenon
  <2> QED BY <1>2, <2>1, Zenon
<1> QED BY <1>3, <1>4

(* What the shapes say of one engine and of one wave. *)
LEMMA EmittedIs ==
  ASSUME EmittedShape
  PROVE  /\ \A e \in SEs : emitted.realtime[e] \in Recordings
         /\ \A e \in SEs : \A t \in emitted.events[e] : t \in Int
         /\ \A w \in Waves : emitted.entry[w] # None => emitted.entry[w] \in Int
<1>1. \A e \in SEs : emitted.events[e] \subseteq Times
  BY DEF EmittedShape
<1>2. \A w \in Waves : emitted.entry[w] \in Times \cup {None}
  BY DEF EmittedShape
<1>3. Times \subseteq Int
  BY ShapeAssumption
<1> QED BY <1>1, <1>2, <1>3 DEF EmittedShape

(* Moving by nothing. *)
LEMMA NotLater ==
  ASSUME NEW T, \A t \in T : t \in Int
  PROVE  {t + 0 : t \in T} = T
OBVIOUS

(* Samples that move stay as many as none. *)
LEMMA MovedNone == \A n, q : MovedBy(n, q) = {} <=> q = {}
<1>1. ASSUME NEW n, NEW q, q # {} PROVE MovedBy(n, q) # {}
  <2>1. PICK s \in q : TRUE
    BY <1>1
  <2>2. <<s[1] + n, s[2]>> \in MovedBy(n, q)
    BY DEF MovedBy
  <2> QED BY <2>2
<1>2. ASSUME NEW n PROVE MovedBy(n, {}) = {}
  BY DEF MovedBy
<1> QED BY <1>1, <1>2

(* An offset of zero leaves the samples where they are. *)
LEMMA NotMovedBy ==
  ASSUME NEW r \in Recordings
  PROVE  MovedBy(0, r) = r
<1>1. \A s \in r : s = <<s[1], s[2]>> /\ s[1] \in Int
  BY RecordingShape
<1>2. \A s \in r : s = <<s[1] + 0, s[2]>>
  BY <1>1
<1>3. MovedBy(0, r) \subseteq r
  BY <1>2 DEF MovedBy
<1>4. r \subseteq MovedBy(0, r)
  BY <1>2 DEF MovedBy
<1> QED BY <1>3, <1>4

(* The emitters leave a state of the invariant. *)
LEMMA InitIInv == Init => IInv
<1> SUFFICES ASSUME Init PROVE IInv
  OBVIOUS
<1> USE ShapeAssumption DEF Init
<1>1. EmittedShape
  BY DEF EmittedShape
<1>2. \A e : Move(e) = 0
  BY DEF Move
<1>3. Placed
  <2>1. ASSUME NEW e \in SEs
        PROVE  realtime[e] = MovedBy(0, realtime[e]) /\ events[e] = {t + 0 : t \in events[e]}
    <3>1. realtime[e] \in Recordings
      OBVIOUS
    <3>2. \A t \in events[e] : t \in Int
      <4>1. events[e] \subseteq Times /\ Times \subseteq Int
        OBVIOUS
      <4> QED BY <4>1
    <3>3. {t + 0 : t \in events[e]} = events[e]
      BY <3>2, NotLater
    <3> QED BY <3>1, <3>3, NotMovedBy
  <2>2. realtime = [e \in SEs |-> MovedBy(0, realtime[e])] /\ events = [e \in SEs |-> {t + 0 : t \in events[e]}]
    BY <2>1
  <2>3. entry = [w \in Waves |-> IF entry[w] = None THEN None ELSE entry[w] + 0]
    <3>1. (\A w \in Waves : entry[w] \in Times \cup {None}) /\ entry = [v \in Waves |-> entry[v]]
      OBVIOUS
    <3>2. \A w \in Waves : entry[w] # None => entry[w] \in Int
      BY <3>1
    <3> HIDE DEF Init
    <3>3. \A w \in Waves : entry[w] # None => entry[w] + 0 = entry[w]
      BY <3>2
    <3>4. \A w \in Waves : entry[w] = IF entry[w] = None THEN None ELSE entry[w] + 0
      BY <3>3
    <3> QED BY <3>1, <3>4
  <2> HIDE DEF Init
  <2>4. emitted.realtime = realtime /\ emitted.events = events /\ emitted.entry = entry
        /\ emitted.states = states /\ offset = [w \in Waves |-> 0]
    BY DEF Init
  <2> QED BY <1>2, <2>2, <2>3, <2>4 DEF Placed
<1>4. Recorded
  BY DEF Recorded, Listed
<1>5. Complete /\ Cached
  BY DEF Complete, Cached
<1> QED BY <1>1, <1>3, <1>4, <1>5 DEF IInv

(* What the description of the state says of what is there. *)
LEMMA PlacedShape ==
  ASSUME IInv
  PROVE  /\ \A e \in SEs : Move(e) \in Nat
         /\ Listed = {w \in Waves : emitted.entry[w] # None}
         /\ \A e \in SEs : realtime[e] = {} <=> emitted.realtime[e] = {}
         /\ Sampled(realtime) = Sampled(emitted.realtime)
         /\ \A w \in Listed : entry[w] = emitted.entry[w] + Move(SE[w]) /\ entry[w] \in Int
                              /\ offset[w] = Move(SE[w]) /\ emitted.entry[w] \in Int
<1> USE ShapeAssumption DEF IInv, Placed
<1>1. \A e \in SEs : Move(e) \in Nat
  BY DeltaIs DEF Move, EmittedShape
<1>2. \A w \in Waves : entry[w] = None <=> emitted.entry[w] = None
  <2> TAKE w \in Waves
  <2>1. CASE emitted.entry[w] = None BY <2>1
  <2>2. CASE emitted.entry[w] # None
    <3>1. entry[w] = emitted.entry[w] + Move(SE[w]) BY <2>2
    <3>2. emitted.entry[w] \in Int /\ Move(SE[w]) \in Int BY <1>1, <2>2, EmittedIs
    <3> QED BY <2>2, <3>1, <3>2
  <2> QED BY <2>1, <2>2
<1>3. Listed = {w \in Waves : emitted.entry[w] # None}
  BY <1>2 DEF Listed
<1>4. \A e \in SEs : realtime[e] = {} <=> emitted.realtime[e] = {}
  <2>1. \A e \in SEs : realtime[e] = MovedBy(Move(e), emitted.realtime[e])
    OBVIOUS
  <2> QED BY <2>1, MovedNone
<1>5. Sampled(realtime) = Sampled(emitted.realtime)
  BY <1>4, SMTT(30) DEF Sampled
<1>6. \A w \in Listed : entry[w] = emitted.entry[w] + Move(SE[w]) /\ entry[w] \in Int
                        /\ offset[w] = Move(SE[w]) /\ emitted.entry[w] \in Int
  <2> TAKE w \in Listed
  <2>1. w \in Waves /\ emitted.entry[w] # None BY <1>3
  <2>2. emitted.entry[w] \in Int /\ Move(SE[w]) \in Int BY <1>1, <2>1, EmittedIs
  <2> QED BY <2>1, <2>2
<1> QED BY <1>1, <1>3, <1>4, <1>5, <1>6

(* Before the alignment the state is what the emitters left. *)
LEMMA NotMoved ==
  ASSUME IInv, phase # "aligned"
  PROVE  realtime = emitted.realtime /\ events = emitted.events /\ entry = emitted.entry
         /\ offset = [w \in Waves |-> 0]
<1> USE ShapeAssumption DEF IInv, EmittedShape
<1>1. \A e : Move(e) = 0
  BY DEF Move
<1>2. \A e \in SEs : MovedBy(0, emitted.realtime[e]) = emitted.realtime[e]
  BY EmittedIs, NotMovedBy
<1>3. \A e \in SEs : {t + 0 : t \in emitted.events[e]} = emitted.events[e]
  BY EmittedIs
<1>4. \A w \in Waves : emitted.entry[w] # None => emitted.entry[w] + 0 = emitted.entry[w]
  BY EmittedIs
<1>5. realtime = [e \in SEs |-> MovedBy(0, emitted.realtime[e])] /\ events = [e \in SEs |-> {t + 0 : t \in emitted.events[e]}]
  BY <1>1 DEF Placed
<1>6. realtime = emitted.realtime /\ events = emitted.events
  <2>1. emitted.realtime = [e \in SEs |-> emitted.realtime[e]]
        /\ emitted.events = [e \in SEs |-> emitted.events[e]]
    OBVIOUS
  <2> HIDE DEF IInv, EmittedShape
  <2>2. realtime = [e \in SEs |-> emitted.realtime[e]] /\ events = [e \in SEs |-> emitted.events[e]]
    BY <1>2, <1>3, <1>5
  <2> QED BY <2>1, <2>2
<1>7. entry = emitted.entry /\ offset = [w \in Waves |-> 0]
  <2>1. emitted.entry = [w \in Waves |-> emitted.entry[w]]
    OBVIOUS
  <2>2. entry = [w \in Waves |-> IF emitted.entry[w] = None THEN None ELSE emitted.entry[w] + 0]
        /\ offset = [w \in Waves |-> IF emitted.entry[w] = None THEN 0 ELSE 0]
    BY <1>1 DEF Placed
  <2> HIDE DEF IInv, EmittedShape
  <2> QED BY <1>4, <2>1, <2>2
<1> QED BY <1>6, <1>7

(* What applyRealtimeAlignment does when it does not refuse. *)
LEMMA AlignStep ==
  ASSUME IInv, phase = "emitted", Alignable, Moved(Offsets(realtime)), phase' = "aligned",
         UNCHANGED <<cache, emitted>>
  PROVE  IInv'
<1> DEFINE rt == emitted.realtime
           off == Offsets(rt)
<1> USE ShapeAssumption DEF IInv
<1>0. realtime = rt /\ events = emitted.events /\ entry = emitted.entry /\ offset = [w \in Waves |-> 0]
  BY NotMoved
<1>1. EmittedShape' /\ rt \in [SEs -> Recordings]
  BY DEF EmittedShape
<1>2. \A e \in SEs : By(off, e) = Delta(rt, e) /\ Move(e)' = Delta(rt, e) /\ Delta(rt, e) \in Nat
  BY <1>1, DeltaIs DEF By, Offsets, Delta, Move
<1>3. Placed'
  <2>1. realtime' = [e \in SEs |-> {<<s[1] + By(off, e), s[2]>> : s \in rt[e]}]
        /\ events' = [e \in SEs |-> {t + By(off, e) : t \in emitted.events[e]}]
    <3>1. Moved(off)
      BY <1>0
    <3>2. realtime' = [e \in SEs |-> {<<s[1] + By(off, e), s[2]>> : s \in realtime[e]}]
          /\ events' = [e \in SEs |-> {t + By(off, e) : t \in events[e]}]
      BY <3>1, Zenon DEF Moved, By
    <3> QED BY <1>0, <3>2, Zenon
  <2>2. entry' = [w \in Waves |-> IF w \in Listed THEN entry[w] + By(off, SE[w]) ELSE None]
        /\ offset' = [w \in Waves |-> IF w \in Listed THEN offset[w] + By(off, SE[w]) ELSE offset[w]]
    <3>1. Moved(off)
      BY <1>0
    <3> QED BY <3>1, Zenon DEF Moved, By
  <2> HIDE DEF rt, off
  <2>3. realtime' = [e \in SEs |-> MovedBy(Move(e)', rt[e])]
        /\ events' = [e \in SEs |-> {t + Move(e)' : t \in emitted.events[e]}]
    BY <1>2, <2>1 DEF MovedBy
  <2>4. \A w \in Waves : (w \in Listed <=> emitted.entry[w] # None) /\ offset[w] = 0 /\ entry[w] = emitted.entry[w]
                         /\ By(off, SE[w]) = Move(SE[w])' /\ By(off, SE[w]) \in Nat
    BY <1>0, <1>2 DEF Listed
  <2>5. entry' = [w \in Waves |-> IF emitted.entry[w] = None THEN None
                                                            ELSE emitted.entry[w] + Move(SE[w])']
    BY <2>2, <2>4
  <2>6. offset' = [w \in Waves |-> IF emitted.entry[w] = None THEN 0 ELSE Move(SE[w])']
    BY <2>2, <2>4
  <2>7. states' = emitted.states
    <3>1. states' = states BY DEF Moved
    <3> QED BY <3>1 DEF Placed
  <2> QED BY <2>3, <2>5, <2>6, <2>7 DEF Placed, rt
<1>4. Recorded'
  <2> DEFINE E(i) == Entries(i)
             f(i) == [w \in E(i) |-> By(off, SE[w])]
             sum(i) == SumOver(f(i), E(i))
  <2>1. DOMAIN record' = Ids /\ \A i \in Ids : record'[i] = IF record[i] = None THEN None ELSE record[i] + sum(i)
    BY <1>0, RecordsMove
  <2>2. ASSUME NEW i \in Ids PROVE IsFiniteSet(E(i)) /\ sum(i) \in Nat
    <3>1. IsFiniteSet(E(i))
      BY FS_Subset DEF Entries, Listed
    <3>2. \A w \in E(i) : f(i)[w] \in Nat
      BY <1>2 DEF Entries, Listed
    <3>3. SumOver(f(i), E(i)) \in Nat
      <4> HIDE DEF E, f
      <4> QED BY <3>1, <3>2, SumBounds
    <3> QED BY <3>1, <3>3
  <2>3. Listed' = Listed /\ \A w \in Listed : entry'[w] = entry[w] + By(off, SE[w]) /\ entry[w] \in Int
    <3>1. \A w \in Waves : w \in Listed => entry'[w] = entry[w] + By(off, SE[w]) /\ entry[w] \in Int /\ entry'[w] \in Int
      <4>1. entry' = [w \in Waves |-> IF w \in Listed THEN entry[w] + By(off, SE[w]) ELSE None]
        BY <1>0 DEF Moved, By
      <4>2. \A w \in Waves : w \in Listed => entry[w] \in Int /\ By(off, SE[w]) \in Int
        BY <1>0, <1>2, EmittedIs DEF Listed
      <4> QED BY <4>1, <4>2
    <3>2. \A w \in Waves : w \notin Listed => entry'[w] = None
      BY DEF Moved
    <3> QED BY <3>1, <3>2 DEF Listed
  <2>4. record \in [Ids -> Int \cup {None}] /\ \A w \in Listed \cap Decoded : record[Id[w]] = entry[w]
    BY DEF Recorded
  <2>5. \A w \in Waves : Id[w] \in Ids
    BY DEF Ids
  <2>6. ASSUME NEW i \in Ids PROVE record'[i] \in Int \cup {None} /\ (record[i] # None => record'[i] # None)
    <3> HIDE DEF sum
    <3> QED BY <2>1, <2>2, <2>4
  <2>7. ASSUME NEW w \in Listed \cap Decoded, Alone(w) PROVE record'[Id[w]] = entry'[w]
    <3>1. E(Id[w]) = {w}
      BY <2>7 DEF Alone, Entries
    <3>2. sum(Id[w]) = By(off, SE[w])
      <4>1. IsFiniteSet({w}) /\ {w} \ {w} = {}
        BY FS_Singleton
      <4>2. \A v \in {w} : f(Id[w])[v] = By(off, SE[w]) /\ f(Id[w])[v] \in Int
        BY <1>2, <3>1 DEF Listed
      <4>3. SumOver(f(Id[w]), {w}) = f(Id[w])[w] + SumOver(f(Id[w]), {w} \ {w})
        <5> HIDE DEF f
        <5> QED BY <4>1, <4>2, SumWithout
      <4>4. SumOver(f(Id[w]), {w} \ {w}) = 0
        BY <4>1, SumEmpty, Zenon
      <4> QED BY <3>1, <4>2, <4>3, <4>4
    <3> HIDE DEF sum
    <3>3. w \in Waves /\ w \in Listed
      BY DEF Listed
    <3> QED BY <2>1, <2>3, <2>4, <2>5, <3>2, <3>3
  <2>8. \A w \in Listed \cap Decoded : record[Id[w]] # None
    BY DEF Recorded
  <2>9. \A w \in Listed : Alone(w)' => Alone(w)
    BY <2>3 DEF Alone
  <2>10. record' \in [Ids -> Int \cup {None}]
    <3>1. record' = [i \in Ids |-> record'[i]]
      BY <2>1 DEF Moved
    <3> QED BY <2>6, <3>1
  <2>11. \A w \in Listed' \cap Decoded : record'[Id[w]] # None
    BY <2>3, <2>5, <2>6, <2>8 DEF Listed
  <2>12. \A w \in Listed' \cap Decoded : Alone(w)' => record'[Id[w]] = entry'[w]
    BY <2>3, <2>7, <2>9
  <2> QED BY <2>10, <2>11, <2>12 DEF Recorded
<1>5. Complete'
  <2>1. Cardinality(Sampled(rt)) > 1 /\ Required \subseteq Sampled(rt)
    BY <1>0 DEF Alignable
  <2>2. Sampled(rt) # {}
    BY <2>1, FS_EmptySet
  <2>3. \A e \in SEs : emitted.events[e] # {} => rt[e] # {}
    BY <1>0, <2>1 DEF Required, Sampled
  <2>4. \A w \in Waves : emitted.entry[w] # None => rt[SE[w]] # {}
    BY <1>0, <2>1 DEF Required, Sampled, Listed
  <2> QED BY <2>2, <2>3, <2>4 DEF Complete
<1>6. Cached'
  BY DEF Cached
<1> QED BY <1>1, <1>3, <1>4, <1>5, <1>6

(* Two places with one cache key read one wave. *)
LEMMA OneKeyOneRead ==
  ASSUME NEW v \in Waves, NEW w \in Waves, KeyOf(v) = KeyOf(w)
  PROVE  Read(v) = Read(w)
<1>1. Id[v] = Id[w]
  BY DEF KeyOf
<1>2. v \in Decoded <=> w \in Decoded
  BY <1>1, ShapeAssumption
<1>3. CASE w \in Decoded
  BY <1>1, <1>2, <1>3 DEF Read
<1>4. CASE w \notin Decoded
  <2>1. v = w
    BY <1>1, <1>2, <1>4, ShapeAssumption
  <2> QED BY <2>1
<1> QED BY <1>3, <1>4

(* What the cache serves is what a read returns. *)
LEMMA ServedIsRead ==
  ASSUME IInv, NEW w \in Listed
  PROVE  Served(w) = Read(w)
<1>1. CASE \E c \in cache : c[1] = KeyOf(w)
  <2> DEFINE c == CHOOSE c \in cache : c[1] = KeyOf(w)
  <2>1. c \in cache /\ c[1] = KeyOf(w)
    BY <1>1
  <2>2. PICK v \in Listed : c = <<KeyOf(v), Read(v)>>
    BY <2>1 DEF IInv, Cached
  <2>3. Read(v) = Read(w)
    BY <2>1, <2>2, OneKeyOneRead DEF Listed
  <2>4. Served(w) = c[2]
    BY <1>1 DEF Served
  <2> HIDE DEF c
  <2> QED BY <2>2, <2>3, <2>4
<1>2. CASE ~\E c \in cache : c[1] = KeyOf(w)
  BY <1>2 DEF Served
<1> QED BY <1>1, <1>2

(* IInv is inductive. *)
LEMMA StepIInv == IInv /\ [Next]_vars => IInv'
<1> SUFFICES ASSUME IInv, [Next]_vars PROVE IInv'
  OBVIOUS
<1>1. CASE Align
  <2>1. CASE Alignable /\ Moved(Offsets(realtime)) /\ phase' = "aligned"
    BY <1>1, <2>1, AlignStep DEF Align
  <2>2. CASE phase' = "refused" /\ UNCHANGED <<realtime, events, states, entry, offset, record>>
    <3>1. phase = "emitted" /\ UNCHANGED <<cache, emitted>>
      BY <1>1 DEF Align
    <3>2. \A e : Move(e) = 0 /\ Move(e)' = 0
      BY <2>2, <3>1 DEF Move
    <3>3. Placed'
      BY <2>2, <3>1, <3>2 DEF IInv, Placed
    <3>4. Recorded'
      BY <2>2, <3>1 DEF IInv, Recorded, Listed, Alone
    <3> QED BY <2>2, <3>1, <3>3, <3>4 DEF IInv, EmittedShape, Complete, Cached
  <2> QED BY <1>1, <2>1, <2>2 DEF Align
<1>2. ASSUME NEW w \in Waves, GetWave(w) PROVE IInv'
  <2> USE DEF GetWave
  <2>1. UNCHANGED <<phase, realtime, events, states, entry, offset, record, emitted>>
        /\ cache' = cache \cup {<<KeyOf(w), Served(w)>>} /\ w \in Listed /\ phase # "emitted"
    BY <1>2
  <2>2. Served(w) = Read(w)
    BY <2>1, ServedIsRead
  <2>3. \A v : KeyOf(v)' = KeyOf(v) /\ Read(v)' = Read(v)
    BY <2>1 DEF KeyOf, Read
  <2>4. Listed' = Listed
    BY <2>1 DEF Listed
  <2>5. Cached'
    BY <2>1, <2>2, <2>3, <2>4 DEF IInv, Cached
  <2>6. Placed'
    BY <2>1 DEF IInv, Placed, Move
  <2>7. Recorded'
    BY <2>1 DEF IInv, Recorded, Listed, Alone
  <2> QED BY <2>1, <2>5, <2>6, <2>7 DEF IInv, EmittedShape, Complete
<1>3. CASE UNCHANGED vars
  <2>1. UNCHANGED <<phase, realtime, events, states, entry, offset, record, cache, emitted>>
    BY <1>3 DEF vars
  <2>2. EmittedShape' /\ Placed' /\ Complete'
    BY <2>1 DEF IInv, EmittedShape, Placed, Move, Complete
  <2>3. Recorded'
    BY <2>1 DEF IInv, Recorded, Listed, Alone
  <2>4. Cached'
    BY <2>1 DEF IInv, Cached, Listed, KeyOf, Read
  <2> QED BY <2>1, <2>2, <2>3, <2>4 DEF IInv
<1> QED BY <1>1, <1>2, <1>3 DEF Next

-------------------------------------------------------------------------------
(* Every reachable state has the inductive invariant. *)
THEOREM Invariance == Spec => []IInv
  BY InitIInv, StepIInv, PTL DEF Spec

(* Every clock is a number and every listed wave keeps one. *)
THEOREM TypeCorrect == Spec => []TypeOK
<1>1. IInv => TypeOK
  <2> SUFFICES ASSUME IInv PROVE TypeOK
    OBVIOUS
  <2> USE ShapeAssumption DEF IInv
  <2>1. \A e \in SEs : Move(e) \in Nat
    BY PlacedShape
  <2>2. realtime \in [SEs -> SUBSET (Int \X Int)]
    <3>1. ASSUME NEW e \in SEs PROVE realtime[e] \subseteq Int \X Int
      <4>1. emitted.realtime[e] \in Recordings /\ realtime[e] = MovedBy(Move(e), emitted.realtime[e])
        BY DEF EmittedShape, Placed
      <4>2. \A s \in emitted.realtime[e] : s[1] \in Int /\ s[2] \in Int
        BY <4>1, RecordingShape
      <4> QED BY <2>1, <4>1, <4>2 DEF MovedBy
    <3> QED BY <3>1 DEF Placed
  <2>3. events \in [SEs -> SUBSET Int]
    <3>1. ASSUME NEW e \in SEs PROVE events[e] \subseteq Int
      <4>1. events[e] = {t + Move(e) : t \in emitted.events[e]}
        BY DEF Placed
      <4> QED BY <2>1, <4>1, EmittedIs
    <3> QED BY <3>1 DEF Placed
  <2>4. entry \in [Waves -> Int \cup {None}]
    <3>1. \A w \in Waves : entry[w] \in Int \cup {None}
      BY PlacedShape DEF Listed
    <3> QED BY <3>1 DEF Placed
  <2>5. \A w \in Waves : offset[w] \in Int
    BY <2>1 DEF Placed
  <2>6. offset \in [Waves -> Int]
    BY <2>5 DEF Placed
  <2>7. cache \subseteq (Ids \X Int) \X Int
    <3>1. ASSUME NEW w \in Listed PROVE <<KeyOf(w), Read(w)>> \in (Ids \X Int) \X Int
      <4>1. w \in Waves /\ Id[w] \in Ids /\ offset[w] \in Int /\ emitted.entry[w] \in Int
        BY <2>5, PlacedShape DEF Listed, Ids
      <4>2. KeyOf(w) \in Ids \X Int
        BY <4>1 DEF KeyOf
      <4>3. Read(w) \in Int
        BY <4>1 DEF Read, Recorded
      <4> QED BY <4>2, <4>3
    <3> QED BY <3>1 DEF Cached
  <2>8. states \subseteq Int
    BY DEF EmittedShape, Placed
  <2> QED BY <2>2, <2>3, <2>4, <2>6, <2>7, <2>8 DEF TypeOK, Recorded
<1> QED BY <1>1, Invariance, PTL

(* How far an engine's records were moved is how far the engine was. *)
LEMMA ShiftIsMove ==
  ASSUME IInv, NEW e \in SEs
  PROVE  Shift(e) = Move(e)
<1>1. realtime[e] = MovedBy(Move(e), emitted.realtime[e]) /\ emitted.realtime[e] \in Recordings
  BY DEF IInv, Placed, EmittedShape
<1>2. Move(e) \in Nat /\ (realtime[e] = {} <=> emitted.realtime[e] = {})
  BY PlacedShape
<1>3. CASE emitted.realtime[e] = {}
  BY <1>2, <1>3 DEF Shift, Move, Delta, Sampled
<1>4. CASE emitted.realtime[e] # {}
  <2>1. First(realtime[e]) = <<First(emitted.realtime[e])[1] + Move(e), First(emitted.realtime[e])[2]>>
    BY <1>1, <1>2, <1>4, FirstMoves
  <2>2. First(emitted.realtime[e])[1] \in Int
    BY <1>1, <1>4, FirstIs, RecordingShape
  <2> QED BY <1>2, <1>4, <2>1, <2>2 DEF Shift
<1> QED BY <1>3, <1>4

(* An engine's entries and records are moved by what its REALTIME records *)
(* are, a wave is served where it is listed, and the wave states are left *)
(* behind.                                                                *)
THEOREM EngineOnOneClock == Spec => []OneClock
<1>1. IInv => OneClock
  <2> SUFFICES ASSUME IInv PROVE OneClock
    OBVIOUS
  <2>1. \A e \in SEs : events[e] = {t + Shift(e) : t \in emitted.events[e]}
    BY ShiftIsMove DEF IInv, Placed
  <2>2. \A w \in Listed : entry[w] = emitted.entry[w] + Shift(SE[w])
    BY ShiftIsMove, PlacedShape, ShapeAssumption DEF Listed
  <2>3. ASSUME NEW w \in Listed, Alone(w) PROVE Served(w) = entry[w]
    <3>1. Served(w) = Read(w)
      BY ServedIsRead
    <3>2. CASE w \in Decoded
      BY <2>3, <3>1, <3>2 DEF Read, IInv, Recorded
    <3>3. CASE w \notin Decoded
      BY <3>1, <3>3, PlacedShape DEF Read
    <3> QED BY <3>2, <3>3
  <2>4. states = emitted.states
    BY DEF IInv, Placed
  <2> QED BY <2>1, <2>2, <2>3, <2>4 DEF OneClock
<1> QED BY <1>1, Invariance, PTL

(* No engine is left behind, none moves back, and one stays. *)
THEOREM NoEngineLeft == Spec => []AllOrNothing
<1>1. IInv => AllOrNothing
  <2> SUFFICES ASSUME IInv PROVE AllOrNothing
    OBVIOUS
  <2>1. CASE phase # "aligned"
    BY <2>1, ShiftIsMove DEF AllOrNothing, Move
  <2>2. CASE phase = "aligned"
    <3>1. \A e \in SEs : Shift(e) >= 0
      BY ShiftIsMove, PlacedShape
    <3>2. \E e \in Sampled(realtime) : Shift(e) = 0
      <4>1. emitted.realtime \in [SEs -> Recordings] /\ Sampled(emitted.realtime) # {}
        BY <2>2 DEF IInv, EmittedShape, Complete
      <4>2. PICK e \in Sampled(emitted.realtime) : Delta(emitted.realtime, e) = 0
        BY <4>1, DeltaIs
      <4>3. e \in SEs /\ e \in Sampled(realtime)
        BY PlacedShape DEF Sampled
      <4>4. Shift(e) = 0
        BY <2>2, <4>2, <4>3, ShiftIsMove DEF Move
      <4> QED BY <4>3, <4>4
    <3>3. /\ \A e \in SEs : emitted.events[e] # {} => realtime[e] # {}
          /\ \A w \in Waves : emitted.entry[w] # None => realtime[SE[w]] # {}
      BY <2>2, PlacedShape, ShapeAssumption DEF IInv, Complete
    <3> QED BY <3>1, <3>2, <3>3 DEF AllOrNothing
  <2> QED BY <2>1, <2>2
<1> QED BY <1>1, Invariance, PTL

(* After the alignment the engines agree on the time to less than a cycle. *)
THEOREM EnginesAgree == Spec => []SameMoment
<1>1. IInv => SameMoment
  <2> DEFINE rt == emitted.realtime
             k == DeltaRealtime(rt)
             scale == DeltaShader(rt)
             a == AnchorOrigin(rt)
             x(e) == First(rt[e])[1]
             y(e) == First(rt[e])[2]
             m(e) == Delta(rt, e)
  <2> SUFFICES ASSUME IInv, phase = "aligned", NEW d \in Sampled(realtime), NEW e \in Sampled(realtime)
               PROVE  LET apart == (First(realtime[d])[1] - First(realtime[e])[1]) * k
                                     - (First(realtime[d])[2] - First(realtime[e])[2]) * scale
                      IN  -k < apart /\ apart < k
    BY DEF SameMoment
  <2>1. d \in Sampled(rt) /\ e \in Sampled(rt) /\ rt \in [SEs -> Recordings]
    BY PlacedShape DEF IInv, EmittedShape
  <2>2. k \in Nat \ {0} /\ scale \in Int /\ a \in Int
    BY <2>1, RatioType, AnchorIs
  <2>3. ASSUME NEW c \in Sampled(rt)
        PROVE  /\ First(realtime[c])[1] = x(c) + m(c) /\ First(realtime[c])[2] = y(c)
               /\ x(c) \in Int /\ y(c) \in Int /\ m(c) \in Int
               /\ \E r \in 0 .. k - 1 : m(c) * k = (y(c) * scale - x(c) * k) - a - r
    <3>1. c \in SEs /\ rt[c] # {} /\ rt[c] \in Recordings
      BY <2>1 DEF Sampled
    <3>2. realtime[c] = MovedBy(m(c), rt[c])
      BY <3>1 DEF IInv, Placed, Move
    <3>3. m(c) \in Int
      BY <2>1, <3>1, DeltaIs
    <3>4. First(realtime[c]) = <<x(c) + m(c), y(c)>>
      BY <3>1, <3>2, <3>3, FirstMoves
    <3>5. x(c) \in Int /\ y(c) \in Int /\ Origin(rt, c) = y(c) * scale - x(c) * k
      BY <2>1, OriginIs
    <3>6. \E r \in 0 .. k - 1 : m(c) * k = Origin(rt, c) - a - r
      BY <2>1, DeltaIs
    <3>7. \E r \in 0 .. k - 1 : m(c) * k = (y(c) * scale - x(c) * k) - a - r
      BY <3>5, <3>6, Zenon
    <3> HIDE DEF x, y, m, rt, k, a, scale
    <3> QED BY <3>3, <3>4, <3>5, <3>7
  <2> HIDE DEF x, y, m, rt, k, a, scale
  <2>4. PICK rd \in 0 .. k - 1 : m(d) * k = (y(d) * scale - x(d) * k) - a - rd
    BY <2>1, <2>3
  <2>5. PICK re \in 0 .. k - 1 : m(e) * k = (y(e) * scale - x(e) * k) - a - re
    BY <2>1, <2>3
  <2>6. ((x(d) + m(d)) - (x(e) + m(e))) * k - (y(d) - y(e)) * scale = re - rd
    <3>1. /\ x(d) \in Int /\ y(d) \in Int /\ m(d) \in Int /\ x(e) \in Int /\ y(e) \in Int /\ m(e) \in Int
          /\ k \in Int /\ scale \in Int /\ a \in Int /\ rd \in Int /\ re \in Int
      BY <2>1, <2>2, <2>3
    <3> DEFINE x1 == x(d)
               y1 == y(d)
               m1 == m(d)
               x2 == x(e)
               y2 == y(e)
               m2 == m(e)
    <3>2. m1 * k = (y1 * scale - x1 * k) - a - rd /\ m2 * k = (y2 * scale - x2 * k) - a - re
      BY <2>4, <2>5
    <3>3. /\ x1 \in Int /\ y1 \in Int /\ m1 \in Int /\ x2 \in Int /\ y2 \in Int /\ m2 \in Int
          /\ k \in Int /\ scale \in Int /\ a \in Int /\ rd \in Int /\ re \in Int
      BY <3>1
    <3> HIDE DEF x1, y1, m1, x2, y2, m2
    <3>4. ((x1 + m1) - (x2 + m2)) * k = x1 * k + m1 * k - x2 * k - m2 * k
      BY ONLY <3>3
    <3>5. (y1 - y2) * scale = y1 * scale - y2 * scale
      BY ONLY <3>3
    <3>6. x1 * k \in Int /\ x2 * k \in Int /\ m1 * k \in Int /\ m2 * k \in Int
          /\ y1 * scale \in Int /\ y2 * scale \in Int
      BY ONLY <3>3
    <3>7. ((x1 + m1) - (x2 + m2)) * k - (y1 - y2) * scale = re - rd
      BY ONLY <3>2, <3>3, <3>4, <3>5, <3>6
    <3> QED BY <3>7 DEF x1, y1, m1, x2, y2, m2
  <2>7. -k < re - rd /\ re - rd < k
    BY <2>2
  <2>8. (First(realtime[d])[1] - First(realtime[e])[1]) * k
          - (First(realtime[d])[2] - First(realtime[e])[2]) * scale = re - rd
    BY <2>1, <2>3, <2>6
  <2> QED BY <2>7, <2>8
<1> QED BY <1>1, Invariance, PTL
================================================================================
