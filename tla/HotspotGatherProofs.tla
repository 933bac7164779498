------------------------- MODULE HotspotGatherProofs -------------------------
(***************************************************************************)
(* Proofs about HotspotGather, for any waves, any number of entries in     *)
(* range and any number of gathers: the ring of futures bounds the threads *)
(* and waits for them before the view they add to is deleted; the type of  *)
(* a line settles and no cached wave knows better; and the histogram has   *)
(* the cycles of every wave that could be loaded, once.                    *)
(*                                                                         *)
(* Given says which thread is where with what.  Known says it of the types *)
(* for the tokens a thread has been through, and is kept because a type    *)
(* only grows (GrowsTo), whoever changes it.  Counted has the bins as the  *)
(* sum over the cells that the threads have added so far; each addition is *)
(* one step, so a cell is added to one bin once.                           *)
(***************************************************************************)
EXTENDS HotspotGather, FoldLemmas

Places == 0 .. RingSize - 1
Steps == {"off", "start", "look", "load", "type", "weak", "insert", "add", "done"}

(* The types that the ring and the threads need. *)
RingTypes ==
  /\ range \subseteq Entries /\ launched \in Nat /\ view \in Nat
  /\ ring \in [Places -> Entries \cup {None}] /\ replaced \in Entries \cup {None}
  /\ pc \in [Entries -> Steps] /\ target \in [Entries -> Nat]

(* The main thread holds a future for each running thread. *)
Held ==
  \A e \in Running : replaced = e \/ \E i \in Places : ring[i] = e

IInv == RingTypes /\ Held /\ ViewAlive

(* The entries are numbered from one, and None is none of them. *)
LEMMA NoneIsNone == None \notin Entries
<1>1. Entries = 1 .. Len(KeyOf) /\ Len(KeyOf) \in Nat
  BY GatherAssumption DEF Entries
<1> QED BY <1>1 DEF None

(* Every place that Launch chooses is one of the ring's. *)
LEMMA PlaceInRing == ASSUME RingTypes PROVE launched % RingSize \in Places
BY GatherAssumption, SMT DEF RingTypes, Places

(* When the process starts no thread runs. *)
LEMMA InitIInv == Init => IInv
BY GatherAssumption, SMT
DEF Init, IInv, RingTypes, Held, ViewAlive, Running, Steps, Places, None

(* A step of a thread changes no future and no view, and starts no thread. *)
LEMMA PreloadIInv ==
  ASSUME IInv, NEW e \in Entries, Preload(e)
  PROVE  IInv'
<1>1. /\ UNCHANGED <<main, range, launched, view, ring, replaced, target>>
      /\ pc' \in [Entries -> Steps]
      /\ Running' \subseteq Running
  <2> USE DEF IInv, RingTypes, Steps, Running
  <2>1. CASE LockShared(e) BY <2>1 DEF LockShared
  <2>2. CASE Look(e) BY <2>2 DEF Look
  <2>3. CASE Load(e) BY <2>3 DEF Load, shared
  <2>4. CASE CompareZero(e) BY <2>4 DEF CompareZero, NextToken
  <2>5. CASE CompareWeak(e) BY <2>5 DEF CompareWeak, NextToken
  <2>6. CASE Populated(e) BY <2>6 DEF Populated, shared
  <2>7. CASE Insert(e) BY <2>7 DEF Insert
  <2>8. CASE Add(e) BY <2>8 DEF Add
  <2> QED BY <2>1, <2>2, <2>3, <2>4, <2>5, <2>6, <2>7, <2>8 DEF Preload
<1> QED BY <1>1 DEF IInv, RingTypes, Held, ViewAlive

(* The new thread is in the ring, the one it replaces is waited for before *)
(* the next is started, and the one replaced before has ended.             *)
LEMMA LaunchIInv == ASSUME IInv, Launch PROVE IInv'
<1> DEFINE i == launched % RingSize
<1>0. i \in Places
  BY PlaceInRing DEF IInv
<1>1. next \in Entries /\ main = "launch"
  BY DEF Launch, IInv, RingTypes
<1>2. /\ pc' = [pc EXCEPT ![next] = "start"] /\ target' = [target EXCEPT ![next] = view]
      /\ ring' = [ring EXCEPT ![i] = next] /\ replaced' = ring[i]
      /\ UNCHANGED <<main, range, view>> /\ launched' = launched + 1
      /\ replaced # None => pc[replaced] = "done"
  BY DEF Launch
<1> HIDE DEF i
<1>3. Running' \subseteq Running \cup {next}
  BY <1>1, <1>2 DEF Running, IInv, RingTypes
<1>4. RingTypes'
  BY <1>0, <1>1, <1>2 DEF IInv, RingTypes, Steps
<1>5. \A e \in Running : replaced # e
  BY <1>2, NoneIsNone DEF Running
<1>6. Held'
  <2> SUFFICES ASSUME NEW e \in Running'
               PROVE  replaced' = e \/ \E j \in Places : ring'[j] = e
    BY DEF Held
  <2>1. CASE e = next
    BY <2>1, <1>0, <1>2 DEF IInv, RingTypes
  <2>2. CASE e # next
    <3>1. PICK j \in Places : ring[j] = e
      BY <2>2, <1>3, <1>5 DEF IInv, Held
    <3>2. CASE j = i
      BY <3>1, <3>2, <1>2
    <3>3. CASE j # i
      BY <3>1, <3>3, <1>2 DEF IInv, RingTypes
    <3> QED BY <3>2, <3>3
  <2> QED BY <2>1, <2>2
<1>7. ViewAlive'
  BY <1>1, <1>2, <1>3 DEF IInv, RingTypes, ViewAlive, Running
<1> QED BY <1>4, <1>6, <1>7 DEF IInv

(* The block is left when no thread runs: each is held and has ended. *)
LEMMA JoinIInv == ASSUME IInv, JoinAll PROVE IInv'
<1>1. Running = {}
  BY NoneIsNone DEF IInv, RingTypes, Held, Running, JoinAll, Places
<1>2. UNCHANGED <<range, launched, view, ring, replaced, pc, target>>
  BY DEF JoinAll, threads
<1>3. Running' = {}
  BY <1>1, <1>2 DEF Running
<1> QED BY <1>2, <1>3 DEF IInv, RingTypes, Held, ViewAlive

(* The steps of the main thread outside the loop find no thread running. *)
LEMMA MainIInv ==
  ASSUME IInv, PassOver \/ Draw \/ InvalidadeCache \/ \E inRange \in SUBSET Entries : Gather(inRange)
  PROVE  IInv'
<1>1. CASE PassOver
  BY <1>1 DEF PassOver, threads, IInv, RingTypes, Held, ViewAlive, Running
<1>2. CASE Draw
  <2>1. /\ UNCHANGED <<range, launched, view, ring, replaced, pc, target>>
        /\ main = "draw"
    BY <1>2 DEF Draw, threads
  <2> QED BY <2>1 DEF IInv, RingTypes, Held, ViewAlive, Running
<1>3. CASE InvalidadeCache
  BY <1>3 DEF InvalidadeCache, threads, IInv, RingTypes, Held, ViewAlive, Running
<1>4. CASE \E inRange \in SUBSET Entries : Gather(inRange)
  BY <1>4 DEF Gather, IInv, RingTypes, Held, ViewAlive, Running, Steps, Places, None
<1> QED BY <1>1, <1>2, <1>3, <1>4

(* Every step keeps the invariant. *)
LEMMA NextIInv == IInv /\ [Next]_vars => IInv'
<1> SUFFICES ASSUME IInv, [Next]_vars PROVE IInv'
  OBVIOUS
<1>1. CASE \E e \in Entries : Preload(e)
  BY <1>1, PreloadIInv
<1>2. CASE Launch
  BY <1>2, LaunchIInv
<1>3. CASE JoinAll
  BY <1>3, JoinIInv
<1>4. CASE PassOver \/ Draw \/ InvalidadeCache \/ \E inRange \in SUBSET Entries : Gather(inRange)
  BY <1>4, MainIInv
<1>5. CASE UNCHANGED vars
  BY <1>5 DEF vars, threads, IInv, RingTypes, Held, ViewAlive, Running
<1> QED BY <1>1, <1>2, <1>3, <1>4, <1>5 DEF Next, Main

(* The ring, the threads and the view agree at all times. *)
LEMMA Invariant == Spec => []IInv
BY InitIInv, NextIInv, PTL DEF Spec

(* The view that GatherWaves deletes is never one that a thread still adds *)
(* to: the block of the futures is left only when all have ended.          *)
THEOREM ViewOutlivesThreads == Spec => []ViewAlive
<1>1. IInv => ViewAlive
  BY DEF IInv
<1> QED BY <1>1, Invariant, PTL

(* The running threads are among those of the futures held. *)
LEMMA HeldBounds == ASSUME IInv PROVE RingBounded
<1> DEFINE future == [n \in 1 .. RingSize + 1 |-> IF n = RingSize + 1 THEN replaced ELSE ring[n - 1]]
           held == {future[n] : n \in 1 .. RingSize + 1}
<1>1. Running \subseteq held
  <2> SUFFICES ASSUME NEW e \in Running PROVE \E n \in 1 .. RingSize + 1 : future[n] = e
    OBVIOUS
  <2>1. CASE replaced = e
    <3>1. RingSize + 1 \in 1 .. RingSize + 1
      BY GatherAssumption
    <3> QED BY <2>1, <3>1
  <2>2. CASE \E i \in Places : ring[i] = e
    <3>1. PICK i \in Places : ring[i] = e
      BY <2>2
    <3>2. i + 1 \in 1 .. RingSize + 1 /\ i + 1 # RingSize + 1 /\ (i + 1) - 1 = i
      BY GatherAssumption DEF Places
    <3> QED BY <3>1, <3>2
  <2> QED BY <2>1, <2>2 DEF IInv, Held
<1>2. future \in Surjection(1 .. RingSize + 1, held)
  BY DEF Surjection
<1>3. IsFiniteSet(1 .. RingSize + 1) /\ Cardinality(1 .. RingSize + 1) = RingSize + 1
  BY FS_Interval, GatherAssumption
<1>4. IsFiniteSet(held) /\ Cardinality(held) <= RingSize + 1
  BY <1>2, <1>3, FS_Surjection
<1>5. IsFiniteSet(Running) /\ Cardinality(Running) <= Cardinality(held)
  BY <1>1, <1>4, FS_Subset
<1>6. Cardinality(Running) \in Nat /\ Cardinality(held) \in Nat
  BY <1>4, <1>5, FS_CardinalityType
<1> QED BY <1>4, <1>5, <1>6, GatherAssumption DEF RingBounded

(* No more threads run than there are futures: the ring's and the one that *)
(* is being replaced.                                                      *)
THEOREM NeverTooManyThreads == Spec => []RingBounded
BY HeldBounds, Invariant, PTL
-------------------------------------------------------------------------------
(* The types of the lines *)

TokenSet == [line : Int, type : 1 .. 15, cycles : Nat]
TypeSet == [DOMAIN Lines -> 0 .. 15]

(* A type changes only while it says nothing or little. *)
GrowsTo(t, u) ==
  \A l \in DOMAIN Lines : u[l] = t[l] \/ (t[l] \in {0, Weak} /\ u[l] # 0)

(* The types know what a token says of its line. *)
Knows(t, tok) ==
  tok.line \in DOMAIN Lines =>
    t[tok.line] # 0 /\ (t[tok.line] = Weak => Typed(tok) = Weak)

(* Growth may go on, and what is known stays known. *)
LEMMA GrowthIs ==
  /\ \A t : GrowsTo(t, t)
  /\ \A t, u, v : GrowsTo(t, u) /\ GrowsTo(u, v) => GrowsTo(t, v)
  /\ \A t, u, tok : GrowsTo(t, u) /\ Knows(t, tok) => Knows(u, tok)
BY DEF GrowsTo, Knows

(* The type that a token has is one of the fifteen. *)
LEMMA TypedIs == ASSUME NEW tok \in TokenSet PROVE Typed(tok) \in 1 .. 15
<1>1. tok.type \in 1 .. 15
  BY DEF TokenSet
<1>2. ASSUME tok.line \in DOMAIN Lines, Lines[tok.line] # 0 PROVE Lines[tok.line] \in 1 .. 15
  BY <1>2, GatherAssumption
<1> QED BY <1>1, <1>2 DEF Typed

(* One token, when no other thread runs. *)
LEMMA SettleIs ==
  ASSUME NEW t \in TypeSet, NEW tok \in TokenSet
  PROVE  Settle(t, tok) \in TypeSet /\ GrowsTo(t, Settle(t, tok)) /\ Knows(Settle(t, tok), tok)
<1>1. Typed(tok) \in 1 .. 15 /\ DOMAIN t = DOMAIN Lines
  BY TypedIs DEF TypeSet
<1>2. CASE tok.line \in DOMAIN t /\ t[tok.line] \in {0, Weak}
  <2>1. Settle(t, tok) = [t EXCEPT ![tok.line] = Typed(tok)]
    BY <1>2 DEF Settle
  <2> QED BY <1>1, <1>2, <2>1 DEF TypeSet, GrowsTo, Knows
<1>3. CASE ~(tok.line \in DOMAIN t /\ t[tok.line] \in {0, Weak})
  <2>1. Settle(t, tok) = t
    BY <1>3 DEF Settle
  <2> QED BY <1>1, <1>3, <2>1 DEF GrowsTo, Knows
<1> QED BY <1>2, <1>3

(* What tokens settle one after the other. *)
Settled(t, s, u, n) ==
  u \in TypeSet /\ GrowsTo(t, u) /\ \A i \in 1 .. n : Knows(u, s[i])

(* One more token: what was settled stays settled, and its type is known. *)
LEMMA SettledStep ==
  ASSUME NEW t, NEW s, NEW u, NEW n \in Nat, Settled(t, s, u, n), s[n + 1] \in TokenSet
  PROVE  Settled(t, s, Settle(u, s[n + 1]), n + 1)
<1> DEFINE v == Settle(u, s[n + 1])
<1>1. v \in TypeSet /\ GrowsTo(u, v) /\ Knows(v, s[n + 1])
  BY SettleIs DEF Settled
<1>2. GrowsTo(t, v)
  BY <1>1, GrowthIs DEF Settled
<1>3. \A i \in 1 .. n : Knows(v, s[i])
  BY <1>1, GrowthIs DEF Settled
<1> HIDE DEF v
<1>4. \A i \in 1 .. n + 1 : i = n + 1 \/ i \in 1 .. n
  OBVIOUS
<1>5. \A i \in 1 .. n + 1 : Knows(v, s[i])
  BY <1>1, <1>3, <1>4
<1>6. Settled(t, s, v, n + 1)
  BY <1>1, <1>2, <1>5 DEF Settled
<1> QED BY <1>6 DEF v

(* The function that the fold over a sequence of tokens is recursive in. *)
Folds(g, t, s) ==
  g = [d \in SUBSET DOMAIN s |-> IF d = {} THEN t ELSE Settle(g[d \ {Max(d)}], s[Max(d)])]

(* It exists. *)
LEMMA FoldsExist ==
  ASSUME NEW t \in TypeSet, NEW s \in Seq(TokenSet)
  PROVE  \E g : Folds(g, t, s)
<1> DEFINE S == DOMAIN s
           p == [d \in SUBSET S |-> Max(d)]
           o == [x \in (SUBSET S) \X TypeSet |-> IF x[1] = {} THEN t ELSE Settle(x[2], s[Max(x[1])])]
<1>1. IsFiniteSet(S) /\ S = 1 .. Len(s) /\ Len(s) \in Nat
  BY FS_Interval
<1>2. \A d \in SUBSET S : d # {} => Max(d) \in d
  BY <1>1, MaxPlace
<1>3. o \in [(SUBSET S) \X TypeSet -> TypeSet]
  <2>1. ASSUME NEW d \in SUBSET S, NEW u \in TypeSet PROVE (IF d = {} THEN t ELSE Settle(u, s[Max(d)])) \in TypeSet
    <3>1. CASE d = {} BY <3>1
    <3>2. CASE d # {}
      <4>1. s[Max(d)] \in TokenSet
        BY <1>1, <1>2, <3>2
      <4> QED BY <3>2, <4>1, SettleIs
    <3> QED BY <3>1, <3>2
  <2> QED BY <2>1
<1>4. \A d \in SUBSET S : d # {} => p[d] \in d
  BY <1>2
<1>5. \E g \in [SUBSET S -> TypeSet] : Recurs(g, S, p, o, t)
  <2> HIDE DEF S, p, o
  <2> QED BY <1>1, <1>3, <1>4, RecursionExists
<1>6. PICK g \in [SUBSET S -> TypeSet] : Recurs(g, S, p, o, t)
  BY <1>5
<1>7. ASSUME NEW d \in SUBSET S
      PROVE  g[d] = IF d = {} THEN t ELSE Settle(g[d \ {Max(d)}], s[Max(d)])
  <2>1. g[d] = IF d = {} THEN t ELSE o[<<d, g[d \ {Max(d)}]>>]
    BY <1>6 DEF Recurs
  <2>2. d # {} => o[<<d, g[d \ {Max(d)}]>>] = Settle(g[d \ {Max(d)}], s[Max(d)])
    <3>1. <<d, g[d \ {Max(d)}]>> \in (SUBSET S) \X TypeSet
      OBVIOUS
    <3> QED BY <3>1
  <2> HIDE DEF o
  <2> QED BY <2>1, <2>2
<1>8. g = [d \in SUBSET S |-> IF d = {} THEN t ELSE Settle(g[d \ {Max(d)}], s[Max(d)])]
  BY <1>7
<1>9. Folds(g, t, s)
  BY <1>8, Zenon DEF Folds
<1> QED BY <1>9

(* All tokens, one after the other. *)
LEMMA SettleAll ==
  ASSUME NEW t \in TypeSet, NEW s \in Seq(TokenSet)
  PROVE  Settled(t, s, FoldLeft(Settle, t, s), Len(s))
<1> DEFINE g == CHOOSE h : Folds(h, t, s)
<1>1. Folds(g, t, s)
  BY FoldsExist
<1>2. FoldLeft(Settle, t, s) = g[DOMAIN s]
  BY Zenon DEF FoldLeft, MapThenFoldSet, Folds
<1> HIDE DEF g
<1>3. Len(s) \in Nat /\ DOMAIN s = 1 .. Len(s)
  OBVIOUS
<1>4. \A d \in SUBSET (1 .. Len(s)) : g[d] = IF d = {} THEN t ELSE Settle(g[d \ {Max(d)}], s[Max(d)])
  <2> DEFINE value(d) == IF d = {} THEN t ELSE Settle(g[d \ {Max(d)}], s[Max(d)])
  <2>1. g = [d \in SUBSET DOMAIN s |-> value(d)]
    BY <1>1, Zenon DEF Folds
  <2> HIDE DEF value
  <2>2. \A d \in SUBSET (1 .. Len(s)) : g[d] = value(d)
    BY <1>3, <2>1
  <2> QED BY <2>2 DEF value
<1> DEFINE true == {n \in Nat : n <= Len(s) => Settled(t, s, g[1 .. n], n)}
<1>5. 0 \in true
  <2>1. 1 .. 0 = {} /\ {} \in SUBSET (1 .. Len(s))
    OBVIOUS
  <2>4. g[{}] = t
    BY <1>4, <2>1
  <2>2. Settled(t, s, t, 0)
    BY GrowthIs DEF Settled
  <2>3. Settled(t, s, g[1 .. 0], 0)
    BY <2>1, <2>2, <2>4
  <2> QED BY <2>3
<1>6. ASSUME NEW n \in Nat, n \in true PROVE n + 1 \in true
  <2> SUFFICES ASSUME n + 1 <= Len(s) PROVE Settled(t, s, g[1 .. n + 1], n + 1)
    OBVIOUS
  <2>1. /\ 1 .. n + 1 \in SUBSET (1 .. Len(s)) /\ 1 .. n + 1 # {}
        /\ Max(1 .. n + 1) = n + 1 /\ (1 .. n + 1) \ {n + 1} = 1 .. n
    BY <1>3, MaxOfFirst
  <2>5. g[1 .. n + 1] = Settle(g[1 .. n], s[n + 1])
    BY <1>4, <2>1
  <2>6. Settled(t, s, g[1 .. n], n) /\ s[n + 1] \in TokenSet
    BY <1>3, <1>6
  <2>7. Settled(t, s, Settle(g[1 .. n], s[n + 1]), n + 1)
    BY <2>6, SettledStep
  <2> QED BY <2>5, <2>7
<1>7. Nat \subseteq true
  <2> HIDE DEF true
  <2> QED BY <1>5, <1>6, Induction
<1>8. Settled(t, s, g[1 .. Len(s)], Len(s))
  BY <1>3, <1>7
<1> QED BY <1>2, <1>3, <1>8
-------------------------------------------------------------------------------
(* The threads and what they were given *)

(* Where the threads are.  A thread is started once, for an entry in range; *)
(* it has a wave only after it was loaded or found, and it has been through *)
(* all of it when it ends.                                                  *)
Given(e) ==
  /\ pc[e] # "off" <=> (e \in range /\ e < next)
  /\ pc[e] \in {"off", "start", "look", "load"} => instance[e] = "none"
  /\ pc[e] \in {"look", "load", "insert"} => at[e] = 1
  /\ pc[e] \in {"type", "weak"} => instance[e] = "wave"
  /\ pc[e] = "weak" => ~Finished(e) /\ Token(e).line \in DOMAIN Lines
                       /\ Typed(Token(e)) # Weak /\ type[Token(e).line] # 0
  /\ (pc[e] = "done" /\ instance[e] = "wave") => Finished(e)

AllGiven ==
  /\ \A e \in Entries : Given(e)
  /\ main # "launch" => \A e \in range : e < next

(* What a thread has been through is known, and what is cached. *)
ThreadKnows(e) ==
  /\ pc[e] \in {"type", "weak"} => \A i \in 1 .. at[e] - 1 : Knows(type, Wave(e)[i])
  /\ (pc[e] = "insert" /\ instance[e] = "wave") => \A i \in DOMAIN Wave(e) : Knows(type, Wave(e)[i])

KeyKnows(k) == cache[k] = "wave" => \A i \in DOMAIN Tokens[k] : Knows(type, Tokens[k][i])

Known ==
  /\ \A e \in Entries : ThreadKnows(e)
  /\ \A k \in Keys : KeyKnows(k)

GInv == IInv /\ TypeOK /\ AllGiven /\ Known

(* The waves are sequences of tokens, and the entries are numbered. *)
LEMMA WavesAre ==
  /\ Entries = 1 .. Len(KeyOf) /\ Len(KeyOf) \in Nat /\ None \notin Entries
  /\ \A e \in Entries : /\ KeyOf[e] \in Keys /\ Wave(e) \in Seq(TokenSet)
                        /\ Len(Wave(e)) \in Nat /\ DOMAIN Wave(e) = 1 .. Len(Wave(e))
  /\ \A k \in Keys : Tokens[k] \in Seq(TokenSet)
<1>1. Entries = 1 .. Len(KeyOf) /\ Len(KeyOf) \in Nat /\ \A e \in Entries : KeyOf[e] \in Keys
  BY GatherAssumption DEF Entries
<1>2. \A k \in Keys : Tokens[k] \in Seq(TokenSet)
  BY GatherAssumption DEF TokenSet
<1>3. \A e \in Entries : Wave(e) \in Seq(TokenSet)
  BY <1>1, <1>2 DEF Wave
<1>4. \A e \in Entries : Len(Wave(e)) \in Nat /\ DOMAIN Wave(e) = 1 .. Len(Wave(e))
  BY <1>3
<1> QED BY <1>1, <1>2, <1>3, <1>4, NoneIsNone

(* A thread that is not at the end of its wave is at one of its tokens. *)
LEMMA TokenIs ==
  ASSUME NEW e \in Entries, at[e] \in 1 .. Len(Wave(e)) + 1, ~Finished(e)
  PROVE  /\ Token(e) \in TokenSet /\ at[e] \in DOMAIN Wave(e) /\ Typed(Token(e)) \in 1 .. 15
         /\ at[e] + 1 \in 1 .. Len(Wave(e)) + 1
<1>1. at[e] \in DOMAIN Wave(e) /\ at[e] + 1 \in 1 .. Len(Wave(e)) + 1
  BY WavesAre DEF Finished
<1>2. Token(e) \in TokenSet
  <2>1. \A i \in DOMAIN Wave(e) : Wave(e)[i] \in TokenSet
    BY WavesAre
  <2> QED BY <1>1, <2>1 DEF Token
<1> QED BY <1>1, <1>2, TypedIs

(* At the start nothing is loaded and nothing is known. *)
LEMMA InitGInv == Init => GInv
<1> SUFFICES ASSUME Init PROVE GInv
  OBVIOUS
<1>1. IInv
  BY InitIInv
<1>2. \A e \in Entries : pc[e] = "off" /\ at[e] = 1 /\ instance[e] = "none"
  BY DEF Init
<1>3. TypeOK
  <2>1. main = "idle" /\ range = {} /\ next = 1 /\ replaced = None /\ launched = 0 /\ gathers = 0 /\ view = 0
        /\ readers = {}
    BY DEF Init
  <2>2. 1 \in 1 .. Len(KeyOf) + 1 /\ 0 \in 0 .. MaxGathers
    BY WavesAre, GatherAssumption
  <2>3. \A e \in Entries : at[e] \in 1 .. Len(Wave(e)) + 1
    BY <1>2, WavesAre
  <2>4. /\ pc \in [Entries -> Steps] /\ at \in [Entries -> Nat] /\ instance \in [Entries -> {"none", "empty", "wave"}]
        /\ target \in [Entries -> Nat] /\ bins \in [Bins -> Nat]
        /\ cache \in [Keys -> {"none", "empty", "wave"}] /\ type \in [DOMAIN Lines -> 0 .. 15]
        /\ ring \in [0 .. RingSize - 1 -> Entries \cup {None}]
    BY DEF Init, Steps
  <2> QED BY <2>1, <2>2, <2>3, <2>4 DEF TypeOK, Steps
<1>4. AllGiven
  BY <1>2 DEF Init, AllGiven, Given
<1>5. Known
  <2>1. \A k \in Keys : cache[k] = "none"
    BY DEF Init
  <2> QED BY <1>2, <2>1 DEF Known, ThreadKnows, KeyKnows
<1> QED BY <1>1, <1>3, <1>4, <1>5 DEF GInv

(* What Draw does to the types and the cache: the waves it loads settle      *)
(* theirs one after the other.                                              *)
LEMMA DrawIs ==
  ASSUME GInv, Draw
  PROVE  /\ type' \in TypeSet /\ GrowsTo(type, type')
         /\ cache' \in [Keys -> {"none", "empty", "wave"}]
         /\ \A k \in Keys : cache'[k] = "wave" /\ cache[k] # "wave" =>
              \A i \in DOMAIN Tokens[k] : Knows(type', Tokens[k][i])
<1>1. PICK got \in [{KeyOf[e] : e \in range} -> Outcomes] :
       LET now == [k \in DOMAIN got |->
                     IF cache[k] = "none" /\ got[k] # "throws" THEN got[k] ELSE cache[k]]
           Read(e) == e \in range /\ cache[KeyOf[e]] = "none" /\ now[KeyOf[e]] = "wave"
       IN
       /\ cache' = [k \in Keys |-> IF k \in DOMAIN now THEN now[k] ELSE cache[k]]
       /\ type' = FoldLeft(Settle, type,
                           FlattenSeq([e \in Entries |-> IF Read(e) THEN Wave(e) ELSE <<>>]))
  BY Zenon DEF Draw
<1> DEFINE now == [k \in DOMAIN got |->
                     IF cache[k] = "none" /\ got[k] # "throws" THEN got[k] ELSE cache[k]]
           Read(e) == e \in range /\ cache[KeyOf[e]] = "none" /\ now[KeyOf[e]] = "wave"
           seqs == [e \in Entries |-> IF Read(e) THEN Wave(e) ELSE <<>>]
           s == FlattenSeq(seqs)
<1>2. cache' = [k \in Keys |-> IF k \in DOMAIN now THEN now[k] ELSE cache[k]]
      /\ type' = FoldLeft(Settle, type, s)
  BY <1>1, Zenon
<1>3. seqs \in Seq(Seq(TokenSet)) /\ Len(seqs) = Len(KeyOf)
  <2> HIDE DEF now
  <2>1. \A e \in Entries : seqs[e] \in Seq(TokenSet)
    <3> TAKE e \in Entries
    <3>1. Wave(e) \in Seq(TokenSet) /\ <<>> \in Seq(TokenSet)
      BY WavesAre
    <3> QED BY <3>1
  <2>2. Entries = 1 .. Len(KeyOf) /\ Len(KeyOf) \in Nat
    BY WavesAre
  <2>3. seqs = [e \in 1 .. Len(KeyOf) |-> seqs[e]]
    BY <2>2
  <2> HIDE DEF seqs
  <2> QED BY <2>1, <2>2, <2>3
<1>4. Flat(s, seqs, Len(seqs), TokenSet)
  <2> HIDE DEF seqs
  <2> QED BY <1>3, FlattenIs
<1>5. type \in TypeSet
  BY DEF GInv, TypeOK, TypeSet
<1>6. Settled(type, s, type', Len(s))
  <2>1. s \in Seq(TokenSet)
    BY <1>4, Zenon DEF Flat
  <2> HIDE DEF s
  <2>2. Settled(type, s, FoldLeft(Settle, type, s), Len(s))
    BY <1>5, <2>1, SettleAll
  <2> QED BY <1>2, <2>2
<1>7. cache \in [Keys -> {"none", "empty", "wave"}] /\ range \subseteq Entries
  BY DEF GInv, TypeOK
<1>8. ASSUME NEW k \in DOMAIN got
      PROVE  /\ now[k] = IF cache[k] = "none" /\ got[k] # "throws" THEN got[k] ELSE cache[k]
             /\ now[k] \in {"none", "empty", "wave"}
             /\ now[k] = "wave" /\ cache[k] # "wave" => cache[k] = "none"
             /\ \E e \in range : KeyOf[e] = k
  <2>1. \E e \in range : KeyOf[e] = k
    OBVIOUS
  <2>2. k \in Keys
    BY <1>7, <2>1, WavesAre
  <2>3. got[k] \in {"wave", "empty", "throws"}
    BY DEF Outcomes
  <2> QED BY <1>7, <2>1, <2>2, <2>3
<1>9. cache' \in [Keys -> {"none", "empty", "wave"}]
  <2>1. DOMAIN now = DOMAIN got
    OBVIOUS
  <2> HIDE DEF now
  <2> QED BY <1>2, <1>7, <1>8, <2>1
<1>10. ASSUME NEW k \in Keys, cache'[k] = "wave", cache[k] # "wave", NEW i \in DOMAIN Tokens[k]
       PROVE  Knows(type', Tokens[k][i])
  <2>1. k \in DOMAIN got /\ now[k] = "wave"
    <3>1. DOMAIN now = DOMAIN got
      OBVIOUS
    <3> HIDE DEF now
    <3> QED BY <1>2, <1>10, <3>1
  <2>2. PICK e \in range : KeyOf[e] = k
    BY <1>8, <2>1
  <2>3. e \in Entries /\ Read(e)
    <3> HIDE DEF now
    <3> QED BY <1>7, <1>8, <1>10, <2>1, <2>2
  <2>4. seqs[e] = Tokens[k]
    <3> HIDE DEF Read
    <3> QED BY <2>2, <2>3 DEF Wave
  <2>5. e \in 1 .. Len(seqs) /\ i \in 1 .. Len(seqs[e])
    <3>1. e \in 1 .. Len(KeyOf)
      BY <2>3, WavesAre
    <3>2. DOMAIN Tokens[k] = 1 .. Len(Tokens[k])
      BY WavesAre
    <3> HIDE DEF seqs
    <3> QED BY <1>3, <2>4, <3>1, <3>2
  <2>6. PICK j \in 1 .. Len(s) : s[j] = seqs[e][i]
    <3> HIDE DEF seqs, s
    <3> QED BY <1>4, <2>5 DEF Flat
  <2>7. Knows(type', s[j])
    <3> HIDE DEF s
    <3> QED BY <1>6 DEF Settled
  <2> HIDE DEF seqs, s
  <2> QED BY <2>4, <2>6, <2>7
<1> HIDE DEF now, seqs, s
<1> QED BY <1>6, <1>9, <1>10 DEF Settled

(* No thread runs unless the main thread is in its loop. *)
LEMMA NoneRuns ==
  ASSUME IInv, main # "launch", NEW e \in Entries
  PROVE  pc[e] \in {"off", "done"}
BY DEF IInv, ViewAlive, Running

(* What a step of one thread leaves of the others, if the types only grow. *)
LEMMA Others ==
  ASSUME GInv, NEW e \in Entries, UNCHANGED <<main, range, next>>, GrowsTo(type, type'),
         \A f \in Entries \ {e} : pc'[f] = pc[f] /\ at'[f] = at[f] /\ instance'[f] = instance[f]
  PROVE  /\ \A f \in Entries \ {e} : Given(f)' /\ ThreadKnows(f)'
         /\ \A k \in Keys : cache'[k] = cache[k] => KeyKnows(k)'
<1>1. ASSUME NEW f \in Entries \ {e} PROVE Given(f)' /\ ThreadKnows(f)'
  <2>1. Given(f) /\ ThreadKnows(f)
    BY DEF GInv, AllGiven, Known
  <2>2. pc'[f] = pc[f] /\ at'[f] = at[f] /\ instance'[f] = instance[f]
    OBVIOUS
  <2>3. pc[f] = "weak" => type'[Token(f).line] # 0
    <3>1. pc[f] = "weak" => Token(f).line \in DOMAIN Lines /\ type[Token(f).line] # 0
      BY <2>1 DEF Given
    <3> QED BY <3>1 DEF GrowsTo
  <2>4. Finished(f)' = Finished(f) /\ Token(f)' = Token(f)
    BY <2>2 DEF Finished, Token, Wave
  <2>5. Given(f)'
    BY <2>1, <2>2, <2>3, <2>4 DEF Given
  <2>6. ThreadKnows(f)'
    <3>1. \A tok : Knows(type, tok) => Knows(type', tok)
      BY GrowthIs
    <3> QED BY <2>1, <2>2, <3>1 DEF ThreadKnows, Wave
  <2> QED BY <2>5, <2>6
<1>2. ASSUME NEW k \in Keys, cache'[k] = cache[k] PROVE KeyKnows(k)'
  <2>1. \A tok : Knows(type, tok) => Knows(type', tok)
    BY GrowthIs
  <2> QED BY <1>2, <2>1 DEF GInv, Known, KeyKnows
<1> QED BY <1>1, <1>2

(* A step of one thread leaves the others where they are, and a wave that it *)
(* puts into the cache is known.                                            *)
OthersStay(e) ==
  \A f \in Entries \ {e} : pc'[f] = pc[f] /\ at'[f] = at[f] /\ instance'[f] = instance[f]
CacheKnown == \A k \in Keys : cache'[k] = cache[k] \/ KeyKnows(k)'

(* The steps that change no type: the lookup, the load and the addition. *)
LEMMA QuietStep ==
  ASSUME GInv, NEW e \in Entries,
         LockShared(e) \/ Look(e) \/ Load(e) \/ Populated(e) \/ Insert(e) \/ Add(e)
  PROVE  TypeOK' /\ AllGiven' /\ Known' /\ GrowsTo(type, type')
<1> USE DEF GInv
<1>0. Given(e) /\ ThreadKnows(e) /\ e \in range /\ e < next
  BY DEF AllGiven, Known, Given, LockShared, Look, Load, Populated, Insert, Add
<1>1. /\ UNCHANGED <<main, range, next, ring, replaced, launched, target, view, gathers, type>>
      /\ GrowsTo(type, type')
  BY GrowthIs DEF LockShared, Look, Load, Populated, Insert, Add, shared
<1>2. KeyOf[e] \in Keys /\ Len(Wave(e)) \in Nat /\ DOMAIN Wave(e) = 1 .. Len(Wave(e))
  BY WavesAre
<1>types. pc \in [Entries -> Steps] /\ at \in [Entries -> Nat] /\ instance \in [Entries -> {"none", "empty", "wave"}]
  BY DEF TypeOK, Steps
<1> DEFINE Mine == TypeOK' /\ Given(e)' /\ ThreadKnows(e)' /\ OthersStay(e) /\ CacheKnown
<1>3. ASSUME LockShared(e) PROVE Mine
  <2>1. pc' = [pc EXCEPT ![e] = "look"] /\ at' = [at EXCEPT ![e] = 1] /\ UNCHANGED <<instance, bins, cache>>
        /\ pc[e] = "start" /\ readers' = readers \cup {e}
    BY <1>3 DEF LockShared
  <2>2. pc'[e] = "look" /\ at'[e] = 1
    BY <2>1 DEF TypeOK
  <2>3. TypeOK'
    <3>1. at' \in [Entries -> Nat] /\ \A f \in Entries \ {e} : at'[f] = at[f]
      BY <1>types, <2>1
    <3>2. \A f \in Entries : at'[f] \in 1 .. Len(Wave(f)) + 1
      <4>1. 1 \in 1 .. Len(Wave(e)) + 1
        BY <1>2
      <4>2. \A f \in Entries : at[f] \in 1 .. Len(Wave(f)) + 1
        BY DEF TypeOK
      <4> QED BY <2>2, <3>1, <4>1, <4>2
    <3> QED BY <1>1, <2>1, <3>1, <3>2 DEF TypeOK, Wave
  <2>4. Given(e)' /\ ThreadKnows(e)'
    BY <1>0, <1>1, <2>1, <2>2 DEF Given, ThreadKnows
  <2>5. OthersStay(e)
    BY <1>types, <2>1 DEF OthersStay
  <2>6. CacheKnown
    BY <2>1 DEF CacheKnown
  <2> HIDE DEF GInv
  <2> QED BY <2>1, <2>3, <2>4, <2>5, <2>6, Zenon
<1>4. ASSUME Look(e) PROVE Mine
  <2>1. /\ pc' = [pc EXCEPT ![e] = IF cache[KeyOf[e]] = "none" THEN "load" ELSE "add"]
        /\ instance' = [instance EXCEPT ![e] = cache[KeyOf[e]]]
        /\ UNCHANGED <<at, bins, cache>> /\ pc[e] = "look" /\ readers' = readers \ {e}
    BY <1>4 DEF Look
  <2>2. /\ pc'[e] = IF cache[KeyOf[e]] = "none" THEN "load" ELSE "add"
        /\ instance'[e] = cache[KeyOf[e]] /\ cache[KeyOf[e]] \in {"none", "empty", "wave"}
    BY <1>2, <2>1 DEF TypeOK
  <2>3. TypeOK'
    BY <1>1, <2>1, <2>2 DEF TypeOK, Wave
  <2>4. Given(e)' /\ ThreadKnows(e)'
    BY <1>0, <1>1, <2>1, <2>2 DEF Given, ThreadKnows
  <2>5. OthersStay(e)
    BY <1>types, <2>1 DEF OthersStay
  <2>6. CacheKnown
    BY <2>1 DEF CacheKnown
  <2> HIDE DEF GInv
  <2> QED BY <2>1, <2>3, <2>4, <2>5, <2>6, Zenon
<1>5. ASSUME Load(e) PROVE Mine
  <2>1. UNCHANGED <<at, bins, readers, cache>> /\ pc[e] = "load" /\ at[e] = 1
    BY <1>0, <1>5 DEF Load, shared, Given
  <2>2. CASE instance' = [instance EXCEPT ![e] = "wave"] /\ pc' = [pc EXCEPT ![e] = "type"]
    <3>1. pc'[e] = "type" /\ instance'[e] = "wave"
      BY <2>2 DEF TypeOK
    <3>2. TypeOK'
      BY <1>1, <2>1, <2>2 DEF TypeOK, Wave
    <3>3. Given(e)' /\ ThreadKnows(e)'
      BY <1>0, <1>1, <2>1, <3>1 DEF Given, ThreadKnows
    <3>4. OthersStay(e)
      BY <1>types, <2>1, <2>2 DEF OthersStay
    <3>5. CacheKnown
      BY <2>1 DEF CacheKnown
    <3> HIDE DEF GInv
    <3> QED BY <2>1, <2>2, <3>2, <3>3, <3>4, <3>5, Zenon
  <2>3. CASE instance' = [instance EXCEPT ![e] = "empty"] /\ pc' = [pc EXCEPT ![e] = "insert"]
    <3>1. pc'[e] = "insert" /\ instance'[e] = "empty"
      BY <2>3 DEF TypeOK
    <3>2. TypeOK'
      BY <1>1, <2>1, <2>3 DEF TypeOK, Wave
    <3>3. Given(e)' /\ ThreadKnows(e)'
      BY <1>0, <1>1, <2>1, <3>1 DEF Given, ThreadKnows
    <3>4. OthersStay(e)
      BY <1>types, <2>1, <2>3 DEF OthersStay
    <3>5. CacheKnown
      BY <2>1 DEF CacheKnown
    <3> HIDE DEF GInv
    <3> QED BY <2>1, <2>3, <3>2, <3>3, <3>4, <3>5, Zenon
  <2>4. CASE instance' = instance /\ pc' = [pc EXCEPT ![e] = "done"]
    <3>1. pc'[e] = "done" /\ instance'[e] = "none"
      BY <1>0, <2>1, <2>4 DEF TypeOK, Given
    <3>2. TypeOK'
      BY <1>1, <2>1, <2>4 DEF TypeOK, Wave
    <3>3. Given(e)' /\ ThreadKnows(e)'
      BY <1>0, <1>1, <2>1, <3>1 DEF Given, ThreadKnows
    <3>4. OthersStay(e)
      BY <1>types, <2>1, <2>4 DEF OthersStay
    <3>5. CacheKnown
      BY <2>1 DEF CacheKnown
    <3> HIDE DEF GInv
    <3> QED BY <2>1, <2>4, <3>2, <3>3, <3>4, <3>5, Zenon
  <2> QED BY <1>5, <2>2, <2>3, <2>4 DEF Load
<1>6. ASSUME Populated(e) PROVE Mine
  <2>1. /\ pc' = [pc EXCEPT ![e] = "insert"] /\ at' = [at EXCEPT ![e] = 1] /\ pc[e] = "type" /\ Finished(e)
        /\ UNCHANGED <<instance, bins, readers, cache>>
    BY <1>6 DEF Populated, shared
  <2>2. pc'[e] = "insert" /\ at'[e] = 1
    BY <2>1 DEF TypeOK
  <2>3. TypeOK'
    <3>1. at' \in [Entries -> Nat] /\ \A f \in Entries \ {e} : at'[f] = at[f]
      BY <1>types, <2>1
    <3>2. \A f \in Entries : at'[f] \in 1 .. Len(Wave(f)) + 1
      <4>1. 1 \in 1 .. Len(Wave(e)) + 1
        BY <1>2
      <4>2. \A f \in Entries : at[f] \in 1 .. Len(Wave(f)) + 1
        BY DEF TypeOK
      <4> QED BY <2>2, <3>1, <4>1, <4>2
    <3> QED BY <1>1, <2>1, <3>1, <3>2 DEF TypeOK, Wave
  <2>4. \A i \in DOMAIN Wave(e) : Knows(type, Wave(e)[i])
    <3>1. \A i \in DOMAIN Wave(e) : i \in 1 .. at[e] - 1
      BY <1>2, <2>1 DEF Finished, TypeOK
    <3> QED BY <1>0, <2>1, <3>1 DEF ThreadKnows
  <2>5. Given(e)' /\ ThreadKnows(e)'
    BY <1>0, <1>1, <2>1, <2>2, <2>4 DEF Given, ThreadKnows, Wave
  <2>6. OthersStay(e)
    BY <1>types, <2>1 DEF OthersStay
  <2>7. CacheKnown
    BY <2>1 DEF CacheKnown
  <2> HIDE DEF GInv
  <2> QED BY <2>1, <2>3, <2>5, <2>6, <2>7, Zenon
<1>7. ASSUME Insert(e) PROVE Mine
  <2>1. /\ pc' = [pc EXCEPT ![e] = "add"] /\ cache' = [cache EXCEPT ![KeyOf[e]] = instance[e]]
        /\ pc[e] = "insert" /\ UNCHANGED <<at, instance, bins, readers>>
    BY <1>7 DEF Insert
  <2>2. pc'[e] = "add"
    BY <2>1 DEF TypeOK
  <2>3. TypeOK'
    BY <1>1, <1>2, <2>1 DEF TypeOK, Wave
  <2>4. Given(e)' /\ ThreadKnows(e)'
    BY <1>0, <1>1, <2>1, <2>2 DEF Given, ThreadKnows
  <2>5. \A k \in Keys : cache'[k] = IF k = KeyOf[e] THEN instance[e] ELSE cache[k]
    BY <1>2, <2>1 DEF TypeOK
  <2>6. KeyKnows(KeyOf[e])'
    BY <1>0, <1>1, <1>2, <2>1, <2>5 DEF KeyKnows, ThreadKnows, Wave
  <2>7. OthersStay(e)
    BY <1>types, <2>1 DEF OthersStay
  <2>8. CacheKnown
    BY <2>5, <2>6 DEF CacheKnown
  <2> HIDE DEF GInv
  <2> QED BY <2>1, <2>3, <2>4, <2>5, <2>6, <2>7, <2>8, Zenon
<1>8. ASSUME Add(e) PROVE Mine
  <2>1. pc[e] = "add" /\ UNCHANGED <<instance, readers, cache>>
    BY <1>8 DEF Add
  <2>2. CASE instance[e] = "wave" /\ ~Finished(e)
    <3>1. at' = [at EXCEPT ![e] = @ + 1] /\ bins' = Added(bins, Token(e)) /\ pc' = pc
      BY <1>8, <2>2 DEF Add
    <3>2. Token(e) \in TokenSet /\ at[e] + 1 \in 1 .. Len(Wave(e)) + 1
      BY <2>2, TokenIs DEF TypeOK
    <3>3. bins' \in [Bins -> Nat]
      <4>1. Token(e).cycles \in Nat
        BY <3>2 DEF TokenSet
      <4>2. bins \in [Bins -> Nat]
        BY DEF TypeOK
      <4> HIDE DEF GInv
      <4> QED BY <3>1, <4>1, <4>2 DEF Added
    <3>4. TypeOK'
      BY <1>1, <2>1, <3>1, <3>2, <3>3, SMTT(30) DEF TypeOK, Wave
    <3>5. Given(e)' /\ ThreadKnows(e)'
      BY <1>0, <1>1, <2>1, <3>1 DEF Given, ThreadKnows
    <3>6. OthersStay(e)
      BY <1>types, <2>1, <3>1 DEF OthersStay
    <3>7. CacheKnown
      BY <2>1 DEF CacheKnown
    <3> HIDE DEF GInv
    <3> QED BY <2>1, <3>1, <3>4, <3>5, <3>6, <3>7, Zenon
  <2>3. CASE ~(instance[e] = "wave" /\ ~Finished(e))
    <3>1. pc' = [pc EXCEPT ![e] = "done"] /\ UNCHANGED <<at, bins>>
      BY <1>8, <2>3 DEF Add
    <3>2. pc'[e] = "done"
      BY <3>1 DEF TypeOK
    <3>3. TypeOK'
      BY <1>1, <2>1, <3>1 DEF TypeOK, Wave
    <3>4. Given(e)' /\ ThreadKnows(e)'
      BY <1>0, <1>1, <2>1, <2>3, <3>1, <3>2 DEF Given, ThreadKnows, Finished, Wave
    <3>5. OthersStay(e)
      BY <1>types, <2>1, <3>1 DEF OthersStay
    <3>6. CacheKnown
      BY <2>1 DEF CacheKnown
    <3> HIDE DEF GInv
    <3> QED BY <2>1, <3>1, <3>3, <3>4, <3>5, <3>6, Zenon
  <2> QED BY <2>2, <2>3
<1>9. Mine
  BY <1>3, <1>4, <1>5, <1>6, <1>7, <1>8
<1>10. /\ \A f \in Entries \ {e} : Given(f)' /\ ThreadKnows(f)'
       /\ \A k \in Keys : cache'[k] = cache[k] => KeyKnows(k)'
  <2> HIDE DEF GInv
  <2> QED BY <1>1, <1>9, Others DEF OthersStay
<1>11. AllGiven'
  <2>1. main' # "launch" => \A f \in range' : f < next'
    BY <1>1 DEF AllGiven
  <2> HIDE DEF GInv
  <2> QED BY <1>9, <1>10, <2>1 DEF AllGiven
<1>12. Known'
  <2> HIDE DEF GInv
  <2> QED BY <1>9, <1>10 DEF Known, CacheKnown
<1> QED BY <1>1, <1>9, <1>11, <1>12

(* The steps that give a line its type. *)
LEMMA TypingStep ==
  ASSUME GInv, NEW e \in Entries, CompareZero(e) \/ CompareWeak(e)
  PROVE  TypeOK' /\ AllGiven' /\ Known' /\ GrowsTo(type, type')
<1> USE DEF GInv
<1> DEFINE tok == Token(e)
           l == tok.line
           t == Typed(tok)
<1>0. Given(e) /\ ThreadKnows(e) /\ e \in range /\ e < next /\ pc[e] \in {"type", "weak"} /\ ~Finished(e)
  BY DEF AllGiven, Known, Given, CompareZero, CompareWeak
<1>1. UNCHANGED <<main, range, next, ring, replaced, launched, instance, target, view, bins, readers, cache, gathers>>
  BY DEF CompareZero, CompareWeak
<1>2. /\ tok \in TokenSet /\ at[e] \in DOMAIN Wave(e) /\ t \in 1 .. 15
      /\ at[e] + 1 \in 1 .. Len(Wave(e)) + 1 /\ tok = Wave(e)[at[e]]
  BY <1>0, TokenIs DEF TypeOK, Token
<1>3. type \in TypeSet /\ at \in [Entries -> Nat] /\ pc \in [Entries -> Steps]
  BY DEF TypeOK, TypeSet, Steps
<1> HIDE DEF t, l, tok
(* The thread goes on, the types grew and know the token: what is left. *)
<1>4. ASSUME type' \in TypeSet, GrowsTo(type, type'), Knows(type', tok), NextToken(e)
      PROVE  TypeOK' /\ AllGiven' /\ Known' /\ GrowsTo(type, type')
  <2>1. at' = [at EXCEPT ![e] = @ + 1] /\ pc' = [pc EXCEPT ![e] = "type"]
    BY <1>4 DEF NextToken
  <2>2. pc'[e] = "type" /\ at'[e] = at[e] + 1 /\ at[e] \in Nat
    BY <1>3, <2>1
  <2>3. \A f \in Entries \ {e} : pc'[f] = pc[f] /\ at'[f] = at[f] /\ instance'[f] = instance[f]
    BY <1>1, <1>3, <2>1
  <2>4. TypeOK'
    <3>1. \A f \in Entries : at'[f] \in 1 .. Len(Wave(f)) + 1
      BY <1>2, <2>2, <2>3 DEF TypeOK
    <3>2. at' \in [Entries -> Nat]
      BY <1>3, <2>1
    <3> QED BY <1>1, <1>4, <2>1, <3>1, <3>2 DEF TypeOK, TypeSet, Wave
  <2>5. Given(e)'
    BY <1>0, <1>1, <2>2 DEF Given
  <2>6. \A i \in 1 .. at'[e] - 1 : Knows(type', Wave(e)[i])
    <3>1. \A i \in 1 .. at'[e] - 1 : i = at[e] \/ i \in 1 .. at[e] - 1
      BY <2>2
    <3>2. \A i \in 1 .. at[e] - 1 : Knows(type', Wave(e)[i])
      BY <1>0, <1>4, GrowthIs DEF ThreadKnows
    <3> QED BY <1>2, <1>4, <3>1, <3>2
  <2>7. ThreadKnows(e)'
    BY <2>2, <2>6 DEF ThreadKnows, Wave
  <2> HIDE DEF GInv
  <2>8. /\ \A f \in Entries \ {e} : Given(f)' /\ ThreadKnows(f)'
        /\ \A k \in Keys : cache'[k] = cache[k] => KeyKnows(k)'
    BY <1>1, <1>4, <2>3, Others
  <2>9. AllGiven'
    BY <1>1, <2>5, <2>8 DEF AllGiven, GInv
  <2> QED BY <1>1, <1>4, <2>4, <2>7, <2>8, <2>9 DEF Known
<1>5. GrowsTo(type, type)
  BY GrowthIs
<1>6. CASE l \in DOMAIN Lines /\ type[l] \in {0, Weak} /\ OnType(e, l, t) /\ NextToken(e)
  <2>1. type' = [type EXCEPT ![l] = t]
    BY <1>6 DEF OnType
  <2>2. type' \in TypeSet /\ GrowsTo(type, type') /\ Knows(type', tok)
    BY <1>2, <1>3, <1>6, <2>1, SMTT(30) DEF TypeSet, GrowsTo, Knows, t, l
  <2> QED BY <1>4, <1>6, <2>2
<1>7. CASE type' = type /\ NextToken(e) /\ (l \in DOMAIN Lines => type[l] # 0 /\ (type[l] = Weak => t = Weak))
  <2>1. Knows(type, tok)
    BY <1>7 DEF Knows, t, l
  <2> QED BY <1>3, <1>4, <1>5, <1>7, <2>1
<1>8. CASE type' = type /\ at' = at /\ pc' = [pc EXCEPT ![e] = "weak"]
           /\ l \in DOMAIN Lines /\ type[l] = Weak /\ t # Weak /\ pc[e] = "type"
  <2>1. pc'[e] = "weak" /\ \A f \in Entries \ {e} : pc'[f] = pc[f]
    BY <1>3, <1>8
  <2>2. TypeOK'
    BY <1>1, <1>8 DEF TypeOK, Wave
  <2>3. Given(e)' /\ ThreadKnows(e)'
    BY <1>0, <1>1, <1>8, <2>1 DEF Given, ThreadKnows, Finished, Token, Wave, l, t, tok, Weak
  <2> HIDE DEF GInv
  <2>4. /\ \A f \in Entries \ {e} : Given(f)' /\ ThreadKnows(f)'
        /\ \A k \in Keys : cache'[k] = cache[k] => KeyKnows(k)'
    BY <1>1, <1>5, <1>8, <2>1, Others
  <2>5. AllGiven' /\ Known'
    BY <1>1, <2>3, <2>4 DEF AllGiven, Known, GInv
  <2> QED BY <1>5, <1>8, <2>2, <2>5
<1>9. CASE CompareZero(e)
  <2>1. pc[e] = "type"
    BY <1>9 DEF CompareZero
  <2>2. CASE l \in DOMAIN Lines /\ type[l] = 0
    <3>1. OnType(e, l, t) /\ NextToken(e)
      BY <1>9, <2>2 DEF CompareZero, l, t, tok
    <3> QED BY <1>6, <2>2, <3>1
  <2>3. CASE l \in DOMAIN Lines /\ type[l] = Weak /\ t # Weak
    <3>1. type' = type /\ at' = at /\ pc' = [pc EXCEPT ![e] = "weak"]
      BY <1>9, <2>3 DEF CompareZero, l, t, tok, Weak
    <3> QED BY <1>8, <2>1, <2>3, <3>1
  <2>4. CASE ~(l \in DOMAIN Lines /\ type[l] = 0) /\ ~(l \in DOMAIN Lines /\ type[l] = Weak /\ t # Weak)
    <3>1. type' = type /\ NextToken(e)
      BY <1>9, <2>4 DEF CompareZero, l, t, tok
    <3> QED BY <1>7, <2>4, <3>1
  <2> QED BY <2>2, <2>3, <2>4
<1>10. CASE CompareWeak(e)
  <2>1. l \in DOMAIN Lines /\ t # Weak /\ type[l] # 0
    BY <1>0, <1>10 DEF CompareWeak, Given, l, t, tok
  <2>2. CASE type[l] = Weak
    <3>1. OnType(e, l, t) /\ NextToken(e)
      BY <1>10, <2>2 DEF CompareWeak, l, t, tok
    <3> QED BY <1>6, <2>1, <2>2, <3>1
  <2>3. CASE type[l] # Weak
    <3>1. type' = type /\ NextToken(e)
      BY <1>10, <2>3 DEF CompareWeak, l, t, tok
    <3> QED BY <1>7, <2>1, <2>3, <3>1
  <2> QED BY <2>2, <2>3
<1> QED BY <1>9, <1>10

(* The main thread starts a thread that has been given nothing yet. *)
LEMMA LaunchGInv == ASSUME GInv, Launch PROVE TypeOK' /\ AllGiven' /\ Known'
<1> DEFINE i == launched % RingSize
<1>1. i \in Places /\ next \in Entries /\ next \in range /\ main = "launch"
  BY PlaceInRing DEF GInv, IInv, Launch, RingTypes
<1>2. /\ next' = next + 1 /\ launched' = launched + 1
      /\ ring' = [ring EXCEPT ![i] = next] /\ replaced' = ring[i]
      /\ pc' = [pc EXCEPT ![next] = "start"] /\ target' = [target EXCEPT ![next] = view]
      /\ UNCHANGED <<main, range, at, instance, view, bins, readers, cache, type, gathers>>
  BY DEF Launch, shared
<1> HIDE DEF i
<1>3. pc \in [Entries -> Steps] /\ next \in Nat /\ \A e \in Entries : Given(e) /\ e \in Nat
  BY WavesAre DEF GInv, TypeOK, AllGiven, Steps
<1>4. TypeOK'
  <2>1. next' \in 1 .. Len(KeyOf) + 1 /\ launched' \in Nat
    BY <1>1, <1>2, WavesAre DEF GInv, TypeOK
  <2>2. ring' \in [0 .. RingSize - 1 -> Entries \cup {None}] /\ replaced' \in Entries \cup {None}
    BY <1>1, <1>2 DEF GInv, TypeOK, Places
  <2>3. pc' \in [Entries -> Steps] /\ target' \in [Entries -> Nat]
    BY <1>1, <1>2, <1>3 DEF GInv, TypeOK, Steps
  <2> QED BY <1>2, <2>1, <2>2, <2>3 DEF GInv, TypeOK, Steps, Wave
<1>5. ASSUME NEW e \in Entries PROVE Given(e)' /\ (e # next => pc'[e] = pc[e]) /\ pc'[next] = "start"
  <2>1. pc'[next] = "start" /\ (e # next => pc'[e] = pc[e])
    BY <1>1, <1>2, <1>3
  <2>2. CASE e = next
    <3>1. instance[e] = "none"
      BY <1>3, <2>2 DEF Given
    <3> QED BY <1>1, <1>2, <1>3, <2>1, <2>2, <3>1 DEF Given
  <2>3. CASE e # next
    <3>1. e < next' <=> e < next
      BY <1>2, <1>3, <2>3
    <3>2. Finished(e)' = Finished(e) /\ Token(e)' = Token(e)
      BY <1>2 DEF Finished, Token, Wave
    <3> QED BY <1>2, <1>3, <2>1, <2>3, <3>1, <3>2 DEF Given
  <2> QED BY <2>1, <2>2, <2>3
<1>6. AllGiven'
  BY <1>1, <1>2, <1>5 DEF AllGiven
<1>7. Known'
  BY <1>2, <1>5 DEF GInv, Known, ThreadKnows, KeyKnows, Wave
<1> QED BY <1>4, <1>6, <1>7

(* Passing over a wave starts no thread; the loop ends after the last. *)
LEMMA LoopGInv == ASSUME GInv, PassOver \/ JoinAll PROVE TypeOK' /\ AllGiven' /\ Known'
<1>1. /\ UNCHANGED <<range, ring, replaced, launched, threads, view, shared, gathers>>
      /\ UNCHANGED <<pc, at, instance, target, bins, readers, cache, type>>
  BY DEF PassOver, JoinAll, threads, shared
<1>2. next \in Nat /\ Len(KeyOf) \in Nat /\ \A e \in Entries : Given(e) /\ e \in Nat /\ e <= Len(KeyOf)
  BY WavesAre DEF GInv, TypeOK, AllGiven
<1>3. /\ main' \in {"idle", "launch", "draw"} /\ next' \in 1 .. Len(KeyOf) + 1
      /\ \A e \in range : e < next' <=> e < next
      /\ main' # "launch" => \A e \in range : e < next'
  <2>1. CASE PassOver
    BY <1>2, <2>1, WavesAre DEF PassOver, GInv, TypeOK
  <2>2. CASE JoinAll
    BY <1>2, <2>2 DEF JoinAll, GInv, TypeOK
  <2> QED BY <2>1, <2>2
<1>4. TypeOK'
  BY <1>1, <1>3 DEF GInv, TypeOK, Wave
<1>5. ASSUME NEW e \in Entries PROVE Given(e)'
  <2>1. Finished(e)' = Finished(e) /\ Token(e)' = Token(e)
    BY <1>1 DEF Finished, Token, Wave
  <2> QED BY <1>1, <1>2, <1>3, <2>1 DEF Given
<1>6. AllGiven'
  BY <1>1, <1>3, <1>5 DEF AllGiven
<1>7. Known'
  BY <1>1 DEF GInv, Known, ThreadKnows, KeyKnows, Wave
<1> QED BY <1>4, <1>6, <1>7

(* A new gather starts from threads that have been given nothing. *)
LEMMA GatherGInv ==
  ASSUME GInv, NEW inRange \in SUBSET Entries, Gather(inRange)
  PROVE  TypeOK' /\ AllGiven' /\ Known'
<1>1. /\ main' = "launch" /\ next' = 1 /\ gathers' = gathers + 1 /\ gathers < MaxGathers
      /\ ring' = [i \in 0 .. RingSize - 1 |-> None] /\ replaced' = None /\ launched' = 0
      /\ range' = inRange /\ view' = view + 1 /\ bins' = [b \in Bins |-> 0]
      /\ pc' = [e \in Entries |-> "off"] /\ instance' = [e \in Entries |-> "none"]
      /\ UNCHANGED <<at, target, readers, cache, type>>
  BY DEF Gather
<1>2. \A e \in Entries : pc'[e] = "off" /\ instance'[e] = "none" /\ e \in Nat /\ ~(e < next')
  BY <1>1, WavesAre
<1>3. TypeOK'
  <2>1. next' \in 1 .. Len(KeyOf) + 1 /\ gathers' \in 0 .. MaxGathers /\ view' \in Nat
    BY <1>1, WavesAre, GatherAssumption DEF GInv, TypeOK
  <2>2. \A e \in Entries : at'[e] \in 1 .. Len(Wave(e)) + 1
    BY <1>1 DEF GInv, TypeOK
  <2> QED BY <1>1, <2>1, <2>2 DEF GInv, TypeOK, Wave
<1>4. AllGiven'
  BY <1>1, <1>2 DEF AllGiven, Given
<1>5. Known'
  BY <1>1, <1>2 DEF GInv, Known, ThreadKnows, KeyKnows, Wave
<1> QED BY <1>3, <1>4, <1>5

(* The types and the cache change when no thread runs: Draw makes them more, *)
(* and what is cached without a type is not cached any more.                 *)
LEMMA RestGInv ==
  ASSUME GInv, Draw \/ InvalidadeCache
  PROVE  /\ TypeOK' /\ AllGiven' /\ Known'
         /\ GrowsTo(type, type') \/ type' = [l \in DOMAIN Lines |-> 0]
<1>1. /\ main # "launch" /\ main' = "idle"
      /\ UNCHANGED <<range, next, ring, replaced, launched, view, bins, readers, gathers, pc, at, instance, target>>
  BY DEF Draw, InvalidadeCache, threads
<1>2. \A e \in Entries : pc[e] \in {"off", "done"} /\ Given(e)
  BY <1>1, NoneRuns DEF GInv, AllGiven
<1>3. AllGiven'
  <2>1. \A e \in Entries : Given(e)'
    BY <1>1, <1>2 DEF Given, Finished, Wave
  <2>2. \A e \in range : e < next
    BY <1>1 DEF GInv, AllGiven
  <2> QED BY <1>1, <2>1, <2>2 DEF AllGiven
<1>4. ASSUME type' \in TypeSet, cache' \in [Keys -> {"none", "empty", "wave"}] PROVE TypeOK'
  BY <1>1, <1>4 DEF GInv, TypeOK, TypeSet, Wave
<1>5. ASSUME \A k \in Keys : KeyKnows(k)' PROVE Known'
  BY <1>1, <1>2, <1>5 DEF Known, ThreadKnows
<1>6. CASE Draw
  <2>1. /\ type' \in TypeSet /\ GrowsTo(type, type')
        /\ cache' \in [Keys -> {"none", "empty", "wave"}]
        /\ \A k \in Keys : cache'[k] = "wave" /\ cache[k] # "wave" =>
              \A i \in DOMAIN Tokens[k] : Knows(type', Tokens[k][i])
    BY <1>6, DrawIs
  <2>2. \A k \in Keys : KeyKnows(k)'
    <3> SUFFICES ASSUME NEW k \in Keys, cache'[k] = "wave", NEW i \in DOMAIN Tokens[k]
                 PROVE  Knows(type', Tokens[k][i])
      BY DEF KeyKnows
    <3>1. CASE cache[k] = "wave"
      <4>1. Knows(type, Tokens[k][i])
        BY <3>1 DEF GInv, Known, KeyKnows
      <4> QED BY <2>1, <4>1, GrowthIs
    <3> QED BY <2>1, <3>1
  <2> QED BY <1>3, <1>4, <1>5, <2>1, <2>2
<1>7. CASE InvalidadeCache
  <2>1. cache' = [k \in Keys |-> "none"] /\ type' = [l \in DOMAIN Lines |-> 0]
    BY <1>7 DEF InvalidadeCache
  <2>2. type' \in TypeSet /\ cache' \in [Keys -> {"none", "empty", "wave"}]
    BY <2>1 DEF TypeSet
  <2>3. \A k \in Keys : KeyKnows(k)'
    BY <2>1 DEF KeyKnows
  <2> QED BY <1>3, <1>4, <1>5, <2>1, <2>2, <2>3
<1> QED BY <1>6, <1>7

(* A step that changes nothing. *)
LEMMA StutterGInv == ASSUME GInv, UNCHANGED vars PROVE TypeOK' /\ AllGiven' /\ Known'
<1>1. UNCHANGED <<main, range, next, ring, replaced, launched, pc, at, instance, target, view, bins, readers, cache,
                 type, gathers>>
  BY DEF vars, threads, shared
<1>2. TypeOK'
  BY <1>1 DEF GInv, TypeOK, Wave
<1>3. AllGiven'
  BY <1>1 DEF GInv, AllGiven, Given, Finished, Token, Wave
<1>4. Known'
  BY <1>1 DEF GInv, Known, ThreadKnows, KeyKnows, Wave
<1> QED BY <1>2, <1>3, <1>4

(* Every step keeps it, and the types only grow or are forgotten. *)
LEMMA NextGInv ==
  ASSUME GInv, [Next]_vars
  PROVE  GInv' /\ (GrowsTo(type, type') \/ type' = [l \in DOMAIN Lines |-> 0])
<1>0. IInv'
  BY NextIInv DEF GInv
<1>1. ASSUME type' = type PROVE GrowsTo(type, type')
  BY <1>1, GrowthIs
<1>2. ASSUME NEW e \in Entries, Preload(e)
      PROVE  TypeOK' /\ AllGiven' /\ Known' /\ GrowsTo(type, type')
  BY <1>2, QuietStep, TypingStep DEF Preload
<1>3. ASSUME Launch \/ PassOver \/ JoinAll \/ UNCHANGED vars
      PROVE  TypeOK' /\ AllGiven' /\ Known' /\ GrowsTo(type, type')
  <2>1. type' = type
    BY <1>3 DEF Launch, PassOver, JoinAll, vars, shared
  <2> QED BY <1>1, <1>3, <2>1, LaunchGInv, LoopGInv, StutterGInv
<1>4. ASSUME NEW inRange \in SUBSET Entries, Gather(inRange)
      PROVE  TypeOK' /\ AllGiven' /\ Known' /\ GrowsTo(type, type')
  <2>1. type' = type
    BY <1>4 DEF Gather
  <2> QED BY <1>1, <1>4, <2>1, GatherGInv
<1>5. ASSUME Draw \/ InvalidadeCache
      PROVE  TypeOK' /\ AllGiven' /\ Known' /\ (GrowsTo(type, type') \/ type' = [l \in DOMAIN Lines |-> 0])
  BY <1>5, RestGInv
<1>6. TypeOK' /\ AllGiven' /\ Known' /\ (GrowsTo(type, type') \/ type' = [l \in DOMAIN Lines |-> 0])
  BY <1>2, <1>3, <1>4, <1>5 DEF Next, Main
<1> QED BY <1>0, <1>6 DEF GInv

(* The threads and the types agree at all times. *)
LEMMA GInvariant == Spec => []GInv
<1>1. GInv /\ [Next]_vars => GInv'
  BY NextGInv
<1> QED BY <1>1, InitGInv, PTL DEF Spec

(* Every variable keeps its type; each thread is at a token of its wave or *)
(* one past the last.                                                      *)
THEOREM TypeCorrect == Spec => []TypeOK
<1>1. GInv => TypeOK
  BY DEF GInv
<1> QED BY <1>1, GInvariant, PTL

(* Whatever the order in which waves are loaded, by the threads at the same *)
(* time or by the main thread, a line of a cached wave has a type, and not  *)
(* the weak one if a token of the wave has a better one.                    *)
THEOREM BestTypeIsKept == Spec => []LinesKnowTheirType
<1>1. GInv => LinesKnowTheirType
  BY DEF GInv, Known, KeyKnows, Knows, LinesKnowTheirType
<1> QED BY <1>1, GInvariant, PTL

(* A type that says something is not changed by any wave that is loaded *)
(* later or at the same time.                                           *)
THEOREM TypesStay == Spec => TypeSettles
<1>1. ASSUME GInv, [Next]_vars
      PROVE  [\A l \in DOMAIN Lines :
                type[l] \notin {0, Weak} /\ type'[l] # type[l] => type' = [j \in DOMAIN Lines |-> 0]]_vars
  BY <1>1, NextGInv DEF GrowsTo
<1> QED BY <1>1, GInvariant, PTL DEF Spec, TypeSettles
-------------------------------------------------------------------------------
(* The histogram *)

(* A cell is one token of one entry's wave. *)
CellsOf(e) == {<<e, i>> : i \in DOMAIN Wave(e)}
Cells == UNION {CellsOf(e) : e \in Entries}
LineOf(c) == Wave(c[1])[c[2]].line
Cycles == [c \in Cells |-> Wave(c[1])[c[2]].cycles]

(* The cells that have been added: those that their thread has been through. *)
Through(e, i) == pc[e] \in {"add", "done"} /\ instance[e] = "wave" /\ i <= at[e] - 1
Done == {c \in Cells : Through(c[1], c[2])}
In(b, C) == {c \in C : Covers(b, LineOf(c))}

Counted == \A b \in Bins : bins[b] = SumOver(Cycles, In(b, Done))

CInv == GInv /\ Counted

(* The cells are finitely many, and have cycles on a line. *)
LEMMA CellsAre ==
  /\ IsFiniteSet(Cells)
  /\ \A c \in Cells : Cycles[c] \in Int /\ Cycles[c] \in Nat
  /\ \A c : c \in Cells <=> \E e \in Entries : \E i \in DOMAIN Wave(e) : c = <<e, i>>
<1>1. \A e \in Entries : IsFiniteSet(CellsOf(e))
  <2> TAKE e \in Entries
  <2> DEFINE f == [i \in DOMAIN Wave(e) |-> <<e, i>>]
  <2>1. f \in Surjection(DOMAIN Wave(e), CellsOf(e))
    BY DEF Surjection, CellsOf
  <2>2. IsFiniteSet(DOMAIN Wave(e))
    BY WavesAre, FS_Interval
  <2> QED BY <2>1, <2>2, FS_Surjection
<1>2. IsFiniteSet({CellsOf(e) : e \in Entries})
  <2> DEFINE f == [e \in Entries |-> CellsOf(e)]
  <2>1. f \in Surjection(Entries, {CellsOf(e) : e \in Entries})
    BY DEF Surjection
  <2>2. IsFiniteSet(Entries)
    BY WavesAre, FS_Interval
  <2> QED BY <2>1, <2>2, FS_Surjection
<1>3. IsFiniteSet(Cells)
  BY <1>1, <1>2, FS_UNION DEF Cells
<1>4. \A c : c \in Cells <=> \E e \in Entries : \E i \in DOMAIN Wave(e) : c = <<e, i>>
  BY DEF Cells, CellsOf
<1>5. ASSUME NEW c \in Cells PROVE Cycles[c] \in Nat
  <2>1. PICK e \in Entries : \E i \in DOMAIN Wave(e) : c = <<e, i>>
    BY <1>4
  <2>2. PICK i \in DOMAIN Wave(e) : c = <<e, i>>
    BY <2>1
  <2>3. Wave(e)[i] \in TokenSet
    BY WavesAre
  <2>4. Cycles[c] = Wave(e)[i].cycles
    BY <2>2 DEF Cycles
  <2> QED BY <2>3, <2>4 DEF TokenSet
<1> QED BY <1>3, <1>4, <1>5

(* The bin that the program computes is the one that covers the line: the *)
(* division rounds towards zero, so the first also has lines before it.   *)
LEMMA BinIs ==
  ASSUME NEW line \in Int, NEW b \in Bins
  PROVE  BinOf(line) = b <=> Covers(b, line)
<1>0. b \in Nat /\ Begin \in Nat /\ Step \in Nat \ {0}
  BY GatherAssumption DEF Bins
<1>1. \A n \in Nat, k \in Nat \ {0} : n \div k \in Nat /\ (n \div k) * k <= n /\ n < (n \div k) * k + k
  OBVIOUS
<1>2. \A q \in Nat, r \in Nat : q < r => q * Step + Step <= r * Step
  <2> SUFFICES ASSUME NEW q \in Nat, NEW r \in Nat, q < r PROVE q * Step + Step <= r * Step
    OBVIOUS
  <2>1. (q + 1) * Step <= r * Step
    BY <1>0
  <2> QED BY <1>0, <2>1
<1>3. (b + 1) * Step = b * Step + Step /\ b * Step \in Nat /\ 0 * Step = 0
  BY <1>0
<1>4. CASE line >= Begin
  <2> DEFINE n == line - Begin
             q == n \div Step
             m == q * Step
             c == b * Step
  <2>1. n \in Nat /\ line = Begin + n
    BY <1>0, <1>4
  <2>2. q \in Nat /\ m \in Nat /\ m <= n /\ n < m + Step
    <3> HIDE DEF n
    <3>1. q \in Nat
      BY <1>0, <1>1, <2>1
    <3>2. m <= n /\ n < m + Step
      BY <1>0, <1>1, <2>1
    <3>3. m \in Nat
      BY <1>0, <3>1
    <3> QED BY <3>1, <3>2, <3>3
  <2>3. q < b => m + Step <= c
    <3> HIDE DEF q
    <3> QED BY <1>0, <1>2, <2>2
  <2>4. b < q => c + Step <= m
    <3> HIDE DEF q
    <3> QED BY <1>0, <1>2, <2>2
  <2>5. BinOf(line) = q
    BY <1>4 DEF BinOf
  <2>6. Covers(b, line) <=> line \in Begin + c .. Begin + (c + Step) - 1
    <3>1. Covers(b, line) <=> line \in Begin + c .. Begin + (b + 1) * Step - 1
      BY <1>0, <1>4 DEF Covers
    <3> QED BY <1>3, <3>1
  <2>7. q = b => m = c
    OBVIOUS
  <2>8. c \in Nat
    BY <1>3
  <2> HIDE DEF n, q, m, c
  <2> QED BY <1>0, <2>1, <2>2, <2>3, <2>4, <2>5, <2>6, <2>7, <2>8
<1>5. CASE line < Begin
  <2> DEFINE n == Begin - line
             q == n \div Step
             m == q * Step
             c == b * Step
  <2>1. n \in Nat \ {0} /\ line = Begin - n
    BY <1>0, <1>5
  <2>2. q \in Nat /\ m <= n /\ n < m + Step
    <3> HIDE DEF n
    <3> QED BY <1>0, <1>1, <2>1
  <2>3. q = 0 => m = 0
    <3> HIDE DEF q
    <3> QED BY <1>0
  <2>4. 0 < q => Step <= m
    <3> HIDE DEF q
    <3> QED BY <1>0, <1>2, <1>3, <2>2
  <2>5. BinOf(line) = -q
    BY <1>0, <1>5 DEF BinOf
  <2>6. Covers(b, line) <=> b = 0 /\ line \in Begin - Step + 1 .. Begin - 1
    <3>1. Begin + b * Step >= Begin
      BY <1>0, <1>3
    <3>2. line \notin Begin + b * Step .. Begin + (b + 1) * Step - 1
      <4> DEFINE lo == Begin + b * Step
                 hi == Begin + (b + 1) * Step - 1
      <4>1. lo \in Int /\ hi \in Int
        BY <1>0
      <4> HIDE DEF lo, hi
      <4>2. lo >= Begin
        BY <3>1 DEF lo
      <4>3. line \notin lo .. hi
        BY <1>0, <1>5, <4>1, <4>2
      <4> QED BY <4>3 DEF lo, hi
    <3> QED BY <3>2 DEF Covers
  <2> HIDE DEF n, q, m, c
  <2>7. BinOf(line) = b <=> q = 0 /\ b = 0
    BY <1>0, <2>2, <2>5
  <2>8. m \in Int
    BY <1>0, <2>2 DEF m
  <2>9. q = 0 <=> n < Step
    BY <1>0, <2>1, <2>2, <2>3, <2>4, <2>8
  <2> QED BY <1>0, <2>1, <2>6, <2>7, <2>9
<1> QED BY <1>0, <1>4, <1>5

(* If no thread goes on adding and the bins are left, they stay counted. *)
LEMMA SameCells ==
  ASSUME Counted, bins' = bins,
         \A e \in Entries : \A i \in DOMAIN Wave(e) : Through(e, i)' = Through(e, i)
  PROVE  Counted'
<1>1. \A c \in Cells : Through(c[1], c[2])' = Through(c[1], c[2])
  BY CellsAre
<1>2. Done' = Done
  BY <1>1 DEF Done, Cells, CellsOf, Wave
<1>3. \A b \in Bins : In(b, Done)' = In(b, Done)
  BY <1>2 DEF In, LineOf, Wave, Covers
<1>4. Cycles' = Cycles
  BY DEF Cycles, Cells, CellsOf, Wave
<1> QED BY <1>3, <1>4 DEF Counted

(* An addition counts one cell that was not counted before. *)
LEMMA AddCounts ==
  ASSUME CInv, NEW e \in Entries, Add(e)
  PROVE  Counted'
<1>1. pc[e] = "add" /\ UNCHANGED instance
  BY DEF Add
<1>2. /\ pc \in [Entries -> Steps] /\ at \in [Entries -> Nat] /\ bins \in [Bins -> Nat]
      /\ \A f \in Entries : at[f] \in 1 .. Len(Wave(f)) + 1
  BY DEF CInv, GInv, TypeOK, Steps
<1>3. CASE ~(instance[e] = "wave" /\ ~Finished(e))
  <2>1. pc' = [pc EXCEPT ![e] = "done"] /\ at' = at /\ bins' = bins
    BY <1>3 DEF Add
  <2>2. \A f \in Entries : \A i \in DOMAIN Wave(f) : Through(f, i)' = Through(f, i)
    BY <1>1, <1>2, <2>1 DEF Through
  <2> QED BY <2>1, <2>2, SameCells DEF CInv
<1>4. CASE instance[e] = "wave" /\ ~Finished(e)
  <2> DEFINE c == <<e, at[e]>>
             tok == Token(e)
  <2>1. at' = [at EXCEPT ![e] = @ + 1] /\ bins' = Added(bins, Token(e)) /\ pc' = pc
    BY <1>4 DEF Add
  <2>2. tok \in TokenSet /\ at[e] \in DOMAIN Wave(e) /\ tok = Wave(e)[at[e]]
    BY <1>2, <1>4, TokenIs DEF Token
  <2>3. c \in Cells /\ Cycles[c] = tok.cycles /\ LineOf(c) = tok.line
    <3>1. c \in Cells
      BY <2>2, CellsAre
    <3> QED BY <2>2, <3>1 DEF Cycles, LineOf
  <2> HIDE DEF tok
  <2>4. Done' = Done \cup {c} /\ c \notin Done
    <3>1. ASSUME NEW f \in Entries, NEW i \in DOMAIN Wave(f)
          PROVE  Through(f, i)' <=> Through(f, i) \/ (f = e /\ i = at[e])
      <4>1. i \in Nat
        BY WavesAre
      <4>2. CASE f = e
        <5>1. at'[e] = at[e] + 1 /\ at[e] \in Nat
          BY <1>2, <2>1
        <5>2. i <= at'[e] - 1 <=> i <= at[e] - 1 \/ i = at[e]
          BY <4>1, <5>1
        <5> QED BY <1>1, <1>4, <2>1, <4>2, <5>2 DEF Through
      <4>3. CASE f # e
        <5>1. at'[f] = at[f]
          BY <1>2, <2>1, <4>3
        <5> QED BY <1>1, <2>1, <4>3, <5>1 DEF Through
      <4> QED BY <4>2, <4>3
    <3>2. ~Through(e, at[e])
      BY <1>2 DEF Through
    <3>3. Cells' = Cells
      BY DEF Cells, CellsOf, Wave
    <3>4. \A d \in Cells : Through(d[1], d[2])' <=> Through(d[1], d[2]) \/ d = c
      BY <3>1, CellsAre
    <3>5. Done' = {d \in Cells : Through(d[1], d[2])'}
      BY <3>3 DEF Done
    <3> QED BY <2>3, <3>2, <3>4, <3>5 DEF Done
  <2>5. SUFFICES ASSUME NEW b \in Bins PROVE bins'[b] = SumOver(Cycles, In(b, Done)')
    BY DEF Counted, Cycles, Cells, CellsOf, Wave
  <2>6. In(b, Done)' = In(b, Done') /\ In(b, Done) \subseteq Cells
    BY DEF In, LineOf, Wave, Covers, Done
  <2>7. bins[b] = SumOver(Cycles, In(b, Done)) /\ bins[b] \in Nat
    BY <1>2 DEF CInv, Counted
  <2>8. IsFiniteSet(In(b, Done))
    BY <2>6, CellsAre, FS_Subset
  <2>9. tok.line \in Int /\ tok.cycles \in Nat
    BY <2>2 DEF TokenSet
  <2>10. BinOf(tok.line) = b <=> Covers(b, tok.line)
    BY <2>9, BinIs
  <2>11. bins'[b] = IF BinOf(tok.line) = b THEN bins[b] + tok.cycles ELSE bins[b]
    BY <1>2, <2>1 DEF Added, tok
  <2>12. CASE Covers(b, tok.line)
    <3>1. In(b, Done)' = In(b, Done) \cup {c} /\ c \notin In(b, Done)
      BY <2>3, <2>4, <2>6, <2>12 DEF In
    <3>2. \A d \in In(b, Done) \cup {c} : Cycles[d] \in Int
      BY <2>3, <2>6, CellsAre
    <3> HIDE DEF c
    <3>3. SumOver(Cycles, In(b, Done) \cup {c}) = SumOver(Cycles, In(b, Done)) + Cycles[c]
      BY <2>8, <3>1, <3>2, SumWith
    <3> QED BY <2>3, <2>7, <2>10, <2>11, <2>12, <3>1, <3>3
  <2>13. CASE ~Covers(b, tok.line)
    <3>1. In(b, Done)' = In(b, Done)
      BY <2>3, <2>4, <2>6, <2>13 DEF In
    <3> QED BY <2>7, <2>10, <2>11, <2>13, <3>1
  <2> QED BY <2>12, <2>13
<1> QED BY <1>3, <1>4

(* No other step of a thread adds: what it finds or loads it starts on. *)
LEMMA PreloadCounts ==
  ASSUME CInv, NEW e \in Entries, Preload(e)
  PROVE  Counted'
<1>1. Given(e) /\ pc \in [Entries -> Steps] /\ at \in [Entries -> Nat]
      /\ instance \in [Entries -> {"none", "empty", "wave"}]
  BY DEF CInv, GInv, AllGiven, TypeOK, Steps
<1>2. CASE Add(e)
  BY <1>2, AddCounts
<1>3. CASE ~Add(e)
  <2>1. bins' = bins /\ OthersStay(e)
    BY <1>1, <1>3 DEF Preload, OthersStay, LockShared, Look, Load, CompareZero, CompareWeak, Populated, Insert,
                      NextToken, shared
  <2>2. \A i \in DOMAIN Wave(e) : ~Through(e, i) /\ ~Through(e, i)'
    <3> TAKE i \in DOMAIN Wave(e)
    <3>0. i \in Nat /\ i >= 1
      BY WavesAre
    <3>1. pc[e] \notin {"add", "done"}
      BY <1>3 DEF Preload, LockShared, Look, Load, CompareZero, CompareWeak, Populated, Insert
    <3>2. CASE pc'[e] = "add"
      <4>1. at'[e] = 1
        BY <1>1, <1>3, <3>2 DEF Preload, LockShared, Look, Load, CompareZero, CompareWeak, Populated, Insert,
                                NextToken, Given, shared
      <4> QED BY <3>0, <3>1, <4>1 DEF Through
    <3>3. CASE pc'[e] = "done"
      <4>1. instance'[e] = "none"
        BY <1>1, <1>3, <3>3 DEF Preload, LockShared, Look, Load, CompareZero, CompareWeak, Populated, Insert,
                                NextToken, Given, shared
      <4> QED BY <3>1, <4>1 DEF Through
    <3> QED BY <3>1, <3>2, <3>3 DEF Through
  <2>3. \A f \in Entries : \A i \in DOMAIN Wave(f) : Through(f, i)' = Through(f, i)
    BY <2>1, <2>2 DEF Through, OthersStay
  <2> QED BY <2>1, <2>3, SameCells DEF CInv
<1> QED BY <1>2, <1>3

(* Nor does the main thread; a new gather starts from empty bins. *)
LEMMA MainCounts ==
  ASSUME CInv, Main \/ InvalidadeCache \/ UNCHANGED vars \/ \E inRange \in SUBSET Entries : Gather(inRange)
  PROVE  Counted'
<1>1. CASE \E inRange \in SUBSET Entries : Gather(inRange)
  <2>1. bins' = [b \in Bins |-> 0] /\ pc' = [e \in Entries |-> "off"]
    BY <1>1 DEF Gather
  <2>2. Done' = {}
    <3>1. \A c \in Cells : c[1] \in Entries
      BY CellsAre
    <3>2. Cells' = Cells
      BY DEF Cells, CellsOf, Wave
    <3> QED BY <2>1, <3>1, <3>2 DEF Done, Through
  <2>3. \A b \in Bins : In(b, Done)' = {}
    BY <2>2 DEF In
  <2> QED BY <2>1, <2>3, SumEmpty DEF Counted
<1>2. CASE Launch
  <2>1. /\ next \in Entries /\ pc[next] = "off" /\ pc' = [pc EXCEPT ![next] = "start"]
        /\ UNCHANGED <<at, instance, bins>> /\ pc \in [Entries -> Steps]
    <3>1. next \in Entries /\ next \in Nat
      BY <1>2, WavesAre DEF Launch, CInv, GInv, TypeOK
    <3>2. Given(next)
      BY <3>1 DEF CInv, GInv, AllGiven
    <3>3. pc[next] = "off"
      BY <3>1, <3>2 DEF Given
    <3> QED BY <1>2, <3>1, <3>3 DEF Launch, shared, CInv, GInv, TypeOK, Steps
  <2>2. \A e \in Entries : \A i \in DOMAIN Wave(e) : Through(e, i)' = Through(e, i)
    BY <2>1 DEF Through
  <2> QED BY <2>1, <2>2, SameCells DEF CInv
<1>3. CASE PassOver \/ JoinAll \/ Draw \/ InvalidadeCache \/ UNCHANGED vars
  <2>1. UNCHANGED <<pc, at, instance, bins>>
    BY <1>3 DEF PassOver, JoinAll, Draw, InvalidadeCache, vars, threads, shared
  <2>2. \A e \in Entries : \A i \in DOMAIN Wave(e) : Through(e, i)' = Through(e, i)
    BY <2>1 DEF Through
  <2> QED BY <2>1, <2>2, SameCells DEF CInv
<1> QED BY <1>1, <1>2, <1>3 DEF Main

(* The bins are counted at all times. *)
LEMMA CInvariant == Spec => []CInv
<1>1. Init => CInv
  <2> SUFFICES ASSUME Init PROVE Counted
    BY InitGInv DEF CInv
  <2>1. Done = {}
    <3>1. \A c \in Cells : c[1] \in Entries
      BY CellsAre
    <3> QED BY <3>1 DEF Init, Done, Through
  <2>2. \A b \in Bins : In(b, Done) = {}
    BY <2>1 DEF In
  <2> QED BY <2>2, SumEmpty DEF Counted, Init
<1>2. ASSUME CInv, [Next]_vars PROVE CInv'
  <2>1. GInv'
    BY <1>2, NextGInv DEF CInv
  <2>2. Counted'
    BY <1>2, PreloadCounts, MainCounts DEF Next
  <2> QED BY <2>1, <2>2 DEF CInv
<1> QED BY <1>1, <1>2, PTL DEF Spec

(* The cycles of cells, as the sum of a function. *)
LEMMA CyclesAdd ==
  ASSUME NEW C \in SUBSET Cells
  PROVE  MapThenSumSet(LAMBDA c : Wave(c[1])[c[2]].cycles, C) = SumOver(Cycles, C)
<1> DEFINE added(g) == [s \in SUBSET C |-> IF s = {} THEN 0
                          ELSE Wave(Pick(s)[1])[Pick(s)[2]].cycles + g[s \ {Pick(s)}]]
           sum(g) == [s \in SUBSET C |-> Body(g, Cycles, s)]
<1>1. \A s \in SUBSET C : s # {} => Cycles[Pick(s)] = Wave(Pick(s)[1])[Pick(s)[2]].cycles
  BY PickIsElement DEF Cycles
<1>2. \A g : added(g) = sum(g)
  BY <1>1 DEF Body
<1>3. MapThenSumSet(LAMBDA c : Wave(c[1])[c[2]].cycles, C) = (CHOOSE g : g = added(g))[C]
  BY Zenon DEF MapThenSumSet, MapThenFoldSet, Pick
<1>4. SumOver(Cycles, C) = (CHOOSE g : g = sum(g))[C]
  BY SumIsPartial, Zenon DEF Partial
<1>5. (CHOOSE g : g = added(g)) = (CHOOSE g : g = sum(g))
  <2> HIDE DEF added, sum
  <2> QED BY <1>2, Zenon
<1> QED BY <1>3, <1>4, <1>5, Zenon

(* When the threads are done, what they have been through is all there is. *)
LEMMA DoneIsAll ==
  ASSUME GInv, main # "launch"
  PROVE  Done = UNION {CellsOf(e) : e \in {f \in range : instance[f] = "wave"}}
<1>1. ASSUME NEW e \in Entries, NEW i \in DOMAIN Wave(e)
      PROVE  Through(e, i) <=> e \in range /\ instance[e] = "wave"
  <2>1. Given(e) /\ pc[e] \in {"off", "done"} /\ (e \in range => e < next)
    BY NoneRuns DEF GInv, AllGiven
  <2>2. pc[e] = "done" /\ instance[e] = "wave" => i <= at[e] - 1
    <3>1. i \in Nat /\ i <= Len(Wave(e)) /\ Len(Wave(e)) \in Nat
      BY WavesAre
    <3>2. at[e] \in Nat
      BY DEF GInv, TypeOK
    <3> QED BY <2>1, <3>1, <3>2 DEF Given, Finished
  <2> QED BY <2>1, <2>2 DEF Through, Given
<1>2. range \subseteq Entries
  BY DEF GInv, TypeOK
<1> QED BY <1>1, <1>2, CellsAre DEF Done, CellsOf

(* Outside the block that starts and waits for the threads, each bin has   *)
(* the cycles of its lines in every wave in range that could be loaded,    *)
(* however the additions of the threads were interleaved.                  *)
THEOREM HistogramIsComplete == Spec => []HotspotComplete
<1>1. ASSUME CInv PROVE HotspotComplete
  <2> SUFFICES ASSUME main # "launch", NEW b \in Bins
               PROVE  bins[b] = LET cells == UNION {{<<e, i>> : i \in DOMAIN Wave(e)} :
                                                    e \in {f \in range : instance[f] = "wave"}}
                                    counted == {c \in cells : Covers(b, Wave(c[1])[c[2]].line)}
                                IN MapThenSumSet(LAMBDA c : Wave(c[1])[c[2]].cycles, counted)
    BY Zenon DEF HotspotComplete
  <2> DEFINE cells == UNION {{<<e, i>> : i \in DOMAIN Wave(e)} :
                               e \in {f \in range : instance[f] = "wave"}}
             counted == {c \in cells : Covers(b, Wave(c[1])[c[2]].line)}
  <2>1. cells = Done
    BY <1>1, DoneIsAll DEF CInv, CellsOf
  <2> HIDE DEF cells
  <2>2. counted = In(b, Done) /\ counted \in SUBSET Cells
    BY <2>1 DEF In, LineOf, Done
  <2> HIDE DEF counted
  <2>3. MapThenSumSet(LAMBDA c : Wave(c[1])[c[2]].cycles, counted) = SumOver(Cycles, counted)
    BY <2>2, CyclesAdd, Zenon
  <2>4. bins[b] = MapThenSumSet(LAMBDA c : Wave(c[1])[c[2]].cycles, counted)
    BY <1>1, <2>2, <2>3 DEF CInv, Counted
  <2> QED BY <2>4, Zenon DEF cells, counted
<1> QED BY <1>1, CInvariant, PTL
===============================================================================
