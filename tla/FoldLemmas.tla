------------------------------ MODULE FoldLemmas ------------------------------
(***************************************************************************)
(* Induction over data, and what it says of the sums, extrema, folds and   *)
(* sequences that the models use.  The induction theorems of the library   *)
(* have an operator as a parameter; these have the set of the cases that   *)
(* are true instead, and follow from the library's theorem on minimal      *)
(* elements.                                                               *)
(***************************************************************************)
EXTENDS Integers, Sequences, SequencesExt, FiniteSetsExt, FiniteSetTheorems, TLAPS

(* What is true of 0 and goes from n to n + 1 is true of all numbers. *)
LEMMA Induction ==
  ASSUME NEW G, 0 \in G, \A n \in Nat : n \in G => n + 1 \in G
  PROVE  Nat \subseteq G
<1> SUFFICES ASSUME Nat \ G # {} PROVE FALSE
  OBVIOUS
<1>1. \E x \in Nat \ G : \A y \in Nat \ G : ~(<<y, x>> \in OpToRel(<, Nat))
  BY NatLessThanWellFounded, WFMin
<1>2. PICK x \in Nat \ G : \A y \in Nat \ G : ~(<<y, x>> \in OpToRel(<, Nat))
  BY <1>1
<1>3. \A y \in Nat \ G : ~(y < x)
  BY <1>2 DEF OpToRel
<1> QED BY <1>3

(* What is true of a set as soon as it is true of all that have one element *)
(* less is true of a finite set.                                            *)
LEMMA RemovalInduction ==
  ASSUME NEW S, IsFiniteSet(S), NEW G,
         \A T \in SUBSET S : (\A x \in T : T \ {x} \in G) => T \in G
  PROVE  \A T \in SUBSET S : T \in G
<1> DEFINE ofSize(n) == {T \in SUBSET S : IsFiniteSet(T) /\ Cardinality(T) = n}
           true == {n \in Nat : ofSize(n) \subseteq G}
<1>1. 0 \in true
  BY FS_EmptySet
<1>2. ASSUME NEW n \in Nat, n \in true PROVE n + 1 \in true
  <2> SUFFICES ASSUME NEW T \in ofSize(n + 1) PROVE T \in G
    OBVIOUS
  <2>1. ASSUME NEW x \in T PROVE T \ {x} \in G
    <3>1. IsFiniteSet(T \ {x}) /\ Cardinality(T \ {x}) = IF x \in T THEN Cardinality(T) - 1 ELSE Cardinality(T)
      BY FS_RemoveElement, Zenon
    <3>2. Cardinality(T \ {x}) = n
      BY <3>1
    <3> QED BY <1>2, <3>1, <3>2
  <2> QED BY <2>1
<1>3. Nat \subseteq true
  <2> HIDE DEF true
  <2> QED BY <1>1, <1>2, Induction
<1>4. \A T \in SUBSET S : T \in ofSize(Cardinality(T)) /\ Cardinality(T) \in Nat
  BY FS_Subset, FS_CardinalityType
<1> QED BY <1>3, <1>4

(* What is true of the empty set and stays true when an element is added is *)
(* true of a finite set.                                                    *)
LEMMA SetInduction ==
  ASSUME NEW S, IsFiniteSet(S), NEW G, {} \in G,
         \A T \in SUBSET S, x \in S : T \in G => T \cup {x} \in G
  PROVE  S \in G
<1>1. ASSUME NEW T \in SUBSET S, \A x \in T : T \ {x} \in G PROVE T \in G
  <2>1. CASE T = {}
    BY <2>1
  <2>2. CASE T # {}
    <3>1. PICK x \in T : TRUE
      BY <2>2
    <3>2. T = (T \ {x}) \cup {x} /\ T \ {x} \in SUBSET S /\ x \in S
      BY <3>1
    <3> QED BY <1>1, <3>2
  <2> QED BY <2>1, <2>2
<1> QED BY <1>1, RemovalInduction, ZenonT(40)

-------------------------------------------------------------------------------
(* Extrema *)

(* On a finite set that is not empty, a function to numbers is least and *)
(* greatest somewhere.                                                   *)
LEMMA HasLeast ==
  ASSUME NEW S, IsFiniteSet(S), S # {}, NEW f, \A x \in S : f[x] \in Int
  PROVE  \E x \in S : \A y \in S : f[x] <= f[y]
<1> DEFINE G == {T \in SUBSET S : T = {} \/ \E x \in T : \A y \in T : f[x] <= f[y]}
<1>1. {} \in G
  OBVIOUS
<1>2. ASSUME NEW T \in SUBSET S, NEW z \in S, T \in G PROVE T \cup {z} \in G
  <2>1. CASE T = {}
    BY <2>1
  <2>2. CASE \E x \in T : \A y \in T : f[x] <= f[y]
    <3>1. PICK x \in T : \A y \in T : f[x] <= f[y]
      BY <2>2
    <3>2. CASE f[x] <= f[z] BY <3>1, <3>2
    <3>3. CASE f[z] <= f[x] BY <3>1, <3>3
    <3> QED BY <3>2, <3>3
  <2> QED BY <1>2, <2>1, <2>2
<1>3. S \in G
  <2> HIDE DEF G
  <2> QED BY <1>1, <1>2, SetInduction
<1> QED BY <1>3

(* The same of the greatest. *)
LEMMA HasGreatest ==
  ASSUME NEW S, IsFiniteSet(S), S # {}, NEW f, \A x \in S : f[x] \in Int
  PROVE  \E x \in S : \A y \in S : f[y] <= f[x]
<1> DEFINE g == [x \in S |-> 0 - f[x]]
<1>1. \A x \in S : g[x] \in Int
  OBVIOUS
<1>2. \E x \in S : \A y \in S : g[x] <= g[y]
  <2> HIDE DEF g
  <2> QED BY <1>1, HasLeast
<1> QED BY <1>2
(* The greatest of a set of places is one of them. *)
LEMMA MaxPlace ==
  ASSUME NEW n \in Nat, NEW d \in SUBSET (1 .. n), d # {}
  PROVE  Max(d) \in d /\ \A x \in d : x <= Max(d)
<1> DEFINE f == [x \in d |-> x]
<1>0. IsFiniteSet(1 .. n)
  BY FS_Interval
<1>1. IsFiniteSet(d) /\ \A x \in d : f[x] \in Int
  <2>1. IsFiniteSet(d)
    BY <1>0, FS_Subset
  <2>2. \A x \in d : f[x] \in Int
    OBVIOUS
  <2> QED BY <2>1, <2>2
<1>2. \E x \in d : \A y \in d : f[y] <= f[x]
  <2> HIDE DEF f
  <2> QED BY <1>1, HasGreatest
<1>3. \E x \in d : \A y \in d : x >= y
  BY <1>2
<1>4. Max(d) \in d /\ \A x \in d : Max(d) >= x
  BY <1>3 DEF Max
<1> QED BY <1>4

(* The greatest of the first n + 1 places is the last of them. *)
LEMMA MaxOfFirst ==
  ASSUME NEW n \in Nat, NEW m \in Nat, n + 1 <= m
  PROVE  /\ 1 .. n + 1 \in SUBSET (1 .. m) /\ 1 .. n + 1 # {}
         /\ Max(1 .. n + 1) = n + 1 /\ (1 .. n + 1) \ {n + 1} = 1 .. n
<1>1. 1 .. n + 1 \subseteq 1 .. m /\ n + 1 \in 1 .. n + 1 /\ (1 .. n + 1) \ {n + 1} = 1 .. n
  OBVIOUS
<1>2. Max(1 .. n + 1) \in 1 .. n + 1 /\ \A x \in 1 .. n + 1 : x <= Max(1 .. n + 1)
  BY <1>1, MaxPlace
<1> QED BY <1>1, <1>2

-------------------------------------------------------------------------------
(* Sums *)

SumOver(f, S) == MapThenSumSet(LAMBDA x : f[x], S)

(* The function that the definition of a fold is recursive in. *)
Pick(s) == CHOOSE x \in s : TRUE
Body(g, f, s) == IF s = {} THEN 0 ELSE f[Pick(s)] + g[s \ {Pick(s)}]
Partial(f, S) == CHOOSE g : g = [s \in SUBSET S |-> Body(g, f, s)]
IsPartial(g, f, S) == g = [s \in SUBSET S |-> Body(g, f, s)]

(* A sum is the value of that function. *)
LEMMA SumIsPartial == \A f, S : SumOver(f, S) = Partial(f, S)[S]
BY Zenon DEF SumOver, MapThenSumSet, MapThenFoldSet, Partial, Body, Pick

(* An element is picked. *)
LEMMA PickIsElement == \A s : s # {} => Pick(s) \in s
BY DEF Pick

(* It exists if the set is finite. *)
LEMMA PartialExists ==
  ASSUME NEW f, NEW S, IsFiniteSet(S)
  PROVE  IsPartial(Partial(f, S), f, S)
<1> DEFINE upTo(n) == {s \in SUBSET S : Cardinality(s) <= n}
           true == {n \in Nat : \E g : \A s \in upTo(n) : g[s] = Body(g, f, s)}
<1>0. ASSUME NEW s \in SUBSET S
      PROVE  /\ Cardinality(s) \in Nat
             /\ Cardinality(s) = 0 <=> s = {}
             /\ s # {} => s \ {Pick(s)} \in SUBSET S /\ Cardinality(s \ {Pick(s)}) = Cardinality(s) - 1
  <2>1. IsFiniteSet(s)
    BY FS_Subset
  <2>2. Cardinality(s) \in Nat /\ (Cardinality(s) = 0 <=> s = {})
    BY <2>1, FS_CardinalityType, FS_EmptySet
  <2>3. ASSUME s # {} PROVE Cardinality(s \ {Pick(s)}) = Cardinality(s) - 1
    <3>1. Cardinality(s \ {Pick(s)}) = IF Pick(s) \in s THEN Cardinality(s) - 1 ELSE Cardinality(s)
      BY <2>1, FS_RemoveElement, Zenon
    <3> QED BY <2>3, <3>1, PickIsElement
  <2> QED BY <2>2, <2>3
<1>1. 0 \in true
  <2> DEFINE h == [t \in SUBSET S |-> 0]
  <2>1. ASSUME NEW s \in upTo(0) PROVE h[s] = Body(h, f, s)
    <3>0. Cardinality(s) \in Nat /\ Cardinality(s) <= 0
      BY <1>0
    <3>1. s = {}
      <4>1. Cardinality(s) = 0
        BY <3>0
      <4> QED BY <1>0, <4>1
    <3> QED BY <3>1 DEF Body
  <2> HIDE DEF h
  <2>2. \E k : \A s \in upTo(0) : k[s] = Body(k, f, s)
    BY <2>1
  <2> QED BY <2>2
<1>2. ASSUME NEW n \in Nat, n \in true PROVE n + 1 \in true
  <2>1. PICK g : \A s \in upTo(n) : g[s] = Body(g, f, s)
    BY <1>2
  <2> DEFINE h == [s \in SUBSET S |-> Body(g, f, s)]
  <2>2. \A s \in upTo(n) : h[s] = g[s]
    BY <2>1
  <2>3. ASSUME NEW s \in upTo(n + 1) PROVE h[s] = Body(h, f, s)
    <3>1. CASE s = {}
      BY <3>1 DEF Body
    <3>2. CASE s # {}
      <4>1. s \ {Pick(s)} \in upTo(n)
        BY <1>0, <3>2
      <4>2. h[s \ {Pick(s)}] = g[s \ {Pick(s)}]
        BY <2>2, <4>1
      <4> QED BY <3>2, <4>2 DEF Body
    <3> QED BY <3>1, <3>2
  <2> HIDE DEF h
  <2>4. \E k : \A s \in upTo(n + 1) : k[s] = Body(k, f, s)
    BY <2>3
  <2> QED BY <2>4
<1>3. Nat \subseteq true
  <2> HIDE DEF true
  <2> QED BY <1>1, <1>2, Induction
<1>4. PICK g : \A s \in SUBSET S : g[s] = Body(g, f, s)
  <2>1. Cardinality(S) \in true
    BY <1>3, FS_CardinalityType
  <2>2. SUBSET S = upTo(Cardinality(S))
    BY FS_Subset
  <2> QED BY <2>1, <2>2
<1> DEFINE h == [s \in SUBSET S |-> g[s]]
<1>5. h = [s \in SUBSET S |-> Body(h, f, s)]
  <2>1. ASSUME NEW s \in SUBSET S PROVE g[s] = Body(h, f, s)
    <3>1. CASE s = {}
      BY <1>4, <3>1 DEF Body
    <3>2. CASE s # {}
      BY <1>4, <3>2 DEF Body
    <3> QED BY <3>1, <3>2
  <2> QED BY <2>1
<1> HIDE DEF h
<1>6. Partial(f, S) = [s \in SUBSET S |-> Body(Partial(f, S), f, s)]
  BY <1>5 DEF Partial
<1> QED BY <1>6 DEF IsPartial

(* Then it is as its definition says. *)
LEMMA PartialStep ==
  ASSUME NEW f, NEW S, IsFiniteSet(S), NEW s \in SUBSET S
  PROVE  Partial(f, S)[s] = Body(Partial(f, S), f, s)
<1> DEFINE g == Partial(f, S)
<1>0. IsPartial(g, f, S)
  BY PartialExists
<1> HIDE DEF g
<1>1. g = [t \in SUBSET S |-> Body(g, f, t)]
  BY <1>0 DEF IsPartial
<1>2. g[s] = Body(g, f, s)
  BY <1>1, Zenon
<1> QED BY <1>2 DEF g

(* One step of it. *)
LEMMA BodyPicks == \A g, f, s : s # {} => Body(g, f, s) = f[Pick(s)] + g[s \ {Pick(s)}]
BY DEF Body

(* The sum depends on the values of the elements alone. *)
LEMMA PartialAgrees ==
  ASSUME NEW S, IsFiniteSet(S), NEW T \in SUBSET S, NEW f, NEW g, \A x \in T : f[x] = g[x]
  PROVE  Partial(f, S)[T] = Partial(g, T)[T]
<1> DEFINE G == {s \in SUBSET T : Partial(f, S)[s] = Partial(g, T)[s]}
<1>1. IsFiniteSet(T)
  BY FS_Subset
<1>2. ASSUME NEW s \in SUBSET T, \A x \in s : s \ {x} \in G PROVE s \in G
  <2>1. Partial(f, S)[s] = Body(Partial(f, S), f, s) /\ Partial(g, T)[s] = Body(Partial(g, T), g, s)
    BY <1>1, PartialStep
  <2>2. CASE s = {}
    BY <2>1, <2>2 DEF Body
  <2>3. CASE s # {}
    <3>1. Pick(s) \in s
      BY <2>3, PickIsElement
    <3>2. Partial(f, S)[s \ {Pick(s)}] = Partial(g, T)[s \ {Pick(s)}] /\ f[Pick(s)] = g[Pick(s)]
      BY <1>2, <3>1
    <3>3. Partial(f, S)[s] = f[Pick(s)] + Partial(f, S)[s \ {Pick(s)}]
      BY <2>1, <2>3, BodyPicks, Zenon
    <3>4. Partial(g, T)[s] = g[Pick(s)] + Partial(g, T)[s \ {Pick(s)}]
      BY <2>1, <2>3, BodyPicks, Zenon
    <3>5. Partial(f, S)[s] = Partial(g, T)[s]
      BY <3>2, <3>3, <3>4, Zenon
    <3> QED BY <3>5
  <2> QED BY <2>2, <2>3
<1> HIDE DEF G
<1>3. \A s \in SUBSET T : s \in G
  BY <1>1, <1>2, RemovalInduction, Zenon
<1>4. T \in G
  BY <1>3
<1> QED BY <1>4 DEF G

(* So two functions that agree have one sum. *)
LEMMA SumAgrees ==
  ASSUME NEW S, IsFiniteSet(S), NEW f, NEW g, \A x \in S : f[x] = g[x]
  PROVE  SumOver(f, S) = SumOver(g, S)
BY PartialAgrees, SumIsPartial

(* There is nothing to add. *)
LEMMA SumEmpty == \A f : SumOver(f, {}) = 0
<1> TAKE f
<1>1. Partial(f, {})[{}] = Body(Partial(f, {}), f, {})
  BY PartialStep, FS_EmptySet
<1> QED BY <1>1, SumIsPartial DEF Body

(* What the definition says: one element is taken out, the one picked. *)
LEMMA SumPicked ==
  ASSUME NEW S, IsFiniteSet(S), NEW f, S # {}
  PROVE  SumOver(f, S) = f[Pick(S)] + SumOver(f, S \ {Pick(S)})
<1>1. Partial(f, S)[S] = f[Pick(S)] + Partial(f, S)[S \ {Pick(S)}]
  <2>1. Partial(f, S)[S] = Body(Partial(f, S), f, S)
    BY PartialStep
  <2> QED BY <2>1, BodyPicks, Zenon
<1>2. Partial(f, S)[S \ {Pick(S)}] = Partial(f, S \ {Pick(S)})[S \ {Pick(S)}]
  BY PartialAgrees
<1> QED BY <1>1, <1>2, SumIsPartial

(* A sum of numbers is a number. *)
LEMMA SumType ==
  ASSUME NEW S, IsFiniteSet(S), NEW f, \A x \in S : f[x] \in Int
  PROVE  SumOver(f, S) \in Int
<1> DEFINE G == {T \in SUBSET S : SumOver(f, T) \in Int}
<1>1. ASSUME NEW T \in SUBSET S, \A x \in T : T \ {x} \in G PROVE T \in G
  <2>1. CASE T = {}
    BY <2>1, SumEmpty
  <2>2. CASE T # {}
    <3>1. IsFiniteSet(T)
      BY FS_Subset
    <3>2. Pick(T) \in T /\ SumOver(f, T) = f[Pick(T)] + SumOver(f, T \ {Pick(T)})
      BY <2>2, <3>1, SumPicked, PickIsElement
    <3>3. f[Pick(T)] \in Int /\ SumOver(f, T \ {Pick(T)}) \in Int
      BY <1>1, <3>2
    <3> QED BY <3>2, <3>3
  <2> QED BY <2>1, <2>2
<1> HIDE DEF G
<1>2. \A T \in SUBSET S : T \in G
  BY <1>1, RemovalInduction, Zenon
<1>3. S \in G
  BY <1>2
<1> QED BY <1>3 DEF G

(* Any element may be taken out. *)
LEMMA SumWithout ==
  ASSUME NEW S, IsFiniteSet(S), NEW f, \A y \in S : f[y] \in Int, NEW x \in S
  PROVE  SumOver(f, S) = f[x] + SumOver(f, S \ {x})
<1> DEFINE G == {T \in SUBSET S : \A y \in T : SumOver(f, T) = f[y] + SumOver(f, T \ {y})}
<1>1. ASSUME NEW T \in SUBSET S, \A y \in T : T \ {y} \in G PROVE T \in G
  <2> SUFFICES ASSUME NEW y \in T PROVE SumOver(f, T) = f[y] + SumOver(f, T \ {y})
    OBVIOUS
  <2> DEFINE p == Pick(T)
  <2>1. p \in T /\ SumOver(f, T) = f[p] + SumOver(f, T \ {p})
    BY SumPicked, PickIsElement, FS_Subset
  <2> HIDE DEF p
  <2>2. CASE p = y
    BY <2>1, <2>2
  <2>3. CASE p # y
    <3>1. SumOver(f, T \ {p}) = f[y] + SumOver(f, (T \ {p}) \ {y})
      BY <1>1, <2>1, <2>3
    <3>2. SumOver(f, T \ {y}) = f[p] + SumOver(f, (T \ {y}) \ {p})
      BY <1>1, <2>1, <2>3
    <3>3. (T \ {p}) \ {y} = (T \ {y}) \ {p}
      OBVIOUS
    <3>4. SumOver(f, (T \ {p}) \ {y}) \in Int
      BY SumType, FS_Subset
    <3>5. f[p] \in Int /\ f[y] \in Int
      BY <2>1
    <3>7. SumOver(f, T) = f[p] + (f[y] + SumOver(f, (T \ {p}) \ {y}))
      BY <2>1, <3>1, Zenon
    <3>8. SumOver(f, T \ {y}) = f[p] + SumOver(f, (T \ {p}) \ {y})
      BY <3>2, <3>3, Zenon
    <3> DEFINE Z == SumOver(f, (T \ {p}) \ {y})
               a == f[p]
               b == f[y]
    <3>6. a + (b + Z) = b + (a + Z)
      <4>1. a \in Int /\ b \in Int /\ Z \in Int
        BY <3>4, <3>5
      <4> HIDE DEF Z, a, b
      <4> QED BY <4>1
    <3> QED BY <3>6, <3>7, <3>8, Zenon
  <2> QED BY <2>2, <2>3
<1> HIDE DEF G
<1>2. \A T \in SUBSET S : T \in G
  BY <1>1, RemovalInduction, Zenon
<1>3. S \in G
  BY <1>2
<1> QED BY <1>3 DEF G

(* Any element may be added. *)
LEMMA SumWith ==
  ASSUME NEW S, IsFiniteSet(S), NEW x, x \notin S, NEW f, \A y \in S \cup {x} : f[y] \in Int
  PROVE  SumOver(f, S \cup {x}) = SumOver(f, S) + f[x]
<1>1. IsFiniteSet(S \cup {x}) /\ (S \cup {x}) \ {x} = S
  BY FS_AddElement
<1>2. SumOver(f, S \cup {x}) = f[x] + SumOver(f, S)
  BY <1>1, SumWithout
<1> QED BY <1>2, SumType

(* A sum of zeros is zero. *)
LEMMA SumZero ==
  ASSUME NEW S, IsFiniteSet(S), NEW f, \A y \in S : f[y] = 0
  PROVE  SumOver(f, S) = 0
<1> DEFINE G == {T \in SUBSET S : SumOver(f, T) = 0}
<1>1. ASSUME NEW T \in SUBSET S, \A x \in T : T \ {x} \in G PROVE T \in G
  <2>1. CASE T = {}
    BY <2>1, SumEmpty
  <2>2. CASE T # {}
    <3>1. IsFiniteSet(T)
      BY FS_Subset
    <3>2. Pick(T) \in T /\ SumOver(f, T) = f[Pick(T)] + SumOver(f, T \ {Pick(T)})
      BY <2>2, <3>1, SumPicked, PickIsElement
    <3>3. f[Pick(T)] = 0 /\ SumOver(f, T \ {Pick(T)}) = 0
      BY <1>1, <3>2
    <3> QED BY <3>2, <3>3
  <2> QED BY <2>1, <2>2
<1> HIDE DEF G
<1>2. \A T \in SUBSET S : T \in G
  BY <1>1, RemovalInduction, Zenon
<1>3. S \in G
  BY <1>2
<1> QED BY <1>3 DEF G

(* A sum of numbers that are not negative is at least each of them. *)
LEMMA SumBounds ==
  ASSUME NEW S, IsFiniteSet(S), NEW f, \A y \in S : f[y] \in Nat
  PROVE  SumOver(f, S) \in Nat /\ \A x \in S : f[x] <= SumOver(f, S)
<1> DEFINE G == {T \in SUBSET S : SumOver(f, T) \in Nat}
<1>1. ASSUME NEW T \in SUBSET S, \A x \in T : T \ {x} \in G PROVE T \in G
  <2>1. CASE T = {}
    BY <2>1, SumEmpty
  <2>2. CASE T # {}
    <3>1. IsFiniteSet(T)
      BY FS_Subset
    <3>2. Pick(T) \in T /\ SumOver(f, T) = f[Pick(T)] + SumOver(f, T \ {Pick(T)})
      BY <2>2, <3>1, SumPicked, PickIsElement
    <3>3. f[Pick(T)] \in Nat /\ SumOver(f, T \ {Pick(T)}) \in Nat
      BY <1>1, <3>2
    <3> QED BY <3>2, <3>3
  <2> QED BY <2>1, <2>2
<1> HIDE DEF G
<1>2. \A T \in SUBSET S : T \in G
  BY <1>1, RemovalInduction, Zenon
<1>3. \A T \in SUBSET S : SumOver(f, T) \in Nat
  BY <1>2 DEF G
<1>4. ASSUME NEW x \in S PROVE f[x] <= SumOver(f, S)
  <2>1. SumOver(f, S) = f[x] + SumOver(f, S \ {x})
    BY SumWithout
  <2> QED BY <1>3, <2>1
<1> QED BY <1>3, <1>4

(* Two sums are added element by element. *)
LEMMA SumPlus ==
  ASSUME NEW S, IsFiniteSet(S), NEW f, NEW g, NEW h,
         \A x \in S : f[x] \in Int /\ g[x] \in Int /\ h[x] = f[x] + g[x]
  PROVE  SumOver(h, S) = SumOver(f, S) + SumOver(g, S)
<1> DEFINE G == {T \in SUBSET S : SumOver(h, T) = SumOver(f, T) + SumOver(g, T)}
<1>1. {} \in G
  BY SumEmpty
<1>2. ASSUME NEW T \in SUBSET S, NEW z \in S, T \in G PROVE T \cup {z} \in G
  <2>1. CASE z \in T
    <3>1. T \cup {z} = T
      BY <2>1
    <3> QED BY <1>2, <3>1
  <2>2. CASE z \notin T
    <3>1. IsFiniteSet(T) /\ \A y \in T \cup {z} : f[y] \in Int /\ g[y] \in Int /\ h[y] \in Int
      BY FS_Subset
    <3>2. SumOver(f, T \cup {z}) = SumOver(f, T) + f[z]
      BY <2>2, <3>1, SumWith
    <3>3. SumOver(g, T \cup {z}) = SumOver(g, T) + g[z]
      BY <2>2, <3>1, SumWith
    <3>4. SumOver(h, T \cup {z}) = SumOver(h, T) + h[z]
      BY <2>2, <3>1, SumWith
    <3>5. SumOver(f, T) \in Int /\ SumOver(g, T) \in Int
      BY <3>1, SumType
    <3>6. SumOver(h, T) = SumOver(f, T) + SumOver(g, T) /\ h[z] = f[z] + g[z] /\ f[z] \in Int /\ g[z] \in Int
      BY <1>2
    <3> QED BY <3>2, <3>3, <3>4, <3>5, <3>6
  <2> QED BY <2>1, <2>2
<1> HIDE DEF G
<1>3. S \in G
  BY <1>1, <1>2, SetInduction
<1> QED BY <1>3 DEF G

(* Elements that add nothing may be left out. *)
LEMMA SumSupport ==
  ASSUME NEW S, IsFiniteSet(S), NEW R \in SUBSET S, NEW f, \A x \in S : f[x] \in Int, \A x \in S \ R : f[x] = 0
  PROVE  SumOver(f, S) = SumOver(f, R)
<1> DEFINE G == {T \in SUBSET S : SumOver(f, T) = SumOver(f, T \cap R)}
<1>1. {} \in G
  <2>1. {} \cap R = {}
    OBVIOUS
  <2> QED BY <2>1
<1>2. ASSUME NEW T \in SUBSET S, NEW z \in S, T \in G PROVE T \cup {z} \in G
  <2>1. CASE z \in T
    <3>1. T \cup {z} = T
      BY <2>1
    <3> QED BY <1>2, <3>1
  <2>2. CASE z \notin T
    <3>1. IsFiniteSet(T) /\ IsFiniteSet(T \cap R) /\ f[z] \in Int
      BY FS_Subset
    <3>2. SumOver(f, T \cup {z}) = SumOver(f, T) + f[z]
      BY <2>2, <3>1, SumWith
    <3>3. SumOver(f, T) = SumOver(f, T \cap R) /\ SumOver(f, T) \in Int
      BY <1>2, <3>1, SumType
    <3>4. CASE z \in R
      <4>1. (T \cup {z}) \cap R = (T \cap R) \cup {z} /\ z \notin T \cap R
        BY <2>2, <3>4
      <4>2. SumOver(f, (T \cap R) \cup {z}) = SumOver(f, T \cap R) + f[z]
        BY <3>1, <4>1, SumWith
      <4> QED BY <3>2, <3>3, <4>1, <4>2
    <3>5. CASE z \notin R
      <4>1. (T \cup {z}) \cap R = T \cap R
        BY <3>5
      <4>2. f[z] = 0
        BY <3>5
      <4>3. SumOver(f, T \cup {z}) = SumOver(f, T)
        BY <3>2, <3>3, <4>2
      <4> QED BY <3>3, <4>1, <4>3
    <3> QED BY <3>4, <3>5
  <2> QED BY <2>1, <2>2
<1> HIDE DEF G
<1>3. S \in G
  BY <1>1, <1>2, SetInduction
<1>4. S \cap R = R
  OBVIOUS
<1> QED BY <1>3, <1>4 DEF G

(* The elements of S have different names, and g is f by name. *)
Renames(m, S, f, g) ==
  /\ \A x, y \in S : m[x] = m[y] => x = y
  /\ \A x \in S : f[m[x]] \in Int /\ g[x] = f[m[x]]
Image(m, S) == {m[x] : x \in S}

(* One element and its name are added. *)
LEMMA RenameStep ==
  ASSUME NEW S, NEW m, NEW f, NEW g, Renames(m, S, f, g), NEW T \in SUBSET S, NEW z \in S, z \notin T
  PROVE  /\ Image(m, T \cup {z}) = Image(m, T) \cup {m[z]} /\ m[z] \notin Image(m, T)
         /\ f[m[z]] = g[z]
         /\ \A y \in Image(m, T) \cup {m[z]} : f[y] \in Int
         /\ \A y \in T \cup {z} : g[y] \in Int
BY DEF Renames, Image

(* A sum over the names of some elements is one over the elements. *)
LEMMA SumImage ==
  ASSUME NEW S, IsFiniteSet(S), NEW m, NEW f, NEW g, Renames(m, S, f, g)
  PROVE  SumOver(f, Image(m, S)) = SumOver(g, S)
<1> DEFINE G == {T \in SUBSET S : IsFiniteSet(Image(m, T)) /\ SumOver(f, Image(m, T)) = SumOver(g, T)}
<1>1. {} \in G
  <2>1. Image(m, {}) = {}
    BY DEF Image
  <2> QED BY <2>1, SumEmpty, FS_EmptySet
<1>2. ASSUME NEW T \in SUBSET S, NEW z \in S, T \in G PROVE T \cup {z} \in G
  <2>1. CASE z \in T
    <3>1. T \cup {z} = T
      BY <2>1
    <3> QED BY <1>2, <3>1
  <2>2. CASE z \notin T
    <3>1. /\ Image(m, T \cup {z}) = Image(m, T) \cup {m[z]} /\ m[z] \notin Image(m, T)
          /\ f[m[z]] = g[z]
      BY <2>2, RenameStep
    <3>2. \A y \in Image(m, T) \cup {m[z]} : f[y] \in Int
      BY <2>2, RenameStep
    <3>3. \A y \in T \cup {z} : g[y] \in Int
      BY <2>2, RenameStep
    <3>4. IsFiniteSet(Image(m, T)) /\ SumOver(f, Image(m, T)) = SumOver(g, T) /\ IsFiniteSet(T)
      BY <1>2, FS_Subset
    <3> HIDE DEF G
    <3>5. SumOver(f, Image(m, T) \cup {m[z]}) = SumOver(f, Image(m, T)) + f[m[z]]
      BY <3>1, <3>2, <3>4, SumWith
    <3>6. SumOver(g, T \cup {z}) = SumOver(g, T) + g[z]
      BY <2>2, <3>3, <3>4, SumWith
    <3>7. IsFiniteSet(Image(m, T) \cup {m[z]})
      BY <3>4, FS_AddElement
    <3>8. T \cup {z} \in SUBSET S
      OBVIOUS
    <3>9. IsFiniteSet(Image(m, T \cup {z})) /\ SumOver(f, Image(m, T \cup {z})) = SumOver(g, T \cup {z})
      BY <3>1, <3>4, <3>5, <3>6, <3>7
    <3> QED BY <3>8, <3>9 DEF G
  <2> QED BY <2>1, <2>2
<1> HIDE DEF G
<1>3. S \in G
  BY <1>1, <1>2, SetInduction
<1> QED BY <1>3 DEF G

(* A sum of equal numbers. *)
LEMMA SumEqual ==
  ASSUME NEW S, IsFiniteSet(S), NEW f, NEW v \in Int, \A x \in S : f[x] = v
  PROVE  SumOver(f, S) = Cardinality(S) * v
<1> DEFINE G == {T \in SUBSET S : SumOver(f, T) = Cardinality(T) * v}
<1>1. {} \in G
  BY SumEmpty, FS_EmptySet
<1>2. ASSUME NEW T \in SUBSET S, NEW z \in S, T \in G PROVE T \cup {z} \in G
  <2>1. CASE z \in T
    <3>1. T \cup {z} = T
      BY <2>1
    <3> QED BY <1>2, <3>1
  <2>2. CASE z \notin T
    <3>1. IsFiniteSet(T) /\ \A y \in T \cup {z} : f[y] \in Int
      BY FS_Subset
    <3>2. SumOver(f, T \cup {z}) = SumOver(f, T) + f[z]
      BY <2>2, <3>1, SumWith
    <3>3. Cardinality(T \cup {z}) = Cardinality(T) + 1 /\ Cardinality(T) \in Nat
      BY <2>2, <3>1, FS_AddElement, FS_CardinalityType
    <3>4. SumOver(f, T) = Cardinality(T) * v /\ f[z] = v
      BY <1>2
    <3> QED BY <3>2, <3>3, <3>4
  <2> QED BY <2>1, <2>2
<1> HIDE DEF G
<1>3. S \in G
  BY <1>1, <1>2, SetInduction
<1> QED BY <1>3 DEF G

(* The sum over the rows of a table. *)
RowSums(g, S, T) == [x \in S |-> SumOver(g[x], T)]
Columns(g, S, T) == [y \in T |-> [x \in S |-> g[x][y]]]

(* A table has one sum, by rows and by columns. *)
LEMMA SumExchanged ==
  ASSUME NEW S, IsFiniteSet(S), NEW T, IsFiniteSet(T), NEW g, \A x \in S, y \in T : g[x][y] \in Int
  PROVE  SumOver(RowSums(g, S, T), S) = SumOver(RowSums(Columns(g, S, T), T, S), T)
<1> DEFINE rows == RowSums(g, S, T)
           columns(R) == [y \in T |-> SumOver([x \in S |-> g[x][y]], R)]
           G == {R \in SUBSET S : SumOver(rows, R) = SumOver(columns(R), T)}
<1>1. {} \in G
  <2>1. \A y \in T : columns({})[y] = 0
    BY SumEmpty
  <2> HIDE DEF columns
  <2>2. SumOver(columns({}), T) = 0
    BY <2>1, SumZero
  <2> QED BY <2>2, SumEmpty
<1>2. ASSUME NEW R \in SUBSET S, NEW z \in S, R \in G PROVE R \cup {z} \in G
  <2>1. CASE z \in R
    <3>1. R \cup {z} = R
      BY <2>1
    <3> QED BY <1>2, <3>1
  <2>2. CASE z \notin R
    <3>1. IsFiniteSet(R) /\ R \cup {z} \in SUBSET S
      BY FS_Subset
    <3>2. ASSUME NEW y \in T
          PROVE  /\ columns(R)[y] \in Int
                 /\ columns(R \cup {z})[y] = columns(R)[y] + g[z][y]
      <4> DEFINE f == [x \in S |-> g[x][y]]
      <4>1. \A x \in R \cup {z} : f[x] \in Int
        OBVIOUS
      <4>2. f[z] = g[z][y]
        OBVIOUS
      <4>3. columns(R)[y] = SumOver(f, R) /\ columns(R \cup {z})[y] = SumOver(f, R \cup {z})
        OBVIOUS
      <4> HIDE DEF f, columns
      <4>4. SumOver(f, R \cup {z}) = SumOver(f, R) + f[z] /\ SumOver(f, R) \in Int
        BY <2>2, <3>1, <4>1, SumWith, SumType
      <4> QED BY <4>2, <4>3, <4>4
    <3>3. \A x \in S : rows[x] \in Int
      <4> TAKE x \in S
      <4>1. SumOver(g[x], T) \in Int
        BY SumType
      <4> QED BY <4>1 DEF RowSums
    <3>4. rows[z] = SumOver(g[z], T)
      BY DEF RowSums
    <3> HIDE DEF columns, rows
    <3>5. SumOver(columns(R \cup {z}), T) = SumOver(columns(R), T) + SumOver(g[z], T)
      BY <3>2, SumPlus
    <3>6. SumOver(rows, R \cup {z}) = SumOver(rows, R) + rows[z]
      BY <2>2, <3>1, <3>3, SumWith
    <3>7. SumOver(rows, R) = SumOver(columns(R), T)
      BY <1>2
    <3> QED BY <3>1, <3>4, <3>5, <3>6, <3>7
  <2> QED BY <2>1, <2>2
<1>3. S \in G
  <2> HIDE DEF G
  <2> QED BY <1>1, <1>2, SetInduction
<1>4. SumOver(rows, S) = SumOver(columns(S), T)
  BY <1>3
<1>5. \A y \in T : columns(S)[y] = RowSums(Columns(g, S, T), T, S)[y]
  BY DEF RowSums, Columns
<1> HIDE DEF columns
<1>6. SumOver(columns(S), T) = SumOver(RowSums(Columns(g, S, T), T, S), T)
  BY <1>5, SumAgrees
<1> QED BY <1>4, <1>6

(* The sum over one element is its value. *)
LEMMA SumOne ==
  ASSUME NEW x, NEW f, f[x] \in Int
  PROVE  SumOver(f, {x}) = f[x]
<1>1. IsFiniteSet({}) /\ x \notin {} /\ {} \cup {x} = {x} /\ \A y \in {} \cup {x} : f[y] \in Int
  BY FS_EmptySet
<1>2. SumOver(f, {} \cup {x}) = SumOver(f, {}) + f[x]
  BY <1>1, SumWith
<1> QED BY <1>1, <1>2, SumEmpty

(* A sum may be taken group by group. *)
LEMMA SumGrouped ==
  ASSUME NEW S, IsFiniteSet(S), NEW T, IsFiniteSet(T), NEW m, NEW w, \A x \in S : m[x] \in T /\ w[x] \in Int
  PROVE  SumOver(w, S) = SumOver([y \in T |-> SumOver(w, {x \in S : m[x] = y})], T)
<1> DEFINE g == [x \in S |-> [y \in T |-> IF m[x] = y THEN w[x] ELSE 0]]
           rows == RowSums(g, S, T)
           columns == RowSums(Columns(g, S, T), T, S)
           at(y) == {x \in S : m[x] = y}
<1>1. \A x \in S, y \in T : g[x][y] = (IF m[x] = y THEN w[x] ELSE 0) /\ g[x][y] \in Int
  OBVIOUS
<1>2. \A x \in S, y \in T : Columns(g, S, T)[y][x] = g[x][y]
  BY DEF Columns
<1> HIDE DEF g
<1>3. SumOver(rows, S) = SumOver(columns, T)
  BY <1>1, SumExchanged
<1>4. ASSUME NEW x \in S PROVE rows[x] = w[x]
  <2>1. {m[x]} \in SUBSET T /\ (\A y \in T : g[x][y] \in Int) /\ \A y \in T \ {m[x]} : g[x][y] = 0
    BY <1>1
  <2>2. SumOver(g[x], T) = SumOver(g[x], {m[x]})
    <3> DEFINE f == g[x]
    <3> HIDE DEF f
    <3>1. (\A y \in T : f[y] \in Int) /\ \A y \in T \ {m[x]} : f[y] = 0
      BY <2>1 DEF f
    <3>2. SumOver(f, T) = SumOver(f, {m[x]})
      BY <2>1, <3>1, SumSupport
    <3> QED BY <3>2 DEF f
  <2>3. g[x][m[x]] = w[x]
    BY <1>1
  <2>4. SumOver(g[x], {m[x]}) = w[x]
    BY <2>3, SumOne
  <2> QED BY <2>2, <2>4 DEF RowSums
<1>5. SumOver(rows, S) = SumOver(w, S)
  <2> HIDE DEF rows
  <2> QED BY <1>4, SumAgrees
<1>6. ASSUME NEW y \in T PROVE columns[y] = SumOver(w, at(y))
  <2> DEFINE f == Columns(g, S, T)[y]
  <2>1. \A x \in S : f[x] = IF m[x] = y THEN w[x] ELSE 0
    BY <1>1, <1>2
  <2> HIDE DEF f
  <2>2. at(y) \in SUBSET S /\ (\A x \in S : f[x] \in Int) /\ \A x \in S \ at(y) : f[x] = 0
    BY <2>1
  <2>3. IsFiniteSet(at(y)) /\ \A x \in at(y) : f[x] = w[x]
    BY <2>1, <2>2, FS_Subset
  <2> HIDE DEF at
  <2>4. SumOver(f, S) = SumOver(f, at(y))
    BY <2>2, SumSupport
  <2>5. SumOver(f, at(y)) = SumOver(w, at(y))
    BY <2>3, SumAgrees
  <2> QED BY <2>4, <2>5 DEF RowSums, f
<1>7. SumOver(columns, T) = SumOver([y \in T |-> SumOver(w, at(y))], T)
  <2> DEFINE f == [y \in T |-> SumOver(w, at(y))]
  <2>1. \A y \in T : columns[y] = f[y]
    BY <1>6
  <2> HIDE DEF columns, f
  <2>2. SumOver(columns, T) = SumOver(f, T)
    BY <2>1, SumAgrees
  <2> QED BY <2>2 DEF f
<1> QED BY <1>3, <1>5, <1>7

(* Where no value is greater, no sum is. *)
LEMMA SumNoGreater ==
  ASSUME NEW S, IsFiniteSet(S), NEW f, NEW g, \A x \in S : f[x] \in Int /\ g[x] \in Int /\ f[x] <= g[x]
  PROVE  SumOver(f, S) <= SumOver(g, S)
<1> DEFINE h == [x \in S |-> g[x] - f[x]]
<1>1. (\A x \in S : h[x] \in Nat) /\ \A x \in S : f[x] \in Int /\ h[x] \in Int /\ g[x] = f[x] + h[x]
  OBVIOUS
<1> HIDE DEF h
<1>2. SumOver(g, S) = SumOver(f, S) + SumOver(h, S)
  BY <1>1, SumPlus
<1>3. SumOver(h, S) \in Nat
  BY <1>1, SumBounds
<1>4. SumOver(f, S) \in Int
  BY SumType
<1> QED BY <1>2, <1>3, <1>4

(* A part of what is not negative sums up to no more than all of it. *)
LEMMA SumOfPart ==
  ASSUME NEW S, IsFiniteSet(S), NEW T \in SUBSET S, NEW f, \A x \in S : f[x] \in Nat
  PROVE  SumOver(f, T) <= SumOver(f, S)
<1> DEFINE g == [x \in S |-> IF x \in T THEN f[x] ELSE 0]
<1>1. \A x \in S : f[x] \in Int /\ g[x] \in Int /\ g[x] <= f[x]
  OBVIOUS
<1>2. (\A x \in S \ T : g[x] = 0) /\ \A x \in T : g[x] = f[x]
  OBVIOUS
<1> HIDE DEF g
<1>3. SumOver(g, S) = SumOver(g, T)
  BY <1>1, <1>2, SumSupport
<1>4. SumOver(g, T) = SumOver(f, T)
  <2>1. IsFiniteSet(T)
    BY FS_Subset
  <2> QED BY <1>2, <2>1, SumAgrees
<1>5. SumOver(g, S) <= SumOver(f, S)
  BY <1>1, SumNoGreater
<1> QED BY <1>3, <1>4, <1>5

(* Stretches of time, from one time to another, that do not overlap. *)
Apart(S, from, to) ==
  /\ \A x \in S : from[x] \in Int /\ to[x] \in Int /\ from[x] <= to[x]
  /\ \A x, y \in S : x = y \/ to[x] <= from[y] \/ to[y] <= from[x]

(* Together they are no longer than the time they lie in. *)
LEMMA Packed ==
  ASSUME NEW S, IsFiniteSet(S), NEW from, NEW to, Apart(S, from, to), NEW a \in Int, NEW b \in Int, a <= b,
         NEW w, \A x \in S : w[x] = to[x] - from[x] /\ from[x] < to[x],
         \A x \in S : a <= from[x] /\ to[x] <= b
  PROVE  SumOver(w, S) <= b - a
<1> DEFINE Fits(T, c) == c \in Int /\ a <= c /\ \A x \in T : to[x] <= c
           G == {T \in SUBSET S : \A c : Fits(T, c) => SumOver(w, T) <= c - a}
<1>1. ASSUME NEW T \in SUBSET S, \A x \in T : T \ {x} \in G PROVE T \in G
  <2>1. SUFFICES ASSUME NEW c, Fits(T, c) PROVE SumOver(w, T) <= c - a
    OBVIOUS
  <2>2. CASE T = {}
    BY <2>1, <2>2, SumEmpty
  <2>3. CASE T # {}
    <3>1. IsFiniteSet(T) /\ \A x \in T : to[x] \in Int /\ w[x] \in Int
      BY FS_Subset DEF Apart
    <3>2. PICK x \in T : \A y \in T : to[y] <= to[x]
      BY <2>3, <3>1, HasGreatest
    <3>3. x \in S /\ from[x] \in Int /\ to[x] \in Int /\ w[x] = to[x] - from[x] /\ a <= from[x] /\ from[x] < to[x]
      BY DEF Apart
    <3>4. \A y \in T \ {x} : to[y] <= from[x]
      <4> TAKE y \in T \ {x}
      <4>1. y \in S /\ y # x /\ from[y] \in Int /\ to[y] \in Int /\ from[y] < to[y] /\ to[y] <= to[x]
        BY <3>2 DEF Apart
      <4>2. to[x] <= from[y] \/ to[y] <= from[x]
        BY <3>3, <4>1 DEF Apart
      <4> QED BY <3>3, <4>1, <4>2
    <3>5. Fits(T \ {x}, from[x])
      BY <3>3, <3>4
    <3>6. SumOver(w, T \ {x}) <= from[x] - a
      BY <1>1, <3>5
    <3>7. SumOver(w, T) = w[x] + SumOver(w, T \ {x})
      BY <3>1, SumWithout
    <3>8. SumOver(w, T \ {x}) \in Int
      <4>1. IsFiniteSet(T \ {x}) /\ \A y \in T \ {x} : w[y] \in Int
        BY <3>1, FS_Subset
      <4> QED BY <4>1, SumType
    <3>9. to[x] <= c /\ c \in Int
      BY <2>1
    <3> HIDE DEF Fits, G
    <3> QED BY <3>3, <3>6, <3>7, <3>8, <3>9
  <2> QED BY <2>2, <2>3
<1>2. S \in G
  <2> HIDE DEF G
  <2>1. \A T \in SUBSET S : (\A x \in T : T \ {x} \in G) => T \in G
    BY <1>1
  <2>2. \A T \in SUBSET S : T \in G
    BY <2>1, RemovalInduction
  <2>3. S \in SUBSET S
    OBVIOUS
  <2> QED BY <2>2, <2>3
<1>3. Fits(S, b)
  OBVIOUS
<1> QED BY <1>2, <1>3

-------------------------------------------------------------------------------
(* Folds and flattened sequences *)

(* The function that a fold is recursive in, when p picks the elements of  *)
(* the sets it works through and o is what it does with one, given the set *)
(* and what the rest gave.                                                 *)
Recurs(g, S, p, o, base) ==
  \A s \in SUBSET S : g[s] = IF s = {} THEN base ELSE o[<<s, g[s \ {p[s]}]>>]

(* It exists if the set is finite and the values stay in one set. *)
LEMMA RecursionExists ==
  ASSUME NEW S, IsFiniteSet(S), NEW V, NEW base \in V, NEW o \in [(SUBSET S) \X V -> V],
         NEW p, \A s \in SUBSET S : s # {} => p[s] \in s
  PROVE  \E g \in [SUBSET S -> V] : Recurs(g, S, p, o, base)
<1> DEFINE upTo(n) == {s \in SUBSET S : Cardinality(s) <= n}
           next(g, s) == IF s = {} THEN base ELSE o[<<s, g[s \ {p[s]}]>>]
           true == {n \in Nat : \E g \in [SUBSET S -> V] : \A s \in upTo(n) : g[s] = next(g, s)}
<1>1. ASSUME NEW s \in SUBSET S
      PROVE  /\ Cardinality(s) \in Nat
             /\ Cardinality(s) = 0 <=> s = {}
             /\ s # {} => s \ {p[s]} \in SUBSET S /\ Cardinality(s \ {p[s]}) = Cardinality(s) - 1
  <2>1. IsFiniteSet(s)
    BY FS_Subset
  <2>2. Cardinality(s) \in Nat /\ (Cardinality(s) = 0 <=> s = {})
    BY <2>1, FS_CardinalityType, FS_EmptySet
  <2>3. ASSUME s # {} PROVE Cardinality(s \ {p[s]}) = Cardinality(s) - 1
    <3>1. Cardinality(s \ {p[s]}) = IF p[s] \in s THEN Cardinality(s) - 1 ELSE Cardinality(s)
      BY <2>1, FS_RemoveElement, Zenon
    <3> QED BY <2>3, <3>1
  <2> QED BY <2>2, <2>3
<1>2. 0 \in true
  <2> DEFINE h == [t \in SUBSET S |-> base]
  <2>1. ASSUME NEW s \in upTo(0) PROVE h[s] = next(h, s)
    <3>1. Cardinality(s) \in Nat /\ Cardinality(s) <= 0
      BY <1>1
    <3>2. Cardinality(s) = 0
      BY <3>1
    <3>3. s = {}
      BY <1>1, <3>2
    <3> QED BY <3>3
  <2>2. h \in [SUBSET S -> V]
    OBVIOUS
  <2> HIDE DEF h, next
  <2>3. \E k \in [SUBSET S -> V] : \A s \in upTo(0) : k[s] = next(k, s)
    BY <2>1, <2>2
  <2> QED BY <2>3
<1>3. ASSUME NEW n \in Nat, n \in true PROVE n + 1 \in true
  <2>1. PICK g \in [SUBSET S -> V] : \A s \in upTo(n) : g[s] = next(g, s)
    BY <1>3
  <2> DEFINE h == [s \in SUBSET S |-> next(g, s)]
  <2>2. \A s \in upTo(n) : h[s] = g[s]
    <3> HIDE DEF next
    <3> QED BY <2>1
  <2>3. ASSUME NEW s \in upTo(n + 1) PROVE h[s] = next(h, s)
    <3>1. CASE s = {}
      BY <3>1
    <3>2. CASE s # {}
      <4>1. s \ {p[s]} \in upTo(n)
        BY <1>1, <3>2
      <4>2. h[s \ {p[s]}] = g[s \ {p[s]}]
        BY <2>2, <4>1
      <4>3. h[s] = next(g, s)
        <5> HIDE DEF next
        <5> QED OBVIOUS
      <4>4. next(g, s) = next(h, s)
        <5> HIDE DEF h
        <5> QED BY <3>2, <4>2
      <4> QED BY <4>3, <4>4
    <3> QED BY <3>1, <3>2, SMTT(30)
  <2>4. h \in [SUBSET S -> V]
    <3>1. ASSUME NEW s \in SUBSET S PROVE next(g, s) \in V
      <4>1. CASE s = {} BY <4>1
      <4>2. CASE s # {}
        <5>1. g[s \ {p[s]}] \in V
          OBVIOUS
        <5> QED BY <4>2, <5>1
      <4> QED BY <4>1, <4>2
    <3> HIDE DEF next
    <3> QED BY <3>1
  <2> HIDE DEF h, next
  <2>5. \E k \in [SUBSET S -> V] : \A s \in upTo(n + 1) : k[s] = next(k, s)
    BY <2>3, <2>4
  <2> QED BY <2>5
<1>4. Nat \subseteq true
  <2> HIDE DEF true
  <2> QED BY <1>2, <1>3, Induction
<1>5. Cardinality(S) \in true
  BY <1>4, FS_CardinalityType
<1>6. SUBSET S = upTo(Cardinality(S))
  BY FS_Subset
<1>7. PICK g \in [SUBSET S -> V] : \A s \in SUBSET S : g[s] = next(g, s)
  BY <1>5, <1>6
<1> QED BY <1>7 DEF Recurs

(* What a flattened sequence is made of: sequences of one set, each element *)
(* of which it has somewhere.                                               *)
Flat(g, seqs, n, A) ==
  /\ g \in Seq(A)
  /\ \A e \in 1 .. n : \A i \in 1 .. Len(seqs[e]) : \E j \in 1 .. Len(g) : g[j] = seqs[e][i]

(* The function that FlattenSeq is recursive in. *)
Flattens(g, seqs) ==
  g = [i \in 1 .. Len(seqs) |-> IF i = 1 THEN seqs[i] ELSE g[i - 1] \o seqs[i]]

(* It exists. *)
LEMMA FlattenExists ==
  ASSUME NEW seqs, Len(seqs) \in Nat
  PROVE  \E g : Flattens(g, seqs)
<1> DEFINE N == Len(seqs)
           next(g, i) == IF i = 1 THEN seqs[i] ELSE g[i - 1] \o seqs[i]
           true == {n \in Nat : \E g : \A i \in 1 .. n : g[i] = next(g, i)}
<1>1. 0 \in true
  OBVIOUS
<1>2. ASSUME NEW n \in Nat, n \in true PROVE n + 1 \in true
  <2>1. PICK g : \A i \in 1 .. n : g[i] = next(g, i)
    BY <1>2
  <2> DEFINE h == [i \in 1 .. n + 1 |-> next(g, i)]
  <2>2. \A i \in 1 .. n : h[i] = g[i]
    <3> HIDE DEF next
    <3> QED BY <2>1
  <2>3. ASSUME NEW i \in 1 .. n + 1 PROVE h[i] = next(h, i)
    <3>1. h[i] = next(g, i)
      <4> HIDE DEF next
      <4> QED OBVIOUS
    <3>2. i # 1 => h[i - 1] = g[i - 1]
      <4> HIDE DEF h
      <4> QED BY <2>2
    <3> HIDE DEF h
    <3>3. next(g, i) = next(h, i)
      BY <3>2
    <3> QED BY <3>1, <3>3
  <2> HIDE DEF h, next
  <2>4. \E k : \A i \in 1 .. n + 1 : k[i] = next(k, i)
    BY <2>3
  <2> QED BY <2>4
<1>3. Nat \subseteq true
  <2> HIDE DEF true
  <2> QED BY <1>1, <1>2, Induction
<1>4. PICK g : \A i \in 1 .. N : g[i] = next(g, i)
  BY <1>3
<1> DEFINE h == [i \in 1 .. N |-> g[i]]
<1>5. \A i \in 1 .. N : g[i] = next(h, i)
  <2> TAKE i \in 1 .. N
  <2>1. i # 1 => h[i - 1] = g[i - 1]
    OBVIOUS
  <2> HIDE DEF h
  <2> QED BY <1>4, <2>1
<1>6. h = [i \in 1 .. N |-> next(h, i)]
  <2> HIDE DEF next
  <2> QED BY <1>5
<1> HIDE DEF h
<1> QED BY <1>6 DEF Flattens

(* A flattened sequence has the elements of the sequences it is made of. *)
LEMMA FlattenIs ==
  ASSUME NEW A, NEW seqs \in Seq(Seq(A))
  PROVE  Flat(FlattenSeq(seqs), seqs, Len(seqs), A)
<1> DEFINE N == Len(seqs)
<1>1. N \in Nat /\ \A i \in 1 .. N : seqs[i] \in Seq(A)
  OBVIOUS
<1>2. CASE N = 0
  <2>1. FlattenSeq(seqs) = seqs /\ seqs = <<>>
    BY <1>2 DEF FlattenSeq
  <2> QED BY <1>2, <2>1 DEF Flat
<1>3. CASE N # 0
  <2> DEFINE f == CHOOSE g : Flattens(g, seqs)
  <2>1. Flattens(f, seqs)
    BY <1>1, FlattenExists
  <2>2. FlattenSeq(seqs) = f[N]
    BY <1>3 DEF FlattenSeq, Flattens
  <2> HIDE DEF f
  <2> DEFINE true == {n \in Nat : n + 1 \in 1 .. N => Flat(f[n + 1], seqs, n + 1, A)}
  <2>3. 0 \in true
    <3>1. f[1] = seqs[1]
      BY <1>1, <1>3, <2>1 DEF Flattens
    <3>2. seqs[1] \in Seq(A)
      BY <1>1, <1>3
    <3>3. Flat(f[1], seqs, 1, A)
      BY <3>1, <3>2 DEF Flat
    <3> QED BY <3>3
  <2>4. ASSUME NEW n \in Nat, n \in true PROVE n + 1 \in true
    <3> SUFFICES ASSUME (n + 1) + 1 \in 1 .. N PROVE Flat(f[(n + 1) + 1], seqs, (n + 1) + 1, A)
      OBVIOUS
    <3> DEFINE m == n + 1
               a == f[m]
               b == seqs[m + 1]
    <3>1. m \in 1 .. N /\ m + 1 \in 1 .. N /\ m + 1 # 1 /\ (m + 1) - 1 = m
      BY <1>1
    <3>2. Flat(a, seqs, m, A)
      BY <2>4, <3>1
    <3>3. f[m + 1] = a \o b
      <4> HIDE DEF m
      <4> QED BY <2>1, <3>1 DEF Flattens
    <3>4. a \in Seq(A) /\ b \in Seq(A)
      BY <1>1, <3>1, <3>2 DEF Flat
    <3>5. ASSUME NEW e \in 1 .. m + 1, NEW i \in 1 .. Len(seqs[e])
          PROVE  \E j \in 1 .. Len(a \o b) : (a \o b)[j] = seqs[e][i]
      <4>1. CASE e = m + 1
        <5> HIDE DEF m, a
        <5>1. i \in 1 .. Len(b)
          BY <4>1
        <5>2. Len(a) + i \in 1 .. Len(a \o b) /\ (a \o b)[Len(a) + i] = b[i]
          <6> HIDE DEF b
          <6> QED BY <3>4, <5>1
        <5> QED BY <4>1, <5>2
      <4>2. CASE e # m + 1
        <5>1. e \in 1 .. m
          BY <4>2
        <5>2. PICK j \in 1 .. Len(a) : a[j] = seqs[e][i]
          BY <3>2, <5>1 DEF Flat
        <5> HIDE DEF m, a, b
        <5>3. j \in 1 .. Len(a \o b) /\ (a \o b)[j] = a[j]
          BY <3>4
        <5> QED BY <5>2, <5>3
      <4> QED BY <4>1, <4>2
    <3>6. a \o b \in Seq(A)
      BY <3>4
    <3> HIDE DEF m, a, b
    <3>7. Flat(a \o b, seqs, m + 1, A)
      BY <3>5, <3>6, Zenon DEF Flat
    <3>8. Flat(f[m + 1], seqs, m + 1, A)
      BY <3>3, <3>7, Zenon
    <3> QED BY <3>8 DEF m
  <2>5. Nat \subseteq true
    <3> HIDE DEF true
    <3> QED BY <2>3, <2>4, Induction
  <2>6. N - 1 \in Nat /\ (N - 1) + 1 = N
    BY <1>1, <1>3
  <2>7. N - 1 \in true
    BY <2>5, <2>6
  <2>8. Flat(f[N], seqs, N, A)
    BY <1>1, <1>3, <2>6, <2>7
  <2> QED BY <2>2, <2>8
<1> QED BY <1>2, <1>3
===============================================================================
