------------------------ MODULE DerivedCountersProofs ------------------------
(***************************************************************************)
(* For any capture, texts, literals and order of the hash table: what the  *)
(* plot shows of derived counters is the meaning of the text that was read *)
(* last, whatever failed on the way (ShownAsWritten), every value has the  *)
(* form of an array with a source for each row (TypeCorrect), and what is  *)
(* plotted of the capture is true to its records (TrueToRecords).          *)
(*                                                                         *)
(* A meaning is computed in rounds (IsMeaning): in the end no definition   *)
(* is ready, every name that has a value has it from arguments that have   *)
(* one, and from each computed name to its computed arguments a rank       *)
(* falls, the round in which it was found.  The calls in progress          *)
(* (Tracked) each wait for the next and hold the values of the arguments   *)
(* before it, so that if a call has a value, all those inside it have one  *)
(* of a lower rank.  A call inside itself would be below itself: when the  *)
(* evaluator throws, for a cycle, a name that nobody has or an operation   *)
(* that fails, the innermost call has no value, nor have all around it,    *)
(* and the name that was asked is rightly left out.  What it caches on the *)
(* way is right even so (Right), since a value never depends on who asked. *)
(*                                                                         *)
(* A row of samples is laid out group by group (Windowed).  A record is in *)
(* as many samples as its group has windows, so that its shares are what   *)
(* it counted (SharesAre), and a table of samples and records has one sum, *)
(* by samples and by records (RowConserved); below Precision floats are    *)
(* exact, and so are sums of them that stay there (FloatSumExact).  An     *)
(* aligned clock grows over an interval by the cycles in it, and the       *)
(* anchor divides the one that holds it like its time, up to the remainder *)
(* of one quotient (MetIs) and to half of what floats of the size of its   *)
(* ends are apart (FloatNear, MetRounded).                                 *)
(***************************************************************************)
EXTENDS DerivedCounters, FoldLemmas, SequenceTheorems

-------------------------------------------------------------------------------
(* The rounds of a meaning. *)
IsRounds(w, given, t) ==
  w = [i \in 0 .. Cardinality(DOMAIN t) |-> IF i = 0 THEN given ELSE Round(t, w[i - 1])]

(* They exist. *)
LEMMA RoundsExist ==
  ASSUME NEW given, NEW t, Cardinality(DOMAIN t) \in Nat
  PROVE  \E w : IsRounds(w, given, t)
<1> DEFINE N == Cardinality(DOMAIN t)
           next(w, i) == IF i = 0 THEN given ELSE Round(t, w[i - 1])
           true == {n \in Nat : \E w : \A i \in 0 .. n : w[i] = next(w, i)}
<1>1. 0 \in true
  <2> DEFINE h == [i \in {0} |-> given]
  <2>1. h[0] = next(h, 0) /\ 0 .. 0 = {0}
    OBVIOUS
  <2> HIDE DEF h, next
  <2>2. \E w : \A i \in 0 .. 0 : w[i] = next(w, i)
    BY <2>1
  <2> QED BY <2>2
<1>2. ASSUME NEW n \in Nat, n \in true PROVE n + 1 \in true
  <2>1. PICK w : \A i \in 0 .. n : w[i] = next(w, i)
    BY <1>2
  <2> DEFINE h == [i \in 0 .. n + 1 |-> next(w, i)]
  <2>2. \A i \in 0 .. n : h[i] = w[i]
    <3> HIDE DEF next
    <3> QED BY <2>1
  <2>3. ASSUME NEW i \in 0 .. n + 1 PROVE h[i] = next(h, i)
    <3>1. h[i] = next(w, i)
      <4> HIDE DEF next
      <4> QED OBVIOUS
    <3>2. i # 0 => h[i - 1] = w[i - 1]
      <4> HIDE DEF h
      <4> QED BY <2>2
    <3> HIDE DEF h
    <3>3. next(w, i) = next(h, i)
      BY <3>2
    <3> QED BY <3>1, <3>3
  <2> HIDE DEF h, next
  <2>4. \E k : \A i \in 0 .. n + 1 : k[i] = next(k, i)
    BY <2>3
  <2> QED BY <2>4
<1>3. Nat \subseteq true
  <2> HIDE DEF true
  <2> QED BY <1>1, <1>2, Induction
<1>4. PICK w : \A i \in 0 .. N : w[i] = next(w, i)
  BY <1>3
<1> DEFINE h == [i \in 0 .. N |-> w[i]]
<1>5. \A i \in 0 .. N : w[i] = next(h, i)
  <2> TAKE i \in 0 .. N
  <2>1. i # 0 => h[i - 1] = w[i - 1]
    OBVIOUS
  <2> HIDE DEF h
  <2> QED BY <1>4, <2>1
<1>6. h = [i \in 0 .. N |-> next(h, i)]
  <2> HIDE DEF next
  <2> QED BY <1>5
<1> HIDE DEF h
<1> QED BY <1>6 DEF IsRounds

(* A meaning is what the last round knows. *)
LEMMA MeaningIsLast ==
  ASSUME NEW given, NEW t, Cardinality(DOMAIN t) \in Nat
  PROVE  \E w : IsRounds(w, given, t) /\ Meaning(given, t) = w[Cardinality(DOMAIN t)]
<1> DEFINE w == CHOOSE g : IsRounds(g, given, t)
<1>1. IsRounds(w, given, t)
  BY RoundsExist, Zenon
<1>2. Meaning(given, t) = w[Cardinality(DOMAIN t)]
  BY DEF Meaning, IsRounds
<1> QED BY <1>1, <1>2

-------------------------------------------------------------------------------
(* What is known of a name and why: m knows the given names and some of the *)
(* text, every one of these by arguments that it knows as well, which have  *)
(* a lower rank.                                                            *)
Justified(m, given, t) ==
  \A n \in DOMAIN m \ DOMAIN given :
    /\ n \in DOMAIN t
    /\ \A i \in DOMAIN t[n].args : t[n].args[i] \in DOMAIN m
    /\ ValuesOf(t, m, n) # {} /\ m[n] = CHOOSE v \in ValuesOf(t, m, n) : TRUE

Extends(m, given) == DOMAIN given \subseteq DOMAIN m /\ \A n \in DOMAIN given : m[n] = given[n]

Ranks(l, m, given, t, k) ==
  /\ l \in [DOMAIN m \ DOMAIN given -> 0 .. k]
  /\ \A n \in DOMAIN m \ DOMAIN given : \A i \in DOMAIN t[n].args :
       t[n].args[i] \in DOMAIN given \/ (t[n].args[i] \in DOMAIN m /\ l[t[n].args[i]] < l[n])

(* A round keeps what is known and adds what is ready. *)
LEMMA RoundIs ==
  ASSUME NEW m, NEW t
  PROVE  /\ DOMAIN Round(t, m) = DOMAIN m \cup Ready(t, m)
         /\ \A n \in DOMAIN m : Round(t, m)[n] = m[n]
         /\ \A n \in Ready(t, m) : Round(t, m)[n] = CHOOSE v \in ValuesOf(t, m, n) : TRUE
         /\ Ready(t, m) \cap DOMAIN m = {} /\ Ready(t, m) \subseteq DOMAIN t
<1> DEFINE R == Ready(t, m)
           v(n) == CHOOSE v \in ValuesOf(t, m, n) : TRUE
<1>1. R \cap DOMAIN m = {} /\ R \subseteq DOMAIN t
  BY DEF Ready
<1>2. Round(t, m) = Over(m, [n \in R |-> v(n)])
  BY DEF Round
<1> HIDE DEF R, v
<1>3. Round(t, m) = [n \in DOMAIN m \cup R |-> IF n \in DOMAIN m THEN m[n] ELSE v(n)]
  BY <1>2 DEF Over
<1> QED BY <1>1, <1>3 DEF R, v

(* The values of a name stay as they are when more is known. *)
LEMMA ValuesStay ==
  ASSUME NEW m, NEW r, NEW t, NEW n,
         \A i \in DOMAIN t[n].args : m[t[n].args[i]] = r[t[n].args[i]]
  PROVE  ValuesOf(t, m, n) = ValuesOf(t, r, n)
<1>1. [i \in DOMAIN t[n].args |-> m[t[n].args[i]]] = [i \in DOMAIN t[n].args |-> r[t[n].args[i]]]
  OBVIOUS
<1> QED BY <1>1 DEF ValuesOf

(* After k rounds. *)
Stage(m, given, t, k) ==
  /\ Extends(m, given) /\ Justified(m, given, t)
  /\ \E l : Ranks(l, m, given, t, k)
  /\ Ready(t, m) # {} => Cardinality(DOMAIN m \ DOMAIN given) >= k

(* A round that finds nothing ready is the last that matters. *)
LEMMA NothingReady ==
  ASSUME NEW m, NEW t, Ready(t, m) = {}
  PROVE  Ready(t, Round(t, m)) = {}
<1> DEFINE r == Round(t, m)
<1>1. DOMAIN r = DOMAIN m /\ \A n \in DOMAIN m : r[n] = m[n]
  BY RoundIs
<1> HIDE DEF r
<1>2. ASSUME NEW n \in Ready(t, r) PROVE n \in Ready(t, m)
  <2>1. /\ n \in DOMAIN t \ DOMAIN r /\ \A i \in DOMAIN t[n].args : t[n].args[i] \in DOMAIN r
        /\ ValuesOf(t, r, n) # {}
    BY <1>2 DEF Ready
  <2>2. ValuesOf(t, m, n) = ValuesOf(t, r, n)
    BY <1>1, <2>1, ValuesStay
  <2> QED BY <1>1, <2>1, <2>2 DEF Ready
<1> QED BY <1>2 DEF r

(* What is justified stays so in the next round, and what a round adds is. *)
LEMMA JustifiedStep ==
  ASSUME NEW m, NEW given, NEW t, Extends(m, given), Justified(m, given, t)
  PROVE  Extends(Round(t, m), given) /\ Justified(Round(t, m), given, t)
<1> DEFINE r == Round(t, m)
           R == Ready(t, m)
<1>1. /\ DOMAIN r = DOMAIN m \cup R /\ \A n \in DOMAIN m : r[n] = m[n]
      /\ \A n \in R : r[n] = CHOOSE v \in ValuesOf(t, m, n) : TRUE
      /\ R \cap DOMAIN m = {} /\ R \subseteq DOMAIN t
  BY RoundIs
<1> HIDE DEF r
<1>2. Extends(r, given)
  BY <1>1 DEF Extends
<1>3. ASSUME NEW n \in DOMAIN r \ DOMAIN given
      PROVE  /\ n \in DOMAIN t
             /\ \A i \in DOMAIN t[n].args : t[n].args[i] \in DOMAIN m
             /\ ValuesOf(t, m, n) # {} /\ r[n] = CHOOSE v \in ValuesOf(t, m, n) : TRUE
  <2>1. CASE n \in DOMAIN m
    BY <1>1, <2>1 DEF Justified
  <2>2. CASE n \in R
    <3>1. n \in DOMAIN t /\ (\A i \in DOMAIN t[n].args : t[n].args[i] \in DOMAIN m) /\ ValuesOf(t, m, n) # {}
      BY <2>2 DEF Ready
    <3> HIDE DEF R
    <3> QED BY <1>1, <2>2, <3>1
  <2> QED BY <1>1, <1>3, <2>1, <2>2
<1>4. ASSUME NEW n \in DOMAIN r \ DOMAIN given
      PROVE  /\ n \in DOMAIN t
             /\ \A i \in DOMAIN t[n].args : t[n].args[i] \in DOMAIN r
             /\ ValuesOf(t, r, n) # {} /\ r[n] = CHOOSE v \in ValuesOf(t, r, n) : TRUE
  <2>1. \A i \in DOMAIN t[n].args : m[t[n].args[i]] = r[t[n].args[i]] /\ t[n].args[i] \in DOMAIN r
    BY <1>1, <1>3
  <2>2. ValuesOf(t, m, n) = ValuesOf(t, r, n)
    BY <2>1, ValuesStay
  <2> QED BY <1>3, <1>4, <2>1, <2>2
<1>5. Justified(r, given, t)
  BY <1>4 DEF Justified
<1> QED BY <1>2, <1>5 DEF r

(* What a round adds has a rank of its own, above all that was known. *)
LEMMA RanksStep ==
  ASSUME NEW m, NEW given, NEW t, NEW k \in Nat, Extends(m, given), NEW l, Ranks(l, m, given, t, k)
  PROVE  \E f : Ranks(f, Round(t, m), given, t, k + 1)
<1> DEFINE r == Round(t, m)
           R == Ready(t, m)
           f == [n \in DOMAIN r \ DOMAIN given |-> IF n \in DOMAIN m THEN l[n] ELSE k + 1]
<1>1. /\ DOMAIN r = DOMAIN m \cup R /\ R \cap DOMAIN m = {}
      /\ DOMAIN given \subseteq DOMAIN m
  BY RoundIs DEF Extends
<1>2. \A n \in R : \A i \in DOMAIN t[n].args : t[n].args[i] \in DOMAIN m
  BY DEF Ready
<1> HIDE DEF r, R
<1>3. \A n \in DOMAIN m \ DOMAIN given : l[n] \in 0 .. k
  BY DEF Ranks
<1>4. \A n \in DOMAIN m \ DOMAIN given : n \in DOMAIN r \ DOMAIN given /\ f[n] = l[n]
  BY <1>1
<1>5. \A n \in R : n \in DOMAIN r \ DOMAIN given /\ f[n] = k + 1
  BY <1>1
<1>6. f \in [DOMAIN r \ DOMAIN given -> 0 .. k + 1]
  <2>1. \A n \in DOMAIN r \ DOMAIN given : (IF n \in DOMAIN m THEN l[n] ELSE k + 1) \in 0 .. k + 1
    BY <1>1, <1>3
  <2> QED BY <2>1
<1> HIDE DEF f
<1>7. ASSUME NEW n \in DOMAIN r \ DOMAIN given, NEW i \in DOMAIN t[n].args
      PROVE  t[n].args[i] \in DOMAIN given \/ (t[n].args[i] \in DOMAIN r /\ f[t[n].args[i]] < f[n])
  <2>1. CASE n \in DOMAIN m
    <3>1. t[n].args[i] \in DOMAIN given \/ (t[n].args[i] \in DOMAIN m /\ l[t[n].args[i]] < l[n])
      BY <1>7, <2>1 DEF Ranks
    <3> QED BY <1>1, <1>4, <1>7, <2>1, <3>1
  <2>2. CASE n \in R
    <3>1. t[n].args[i] \in DOMAIN m /\ f[n] = k + 1
      BY <1>2, <1>5, <2>2
    <3>2. ASSUME t[n].args[i] \notin DOMAIN given PROVE f[t[n].args[i]] < f[n]
      <4>1. f[t[n].args[i]] \in 0 .. k
        BY <1>3, <1>4, <3>1, <3>2
      <4> QED BY <3>1, <4>1
    <3> QED BY <1>1, <3>1, <3>2
  <2> QED BY <1>1, <1>7, <2>1, <2>2
<1>8. Ranks(f, r, given, t, k + 1)
  BY <1>6, <1>7 DEF Ranks
<1> QED BY <1>8 DEF r

(* As long as something is ready, every round adds a name. *)
LEMMA CountStep ==
  ASSUME NEW m, NEW given, NEW t, IsFiniteSet(DOMAIN t), NEW k \in Nat, Extends(m, given), Justified(m, given, t),
         Ready(t, m) # {} => Cardinality(DOMAIN m \ DOMAIN given) >= k,
         Ready(t, Round(t, m)) # {}
  PROVE  Cardinality(DOMAIN Round(t, m) \ DOMAIN given) >= k + 1
<1> DEFINE A == DOMAIN m \ DOMAIN given
           B == DOMAIN Round(t, m) \ DOMAIN given
<1>1. Ready(t, m) # {} /\ Cardinality(A) >= k
  BY NothingReady
<1>2. DOMAIN Round(t, m) = DOMAIN m \cup Ready(t, m) /\ Ready(t, m) \cap DOMAIN m = {} /\ Ready(t, m) \subseteq DOMAIN t
  BY RoundIs
<1>3. DOMAIN given \subseteq DOMAIN m /\ A \subseteq DOMAIN t
  BY DEF Extends, Justified
<1>4. A \subseteq B /\ A # B /\ B \subseteq DOMAIN t
  BY <1>1, <1>2, <1>3
<1> HIDE DEF A, B
<1>5. IsFiniteSet(B) /\ IsFiniteSet(A)
  BY <1>4, FS_Subset
<1>6. Cardinality(A) <= Cardinality(B) /\ Cardinality(A) # Cardinality(B)
  BY <1>4, <1>5, FS_Subset
<1>7. Cardinality(A) \in Nat /\ Cardinality(B) \in Nat
  BY <1>5, FS_CardinalityType
<1> QED BY <1>1, <1>6, <1>7 DEF B

(* The stages of a meaning. *)
LEMMA StageStep ==
  ASSUME NEW m, NEW given, NEW t, IsFiniteSet(DOMAIN t), NEW k \in Nat, Stage(m, given, t, k)
  PROVE  Stage(Round(t, m), given, t, k + 1)
<1>1. Extends(m, given) /\ Justified(m, given, t) /\ (Ready(t, m) # {} => Cardinality(DOMAIN m \ DOMAIN given) >= k)
  BY DEF Stage
<1>2. PICK l : Ranks(l, m, given, t, k)
  BY DEF Stage
<1>3. Extends(Round(t, m), given) /\ Justified(Round(t, m), given, t)
  BY <1>1, JustifiedStep
<1>4. \E f : Ranks(f, Round(t, m), given, t, k + 1)
  BY <1>1, <1>2, RanksStep
<1>5. Ready(t, Round(t, m)) # {} => Cardinality(DOMAIN Round(t, m) \ DOMAIN given) >= k + 1
  BY <1>1, CountStep
<1> QED BY <1>3, <1>4, <1>5 DEF Stage

(* Nothing but the given names is known before the first round. *)
LEMMA StageZero ==
  ASSUME NEW given, NEW t
  PROVE  Stage(given, given, t, 0)
<1>1. DOMAIN given \ DOMAIN given = {}
  OBVIOUS
<1>2. Extends(given, given) /\ Justified(given, given, t)
  BY DEF Extends, Justified
<1>3. \E l : Ranks(l, given, given, t, 0)
  <2> DEFINE f == [n \in DOMAIN given \ DOMAIN given |-> 0]
  <2>1. Ranks(f, given, given, t, 0)
    BY <1>1 DEF Ranks
  <2> QED BY <2>1
<1>4. Cardinality(DOMAIN given \ DOMAIN given) >= 0
  BY <1>1, FS_EmptySet
<1> QED BY <1>2, <1>3, <1>4 DEF Stage

(* What the meaning of a text is: the names that are given or can be        *)
(* computed from others, with their values, and a rank that falls from each *)
(* computed name to its arguments.                                          *)
IsMeaning(m, given, t) ==
  /\ Extends(m, given) /\ Justified(m, given, t)
  /\ \E l : Ranks(l, m, given, t, Cardinality(DOMAIN t))
  /\ Ready(t, m) = {}

(* The rounds find it. *)
LEMMA MeaningIs ==
  ASSUME NEW given, NEW t, IsFiniteSet(DOMAIN t)
  PROVE  IsMeaning(Meaning(given, t), given, t)
<1> DEFINE N == Cardinality(DOMAIN t)
<1>1. N \in Nat
  BY FS_CardinalityType
<1>2. PICK w : IsRounds(w, given, t) /\ Meaning(given, t) = w[N]
  BY <1>1, MeaningIsLast
<1>3. w[0] = given /\ \A k \in Nat : k + 1 <= N => w[k + 1] = Round(t, w[k])
  <2>1. w = [i \in 0 .. N |-> IF i = 0 THEN given ELSE Round(t, w[i - 1])]
    BY <1>2 DEF IsRounds
  <2> HIDE DEF N
  <2>2. w[0] = given
    BY <1>1, <2>1
  <2>3. ASSUME NEW k \in Nat, k + 1 <= N PROVE w[k + 1] = Round(t, w[k])
    <3>1. k + 1 \in 0 .. N /\ k + 1 # 0 /\ (k + 1) - 1 = k
      BY <1>1, <2>3
    <3> QED BY <2>1, <3>1
  <2> QED BY <2>2, <2>3
<1> DEFINE true == {k \in Nat : k <= N => Stage(w[k], given, t, k)}
<1>4. 0 \in true
  BY <1>3, StageZero
<1>5. ASSUME NEW k \in Nat, k \in true PROVE k + 1 \in true
  <2> SUFFICES ASSUME k + 1 <= N PROVE Stage(w[k + 1], given, t, k + 1)
    OBVIOUS
  <2>1. Stage(w[k], given, t, k)
    BY <1>1, <1>5
  <2>2. Stage(Round(t, w[k]), given, t, k + 1)
    BY <2>1, StageStep
  <2> QED BY <1>3, <2>2
<1>6. Nat \subseteq true
  <2> HIDE DEF true
  <2> QED BY <1>4, <1>5, Induction
<1>7. Stage(w[N], given, t, N)
  BY <1>1, <1>6
<1> DEFINE m == w[N]
<1> HIDE DEF m
<1>8. Stage(m, given, t, N)
  BY <1>7 DEF m
<1>9. Ready(t, m) = {}
  <2> SUFFICES ASSUME Ready(t, m) # {} PROVE FALSE
    OBVIOUS
  <2> DEFINE A == DOMAIN m \ DOMAIN given
  <2>1. Cardinality(A) >= N /\ A \subseteq DOMAIN t
    BY <1>8 DEF Stage, Justified
  <2>2. Ready(t, m) \subseteq DOMAIN t /\ Ready(t, m) \cap A = {}
    BY DEF Ready
  <2> HIDE DEF A
  <2>3. IsFiniteSet(A) /\ Cardinality(A) <= Cardinality(DOMAIN t)
    BY <2>1, FS_Subset
  <2>4. Cardinality(A) \in Nat
    BY <2>3, FS_CardinalityType
  <2>5. Cardinality(DOMAIN t) = Cardinality(A)
    BY <1>1, <2>1, <2>3, <2>4
  <2>6. DOMAIN t = A
    BY <2>1, <2>5, FS_Subset
  <2> QED BY <2>2, <2>6
<1>10. IsMeaning(m, given, t)
  BY <1>8, <1>9 DEF Stage, IsMeaning
<1> QED BY <1>2, <1>10 DEF m

-------------------------------------------------------------------------------
(* The calls in progress *)

IsText(t) ==
  /\ IsFiniteSet(DOMAIN t) /\ DOMAIN t \cap (DOMAIN Literals \cup {""}) = {}
  /\ \A n \in DOMAIN t : t[n].args \in Seq(Names)

Calls(m, t) == [name : DOMAIN t, args : Seq({m[n] : n \in DOMAIN m})]

(* A call is of a definition, and has the values of its first arguments. *)
HasArguments(m, given, t, c) ==
  /\ c.name \notin DOMAIN given /\ Len(c.args) <= Len(t[c.name].args)
  /\ \A k \in 1 .. Len(c.args) : t[c.name].args[k] \in DOMAIN m /\ c.args[k] = m[t[c.name].args[k]]

(* A call wants a name: its next argument. *)
Wants(t, c, n) == Len(c.args) < Len(t[c.name].args) /\ n = t[c.name].args[Len(c.args) + 1]

(* If a has a value then so has b, and of a lower rank. *)
Needs(m, l, a, b) == a \in DOMAIN m => b \in DOMAIN m /\ l[b] < l[a]

InOrder(m, l, s) == \A i, j \in 1 .. Len(s) : i < j => Needs(m, l, s[i].name, s[j].name)

(* The calls in progress: each waits for the next one, and the first is of *)
(* the name that was asked.                                                *)
Tracked(m, l, given, t, s, a) ==
  /\ s \in Seq(Calls(m, t))
  /\ s # <<>> => s[1].name = a
  /\ \A i \in 1 .. Len(s) : HasArguments(m, given, t, s[i])
  /\ \A i \in 1 .. Len(s) - 1 : Wants(t, s[i], s[i + 1].name)
  /\ InOrder(m, l, s)

(* What a call wants is a name that it needs. *)
LEMMA WantedIsNeeded ==
  ASSUME NEW t, IsText(t), NEW m, NEW given, IsMeaning(m, given, t), NEW l,
         Ranks(l, m, given, t, Cardinality(DOMAIN t)),
         NEW c \in Calls(m, t), c.name \notin DOMAIN given, NEW w, Wants(t, c, w)
  PROVE  /\ w # ""
         /\ c.name \in DOMAIN m => w \in DOMAIN m
         /\ c.name \in DOMAIN m /\ w \notin DOMAIN given => l[w] < l[c.name]
<1> DEFINE i == Len(c.args) + 1
<1>1. c.name \in DOMAIN t /\ Len(c.args) \in Nat
  BY DEF Calls
<1>2. t[c.name].args \in Seq(Names)
  BY <1>1 DEF IsText
<1>3. i \in DOMAIN t[c.name].args /\ t[c.name].args[i] = w
  BY <1>1, <1>2 DEF Wants
<1> HIDE DEF i
<1>4. w # ""
  <2>1. w \in Names
    BY <1>2, <1>3
  <2> QED BY <2>1 DEF Names
<1>5. ASSUME c.name \in DOMAIN m
      PROVE  w \in DOMAIN m /\ (w \notin DOMAIN given => l[w] < l[c.name])
  <2>1. c.name \in DOMAIN m \ DOMAIN given
    BY <1>5
  <2>2. w \in DOMAIN m
    BY <1>3, <2>1 DEF IsMeaning, Justified
  <2>3. w \notin DOMAIN given => l[w] < l[c.name]
    BY <1>3, <2>1 DEF Ranks
  <2> QED BY <2>2, <2>3
<1> QED BY <1>4, <1>5

(* A field of a record is replaced. *)
LEMMA RecordChanged ==
  ASSUME NEW r, NEW x, NEW y, r = [name |-> x, args |-> y], NEW z
  PROVE  [r EXCEPT !.args = z] = [name |-> x, args |-> z]
OBVIOUS

(* A value is added to the arguments of the innermost call. *)
LEMMA ValueDelivered ==
  ASSUME NEW t, IsText(t), NEW m, NEW given, NEW l, NEW a, NEW s, Tracked(m, l, given, t, s, a), s # <<>>,
         NEW w \in DOMAIN m, Wants(t, s[Len(s)], w)
  PROVE  Tracked(m, l, given, t, [s EXCEPT ![Len(s)].args = Append(@, m[w])], a)
<1> DEFINE N == Len(s)
           c == [name |-> s[N].name, args |-> Append(s[N].args, m[w])]
           r == [s EXCEPT ![N] = c]
           V == {m[n] : n \in DOMAIN m}
<1>1. s \in Seq(Calls(m, t)) /\ N \in Nat /\ N >= 1 /\ s[N] \in Calls(m, t)
  BY DEF Tracked
<1> HIDE DEF N
<1>2. s[N].args \in Seq(V) /\ s[N].name \in DOMAIN t /\ m[w] \in V
  <2>1. Calls(m, t) = [name : DOMAIN t, args : Seq(V)] /\ m[w] \in V
    BY DEF Calls
  <2> HIDE DEF V
  <2> QED BY <1>1, <2>1
<1>3. c.name = s[N].name /\ c.args = Append(s[N].args, m[w])
  OBVIOUS
<1>0. [s EXCEPT ![N].args = Append(@, m[w])] = r
  <2>1. s[N] = [name |-> s[N].name, args |-> s[N].args]
    BY <1>1 DEF Calls
  <2> DEFINE x == s[N]
             z == Append(s[N].args, m[w])
  <2>2. [x EXCEPT !.args = z] = [name |-> x.name, args |-> z]
    <3> HIDE DEF z, x
    <3>1. x = [name |-> x.name, args |-> x.args]
      BY <2>1 DEF x
    <3> QED BY <3>1, RecordChanged
  <2>3. [s EXCEPT ![N].args = Append(@, m[w])] = [s EXCEPT ![N] = [x EXCEPT !.args = z]]
    OBVIOUS
  <2> QED BY <2>2, <2>3
<1>4. /\ Len(c.args) = Len(s[N].args) + 1 /\ c.args[Len(s[N].args) + 1] = m[w] /\ Len(s[N].args) \in Nat
      /\ \A k \in 1 .. Len(s[N].args) : c.args[k] = s[N].args[k]
      /\ c \in Calls(m, t)
  <2> HIDE DEF c, V
  <2>1. Append(s[N].args, m[w]) \in Seq(V)
    BY <1>2
  <2>2. c \in [name : DOMAIN t, args : Seq(V)]
    BY <1>2, <2>1 DEF c
  <2>3. c \in Calls(m, t)
    BY <2>2 DEF Calls, V
  <2> QED BY <1>2, <1>3, <2>3
<1> HIDE DEF c
<1>5. /\ r \in Seq(Calls(m, t)) /\ Len(r) = N /\ r[N] = c
      /\ \A i \in 1 .. N : i # N => r[i] = s[i]
  BY <1>1, <1>4 DEF N
<1> HIDE DEF r
<1>6. \A i \in 1 .. N : r[i].name = s[i].name
  BY <1>3, <1>5, SMTT(30)
<1>7. HasArguments(m, given, t, c)
  <2>1. HasArguments(m, given, t, s[N])
    BY <1>1 DEF Tracked, N
  <2>2. Len(s[N].args) < Len(t[c.name].args) /\ w = t[c.name].args[Len(s[N].args) + 1]
    BY <1>3 DEF Wants, N
  <2>3. ASSUME NEW k \in 1 .. Len(c.args)
        PROVE  t[c.name].args[k] \in DOMAIN m /\ c.args[k] = m[t[c.name].args[k]]
    <3>1. CASE k = Len(s[N].args) + 1
      BY <1>4, <2>2, <3>1
    <3>2. CASE k \in 1 .. Len(s[N].args)
      BY <1>3, <1>4, <2>1, <3>2 DEF HasArguments
    <3>3. k \in 1 .. Len(s[N].args) + 1
      BY <1>4
    <3> HIDE DEF V
    <3> QED BY <1>4, <3>1, <3>2, <3>3, SMTT(30)
  <2>4. Len(c.args) <= Len(t[c.name].args)
    <3>1. Len(t[c.name].args) \in Nat
      <4>1. t[c.name].args \in Seq(Names)
        BY <1>2, <1>3 DEF IsText
      <4> QED BY <4>1
    <3> QED BY <1>4, <2>2, <3>1
  <2> QED BY <1>3, <2>1, <2>3, <2>4 DEF HasArguments
<1>8. \A i \in 1 .. Len(r) : HasArguments(m, given, t, r[i])
  <2>1. \A i \in 1 .. N : HasArguments(m, given, t, s[i])
    BY DEF Tracked, N
  <2> QED BY <1>5, <1>7, <2>1
<1>9. \A i \in 1 .. Len(r) - 1 : Wants(t, r[i], r[i + 1].name)
  <2> SUFFICES ASSUME NEW i \in 1 .. N - 1 PROVE Wants(t, r[i], r[i + 1].name)
    BY <1>5
  <2>1. Wants(t, s[i], s[i + 1].name)
    BY DEF Tracked, N
  <2>2. i \in 1 .. N /\ i + 1 \in 1 .. N /\ i # N
    BY <1>1
  <2> QED BY <1>5, <1>6, <2>1, <2>2
<1>10. InOrder(m, l, r)
  <2>1. InOrder(m, l, s)
    BY DEF Tracked
  <2> QED BY <1>5, <1>6, <2>1 DEF InOrder, N
<1>11. r[1].name = a
  <2>1. s[1].name = a
    BY DEF Tracked
  <2> QED BY <1>1, <1>6, <2>1
<1>12. Tracked(m, l, given, t, r, a)
  BY <1>5, <1>8, <1>9, <1>10, <1>11 DEF Tracked
<1> QED BY <1>0, <1>12 DEF N

(* A definition is called that the innermost call wants, or that is asked. *)
LEMMA CallPushed ==
  ASSUME NEW t, IsText(t), NEW m, NEW given, IsMeaning(m, given, t), NEW l,
         Ranks(l, m, given, t, Cardinality(DOMAIN t)), NEW a, NEW s, Tracked(m, l, given, t, s, a),
         NEW w \in DOMAIN t \ DOMAIN given, IF s = <<>> THEN w = a ELSE Wants(t, s[Len(s)], w)
  PROVE  Tracked(m, l, given, t, Append(s, [name |-> w, args |-> <<>>]), a)
<1> DEFINE N == Len(s)
           c == [name |-> w, args |-> <<>>]
           r == Append(s, c)
<1>1. s \in Seq(Calls(m, t)) /\ N \in Nat
  BY DEF Tracked
<1>2. c \in Calls(m, t) /\ HasArguments(m, given, t, c) /\ c.name = w
  <2>1. t[w].args \in Seq(Names)
    BY DEF IsText
  <2>2. Len(t[w].args) \in Nat
    BY <2>1
  <2> QED BY <2>2 DEF Calls, HasArguments
<1> HIDE DEF c
<1>3. /\ r \in Seq(Calls(m, t)) /\ Len(r) = N + 1 /\ r[N + 1] = c
      /\ \A i \in 1 .. N : r[i] = s[i]
  BY <1>1, <1>2
<1> HIDE DEF r, N
<1>4. \A i \in 1 .. Len(r) : HasArguments(m, given, t, r[i])
  <2>1. \A i \in 1 .. N : HasArguments(m, given, t, s[i])
    BY DEF Tracked, N
  <2> QED BY <1>1, <1>2, <1>3, <2>1
<1>5. s # <<>> => N >= 1 /\ Wants(t, s[N], w)
  BY <1>1 DEF N
<1>6. \A i \in 1 .. Len(r) - 1 : Wants(t, r[i], r[i + 1].name)
  <2> SUFFICES ASSUME NEW i \in 1 .. N PROVE Wants(t, r[i], r[i + 1].name)
    BY <1>1, <1>3
  <2>1. s # <<>>
    BY <1>1 DEF N
  <2>2. CASE i = N
    BY <1>2, <1>3, <1>5, <2>1, <2>2
  <2>3. CASE i # N
    <3>1. i \in 1 .. N - 1 /\ i + 1 \in 1 .. N
      BY <1>1, <2>3
    <3>2. Wants(t, s[i], s[i + 1].name)
      BY <3>1 DEF Tracked, N
    <3> QED BY <1>3, <3>1, <3>2
  <2> QED BY <2>2, <2>3
<1>7. ASSUME NEW i \in 1 .. N PROVE Needs(m, l, s[i].name, w)
  <2>1. s # <<>> /\ N \in 1 .. N
    BY <1>1, <1>7 DEF N
  <2>2. s[N] \in Calls(m, t) /\ s[N].name \notin DOMAIN given
    BY <1>1, <2>1 DEF Tracked, HasArguments, N
  <2>3. Needs(m, l, s[N].name, w)
    BY <1>5, <2>1, <2>2, WantedIsNeeded DEF Needs
  <2>4. CASE i = N
    BY <2>3, <2>4
  <2>5. CASE i # N
    <3>1. Needs(m, l, s[i].name, s[N].name)
      <4>1. i \in 1 .. Len(s) /\ N \in 1 .. Len(s) /\ i < N
        BY <1>1, <2>1, <2>5 DEF N
      <4> QED BY <4>1 DEF Tracked, InOrder
    <3>2. s[i].name \in DOMAIN t \ DOMAIN given /\ s[N].name \in DOMAIN t
      <4>1. s[i] \in Calls(m, t) /\ HasArguments(m, given, t, s[i])
        BY <1>1, <1>7 DEF Tracked, N
      <4> QED BY <2>2, <4>1 DEF Calls, HasArguments
    <3>3. ASSUME s[i].name \in DOMAIN m PROVE l[w] < l[s[i].name]
      <4>1. l[s[N].name] < l[s[i].name] /\ l[w] < l[s[N].name] /\ s[N].name \in DOMAIN m /\ w \in DOMAIN m
        BY <2>3, <3>1, <3>3 DEF Needs
      <4>2. \A n \in DOMAIN m \ DOMAIN given : l[n] \in Int
        <5>1. l \in [DOMAIN m \ DOMAIN given -> 0 .. Cardinality(DOMAIN t)]
          BY DEF Ranks
        <5> QED BY <5>1
      <4>3. l[s[N].name] \in Int /\ l[s[i].name] \in Int /\ l[w] \in Int
        BY <2>2, <3>2, <3>3, <4>1, <4>2
      <4> QED BY <4>1, <4>3
    <3> QED BY <2>3, <3>1, <3>3 DEF Needs
  <2> QED BY <2>4, <2>5
<1>8. InOrder(m, l, r)
  <2> SUFFICES ASSUME NEW i \in 1 .. N + 1, NEW j \in 1 .. N + 1, i < j
               PROVE  Needs(m, l, r[i].name, r[j].name)
    BY <1>3 DEF InOrder
  <2>1. i \in 1 .. N /\ r[i] = s[i]
    BY <1>1, <1>3
  <2>2. CASE j = N + 1
    BY <1>2, <1>3, <1>7, <2>1, <2>2
  <2>3. CASE j \in 1 .. N
    <3>1. Needs(m, l, s[i].name, s[j].name)
      BY <2>1, <2>3 DEF Tracked, InOrder, N
    <3> QED BY <1>3, <2>1, <2>3, <3>1
  <2> QED BY <1>1, <2>2, <2>3
<1>9. r[1].name = a
  <2>1. CASE s = <<>>
    <3>1. N = 0 /\ w = a
      BY <2>1 DEF N
    <3> QED BY <1>2, <1>3, <3>1
  <2>2. CASE s # <<>>
    <3>1. s[1].name = a /\ r[1] = s[1]
      BY <1>1, <1>3, <1>5, <2>2 DEF Tracked
    <3> QED BY <3>1
  <2> QED BY <2>1, <2>2
<1>10. Tracked(m, l, given, t, r, a)
  BY <1>3, <1>4, <1>6, <1>8, <1>9 DEF Tracked
<1> QED BY <1>10 DEF r, c

(* A sequence without its last element. *)
LEMMA FrontIs ==
  ASSUME NEW S, NEW s \in Seq(S), s # <<>>
  PROVE  Front(s) \in Seq(S) /\ Len(Front(s)) = Len(s) - 1 /\ \A i \in 1 .. Len(s) - 1 : Front(s)[i] = s[i]
<1> DEFINE k == Len(s) - 1
<1>1. Front(s) = SubSeq(s, 1, k) /\ k \in Nat /\ 1 \in Int /\ k \in Int
  BY DEF Front
<1>2. \A i \in 1 .. k : s[i] \in S
  OBVIOUS
<1> HIDE DEF k
<1>3. /\ SubSeq(s, 1, k) \in Seq(S)
      /\ Len(SubSeq(s, 1, k)) = IF 1 <= k THEN k - 1 + 1 ELSE 0
      /\ \A i \in 1 .. k - 1 + 1 : SubSeq(s, 1, k)[i] = s[1 + i - 1]
  BY <1>1, <1>2, SubSeqProperties
<1>4. Front(s) \in Seq(S) /\ Len(Front(s)) = k
  BY <1>1, <1>3
<1>5. ASSUME NEW i \in 1 .. k PROVE Front(s)[i] = s[i]
  <2>1. i \in 1 .. k - 1 + 1 /\ 1 + i - 1 = i
    BY <1>1
  <2> QED BY <1>1, <1>3, <2>1
<1> QED BY <1>4, <1>5 DEF k

(* A call ends: the call that waits for it wants its name. *)
LEMMA CallPopped ==
  ASSUME NEW t, NEW m, NEW given, NEW l, NEW a, NEW s, Tracked(m, l, given, t, s, a), s # <<>>
  PROVE  /\ Tracked(m, l, given, t, Front(s), a)
         /\ IF Front(s) = <<>> THEN s[Len(s)].name = a ELSE Wants(t, Front(s)[Len(Front(s))], s[Len(s)].name)
<1> DEFINE N == Len(s)
           r == Front(s)
<1>1. s \in Seq(Calls(m, t)) /\ N \in Nat /\ N >= 1
  BY DEF Tracked
<1>2. r \in Seq(Calls(m, t)) /\ Len(r) = N - 1 /\ \A i \in 1 .. N - 1 : r[i] = s[i]
  <2> HIDE DEF r, N
  <2> QED BY <1>1, FrontIs DEF r, N
<1> HIDE DEF r
<1>3. \A i \in 1 .. Len(r) : HasArguments(m, given, t, r[i])
  BY <1>1, <1>2 DEF Tracked
<1>4. \A i \in 1 .. Len(r) - 1 : Wants(t, r[i], r[i + 1].name)
  <2> SUFFICES ASSUME NEW i \in 1 .. N - 2 PROVE Wants(t, r[i], r[i + 1].name)
    BY <1>1, <1>2
  <2>1. i \in 1 .. N - 1 /\ i + 1 \in 1 .. N - 1
    BY <1>1
  <2>2. Wants(t, s[i], s[i + 1].name)
    BY <2>1 DEF Tracked
  <2> QED BY <1>2, <2>1, <2>2
<1>5. InOrder(m, l, r)
  <2>1. InOrder(m, l, s)
    BY DEF Tracked
  <2> QED BY <1>1, <1>2, <2>1 DEF InOrder
<1>6. r # <<>> => r[1].name = a
  <2>1. r # <<>> => N - 1 >= 1
    BY <1>1, <1>2
  <2>2. s[1].name = a
    BY DEF Tracked
  <2> QED BY <1>1, <1>2, <2>1, <2>2
<1>7. Tracked(m, l, given, t, r, a)
  BY <1>2, <1>3, <1>4, <1>5, <1>6 DEF Tracked
<1>8. CASE r = <<>>
  <2>1. N = 1
    BY <1>1, <1>2, <1>8
  <2>2. s[N].name = a
    BY <2>1 DEF Tracked
  <2> QED BY <1>7, <1>8, <2>2 DEF r
<1>9. CASE r # <<>>
  <2>1. N - 1 \in 1 .. N - 1
    BY <1>1, <1>2, <1>9
  <2>2. Wants(t, s[N - 1], s[(N - 1) + 1].name)
    BY <2>1 DEF Tracked
  <2>3. Wants(t, r[Len(r)], s[N].name)
    BY <1>1, <1>2, <2>1, <2>2
  <2> QED BY <1>7, <1>9, <2>3 DEF r
<1> QED BY <1>8, <1>9

(* The calls before one without a value have none either. *)
LEMMA CallFailed ==
  ASSUME NEW t, NEW m, NEW given, NEW l, NEW a, NEW s, Tracked(m, l, given, t, s, a), s # <<>>,
         s[Len(s)].name \notin DOMAIN m
  PROVE  a \notin DOMAIN m
<1> DEFINE N == Len(s)
<1>1. N \in Nat /\ N >= 1 /\ s[1].name = a
  BY DEF Tracked
<1>2. CASE N = 1
  BY <1>1, <1>2
<1>3. CASE 1 < N
  <2>1. 1 \in 1 .. N /\ N \in 1 .. N
    BY <1>1
  <2>2. Needs(m, l, s[1].name, s[N].name)
    BY <1>3, <2>1 DEF Tracked, InOrder
  <2> QED BY <1>1, <2>2 DEF Needs
<1> QED BY <1>1, <1>2, <1>3

(* A call has no value if it wants a name without one, or a call in        *)
(* progress.                                                               *)
LEMMA WantedInVain ==
  ASSUME NEW t, IsText(t), NEW m, NEW given, IsMeaning(m, given, t), NEW l,
         Ranks(l, m, given, t, Cardinality(DOMAIN t)), NEW a, NEW s, Tracked(m, l, given, t, s, a), s # <<>>,
         NEW w, Wants(t, s[Len(s)], w), w \notin DOMAIN m \/ \E i \in DOMAIN s : s[i].name = w
  PROVE  a \notin DOMAIN m
<1> DEFINE N == Len(s)
<1>1. s \in Seq(Calls(m, t)) /\ N \in Nat /\ N >= 1 /\ DOMAIN s = 1 .. N
  BY DEF Tracked
<1>2. s[N] \in Calls(m, t) /\ \A i \in 1 .. N : s[i].name \notin DOMAIN given
  BY <1>1 DEF Tracked, HasArguments
<1>3. /\ s[N].name \in DOMAIN m => w \in DOMAIN m
      /\ s[N].name \in DOMAIN m /\ w \notin DOMAIN given => l[w] < l[s[N].name]
  <2> DEFINE c == s[N]
  <2>1. c \in Calls(m, t) /\ c.name \notin DOMAIN given /\ Wants(t, c, w)
    BY <1>1, <1>2
  <2> HIDE DEF c
  <2>2. /\ c.name \in DOMAIN m => w \in DOMAIN m
        /\ c.name \in DOMAIN m /\ w \notin DOMAIN given => l[w] < l[c.name]
    BY <2>1, WantedIsNeeded
  <2> QED BY <2>2 DEF c
<1>4. s[N].name \notin DOMAIN m
  <2> SUFFICES ASSUME s[N].name \in DOMAIN m PROVE FALSE
    OBVIOUS
  <2>1. w \in DOMAIN m
    BY <1>3
  <2>2. PICK i \in 1 .. N : s[i].name = w
    BY <1>1, <2>1
  <2>3. l[w] < l[s[N].name] /\ w \notin DOMAIN given
    BY <1>2, <1>3, <2>2
  <2>4. l[w] \in Int /\ l[s[N].name] \in Int
    <3>1. \A n \in DOMAIN m \ DOMAIN given : l[n] \in Int
      BY DEF Ranks
    <3> QED BY <1>1, <1>2, <2>1, <2>3, <3>1
  <2>5. CASE i = N
    BY <2>2, <2>3, <2>4, <2>5
  <2>6. CASE i < N
    <3>1. Needs(m, l, s[i].name, s[N].name)
      BY <1>1, <2>6 DEF Tracked, InOrder
    <3>2. l[s[N].name] < l[w]
      BY <2>1, <2>2, <3>1 DEF Needs
    <3> QED BY <2>3, <2>4, <3>2
  <2>7. i = N \/ i < N
    <3> HIDE DEF N
    <3> QED BY <1>1
  <2> QED BY <2>5, <2>6, <2>7
<1> QED BY <1>4, CallFailed

(* A call that has its arguments, and the values of its definition. *)
Completes(t, c, value) == Len(c.args) = Len(t[c.name].args) /\ value = Apply(t[c.name], c.args)
Chosen(S) == CHOOSE v \in S : TRUE

(* What a name means is what its definition gives. *)
Agrees(m, n, value) == IF value = {} THEN n \notin DOMAIN m ELSE n \in DOMAIN m /\ m[n] = Chosen(value)

(* A call that has its arguments gives the value of its name, if it has one. *)
LEMMA CallComplete ==
  ASSUME NEW t, IsText(t), NEW m, NEW given, IsMeaning(m, given, t),
         NEW c \in Calls(m, t), HasArguments(m, given, t, c), NEW value, Completes(t, c, value)
  PROVE  Agrees(m, c.name, value)
<1> DEFINE args == t[c.name].args
           V == {m[n] : n \in DOMAIN m}
<1>0. Len(c.args) = Len(args) /\ value = Apply(t[c.name], c.args)
  BY DEF Completes
<1>1. c.name \in DOMAIN t \ DOMAIN given /\ args \in Seq(Names)
  BY DEF Calls, HasArguments, IsText
<1>2. c.args \in Seq(V)
  <2>1. c \in [name : DOMAIN t, args : Seq(V)]
    BY DEF Calls
  <2> HIDE DEF V
  <2> QED BY <2>1
<1>3. DOMAIN args = 1 .. Len(c.args) /\ DOMAIN c.args = 1 .. Len(c.args)
  <2> HIDE DEF V
  <2> QED BY <1>0, <1>1, <1>2
<1>4. \A i \in DOMAIN args : args[i] \in DOMAIN m /\ c.args[i] = m[args[i]]
  BY <1>3 DEF HasArguments
<1>5. c.args = [i \in DOMAIN args |-> m[args[i]]]
  <2>1. c.args = [i \in 1 .. Len(c.args) |-> c.args[i]]
    <3> HIDE DEF V
    <3> QED BY <1>2
  <2> QED BY <1>3, <1>4, <2>1
<1>6. value = ValuesOf(t, m, c.name)
  BY <1>0, <1>5 DEF ValuesOf
<1>7. CASE value = {}
  <2>1. c.name \notin DOMAIN m
    BY <1>1, <1>6, <1>7 DEF IsMeaning, Justified
  <2> QED BY <1>7, <2>1 DEF Agrees
<1>8. CASE value # {}
  <2>1. c.name \in DOMAIN m
    BY <1>1, <1>4, <1>6, <1>8 DEF IsMeaning, Ready
  <2>2. m[c.name] = Chosen(value)
    BY <1>1, <1>6, <2>1 DEF IsMeaning, Justified, Chosen
  <2> QED BY <1>8, <2>1, <2>2 DEF Agrees
<1> QED BY <1>7, <1>8

-------------------------------------------------------------------------------
(* An evaluation: what has a value so far is right, and so are the calls    *)
(* that are in progress.                                                    *)
(* A rank of the computed names. *)
Rank(m, given, t) ==
  CHOOSE l \in [DOMAIN m \ DOMAIN given -> 0 .. Cardinality(DOMAIN t)] : Ranks(l, m, given, t, Cardinality(DOMAIN t))

Right(ca, m) == \A n \in DOMAIN ca : n \in DOMAIN m /\ ca[n] = m[n]

(* The names that have a value and were asked, except the one being got. *)
ResultsOf(m, t, td, a) == [n \in (DOMAIN t \cap DOMAIN m) \ (td \cup {a}) |-> m[n]]

Progress(m, given, t, td, a, s, re) ==
  /\ td \subseteq DOMAIN t /\ a \in {""} \cup (DOMAIN t \ td)
  /\ a = "" => s = <<>>
  /\ re = ResultsOf(m, t, td, a)
  /\ Tracked(m, Rank(m, given, t), given, t, s, a)

(* What a name got next is wanted by. *)
Awaits(t, a, s, w) == a # "" /\ IF s = <<>> THEN w = a ELSE Wants(t, s[Len(s)], w)

(* There is such a rank. *)
LEMMA RankIs ==
  ASSUME NEW m, NEW given, NEW t, IsMeaning(m, given, t)
  PROVE  Ranks(Rank(m, given, t), m, given, t, Cardinality(DOMAIN t))
<1> DEFINE k == Cardinality(DOMAIN t)
<1>1. \E l \in [DOMAIN m \ DOMAIN given -> 0 .. k] : Ranks(l, m, given, t, k)
  BY DEF IsMeaning, Ranks
<1> QED BY <1>1 DEF Rank

(* No call is in progress. *)
LEMMA NoCalls ==
  ASSUME NEW t, NEW m, NEW given, NEW l, NEW a
  PROVE  Tracked(m, l, given, t, <<>>, a)
BY DEF Tracked, InOrder

(* The value of the name that was asked is a result. *)
LEMMA ResultAdded ==
  ASSUME NEW t, NEW m, NEW td, "" \notin DOMAIN t, NEW a \in (DOMAIN t \cap DOMAIN m) \ td
  PROVE  Over(ResultsOf(m, t, td, a), Entry(a, m[a])) = ResultsOf(m, t, td, "")
<1> DEFINE D == (DOMAIN t \cap DOMAIN m) \ (td \cup {a})
           E == (DOMAIN t \cap DOMAIN m) \ (td \cup {""})
           re == ResultsOf(m, t, td, a)
<1>1. Over(re, Entry(a, m[a])) = [n \in DOMAIN re \cup {a} |-> IF n \in DOMAIN re THEN re[n] ELSE m[a]]
  BY DEF Over, Entry
<1>2. D \cup {a} = E /\ a \notin D
  OBVIOUS
<1>3. DOMAIN re = D /\ \A n \in D : re[n] = m[n]
  BY DEF ResultsOf
<1> HIDE DEF D, E, re
<1>4. DOMAIN re \cup {a} = E
  BY <1>2, <1>3
<1>5. \A n \in E : (IF n \in DOMAIN re THEN re[n] ELSE m[a]) = m[n]
  BY <1>2, <1>3
<1>6. [n \in DOMAIN re \cup {a} |-> IF n \in DOMAIN re THEN re[n] ELSE m[a]] = [n \in E |-> m[n]]
  BY <1>4, <1>5
<1> QED BY <1>1, <1>6 DEF E, re, ResultsOf

(* A right value is delivered. *)
LEMMA Delivered ==
  ASSUME NEW t, IsText(t), NEW m, NEW given, IsMeaning(m, given, t), NEW td, NEW a, NEW s, NEW re,
         Progress(m, given, t, td, a, s, re), NEW w \in DOMAIN m, Awaits(t, a, s, w),
         NEW a2, NEW s2, NEW re2,
         IF s = <<>> THEN re2 = Over(re, Entry(a, m[w])) /\ a2 = "" /\ s2 = <<>>
         ELSE s2 = [s EXCEPT ![Len(s)].args = Append(@, m[w])] /\ re2 = re /\ a2 = a
  PROVE  Progress(m, given, t, td, a2, s2, re2)
<1> DEFINE l == Rank(m, given, t)
<1>1. Tracked(m, l, given, t, s, a) /\ a # "" /\ a \in DOMAIN t \ td /\ td \subseteq DOMAIN t
  BY DEF Progress, Awaits
<1>2. CASE s = <<>>
  <2>1. w = a /\ re2 = Over(re, Entry(a, m[a])) /\ a2 = "" /\ s2 = <<>> /\ a \in DOMAIN m
    BY <1>2 DEF Awaits
  <2>2. re = ResultsOf(m, t, td, a) /\ "" \notin DOMAIN t
    BY DEF Progress, IsText
  <2>3. re2 = ResultsOf(m, t, td, "")
    BY <1>1, <2>1, <2>2, ResultAdded
  <2>4. Tracked(m, l, given, t, s2, a2)
    BY <2>1, NoCalls
  <2> QED BY <1>1, <2>1, <2>3, <2>4 DEF Progress
<1>3. CASE s # <<>>
  <2>1. Wants(t, s[Len(s)], w)
    BY <1>3 DEF Awaits
  <2>2. Tracked(m, l, given, t, s2, a)
    <3> HIDE DEF l
    <3>1. Tracked(m, l, given, t, [s EXCEPT ![Len(s)].args = Append(@, m[w])], a)
      BY <1>1, <1>3, <2>1, ValueDelivered
    <3> QED BY <1>3, <3>1
  <2>3. re2 = re /\ a2 = a
    BY <1>3
  <2>4. re = ResultsOf(m, t, td, a)
    BY DEF Progress
  <2> QED BY <1>1, <2>2, <2>3, <2>4 DEF Progress
<1> QED BY <1>2, <1>3

(* A definition is called. *)
LEMMA Called ==
  ASSUME NEW t, IsText(t), NEW m, NEW given, IsMeaning(m, given, t), NEW td, NEW a, NEW s, NEW re,
         Progress(m, given, t, td, a, s, re), NEW w \in DOMAIN t \ DOMAIN given, Awaits(t, a, s, w)
  PROVE  Progress(m, given, t, td, a, Append(s, [name |-> w, args |-> <<>>]), re)
<1> DEFINE l == Rank(m, given, t)
<1>1. Ranks(l, m, given, t, Cardinality(DOMAIN t))
  BY RankIs
<1>2. Tracked(m, l, given, t, s, a) /\ a # ""
  BY DEF Progress, Awaits
<1>3. IF s = <<>> THEN w = a ELSE Wants(t, s[Len(s)], w)
  BY DEF Awaits
<1> HIDE DEF l
<1>4. Tracked(m, l, given, t, Append(s, [name |-> w, args |-> <<>>]), a)
  BY <1>1, <1>2, <1>3, CallPushed
<1> QED BY <1>2, <1>4 DEF Progress, l

(* An evaluation fails whose name has no value. *)
LEMMA Thrown ==
  ASSUME NEW t, IsText(t), NEW m, NEW given, NEW td, NEW a, NEW s, NEW re,
         Progress(m, given, t, td, a, s, re), a \notin DOMAIN m
  PROVE  Progress(m, given, t, td, "", <<>>, re)
<1>1. ResultsOf(m, t, td, a) = ResultsOf(m, t, td, "")
  <2>1. (DOMAIN t \cap DOMAIN m) \ (td \cup {a}) = (DOMAIN t \cap DOMAIN m) \ (td \cup {""})
    BY DEF IsText
  <2> QED BY <2>1 DEF ResultsOf
<1>2. td \subseteq DOMAIN t /\ re = ResultsOf(m, t, td, "")
  BY <1>1 DEF Progress
<1>3. Tracked(m, Rank(m, given, t), given, t, <<>>, "")
  BY NoCalls
<1> QED BY <1>2, <1>3 DEF Progress

(* A name is unknown or of a call in progress: it was asked in vain. *)
LEMMA AskedInVain ==
  ASSUME NEW t, IsText(t), NEW m, NEW given, IsMeaning(m, given, t), NEW td, NEW a, NEW s, NEW re,
         Progress(m, given, t, td, a, s, re), NEW w, Awaits(t, a, s, w),
         w \notin DOMAIN given, w \in DOMAIN t => \E i \in DOMAIN s : s[i].name = w
  PROVE  a \notin DOMAIN m
<1> DEFINE l == Rank(m, given, t)
<1>1. Ranks(l, m, given, t, Cardinality(DOMAIN t))
  BY RankIs
<1>2. Tracked(m, l, given, t, s, a) /\ a \in DOMAIN t
  BY DEF Progress, Awaits
<1>3. s # <<>> /\ Wants(t, s[Len(s)], w)
  <2>1. s = <<>> => DOMAIN s = {}
    OBVIOUS
  <2>2. s # <<>>
    BY <1>2, <2>1 DEF Awaits
  <2> QED BY <2>2 DEF Awaits
<1>4. w \notin DOMAIN m \/ \E i \in DOMAIN s : s[i].name = w
  BY DEF IsMeaning, Justified
<1> HIDE DEF l
<1> QED BY <1>1, <1>2, <1>3, <1>4, WantedInVain

(* A call that has its arguments fails or gives what its name is to have. *)
LEMMA CallEnds ==
  ASSUME NEW t, IsText(t), NEW m, NEW given, IsMeaning(m, given, t), NEW td, NEW a, NEW s, NEW re,
         Progress(m, given, t, td, a, s, re), s # <<>>, NEW c, c = s[Len(s)], NEW value, Completes(t, c, value)
  PROVE  Agrees(m, c.name, value) /\ (c.name \notin DOMAIN m => a \notin DOMAIN m)
<1> DEFINE l == Rank(m, given, t)
<1>1. Tracked(m, l, given, t, s, a)
  BY DEF Progress
<1>2. c \in Calls(m, t) /\ HasArguments(m, given, t, c)
  <2>1. s \in Seq(Calls(m, t)) /\ Len(s) \in 1 .. Len(s)
    <3>1. s \in Seq(Calls(m, t))
      BY <1>1 DEF Tracked
    <3> QED BY <3>1
  <2>2. \A i \in 1 .. Len(s) : HasArguments(m, given, t, s[i])
    BY <1>1 DEF Tracked
  <2>3. c \in Calls(m, t)
    BY <2>1
  <2> QED BY <2>1, <2>2, <2>3
<1> HIDE DEF l
<1>3. Agrees(m, c.name, value)
  BY <1>2, CallComplete
<1>4. c.name \notin DOMAIN m => a \notin DOMAIN m
  BY <1>1, CallFailed
<1> QED BY <1>3, <1>4

(* The call that is left waits for its value. *)
LEMMA CallReturns ==
  ASSUME NEW t, NEW m, NEW given, NEW td, NEW a, NEW s, NEW re,
         Progress(m, given, t, td, a, s, re), s # <<>>, NEW c, c = s[Len(s)]
  PROVE  Awaits(t, a, Front(s), c.name) /\ Progress(m, given, t, td, a, Front(s), re)
<1> DEFINE l == Rank(m, given, t)
<1>1. Tracked(m, l, given, t, s, a) /\ a # ""
  BY DEF Progress
<1> HIDE DEF l
<1>2. /\ Tracked(m, l, given, t, Front(s), a)
      /\ IF Front(s) = <<>> THEN c.name = a ELSE Wants(t, Front(s)[Len(Front(s))], c.name)
  BY <1>1, CallPopped
<1>3. Awaits(t, a, Front(s), c.name)
  BY <1>1, <1>2 DEF Awaits
<1>4. Progress(m, given, t, td, a, Front(s), re)
  BY <1>1, <1>2 DEF Progress, l
<1> QED BY <1>3, <1>4

-------------------------------------------------------------------------------
(* The invariant. *)
Meant == Meaning(Given, text)

IsLoaded == "counters" \in DOMAIN spm /\ DOMAIN spm.counters \subseteq Counters

Evaluating ==
  /\ text \in Texts /\ defs = text /\ Right(cache, Meant)
  /\ Progress(Meant, Given, text, todo, asked, calls, results)

CounterInv ==
  /\ phase \notin {"import", "failed"} => IsLoaded
  /\ phase = "evaluate" => Evaluating
  /\ phase # "evaluate" => asked = "" /\ calls = <<>>
  /\ phase \in {"import", "loaded", "imported"} => updates = 0
  /\ Determined

(* A right value is put into the cache. *)
LEMMA CacheAdded ==
  ASSUME NEW ca, NEW m, Right(ca, m), NEW n \in DOMAIN m, NEW r, r = Over(ca, Entry(n, m[n]))
  PROVE  Right(r, m) /\ r[n] = m[n]
BY DEF Right, Over, Entry

(* What the names of a text are given stays as long as the capture does. *)
LEMMA GivenStays ==
  ASSUME spm' = spm
  PROVE  Given' = Given
BY DEF Given, Raw, BuiltinScalar, Size

(* Nor does what a text means, while neither changes. *)
LEMMA MeantStays ==
  ASSUME spm' = spm, text' = text
  PROVE  Given' = Given /\ Meant' = Meant
<1>1. Given' = Given
  BY GivenStays
<1> QED BY <1>1 DEF Meant

(* A name is given once. *)
LEMMA GivenIs ==
  ASSUME IsLoaded
  PROVE  /\ DOMAIN Given = DOMAIN Literals \cup Builtins \cup DOMAIN Raw
         /\ \A n \in DOMAIN Literals : Given[n] = Literal(Literals[n])
         /\ \A n \in Builtins : Given[n] = BuiltinScalar(n)
         /\ \A n \in DOMAIN Raw \ Builtins : Given[n] = Raw[n]
<1> DEFINE A == [n \in DOMAIN Literals |-> Literal(Literals[n])]
           B == [n \in Builtins |-> BuiltinScalar(n)]
           C == Over(B, Raw)
<1>1. Given = Over(A, C)
  BY DEF Given
<1>2. DOMAIN A = DOMAIN Literals /\ \A n \in DOMAIN Literals : A[n] = Literal(Literals[n])
  OBVIOUS
<1>3. DOMAIN B = Builtins /\ \A n \in Builtins : B[n] = BuiltinScalar(n)
  OBVIOUS
<1>4. DOMAIN Raw \cap DOMAIN Literals = {}
  <2>1. DOMAIN Raw = DOMAIN spm.counters \cup Clocks
    BY DEF Raw, Over
  <2> QED BY <2>1, CounterAssumption DEF IsLoaded
<1>5. Builtins \cap DOMAIN Literals = {}
  BY CounterAssumption
<1> HIDE DEF A, B
<1>6. DOMAIN C = Builtins \cup DOMAIN Raw /\ \A n \in DOMAIN C : C[n] = IF n \in Builtins THEN B[n] ELSE Raw[n]
  BY <1>3 DEF Over
<1> HIDE DEF C
<1>7. DOMAIN Given = DOMAIN Literals \cup DOMAIN C /\ \A n \in DOMAIN Given : Given[n] = IF n \in DOMAIN Literals THEN A[n] ELSE C[n]
  BY <1>1, <1>2, SMTT(30) DEF Over
<1> QED BY <1>2, <1>3, <1>4, <1>5, <1>6, <1>7

(* A loaded capture has counters of the metadata. *)
LEMMA LoadedIs ==
  ASSUME NEW s \in Loaded(records)
  PROVE  "counters" \in DOMAIN s /\ DOMAIN s.counters \subseteq Counters
<1>1. PICK timelines : s = Filled(records, timelines)
  BY DEF Loaded
<1> QED BY <1>1 DEF Filled

(* Alignment leaves the counters alone. *)
LEMMA AlignedIs ==
  ASSUME NEW s, NEW S, "counters" \in DOMAIN s, NEW r \in Aligned(s, S)
  PROVE  "counters" \in DOMAIN r /\ r.counters = s.counters
BY DEF Aligned

(* The name that is got next is what the innermost call waits for. *)
LEMMA WantedIs ==
  ASSUME Evaluating
  PROVE  /\ Wanted # "" => Awaits(text, asked, calls, Wanted)
         /\ calls # <<>> /\ Wanted = "" => Len(calls[Len(calls)].args) = Len(text[calls[Len(calls)].name].args)
<1> DEFINE c == calls[Len(calls)]
           k == Len(c.args)
           args == text[c.name].args
<1>1. defs = text /\ text \in Texts /\ (asked = "" => calls = <<>>)
  BY DEF Evaluating, Progress
<1>2. CASE asked = ""
  BY <1>1, <1>2 DEF Wanted
<1>3. CASE asked # "" /\ calls = <<>>
  BY <1>1, <1>3 DEF Wanted, Awaits
<1>4. CASE asked # "" /\ calls # <<>>
  <2>1. calls \in Seq(Calls(Meant, text)) /\ \A i \in 1 .. Len(calls) : HasArguments(Meant, Given, text, calls[i])
    BY DEF Evaluating, Progress, Tracked
  <2>2. Len(calls) \in 1 .. Len(calls)
    <3>1. calls \in Seq(Calls(Meant, text)) /\ calls # <<>>
      BY <1>4, <2>1
    <3> QED BY <3>1
  <2>3. c \in Calls(Meant, text) /\ HasArguments(Meant, Given, text, c)
    BY <2>1, <2>2
  <2>4. Wanted = IF k = Len(args) THEN "" ELSE args[k + 1]
    BY <1>1, <1>4 DEF Wanted, Last
  <2> HIDE DEF c
  <2>5. k \in Nat /\ k <= Len(args) /\ c.name \in DOMAIN text
    BY <2>3 DEF Calls, HasArguments
  <2>6. args \in Seq(Names)
    BY <1>1, <2>5, CounterAssumption
  <2>7. CASE k = Len(args)
    BY <2>4, <2>7 DEF c
  <2>8. CASE k # Len(args)
    <3>1. k < Len(args) /\ k + 1 \in DOMAIN args
      BY <2>5, <2>6, <2>8
    <3>2. args[k + 1] \in Names
      BY <2>6, <3>1
    <3>3. Wanted = args[k + 1] /\ Wanted # ""
      BY <2>4, <2>8, <3>2 DEF Names
    <3>4. Wants(text, c, Wanted)
      BY <3>1, <3>3 DEF Wants
    <3> QED BY <1>4, <3>3, <3>4 DEF Awaits, c
  <2> QED BY <2>7, <2>8
<1> QED BY <1>2, <1>3, <1>4

(* A value is got: it is the right one, or there is none. *)
LEMMA GetCounterStep ==
  ASSUME Evaluating, IsLoaded, GetCounter
  PROVE  Evaluating'
<1> DEFINE m == Meant
           g == Given
           w == Wanted
<1>1. /\ text \in Texts /\ defs = text /\ Right(cache, m) /\ IsText(text)
      /\ Progress(m, g, text, todo, asked, calls, results)
  BY CounterAssumption DEF Evaluating, IsText
<1>2. IsMeaning(m, g, text)
  BY <1>1, MeaningIs DEF Meant, IsText
<1>3. w # "" /\ text' = text /\ defs' = text /\ todo' = todo /\ Given' = g /\ Meant' = m
  BY <1>1, MeantStays DEF GetCounter, file
<1>4. Awaits(text, asked, calls, w)
  BY <1>3, WantedIs
<1>5. /\ DOMAIN g = DOMAIN Literals \cup Builtins \cup DOMAIN Raw
      /\ \A n \in DOMAIN Literals : g[n] = Literal(Literals[n])
      /\ \A n \in Builtins : g[n] = BuiltinScalar(n)
      /\ \A n \in DOMAIN Raw \ Builtins : g[n] = Raw[n]
  BY GivenIs
<1>6. \A n \in DOMAIN g : n \in DOMAIN m /\ m[n] = g[n]
  BY <1>2 DEF IsMeaning, Extends
<1> HIDE DEF m, g, w
<1>7. SUFFICES Right(cache', m) /\ Progress(m, g, text, todo, asked', calls', results')
  BY <1>1, <1>3 DEF Evaluating
<1>8. ASSUME w \in DOMAIN m, Deliver(calls, m[w]) PROVE Progress(m, g, text, todo, asked', calls', results')
  <2>1. IF calls = <<>> THEN results' = Over(results, Entry(asked, m[w])) /\ asked' = "" /\ calls' = <<>>
        ELSE calls' = [calls EXCEPT ![Len(calls)].args = Append(@, m[w])] /\ results' = results /\ asked' = asked
    BY <1>8 DEF Deliver
  <2> QED BY <1>1, <1>2, <1>4, <1>8, <2>1, Delivered
<1>9. CASE w \in DOMAIN Literals /\ Deliver(calls, Literal(Literals[w])) /\ UNCHANGED <<cache, errors, accessed>>
  <2>1. w \in DOMAIN m /\ m[w] = Literal(Literals[w])
    BY <1>5, <1>6, <1>9
  <2> QED BY <1>1, <1>8, <1>9, <2>1
<1>10. CASE w \in DOMAIN cache /\ Deliver(calls, cache[w]) /\ UNCHANGED <<cache, errors, accessed>>
  <2>1. w \in DOMAIN m /\ m[w] = cache[w]
    BY <1>1, <1>10 DEF Right
  <2> QED BY <1>1, <1>8, <1>10, <2>1
<1>11. CASE w \in Builtins \ DOMAIN cache /\ cache' = Over(cache, Entry(w, BuiltinScalar(w))) /\ Deliver(calls, cache'[w])
  <2>1. w \in DOMAIN m /\ m[w] = BuiltinScalar(w)
    BY <1>5, <1>6, <1>11
  <2>2. cache'[w] = m[w] /\ Right(cache', m)
    BY <1>1, <1>11, <2>1, CacheAdded
  <2> QED BY <1>8, <1>11, <2>1, <2>2
<1>12. CASE w \in DOMAIN Raw \ (DOMAIN cache \cup Builtins) /\ Deliver(calls, Raw[w]) /\ UNCHANGED <<cache, errors>>
  <2>1. w \in DOMAIN m /\ m[w] = Raw[w]
    BY <1>5, <1>6, <1>12
  <2> QED BY <1>1, <1>8, <1>12, <2>1
<1>13. CASE /\ w \in DOMAIN defs \ (DOMAIN cache \cup Builtins \cup DOMAIN Raw)
            /\ calls' = Append(calls, [name |-> w, args |-> <<>>])
            /\ UNCHANGED <<asked, results, cache, errors, accessed>>
  <2>1. w \in DOMAIN text \ DOMAIN g
    BY <1>1, <1>5, <1>13 DEF IsText
  <2>2. Progress(m, g, text, todo, asked, Append(calls, [name |-> w, args |-> <<>>]), results)
    BY <1>1, <1>2, <1>4, <2>1, Called
  <2> QED BY <1>1, <1>13, <2>2
<1>14. CASE /\ w \notin DOMAIN Literals \cup DOMAIN cache \cup Builtins \cup DOMAIN Raw
            /\ w \in DOMAIN defs => \E i \in DOMAIN calls : calls[i].name = w
            /\ Throw
  <2>1. asked \notin DOMAIN m
    BY <1>1, <1>2, <1>4, <1>5, <1>14, AskedInVain
  <2>2. Progress(m, g, text, todo, "", <<>>, results)
    BY <1>1, <2>1, Thrown
  <2> QED BY <1>1, <1>14, <2>2 DEF Throw
<1> QED BY <1>9, <1>10, <1>11, <1>12, <1>13, <1>14 DEF GetCounter, w

(* A call ends. *)
LEMMA EvaluateStep ==
  ASSUME Evaluating, Evaluate
  PROVE  Evaluating'
<1> DEFINE m == Meant
           g == Given
           c == calls[Len(calls)]
           value == Apply(text[c.name], c.args)
<1>1. /\ text \in Texts /\ defs = text /\ Right(cache, m) /\ IsText(text)
      /\ Progress(m, g, text, todo, asked, calls, results)
  BY CounterAssumption DEF Evaluating, IsText
<1>2. IsMeaning(m, g, text)
  BY <1>1, MeaningIs DEF Meant, IsText
<1>3. calls # <<>> /\ Wanted = "" /\ text' = text /\ defs' = text /\ todo' = todo /\ Given' = g /\ Meant' = m
  BY <1>1, MeantStays DEF Evaluate, file
<1>4. Len(c.args) = Len(text[c.name].args)
  BY <1>3, WantedIs
<1>5. IF value = {} THEN Throw
      ELSE cache' = Over(cache, Entry(c.name, Chosen(value))) /\ Deliver(Front(calls), Chosen(value))
  BY <1>1 DEF Evaluate, Last, Chosen
<1> HIDE DEF m, g
<1>6. SUFFICES Right(cache', m) /\ Progress(m, g, text, todo, asked', calls', results')
  BY <1>1, <1>3 DEF Evaluating
<1>7. /\ value = {} => asked \notin DOMAIN m
      /\ value # {} => c.name \in DOMAIN m /\ m[c.name] = Chosen(value)
      /\ Awaits(text, asked, Front(calls), c.name) /\ Progress(m, g, text, todo, asked, Front(calls), results)
  <2>1. c = calls[Len(calls)] /\ Completes(text, c, value)
    BY <1>4 DEF Completes
  <2> HIDE DEF value, c
  <2>2. Agrees(m, c.name, value) /\ (c.name \notin DOMAIN m => asked \notin DOMAIN m)
    BY <1>1, <1>2, <1>3, <2>1, CallEnds
  <2>3. Awaits(text, asked, Front(calls), c.name) /\ Progress(m, g, text, todo, asked, Front(calls), results)
    BY <1>1, <1>3, <2>1, CallReturns
  <2> QED BY <2>2, <2>3 DEF Agrees
<1> HIDE DEF value, c
<1>8. CASE value = {}
  <2>1. Progress(m, g, text, todo, "", <<>>, results)
    BY <1>1, <1>7, <1>8, Thrown
  <2> QED BY <1>1, <1>5, <1>8, <2>1 DEF Throw
<1>9. CASE value # {}
  <2> DEFINE s == Front(calls)
             n == c.name
  <2>1. n \in DOMAIN m /\ Awaits(text, asked, s, n) /\ Progress(m, g, text, todo, asked, s, results)
    BY <1>7, <1>9
  <2>2. cache' = Over(cache, Entry(n, m[n])) /\ Deliver(s, m[n])
    BY <1>5, <1>7, <1>9
  <2> HIDE DEF s, n
  <2>3. Right(cache', m)
    BY <1>1, <2>1, <2>2, CacheAdded
  <2>4. IF s = <<>> THEN results' = Over(results, Entry(asked, m[n])) /\ asked' = "" /\ calls' = <<>>
        ELSE calls' = [s EXCEPT ![Len(s)].args = Append(@, m[n])] /\ results' = results /\ asked' = asked
    BY <2>2 DEF Deliver
  <2>5. Progress(m, g, text, todo, asked', calls', results')
    BY <1>1, <1>2, <2>1, <2>4, Delivered
  <2> QED BY <2>3, <2>5
<1> QED BY <1>8, <1>9

(* A function of nothing is the empty sequence. *)
LEMMA EmptyFunction ==
  ASSUME NEW f
  PROVE  [n \in {} |-> f[n]] = <<>>
<1> DEFINE g == [n \in {} |-> f[n]]
<1>1. g = [n \in 1 .. 0 |-> f[n]]
  OBVIOUS
<1>2. g \in [1 .. 0 -> {}]
  BY <1>1
<1>3. g \in Seq({}) /\ Len(g) = 0
  BY <1>2, SeqDef
<1> HIDE DEF g
<1>4. g = <<>>
  BY <1>3, EmptySeq
<1> QED BY <1>4 DEF g

(* A text is read. *)
LEMMA UpdateStep ==
  ASSUME CounterInv, NEW t \in Texts, Update(t)
  PROVE  Evaluating'
<1>1. /\ asked = "" /\ calls = <<>> /\ text' = t /\ defs' = t /\ todo' = DOMAIN t /\ cache' = <<>> /\ results' = <<>>
      /\ asked' = "" /\ calls' = <<>>
  BY DEF CounterInv, Update
<1> DEFINE m == Meant'
           g == Given'
<1>2. Right(cache', m)
  <2> HIDE DEF m
  <2>1. DOMAIN <<>> = {}
    OBVIOUS
  <2> QED BY <1>1, <2>1 DEF Right
<1>3. ResultsOf(m, t, DOMAIN t, "") = <<>>
  <2> HIDE DEF m
  <2>1. (DOMAIN t \cap DOMAIN m) \ (DOMAIN t \cup {""}) = {}
    OBVIOUS
  <2>2. ResultsOf(m, t, DOMAIN t, "") = [n \in {} |-> m[n]]
    BY <2>1 DEF ResultsOf
  <2> QED BY <2>2, EmptyFunction
<1>4. Tracked(m, Rank(m, g, t), g, t, <<>>, "")
  BY NoCalls
<1>5. Progress(m, g, t, DOMAIN t, "", <<>>, <<>>)
  BY <1>3, <1>4 DEF Progress
<1> QED BY <1>1, <1>2, <1>5 DEF Evaluating

(* A name is asked. *)
LEMMA AskStep ==
  ASSUME Evaluating, NEW n \in todo, Ask(n)
  PROVE  Evaluating'
<1> DEFINE m == Meant
           g == Given
<1>1. /\ asked = "" /\ asked' = n /\ todo' = todo \ {n} /\ text' = text /\ defs' = defs /\ cache' = cache
      /\ results' = results /\ calls' = calls /\ Given' = g /\ Meant' = m
  BY MeantStays DEF Ask, file
<1>2. /\ text \in Texts /\ defs = text /\ Right(cache, m) /\ IsText(text)
      /\ Progress(m, g, text, todo, asked, calls, results)
  BY CounterAssumption DEF Evaluating, IsText
<1> HIDE DEF m, g
<1>3. todo \subseteq DOMAIN text /\ calls = <<>> /\ results = ResultsOf(m, text, todo, "")
  BY <1>1, <1>2 DEF Progress
<1>4. n \in DOMAIN text /\ n # ""
  BY <1>2, <1>3 DEF IsText
<1>5. ResultsOf(m, text, todo, "") = ResultsOf(m, text, todo \ {n}, n)
  <2>1. (DOMAIN text \cap DOMAIN m) \ (todo \cup {""}) = (DOMAIN text \cap DOMAIN m) \ ((todo \ {n}) \cup {n})
    BY <1>2, <1>3, <1>4 DEF IsText
  <2> QED BY <2>1 DEF ResultsOf
<1>6. Tracked(m, Rank(m, g, text), g, text, <<>>, n)
  BY NoCalls
<1>7. Progress(m, g, text, todo \ {n}, n, <<>>, results)
  BY <1>3, <1>4, <1>5, <1>6 DEF Progress
<1> QED BY <1>1, <1>2, <1>3, <1>7 DEF Evaluating

(* All names were asked. *)
LEMMA CollectStep ==
  ASSUME Evaluating, Collect
  PROVE  Determined'
<1>1. /\ asked = "" /\ todo = {} /\ text' = text /\ results' = results /\ Given' = Given /\ Meant' = Meant
      /\ results = ResultsOf(Meant, text, {}, "")
  BY MeantStays DEF Collect, file, Evaluating, Progress
<1>2. "" \notin DOMAIN text
  BY CounterAssumption DEF Evaluating
<1>3. (DOMAIN text \cap DOMAIN Meant) \ ({} \cup {""}) = DOMAIN text \cap DOMAIN Meant
  BY <1>2
<1>4. ResultsOf(Meant, text, {}, "") = [n \in DOMAIN text \cap DOMAIN Meant |-> Meant[n]]
  BY <1>3 DEF ResultsOf
<1>5. results' = [n \in DOMAIN text' \cap DOMAIN Meant' |-> Meant'[n]]
  BY <1>1, <1>4
<1> QED BY <1>5 DEF Determined, Meant

(* A curve is drawn of the same results. *)
LEMMA DrawStep ==
  ASSUME Determined, phase \in {"draw", "shown"}, UNCHANGED <<spm, text, updates, results>>
  PROVE  Determined'
<1>1. updates > 0 => results = [n \in DOMAIN text \cap DOMAIN Meant |-> Meant[n]]
  BY DEF Determined, Meant
<1>2. Given' = Given /\ Meant' = Meant
  BY MeantStays
<1>3. updates' > 0 => results' = [n \in DOMAIN text' \cap DOMAIN Meant' |-> Meant'[n]]
  BY <1>1, <1>2
<1> QED BY <1>3 DEF Determined, Meant

(* Initially nothing was evaluated. *)
LEMMA InitCounterInv == Init => CounterInv
BY DEF Init, CounterInv, Determined

(* Every step keeps the invariant. *)
LEMMA NextCounterInv == CounterInv /\ [Next]_vars => CounterInv'
<1> SUFFICES ASSUME CounterInv, [Next]_vars PROVE CounterInv'
  OBVIOUS
<1> USE DEF context, file, plot
<1>1. CASE Load
  <2>1. /\ phase' \in {"loaded", "imported"} /\ asked' = "" /\ calls' = <<>> /\ spm' \in Loaded(records)
        /\ updates' = 0
    BY <1>1 DEF Load, CounterInv
  <2>2. IsLoaded'
    BY <2>1, LoadedIs DEF IsLoaded
  <2>3. Determined'
    BY <2>1 DEF Determined
  <2> QED BY <2>1, <2>2, <2>3 DEF CounterInv
<1>2. CASE Align
  <2>1. phase' \in {"failed", "imported"} /\ asked' = "" /\ calls' = <<>> /\ updates' = 0
    BY <1>2 DEF Align, CounterInv
  <2>2. phase' # "failed" => IsLoaded'
    <3> SUFFICES ASSUME phase' # "failed" PROVE IsLoaded'
      OBVIOUS
    <3>1. spm' \in Aligned(spm, anchors) /\ IsLoaded
      BY <1>2 DEF Align, CounterInv
    <3>2. "counters" \in DOMAIN spm' /\ spm'.counters = spm.counters
      BY <3>1, AlignedIs DEF IsLoaded
    <3> QED BY <3>1, <3>2 DEF IsLoaded
  <2>3. Determined'
    BY <2>1 DEF Determined
  <2> QED BY <2>1, <2>2, <2>3 DEF CounterInv
<1>3. CASE UpdateDataSelection
  <2>1. /\ phase' = "draw" /\ asked' = "" /\ calls' = <<>> /\ updates' = updates /\ spm' = spm /\ IsLoaded
        /\ phase = "imported"
    BY <1>3 DEF UpdateDataSelection, CounterInv
  <2>2. Determined'
    <3>1. updates = 0
      BY <2>1 DEF CounterInv
    <3>2. updates' = 0
      BY <2>1, <3>1
    <3>3. ~ (updates' > 0)
      BY <3>2
    <3> QED BY <3>3 DEF Determined
  <2> QED BY <2>1, <2>2 DEF CounterInv, IsLoaded
<1>4. ASSUME NEW t \in Texts, Update(t) PROVE CounterInv'
  <2>1. Evaluating'
    BY <1>4, UpdateStep
  <2>2. phase' = "evaluate" /\ spm' = spm /\ IsLoaded
    BY <1>4 DEF Update, CounterInv
  <2> QED BY <2>1, <2>2 DEF CounterInv, Determined, IsLoaded
<1>5. ASSUME NEW n \in todo, Ask(n) PROVE CounterInv'
  <2>1. Evaluating'
    BY <1>5, AskStep DEF Ask, CounterInv
  <2>2. phase' = "evaluate" /\ spm' = spm /\ IsLoaded
    BY <1>5 DEF Ask, CounterInv
  <2> QED BY <2>1, <2>2 DEF CounterInv, Determined, IsLoaded
<1>6. CASE GetCounter
  <2>1. Evaluating /\ IsLoaded /\ phase' = "evaluate" /\ spm' = spm
    BY <1>6 DEF GetCounter, CounterInv
  <2>2. Evaluating'
    BY <1>6, <2>1, GetCounterStep
  <2> QED BY <2>1, <2>2 DEF CounterInv, Determined, IsLoaded
<1>7. CASE Evaluate
  <2>1. Evaluating /\ IsLoaded /\ phase' = "evaluate" /\ spm' = spm
    BY <1>7 DEF Evaluate, CounterInv
  <2>2. Evaluating'
    BY <1>7, <2>1, EvaluateStep
  <2> QED BY <2>1, <2>2 DEF CounterInv, Determined, IsLoaded
<1>8. CASE Collect
  <2>1. Evaluating /\ IsLoaded /\ phase' = "draw" /\ spm' = spm /\ asked' = "" /\ calls' = calls /\ asked = ""
    BY <1>8 DEF Collect, CounterInv
  <2>2. calls = <<>>
    BY <2>1 DEF Evaluating, Progress
  <2>3. Determined'
    BY <1>8, <2>1, CollectStep
  <2> QED BY <2>1, <2>2, <2>3 DEF CounterInv, IsLoaded
<1>9. ASSUME phase \in {"draw", "shown"}, phase' \in {"draw", "shown"}, UNCHANGED <<spm, text, updates, results, asked, calls>>
      PROVE  CounterInv'
  <2>1. IsLoaded /\ asked = "" /\ calls = <<>> /\ Determined
    BY <1>9 DEF CounterInv
  <2>2. Determined'
    BY <1>9, <2>1, DrawStep
  <2> QED BY <1>9, <2>1, <2>2 DEF CounterInv, IsLoaded
<1>10. ASSUME NEW n \in pending, AddSeries(n) PROVE CounterInv'
  BY <1>9, <1>10, SMTT(30) DEF AddSeries
<1>11. CASE Advance
  BY <1>9, <1>11 DEF Advance
<1>12. CASE EndSeries
  BY <1>9, <1>12 DEF EndSeries
<1>13. CASE Show
  BY <1>9, <1>13 DEF Show
<1>14. CASE UNCHANGED vars
  <2>1. Given' = Given /\ Meant' = Meant
    BY <1>14, MeantStays DEF vars
  <2>2. Evaluating => Evaluating'
    BY <1>14, <2>1 DEF vars, Evaluating
  <2>3. IsLoaded => IsLoaded'
    BY <1>14 DEF vars, IsLoaded
  <2>4. Determined'
    <3>1. CASE phase \in {"draw", "shown"}
      BY <1>14, <3>1, DrawStep DEF vars, CounterInv
    <3>2. CASE phase \notin {"draw", "shown"}
      BY <1>14, <3>2 DEF vars, Determined
    <3> QED BY <3>1, <3>2
  <2> QED BY <1>14, <2>2, <2>3, <2>4 DEF vars, CounterInv
<1> QED BY <1>1, <1>2, <1>3, <1>4, <1>5, <1>6, <1>7, <1>8, <1>10, <1>11, <1>12, <1>13, <1>14 DEF Next

-------------------------------------------------------------------------------
(* Every reachable state has the inductive invariant. *)
THEOREM CounterInvariance == Spec => []CounterInv
BY InitCounterInv, NextCounterInv, PTL DEF Spec

(* The derived counters that are drawn are those that the text has, with   *)
(* the values that it gives them.                                          *)
THEOREM ShownAsWritten == Spec => []Determined
<1>1. CounterInv => Determined
  BY DEF CounterInv
<1> QED BY <1>1, CounterInvariance, PTL

-------------------------------------------------------------------------------
(* The types.  Every value is a tensor: those of a capture as it is loaded, *)
(* and those that operations make of them.                                 *)

(* A tensor: its valid cells lie within its shape, and each of its rows has *)
(* a source.                                                                *)
IsTensor(t) ==
  /\ {"shape", "at", "xccs", "from"} \subseteq DOMAIN t
  /\ t.shape \in [Axes -> Nat] /\ DOMAIN t.at \subseteq Cells(t.shape) /\ Len(t.from) = t.shape[XCC]

(* The cells of a shape are the places within it. *)
LEMMA CellsAre ==
  ASSUME NEW s \in [Axes -> Nat]
  PROVE  Cells(s) = {c \in [Axes -> Nat] : \A a \in Axes : c[a] < s[a]}
<1> DEFINE P == {c \in [Axes -> Nat] : \A a \in Axes : c[a] < s[a]}
<1>0. Axes = {1, 2, 3, 4} /\ \A a \in Axes : s[a] \in Nat
  BY DEF Axes
<1>1. ASSUME NEW x \in 0 .. s[XCC] - 1, NEW e \in 0 .. s[SE] - 1, NEW u \in 0 .. s[CU] - 1, NEW n \in 0 .. s[Time] - 1
      PROVE  <<x, e, u, n>> \in P
  <2> DEFINE c == <<x, e, u, n>>
  <2>1. x \in Nat /\ e \in Nat /\ u \in Nat /\ n \in Nat /\ x < s[1] /\ e < s[2] /\ u < s[3] /\ n < s[4]
    BY <1>0 DEF XCC, SE, CU, Time
  <2>2. c \in [Axes -> Nat]
    BY <2>1 DEF Axes
  <2>3. c[1] = x /\ c[2] = e /\ c[3] = u /\ c[4] = n
    OBVIOUS
  <2> HIDE DEF c
  <2>4. \A a \in Axes : c[a] < s[a]
    BY <1>0, <2>1, <2>3
  <2> QED BY <2>2, <2>4 DEF c
<1>2. ASSUME NEW c \in P
      PROVE  \E x \in 0 .. s[XCC] - 1, e \in 0 .. s[SE] - 1, u \in 0 .. s[CU] - 1, n \in 0 .. s[Time] - 1 : c = <<x, e, u, n>>
  <2>1. c = <<c[1], c[2], c[3], c[4]>>
    BY DEF Axes
  <2>2. /\ c[1] \in Nat /\ c[2] \in Nat /\ c[3] \in Nat /\ c[4] \in Nat
        /\ c[1] < s[1] /\ c[2] < s[2] /\ c[3] < s[3] /\ c[4] < s[4]
    BY <1>0
  <2>3. c[1] \in 0 .. s[XCC] - 1 /\ c[2] \in 0 .. s[SE] - 1 /\ c[3] \in 0 .. s[CU] - 1 /\ c[4] \in 0 .. s[Time] - 1
    BY <1>0, <2>2 DEF XCC, SE, CU, Time
  <2> QED BY <2>1, <2>3
<1> HIDE DEF P
<1>3. Cells(s) = P
  BY <1>1, <1>2 DEF Cells
<1> QED BY <1>3 DEF P

(* A cell is a place within each dimension. *)
LEMMA CellHeld ==
  ASSUME NEW shape, NEW x \in 0 .. shape[XCC] - 1, NEW s \in 0 .. shape[SE] - 1,
         NEW c \in 0 .. shape[CU] - 1, NEW n \in 0 .. shape[Time] - 1
  PROVE  <<x, s, c, n>> \in Cells(shape)
BY DEF Cells

(* and is known by its coordinates. *)
LEMMA CellMade ==
  ASSUME NEW shape, NEW v \in Cells(shape)
  PROVE  v = <<v[XCC], v[SE], v[CU], v[Time]>> /\ v[Time] \in 0 .. shape[Time] - 1
<1>1. PICK x \in 0 .. shape[XCC] - 1, s \in 0 .. shape[SE] - 1, c \in 0 .. shape[CU] - 1, n \in 0 .. shape[Time] - 1 :
        v = <<x, s, c, n>>
  BY DEF Cells
<1>2. v[XCC] = x /\ v[SE] = s /\ v[CU] = c /\ v[Time] = n
  BY <1>1 DEF XCC, SE, CU, Time
<1> QED BY <1>1, <1>2

(* The length of a sequence that is given by its places. *)
LEMMA LengthIs ==
  ASSUME NEW n \in Nat, NEW s, DOMAIN s = 1 .. n
  PROVE  Len(s) = n
OBVIOUS

(* A counter as it is collected is a tensor. *)
LEMMA CollectedIs ==
  ASSUME NEW s \in [Axes -> Nat], NEW at, DOMAIN at \subseteq Cells(s)
  PROVE  IsTensor(Collected(s, at))
<1> DEFINE from == [x \in 1 .. s[XCC] |-> {x - 1}]
<1>0. s[XCC] \in Nat
  BY DEF Axes, XCC
<1>1. Len(from) = s[XCC]
  <2>1. DOMAIN from = 1 .. s[XCC]
    OBVIOUS
  <2> HIDE DEF from
  <2> QED BY <1>0, <2>1, LengthIs
<1> QED BY <1>1 DEF IsTensor, Collected

(* The value of a literal is a tensor of one cell. *)
LEMMA LiteralIs ==
  ASSUME NEW v
  PROVE  IsTensor(Literal(v))
<1> DEFINE s == <<1, 1, 1, 1>>
<1>1. s \in [Axes -> Nat]
  BY DEF Axes
<1>2. <<0, 0, 0, 0>> \in Cells(s)
  BY DEF Cells, XCC, SE, CU, Time
<1>3. /\ {"shape", "at", "xccs", "from"} \subseteq DOMAIN Literal(v)
      /\ Literal(v).shape = s /\ DOMAIN Literal(v).at = {<<0, 0, 0, 0>>} /\ Len(Literal(v).from) = 1
  BY DEF Literal
<1>4. s[XCC] = 1
  BY DEF XCC
<1> HIDE DEF s
<1> QED BY <1>1, <1>2, <1>3, <1>4 DEF IsTensor

(* Every operation makes tensors of tensors: reduceAxes, *)
LEMMA ReducedIs ==
  ASSUME NEW t, IsTensor(t), NEW named, NEW op
  PROVE  IsTensor(Reduced(t, named, op))
<1> DEFINE axes == IF named = {} THEN Axes ELSE named
           collapsed(v, rest) == [a \in Axes |-> IF a \in axes THEN rest ELSE v[a]]
           s == collapsed(t.shape, 1)
           at == [d \in {collapsed(c, 0) : c \in DOMAIN t.at} |->
                    Reduction(op, [c \in {c \in DOMAIN t.at : collapsed(c, 0) = d} |-> t.at[c]])]
           from == IF XCC \in axes THEN <<UNION {t.from[x] : x \in DOMAIN t.from}>> ELSE t.from
<1>0. t.shape \in [Axes -> Nat] /\ XCC \in Axes
  BY DEF IsTensor, Axes, XCC
<1>1. s \in [Axes -> Nat]
  BY <1>0
<1>2. ASSUME NEW c \in DOMAIN t.at PROVE collapsed(c, 0) \in Cells(s)
  <2>1. c \in [Axes -> Nat] /\ \A a \in Axes : c[a] < t.shape[a]
    BY <1>0, CellsAre DEF IsTensor
  <2> DEFINE d == collapsed(c, 0)
  <2>2. d \in [Axes -> Nat] /\ \A a \in Axes : d[a] < s[a]
    BY <2>1
  <2> HIDE DEF d, s
  <2>3. d \in Cells(s)
    BY <1>1, <2>2, CellsAre
  <2> QED BY <2>3 DEF d
<1>3. DOMAIN at \subseteq Cells(s)
  <2>1. DOMAIN at = {collapsed(c, 0) : c \in DOMAIN t.at}
    OBVIOUS
  <2> HIDE DEF at, s
  <2> QED BY <1>2, <2>1
<1>4. Len(from) = s[XCC]
  BY <1>0 DEF IsTensor
<1>5. /\ {"shape", "at", "xccs", "from"} \subseteq DOMAIN Reduced(t, named, op)
      /\ Reduced(t, named, op).shape = s /\ Reduced(t, named, op).at = at /\ Reduced(t, named, op).from = from
  BY DEF Reduced
<1> HIDE DEF s, at, from
<1> QED BY <1>1, <1>3, <1>4, <1>5 DEF IsTensor

(* the rows that stay, *)
LEMMA RowsKeptIs ==
  ASSUME NEW t, IsTensor(t), NEW axis \in Axes, NEW kept, NEW n \in Nat, DOMAIN kept = 1 .. n, Len(kept) = n, NEW known
  PROVE  IsTensor(RowsKept(t, axis, kept, known))
<1> DEFINE s == [t.shape EXCEPT ![axis] = Len(kept)]
           source(c) == [c EXCEPT ![axis] = kept[c[axis] + 1]]
           at == [c \in {d \in Cells(s) : source(d) \in DOMAIN t.at} |-> t.at[source(c)]]
           rows == [i \in DOMAIN kept |-> t.from[kept[i] + 1]]
           from == IF axis = XCC THEN rows ELSE t.from
           r == RowsKept(t, axis, kept, known)
<1>0. t.shape \in [Axes -> Nat] /\ XCC \in Axes
  BY DEF IsTensor, Axes, XCC
<1>1. s \in [Axes -> Nat] /\ s[axis] = n /\ \A a \in Axes : a # axis => s[a] = t.shape[a]
  BY <1>0
<1>2. DOMAIN at \subseteq Cells(s)
  OBVIOUS
<1>3. Len(from) = s[XCC]
  <2>1. DOMAIN rows = 1 .. n
    OBVIOUS
  <2> HIDE DEF rows, s
  <2>2. Len(rows) = n
    BY <2>1, LengthIs
  <2> QED BY <1>0, <1>1, <2>2 DEF IsTensor
<1>4. {"shape", "at", "xccs", "from"} \subseteq DOMAIN r /\ r.shape = s /\ r.at = at /\ r.from = from
  BY DEF RowsKept
<1> HIDE DEF s, at, from, r
<1>5. IsTensor(r)
  BY <1>1, <1>2, <1>3, <1>4 DEF IsTensor
<1> QED BY <1>5 DEF r

(* one of them, *)
LEMMA SelectedIs ==
  ASSUME NEW t, IsTensor(t), NEW axis \in Axes, NEW index
  PROVE  \A r \in Selected(t, index, axis) : IsTensor(r)
<1> DEFINE i == FromEnd(index, t.shape[axis])
           kept == <<i>>
<1>1. DOMAIN kept = 1 .. 1 /\ Len(kept) = 1
  OBVIOUS
<1> HIDE DEF kept
<1>2. IsTensor(RowsKept(t, axis, kept, i < Len(t.xccs)))
  BY <1>1, RowsKeptIs
<1> QED BY <1>2 DEF Selected, kept

(* and several at a distance, *)
LEMMA SelectedRangeIs ==
  ASSUME NEW t, IsTensor(t), NEW axis \in Axes, NEW start, NEW stop, NEW step
  PROVE  \A r \in SelectedRange(t, start, stop, step, axis) : IsTensor(r)
<1> SUFFICES ASSUME stop \in 1 .. t.shape[axis] /\ start \in 0 .. stop - 1 /\ step \in Nat \ {0}
             PROVE  \A r \in SelectedRange(t, start, stop, step, axis) : IsTensor(r)
  BY DEF SelectedRange
<1> DEFINE n == (stop - start + step - 1) \div step
           kept == [i \in 1 .. n |-> start + (i - 1) * step]
<1>0. t.shape[axis] \in Nat
  BY DEF IsTensor
<1>1. n \in Nat
  <2>1. stop \in Nat /\ start \in Nat /\ start <= stop - 1 /\ step \in Nat /\ step > 0
    BY <1>0
  <2>2. stop - start + step - 1 \in Nat
    BY <2>1
  <2> QED BY <2>1, <2>2
<1> HIDE DEF n
<1>2. DOMAIN kept = 1 .. n
  OBVIOUS
<1> HIDE DEF kept
<1>3. Len(kept) = n
  BY <1>1, <1>2, LengthIs
<1>4. IsTensor(RowsKept(t, axis, kept, Labelled(t)))
  BY <1>1, <1>2, <1>3, RowsKeptIs
<1> QED BY <1>4 DEF SelectedRange, kept, n

(* or all but one, *)
LEMMA RemovedIs ==
  ASSUME NEW t, IsTensor(t), NEW axis \in Axes, NEW index
  PROVE  \A r \in Removed(t, index, axis) : IsTensor(r)
<1> SUFFICES ASSUME t.shape[axis] > 1
             PROVE  \A r \in Removed(t, index, axis) : IsTensor(r)
  BY DEF Removed
<1> DEFINE n == t.shape[axis] - 1
           i == FromEnd(index, t.shape[axis])
           kept == [k \in 1 .. n |-> IF k > i THEN k ELSE k - 1]
<1>1. n \in Nat
  <2>1. t.shape[axis] \in Nat
    BY DEF IsTensor
  <2> QED BY <2>1
<1> HIDE DEF n
<1>2. DOMAIN kept = 1 .. n
  OBVIOUS
<1> HIDE DEF kept
<1>3. Len(kept) = n
  BY <1>1, <1>2, LengthIs
<1>4. IsTensor(RowsKept(t, axis, kept, Labelled(t)))
  BY <1>1, <1>2, <1>3, RowsKeptIs
<1> QED BY <1>4 DEF Removed, kept, n

(* the steps along an axis, whose cells have a next one within the shape, *)
LEMMA DeltaIs ==
  ASSUME NEW t, IsTensor(t), NEW axis \in Axes
  PROVE  \A r \in Delta(t, axis) : IsTensor(r)
<1> SUFFICES ASSUME ~(t.shape[axis] <= 1), NEW r \in Delta(t, axis)
             PROVE  IsTensor(r)
  BY DEF Delta
<1> DEFINE next(c) == [c EXCEPT ![axis] = @ + 1]
           s == [t.shape EXCEPT ![axis] = @ - 1]
           at == [c \in {d \in DOMAIN t.at : next(d) \in DOMAIN t.at} |-> t.at[next(c)] - t.at[c]]
           rows == [x \in 1 .. t.shape[XCC] - 1 |-> t.from[x] \cup t.from[x + 1]]
           from == IF axis = XCC THEN rows ELSE t.from
<1>0. t.shape \in [Axes -> Nat] /\ XCC \in Axes /\ t.shape[axis] \in Nat
  BY DEF IsTensor, Axes, XCC
<1>1. s \in [Axes -> Nat] /\ s[axis] = t.shape[axis] - 1 /\ \A a \in Axes : a # axis => s[a] = t.shape[a]
  BY <1>0
<1>2. ASSUME NEW c \in DOMAIN t.at, next(c) \in DOMAIN t.at PROVE c \in Cells(s)
  <2> DEFINE d == next(c)
  <2>1. c \in [Axes -> Nat] /\ d \in [Axes -> Nat] /\ (\A a \in Axes : c[a] < t.shape[a]) /\ \A a \in Axes : d[a] < t.shape[a]
    BY <1>0, <1>2, CellsAre DEF IsTensor
  <2>2. d[axis] = c[axis] + 1
    BY <2>1
  <2> HIDE DEF d, s
  <2>3. ASSUME NEW a \in Axes PROVE c[a] < s[a]
    <3>0. c[a] \in Nat /\ d[a] \in Nat /\ t.shape[a] \in Nat
      BY <1>0, <2>1
    <3>1. CASE a = axis
      BY <1>1, <2>1, <2>2, <3>0, <3>1
    <3>2. CASE a # axis
      BY <1>1, <2>1, <3>2
    <3> QED BY <3>1, <3>2
  <2> QED BY <1>1, <2>1, <2>3, CellsAre
<1>3. DOMAIN at \subseteq Cells(s)
  <2>1. DOMAIN at = {d \in DOMAIN t.at : next(d) \in DOMAIN t.at}
    OBVIOUS
  <2> HIDE DEF at, s
  <2> QED BY <1>2, <2>1
<1>4. Len(from) = s[XCC]
  <2>1. DOMAIN rows = 1 .. t.shape[XCC] - 1
    OBVIOUS
  <2>2. axis = XCC => Len(rows) = t.shape[XCC] - 1
    <3> SUFFICES ASSUME axis = XCC PROVE Len(rows) = t.shape[XCC] - 1
      OBVIOUS
    <3>1. t.shape[XCC] - 1 \in Nat
      BY <1>0
    <3> HIDE DEF rows
    <3> QED BY <2>1, <3>1, LengthIs
  <2> HIDE DEF rows, s
  <2> QED BY <1>0, <1>1, <2>2 DEF IsTensor
<1>5. {"shape", "at", "xccs", "from"} \subseteq DOMAIN r /\ r.shape = s /\ r.at = at /\ r.from = from
  BY DEF Delta
<1> HIDE DEF s, at, from
<1> QED BY <1>1, <1>3, <1>4, <1>5 DEF IsTensor

(* two tensors cell by cell, *)
LEMMA PairedIs ==
  ASSUME NEW l, NEW r, NEW s \in [Axes -> Nat], NEW xccs, NEW op
  PROVE  IsTensor(Paired(l, r, s, xccs, op))
<1> DEFINE at == [c \in {d \in Cells(s) : Wrapped(d, l.shape) \in DOMAIN l.at /\ Wrapped(d, r.shape) \in DOMAIN r.at} |->
                    Arithmetic(op, l.at[Wrapped(c, l.shape)], r.at[Wrapped(c, r.shape)])]
           row(t, x) == t.from[IF Len(t.from) = 1 THEN 1 ELSE x]
           from == [x \in 1 .. s[XCC] |-> row(l, x) \cup row(r, x)]
           p == Paired(l, r, s, xccs, op)
<1>0. s[XCC] \in Nat
  BY DEF Axes, XCC
<1>1. DOMAIN at \subseteq Cells(s)
  OBVIOUS
<1>2. DOMAIN from = 1 .. s[XCC]
  OBVIOUS
<1>3. {"shape", "at", "xccs", "from"} \subseteq DOMAIN p /\ p.shape = s /\ p.at = at /\ p.from = from
  BY DEF Paired
<1> HIDE DEF at, from, p
<1>4. Len(from) = s[XCC]
  BY <1>0, <1>2, LengthIs
<1>5. IsTensor(p)
  BY <1>1, <1>3, <1>4 DEF IsTensor
<1> QED BY <1>5 DEF p

(* of shapes that go together, *)
LEMMA BroadcastIs ==
  ASSUME NEW l, IsTensor(l), NEW r, IsTensor(r), NEW op
  PROVE  \A t \in Broadcast(l, r, op) : IsTensor(t)
<1> DEFINE shape == [a \in Axes |-> IF l.shape[a] > r.shape[a] THEN l.shape[a] ELSE r.shape[a]]
<1>1. shape \in [Axes -> Nat]
  BY DEF IsTensor
<1>2. ASSUME NEW t \in Broadcast(l, r, op) PROVE \E xccs : t = Paired(l, r, shape, xccs, op)
  <2> DEFINE labels(u) == u.shape[XCC] = shape[XCC] /\ Labelled(u)
             xccs == IF shape[XCC] > 1 THEN IF labels(l) THEN l.xccs ELSE IF labels(r) THEN r.xccs ELSE <<>>
                     ELSE IF IsScalar(l) /\ ~IsScalar(r) THEN r.xccs
                     ELSE IF (IsScalar(r) /\ ~IsScalar(l)) \/ l.xccs = r.xccs THEN l.xccs ELSE <<>>
  <2>1. Broadcast(l, r, op) \subseteq {Paired(l, r, shape, xccs, op)}
    BY DEF Broadcast
  <2> HIDE DEF shape, xccs
  <2> QED BY <1>2, <2>1
<1> HIDE DEF shape
<1> QED BY <1>1, <1>2, PairedIs

(* or the same, *)
LEMMA InPlaceIs ==
  ASSUME NEW l, IsTensor(l), NEW r, IsTensor(r), NEW op
  PROVE  \A t \in InPlace(l, r, op) : IsTensor(t)
<1>1. l.shape \in [Axes -> Nat]
  BY DEF IsTensor
<1>2. IsTensor(Paired(l, r, l.shape, l.xccs, op))
  BY <1>1, PairedIs
<1> QED BY <1>2, BroadcastIs DEF InPlace

(* and as many numbers as are asked for. *)
LEMMA LinearIs ==
  ASSUME NEW n \in Nat, NEW axis \in Axes
  PROVE  IsTensor(Linear(n, axis))
<1> DEFINE s == [<<1, 1, 1, 1>> EXCEPT ![axis] = n]
           at == [c \in Cells(s) |-> c[axis]]
<1>1. s \in [Axes -> Nat]
  BY DEF Axes
<1>2. DOMAIN at \subseteq Cells(s)
  OBVIOUS
<1>3. Linear(n, axis) = Collected(s, at)
  BY DEF Linear
<1> HIDE DEF s, at
<1> QED BY <1>1, <1>2, <1>3, CollectedIs

(* A record with another function of the same cells is still a tensor. *)
LEMMA NegatedIs ==
  ASSUME NEW t, IsTensor(t), NEW at, DOMAIN at = DOMAIN t.at
  PROVE  IsTensor([t EXCEPT !.at = at])
BY DEF IsTensor

IsTensors(s) == \A i \in DOMAIN s : IsTensor(s[i])

(* What a definition makes of tensors are tensors. *)
LEMMA ApplyIs ==
  ASSUME NEW d, d.op \in Operations, d.axis \in Axes,
         NEW A, NEW args \in Seq(A), Len(args) = Operands(d.op), IsTensors(args)
  PROVE  \A v \in Apply(d, args) : IsTensor(v)
<1> SUFFICES ASSUME NEW v \in Apply(d, args) PROVE IsTensor(v)
  OBVIOUS
<1>1. DOMAIN args = 1 .. Operands(d.op)
  OBVIOUS
<1>2. Operands(d.op) \in {1, 2, 4}
  BY DEF Operands
<1>3. IsTensor(args[1]) /\ (Operands(d.op) > 1 => IsTensor(args[2]))
  BY <1>1, <1>2 DEF IsTensors
<1>4. CASE d.op = "negate"
  <2> DEFINE at == [c \in DOMAIN args[1].at |-> -args[1].at[c]]
  <2>1. v = [args[1] EXCEPT !.at = at]
    BY <1>4 DEF Apply
  <2>2. DOMAIN at = DOMAIN args[1].at
    OBVIOUS
  <2> HIDE DEF at
  <2> QED BY <1>3, <2>1, <2>2, NegatedIs
<1>5. CASE d.op = "binary"
  <2>1. v \in InPlace(args[1], args[2], d.f) /\ Operands(d.op) = 2
    BY <1>5 DEF Apply, Operands
  <2> QED BY <1>3, <2>1, InPlaceIs
<1>6. CASE d.op = "elementwise"
  <2>1. v \in Broadcast(args[1], args[2], d.f) /\ Operands(d.op) = 2
    BY <1>6 DEF Apply, Operands
  <2> QED BY <1>3, <2>1, BroadcastIs
<1>7. CASE d.op = "reduce"
  <2>1. v = Reduced(args[1], d.axes, d.f)
    BY <1>7 DEF Apply
  <2> QED BY <1>3, <2>1, ReducedIs
<1>8. CASE d.op = "select"
  <2>1. v \in Selected(args[1], ScalarOf(args[2]), d.axis)
    BY <1>8 DEF Apply
  <2> QED BY <1>3, <2>1, SelectedIs
<1>9. CASE d.op = "range"
  <2>1. v \in SelectedRange(args[1], ScalarOf(args[2]), ScalarOf(args[3]), ScalarOf(args[4]), d.axis)
    BY <1>9 DEF Apply
  <2> QED BY <1>3, <2>1, SelectedRangeIs
<1>10. CASE d.op = "remove"
  <2>1. v \in Removed(args[1], ScalarOf(args[2]), d.axis)
    BY <1>10 DEF Apply
  <2> QED BY <1>3, <2>1, RemovedIs
<1>11. CASE d.op = "delta"
  <2>1. v \in Delta(args[1], d.axis)
    BY <1>11 DEF Apply
  <2> QED BY <1>3, <2>1, DeltaIs
<1>12. CASE d.op = "linear"
  <2>1. v = Linear(ScalarOf(args[1]), d.axis) /\ ScalarOf(args[1]) \in Nat
    BY <1>12 DEF Apply
  <2> QED BY <2>1, LinearIs
<1> QED BY <1>4, <1>5, <1>6, <1>7, <1>8, <1>9, <1>10, <1>11, <1>12 DEF Operations

-------------------------------------------------------------------------------
(* The image of a finite set under a function is finite. *)
LEMMA FiniteImage ==
  ASSUME NEW S, IsFiniteSet(S), NEW f
  PROVE  IsFiniteSet({f[x] : x \in S})
<1> DEFINE g == [x \in S |-> f[x]]
           T == {f[x] : x \in S}
<1>1. g \in Surjection(S, T)
  BY DEF Surjection
<1> HIDE DEF g, T
<1>2. IsFiniteSet(T)
  BY <1>1, FS_Surjection
<1> QED BY <1>2 DEF T

(* The greatest of a finite set of numbers is one of them. *)
LEMMA MaxIs ==
  ASSUME NEW S, IsFiniteSet(S), S # {}, \A x \in S : x \in Int
  PROVE  Max(S) \in S /\ \A x \in S : x <= Max(S)
<1> DEFINE f == [x \in S |-> x]
<1>1. \A x \in S : f[x] \in Int
  OBVIOUS
<1>2. \E x \in S : \A y \in S : f[y] <= f[x]
  <2> HIDE DEF f
  <2> QED BY <1>1, HasGreatest
<1>3. \E x \in S : \A y \in S : x >= y
  BY <1>2
<1> QED BY <1>3 DEF Max

(* The greatest of a size that is stated and of the places that records name. *)
LEMMA SizeIs ==
  ASSUME NEW m \in Nat, NEW S, IsFiniteSet(S), NEW f, \A i \in S : f[i] \in Nat
  PROVE  Max({m} \cup {f[i] + 1 : i \in S}) \in Nat
<1> DEFINE g == [i \in S |-> f[i] + 1]
           T == {m} \cup {g[i] : i \in S}
<1>1. IsFiniteSet(T)
  <2> HIDE DEF g
  <2>1. IsFiniteSet({g[i] : i \in S})
    BY FiniteImage
  <2>2. IsFiniteSet({m})
    BY FS_Singleton
  <2> QED BY <2>1, <2>2, FS_Union
<1>2. T # {} /\ \A x \in T : x \in Nat
  OBVIOUS
<1>3. T = {m} \cup {f[i] + 1 : i \in S}
  OBVIOUS
<1> HIDE DEF T
<1>4. Max(T) \in T
  BY <1>1, <1>2, MaxIs
<1> QED BY <1>2, <1>3, <1>4

(* The records of a capture. *)
LEMMA RecordsAre ==
  ASSUME NEW r \in Captures
  PROVE  /\ IsFiniteSet(DOMAIN r) /\ 1 \in DOMAIN r
         /\ \A i \in DOMAIN r : r[i].xcc \in Nat /\ r[i].se \in Nat /\ r[i].cu \in Nat
<1> DEFINE R == [counter : Counters, xcc : Nat, se : Nat, cu : Nat, time : Int, value : Int]
<1>1. r # <<>> /\ r \in Seq(R)
  BY CounterAssumption
<1>0. \A e \in R : e.xcc \in Nat /\ e.se \in Nat /\ e.cu \in Nat
  OBVIOUS
<1> HIDE DEF R
<1>2. Len(r) \in Nat /\ DOMAIN r = 1 .. Len(r) /\ Len(r) # 0
  BY <1>1
<1>3. IsFiniteSet(1 .. Len(r))
  BY <1>2, FS_Interval
<1>4. 1 \in DOMAIN r /\ \A i \in DOMAIN r : r[i] \in R
  BY <1>1, <1>2
<1> QED BY <1>0, <1>2, <1>3, <1>4

(* A capture has an XCC, *)
LEMMA XccCountIs ==
  ASSUME NEW r \in Captures
  PROVE  XccCount(r) \in Nat /\ XccCount(r) > 0
<1> DEFINE f == [c \in Counters |-> Metadata[c][XCC]]
           g == [i \in DOMAIN r |-> r[i].xcc + 1]
           S == {f[c] : c \in Counters}
           T == {g[i] : i \in DOMAIN r}
<1>1. IsFiniteSet(DOMAIN r) /\ 1 \in DOMAIN r /\ \A i \in DOMAIN r : g[i] \in Nat /\ g[i] > 0
  BY RecordsAre
<1>2. IsFiniteSet(Counters) /\ \A c \in Counters : f[c] \in Nat
  BY CounterAssumption
<1>3. S \cup T = {Metadata[c][XCC] : c \in Counters} \cup {r[i].xcc + 1 : i \in DOMAIN r}
  OBVIOUS
<1> HIDE DEF f, g
<1>4. IsFiniteSet(S)
  BY <1>2, FiniteImage
<1>5. IsFiniteSet(T)
  BY <1>1, FiniteImage
<1>6. IsFiniteSet(S \cup T)
  BY <1>4, <1>5, FS_Union
<1>7. g[1] \in S \cup T /\ g[1] \in Nat /\ g[1] > 0 /\ \A x \in S \cup T : x \in Nat
  BY <1>1, <1>2
<1> HIDE DEF S, T
<1>8. Max(S \cup T) \in S \cup T /\ \A x \in S \cup T : x <= Max(S \cup T)
  BY <1>6, <1>7, MaxIs
<1>9. Max(S \cup T) = XccCount(r)
  BY <1>3 DEF XccCount
<1> QED BY <1>7, <1>8, <1>9

(* its counters have dimensions, *)
LEMMA DimensionsTyped ==
  ASSUME NEW r \in Captures, NEW c \in Counters
  PROVE  Dimensions(r, c) \in Seq(Nat) /\ Len(Dimensions(r, c)) = 3 /\ Dimensions(r, c)[1] = XccCount(r)
<1> DEFINE ses == [i \in Of(r, c) |-> r[i].se]
           cus == [i \in Of(r, c) |-> r[i].cu]
           S == Max({Metadata[c][SE]} \cup {r[i].se + 1 : i \in Of(r, c)})
           C == Max({Metadata[c][CU]} \cup {r[i].cu + 1 : i \in Of(r, c)})
<1>1. IsFiniteSet(Of(r, c)) /\ Of(r, c) \subseteq DOMAIN r
  <2>1. Of(r, c) \in SUBSET DOMAIN r
    BY DEF Of
  <2>2. IsFiniteSet(DOMAIN r)
    BY RecordsAre
  <2> QED BY <2>1, <2>2, FS_Subset
<1>2. Metadata[c][SE] \in Nat /\ Metadata[c][CU] \in Nat
  BY CounterAssumption
<1>3. (\A i \in Of(r, c) : ses[i] \in Nat) /\ \A i \in Of(r, c) : cus[i] \in Nat
  BY <1>1, RecordsAre
<1>4. /\ {ses[i] + 1 : i \in Of(r, c)} = {r[i].se + 1 : i \in Of(r, c)}
      /\ {cus[i] + 1 : i \in Of(r, c)} = {r[i].cu + 1 : i \in Of(r, c)}
  OBVIOUS
<1> HIDE DEF ses, cus
<1>5. Max({Metadata[c][SE]} \cup {ses[i] + 1 : i \in Of(r, c)}) \in Nat
  BY <1>1, <1>2, <1>3, SizeIs
<1>6. Max({Metadata[c][CU]} \cup {cus[i] + 1 : i \in Of(r, c)}) \in Nat
  BY <1>1, <1>2, <1>3, SizeIs
<1>7. S \in Nat /\ C \in Nat
  BY <1>4, <1>5, <1>6
<1>8. XccCount(r) \in Nat
  BY XccCountIs
<1>9. Dimensions(r, c) = <<XccCount(r), S, C>>
  BY DEF Dimensions
<1> HIDE DEF S, C
<1> QED BY <1>7, <1>8, <1>9

(* with the samples, *)
LEMMA DimensionsAre ==
  ASSUME NEW r \in Captures, NEW c \in Counters, NEW n \in Nat
  PROVE  Append(Dimensions(r, c), n) \in [Axes -> Nat]
<1> DEFINE three == Dimensions(r, c)
           d == Append(three, n)
<1>1. three \in Seq(Nat) /\ Len(three) = 3
  BY DimensionsTyped
<1> HIDE DEF three
<1>2. d \in Seq(Nat) /\ Len(d) = Len(three) + 1
  BY <1>1, AppendProperties, ZenonT(40)
<1>3. d \in Seq(Nat) /\ Len(d) = 4
  BY <1>1, <1>2
<1> HIDE DEF d
<1>4. d \in [1 .. 4 -> Nat]
  BY <1>3, LenProperties
<1> QED BY <1>4 DEF Axes, d, three

(* Where the sequences begin that a flattened sequence is made of. *)
Laid(g, seqs, n, off) ==
  /\ off[1] = 0 /\ \A k \in 1 .. n : off[k] \in Nat /\ off[k + 1] = off[k] + Len(seqs[k])
  /\ off[n + 1] = Len(g)
  /\ \A k \in 1 .. n : \A w \in 1 .. Len(seqs[k]) : off[k] + w \in 1 .. Len(g) /\ g[off[k] + w] = seqs[k][w]
  /\ \A j \in 1 .. Len(g) : \E k \in 1 .. n : \E w \in 1 .. Len(seqs[k]) : j = off[k] + w

(* One sequence more is laid at the end. *)
LEMMA LaidStep ==
  ASSUME NEW A, NEW g \in Seq(A), NEW seqs, NEW n \in Nat, NEW off, Laid(g, seqs, n, off),
         NEW b \in Seq(A), b = seqs[n + 1], off[(n + 1) + 1] = Len(g \o b)
  PROVE  Laid(g \o b, seqs, n + 1, off)
<1> DEFINE h == g \o b
<1>1. /\ Len(g) \in Nat /\ Len(b) \in Nat /\ Len(h) = Len(g) + Len(b)
      /\ \A i \in 1 .. Len(g) : h[i] = g[i]
      /\ \A i \in 1 .. Len(b) : h[Len(g) + i] = b[i]
  <2>1. h \in Seq(A) /\ Len(h) = Len(g) + Len(b) /\ \A i \in 1 .. Len(g) + Len(b) : h[i] = IF i <= Len(g) THEN g[i] ELSE b[i - Len(g)]
    BY ConcatProperties
  <2>2. Len(g) \in Nat /\ Len(b) \in Nat
    BY LenProperties
  <2> HIDE DEF h
  <2>3. ASSUME NEW i \in 1 .. Len(b) PROVE h[Len(g) + i] = b[i]
    <3>1. Len(g) + i \in 1 .. Len(g) + Len(b) /\ ~(Len(g) + i <= Len(g)) /\ (Len(g) + i) - Len(g) = i
      BY <2>2
    <3> QED BY <2>1, <3>1
  <2>4. ASSUME NEW i \in 1 .. Len(g) PROVE h[i] = g[i]
    <3>1. i \in 1 .. Len(g) + Len(b) /\ i <= Len(g)
      BY <2>2
    <3> QED BY <2>1, <3>1
  <2> QED BY <2>1, <2>2, <2>3, <2>4
<1>2. off[n + 1] = Len(g)
  BY DEF Laid
<1>3. \A k \in 1 .. n + 1 : off[k] \in Nat /\ off[k + 1] = off[k] + Len(seqs[k])
  <2>1. ASSUME NEW k \in 1 .. n + 1, k # n + 1 PROVE off[k] \in Nat /\ off[k + 1] = off[k] + Len(seqs[k])
    <3>1. k \in 1 .. n
      BY <2>1
    <3> QED BY <3>1 DEF Laid
  <2>2. off[n + 1] \in Nat /\ off[(n + 1) + 1] = off[n + 1] + Len(seqs[n + 1])
    BY <1>1, <1>2
  <2> QED BY <2>1, <2>2
<1>4. ASSUME NEW k \in 1 .. n + 1, NEW w \in 1 .. Len(seqs[k])
      PROVE  off[k] + w \in 1 .. Len(h) /\ h[off[k] + w] = seqs[k][w]
  <2>1. CASE k = n + 1
    <3>1. w \in 1 .. Len(b) /\ off[k] = Len(g) /\ seqs[k] = b
      BY <1>2, <2>1
    <3> HIDE DEF h
    <3> QED BY <1>1, <3>1
  <2>2. CASE k # n + 1
    <3>1. k \in 1 .. n
      BY <2>2
    <3>2. off[k] + w \in 1 .. Len(g) /\ g[off[k] + w] = seqs[k][w]
      BY <3>1 DEF Laid
    <3> HIDE DEF h
    <3>3. h[off[k] + w] = g[off[k] + w]
      BY <1>1, <3>2
    <3>4. off[k] + w \in 1 .. Len(h)
      BY <1>1, <3>2, SMTT(30)
    <3> QED BY <3>2, <3>3, <3>4
  <2> QED BY <2>1, <2>2
<1>5. ASSUME NEW j \in 1 .. Len(h) PROVE \E k \in 1 .. n + 1 : \E w \in 1 .. Len(seqs[k]) : j = off[k] + w
  <2>1. CASE j <= Len(g)
    <3>1. j \in 1 .. Len(g)
      BY <1>1, <2>1
    <3>2. PICK k \in 1 .. n : \E w \in 1 .. Len(seqs[k]) : j = off[k] + w
      BY <3>1 DEF Laid
    <3>3. k \in 1 .. n + 1
      OBVIOUS
    <3> QED BY <3>2, <3>3
  <2>2. CASE ~(j <= Len(g))
    <3>1. j - Len(g) \in 1 .. Len(seqs[n + 1]) /\ j = off[n + 1] + (j - Len(g)) /\ n + 1 \in 1 .. n + 1
      BY <1>1, <1>2, <2>2
    <3> QED BY <3>1
  <2> QED BY <2>1, <2>2
<1> QED BY <1>1, <1>2, <1>3, <1>4, <1>5 DEF Laid

(* A flattened sequence is made of the sequences, laid end to end. *)
LEMMA FlattenLaid ==
  ASSUME NEW A, NEW seqs \in Seq(Seq(A))
  PROVE  FlattenSeq(seqs) \in Seq(A) /\ \E off : Laid(FlattenSeq(seqs), seqs, Len(seqs), off)
<1> DEFINE N == Len(seqs)
<1>1. N \in Nat /\ \A i \in 1 .. N : seqs[i] \in Seq(A)
  OBVIOUS
<1>2. CASE N = 0
  <2>1. FlattenSeq(seqs) = seqs /\ seqs = <<>>
    BY <1>2 DEF FlattenSeq
  <2> DEFINE off == [k \in {1} |-> 0]
  <2>2. off[1] = 0
    OBVIOUS
  <2> HIDE DEF off
  <2>3. Laid(<<>>, seqs, 0, off)
    BY <2>2 DEF Laid
  <2>4. <<>> \in Seq(A)
    OBVIOUS
  <2> QED BY <1>2, <2>1, <2>3, <2>4
<1>3. CASE N # 0
  <2> DEFINE f == CHOOSE g : Flattens(g, seqs)
  <2>1. Flattens(f, seqs)
    BY <1>1, FlattenExists
  <2>2. FlattenSeq(seqs) = f[N]
    BY <1>3 DEF FlattenSeq, Flattens
  <2> HIDE DEF f
  <2> DEFINE off == [k \in 1 .. N + 1 |-> IF k = 1 THEN 0 ELSE Len(f[k - 1])]
             true == {n \in Nat : n + 1 \in 1 .. N => f[n + 1] \in Seq(A) /\ Laid(f[n + 1], seqs, n + 1, off)}
  <2>3. off[1] = 0 /\ \A k \in 1 .. N : off[k + 1] = Len(f[k])
    <3>1. 1 \in 1 .. N + 1 /\ \A k \in 1 .. N : k + 1 \in 1 .. N + 1 /\ k + 1 # 1 /\ (k + 1) - 1 = k
      BY <1>1
    <3> QED BY <3>1
  <2> HIDE DEF off, N
  <2>4. 0 \in true
    <3>1. f[1] = seqs[1] /\ 1 \in 1 .. N
      BY <1>1, <1>3, <2>1 DEF Flattens, N
    <3>2. seqs[1] \in Seq(A)
      BY <1>1, <3>1
    <3>3. Len(seqs[1]) \in Nat /\ off[1] = 0 /\ off[1 + 1] = Len(seqs[1])
      BY <2>3, <3>1, <3>2, LenProperties
    <3>4. Laid(seqs[1], seqs, 1, off)
      BY <3>3 DEF Laid
    <3> QED BY <3>1, <3>2, <3>4
  <2>5. ASSUME NEW n \in Nat, n \in true PROVE n + 1 \in true
    <3> SUFFICES ASSUME (n + 1) + 1 \in 1 .. N
                 PROVE  f[(n + 1) + 1] \in Seq(A) /\ Laid(f[(n + 1) + 1], seqs, (n + 1) + 1, off)
      OBVIOUS
    <3> DEFINE m == n + 1
    <3>1. m \in Nat /\ m \in 1 .. N /\ m + 1 \in 1 .. N /\ m + 1 # 1 /\ (m + 1) - 1 = m
      BY <1>1
    <3>2. f[m] \in Seq(A) /\ Laid(f[m], seqs, m, off)
      BY <2>5, <3>1
    <3> HIDE DEF m
    <3>3. f[m + 1] = f[m] \o seqs[m + 1]
      BY <2>1, <3>1 DEF Flattens, N
    <3>4. seqs[m + 1] \in Seq(A) /\ off[(m + 1) + 1] = Len(f[m + 1])
      BY <1>1, <2>3, <3>1
    <3>5. Laid(f[m] \o seqs[m + 1], seqs, m + 1, off)
      BY <3>1, <3>2, <3>3, <3>4, LaidStep
    <3>6. f[m] \o seqs[m + 1] \in Seq(A)
      BY <3>2, <3>4, ConcatProperties
    <3> QED BY <3>3, <3>5, <3>6 DEF m
  <2>6. Nat \subseteq true
    <3> HIDE DEF true
    <3> QED BY <2>4, <2>5, Induction
  <2>7. N - 1 \in Nat /\ (N - 1) + 1 = N /\ N \in 1 .. N
    BY <1>1, <1>3
  <2>8. f[N] \in Seq(A) /\ Laid(f[N], seqs, N, off)
    BY <2>6, <2>7
  <2> QED BY <2>2, <2>8 DEF N
<1> QED BY <1>2, <1>3

(* The elements of a finite set of numbers, in order. *)
InOrderOf(o, S) ==
  /\ DOMAIN o = 1 .. Cardinality(S)
  /\ \A p \in DOMAIN o : o[p] \in S
  /\ \A p, q \in DOMAIN o : p < q => o[p] < o[q]
  /\ \A e \in S : \E p \in DOMAIN o : o[p] = e

(* How many elements are less than another. *)
Below(S, e) == {u \in S : u < e}

(* The more is below an element, the greater it is. *)
LEMMA BelowGrows ==
  ASSUME NEW S, IsFiniteSet(S), \A e \in S : e \in Int, NEW d \in S
  PROVE  /\ Cardinality(Below(S, d)) \in 0 .. Cardinality(S) - 1
         /\ \A e \in S : d < e => Cardinality(Below(S, d)) < Cardinality(Below(S, e))
<1>0. IsFiniteSet(Below(S, d)) /\ Cardinality(Below(S, d)) \in Nat
  BY FS_Subset, FS_CardinalityType DEF Below
<1>1. ASSUME NEW T \in SUBSET S, d \in T, Below(S, d) \subseteq T
      PROVE  Cardinality(Below(S, d)) < Cardinality(T)
  <2>1. d \notin Below(S, d)
    BY DEF Below
  <2>2. IsFiniteSet(T)
    BY FS_Subset
  <2>3. Cardinality(Below(S, d)) <= Cardinality(T) /\ (Cardinality(Below(S, d)) = Cardinality(T) => Below(S, d) = T)
    BY <1>1, <2>2, FS_Subset
  <2>4. Cardinality(T) \in Nat
    BY <2>2, FS_CardinalityType
  <2> QED BY <1>0, <1>1, <2>1, <2>3, <2>4
<1>2. Cardinality(Below(S, d)) < Cardinality(S)
  BY <1>1 DEF Below
<1>3. ASSUME NEW e \in S, d < e PROVE Cardinality(Below(S, d)) < Cardinality(Below(S, e))
  <2>1. d \in Below(S, e) /\ Below(S, e) \in SUBSET S
    BY <1>3 DEF Below
  <2>2. Below(S, d) \subseteq Below(S, e)
    BY <1>3 DEF Below
  <2> QED BY <1>1, <2>1, <2>2
<1>4. Cardinality(S) \in Nat
  BY FS_CardinalityType
<1> QED BY <1>0, <1>2, <1>3, <1>4

(* They are put in order. *)
LEMMA OrderIs ==
  ASSUME NEW S, IsFiniteSet(S), \A e \in S : e \in Int
  PROVE  InOrderOf(Order(S), S)
<1> DEFINE n == Cardinality(S)
           rank == [e \in S |-> Cardinality(Below(S, e))]
           o == Order(S)
<1>1. n \in Nat
  BY FS_CardinalityType
<1>2. rank \in [S -> 0 .. n - 1]
  BY BelowGrows
<1>3. \A d, e \in S : (d < e => rank[d] < rank[e])
  BY BelowGrows
<1>4. \A d, e \in S : rank[d] = rank[e] => d = e
  <2> TAKE d, e \in S
  <2>1. d \in Int /\ e \in Int /\ rank[d] \in Int /\ rank[e] \in Int
    BY <1>1, <1>2
  <2>2. (d < e => rank[d] < rank[e]) /\ (e < d => rank[e] < rank[d])
    BY <1>3
  <2> HIDE DEF rank
  <2> QED BY <2>1, <2>2
<1>5. rank \in Surjection(S, 0 .. n - 1)
  <2>1. rank \in Injection(S, 0 .. n - 1)
    <3> HIDE DEF rank
    <3> QED BY <1>2, <1>4 DEF Injection, IsInjective
  <2> HIDE DEF rank
  <2>2. IsFiniteSet(0 .. n - 1) /\ Cardinality(0 .. n - 1) = n
    <3> DEFINE m == n - 1
    <3>1. m \in Int /\ n = m + 1
      BY <1>1
    <3> HIDE DEF m, n
    <3>2. IsFiniteSet(0 .. m) /\ Cardinality(0 .. m) = IF 0 > m THEN 0 ELSE m - 0 + 1
      BY <3>1, FS_Interval, SMT
    <3>3. Cardinality(0 .. m) = n
      BY <1>1, <3>1, <3>2
    <3> QED BY <3>2, <3>3 DEF m
  <2> HIDE DEF n
  <2>3. Cardinality(S) = Cardinality(0 .. n - 1)
    BY <2>2 DEF n
  <2> QED BY <2>1, <2>2, <2>3, FS_Injection
<1>6. \A p \in 1 .. n : \E e \in S : rank[e] = p - 1
  <2> HIDE DEF rank
  <2>1. \A k \in 0 .. n - 1 : \E e \in S : rank[e] = k
    BY <1>5, Zenon DEF Surjection
  <2> QED BY <1>1, <2>1
<1>7. \A p \in 1 .. n : o[p] \in S /\ rank[o[p]] = p - 1
  <2> TAKE p \in 1 .. n
  <2>1. o[p] = CHOOSE t \in S : Cardinality({u \in S : u < t}) = p - 1
    BY DEF Order
  <2>2. \E t \in S : Cardinality({u \in S : u < t}) = p - 1
    BY <1>6 DEF Below
  <2>3. o[p] \in S /\ Cardinality({u \in S : u < o[p]}) = p - 1
    <3> HIDE DEF o
    <3> QED BY <2>1, <2>2
  <2> HIDE DEF o
  <2> QED BY <2>3 DEF Below
<1>8. DOMAIN o = 1 .. n
  BY DEF Order
<1> HIDE DEF o
<1>9. \A p, q \in DOMAIN o : p < q => o[p] < o[q]
  <2> SUFFICES ASSUME NEW p \in 1 .. n, NEW q \in 1 .. n, p < q PROVE o[p] < o[q]
    BY <1>8
  <2>1. o[p] \in S /\ o[q] \in S /\ rank[o[p]] = p - 1 /\ rank[o[q]] = q - 1
    BY <1>7
  <2>2. o[p] \in Int /\ o[q] \in Int
    BY <2>1
  <2>3. ~(rank[o[q]] < rank[o[p]]) /\ rank[o[p]] # rank[o[q]]
    BY <1>1, <2>1
  <2> HIDE DEF rank
  <2>4. ~(o[q] < o[p]) /\ o[p] # o[q]
    BY <1>3, <2>1, <2>3
  <2> QED BY <2>2, <2>4
<1>10. \A e \in S : \E p \in DOMAIN o : o[p] = e
  <2> TAKE e \in S
  <2>1. rank[e] + 1 \in 1 .. n /\ (rank[e] + 1) - 1 = rank[e]
    BY <1>1, <1>2
  <2>2. o[rank[e] + 1] \in S /\ rank[o[rank[e] + 1]] = rank[e]
    BY <1>7, <2>1
  <2> HIDE DEF rank
  <2> QED BY <1>4, <1>8, <2>1, <2>2
<1>11. \A p \in DOMAIN o : o[p] \in S
  BY <1>7, <1>8
<1> HIDE DEF rank
<1> QED BY <1>8, <1>9, <1>10, <1>11, Zenon DEF InOrderOf, o

(* A quotient, rounded down. *)
LEMMA QuotientIs ==
  ASSUME NEW a \in Int, NEW b \in Nat \ {0}
  PROVE  a \div b \in Int /\ b * (a \div b) <= a /\ a < b * (a \div b) + b
OBVIOUS

(* It grows with what is divided. *)
LEMMA QuotientGrows ==
  ASSUME NEW a \in Int, NEW c \in Int, a <= c, NEW b \in Nat \ {0}
  PROVE  a \div b <= c \div b
<1> DEFINE q == a \div b
           p == c \div b
<1>1. q \in Int /\ p \in Int /\ b * q <= a /\ c < b * p + b
  BY QuotientIs
<1> HIDE DEF q, p
<1>2. b * q < b * p + b
  BY <1>1
<1>3. b * q < b * (p + 1)
  BY <1>1, <1>2
<1>4. q < p + 1
  BY <1>1, <1>3
<1>5. q <= p
  BY <1>1, <1>4
<1> QED BY <1>5 DEF q, p

(* What is between two multiples. *)
LEMMA QuotientBetween ==
  ASSUME NEW a \in Int, NEW b \in Nat \ {0}, NEW q \in Int, b * q <= a, a < b * q + b
  PROVE  a \div b = q
<1> DEFINE p == a \div b
<1>1. p \in Int /\ b * p <= a /\ a < b * p + b
  BY QuotientIs
<1> HIDE DEF p
<1>2. b * p < b * (q + 1) /\ b * q < b * (p + 1)
  BY <1>1
<1>3. p < q + 1 /\ q < p + 1
  BY <1>1, <1>2
<1>4. p = q
  BY <1>1, <1>3
<1> QED BY <1>4 DEF p

(* The windows of a group divide the time since the one before. *)
LEMMA ClosestIs ==
  ASSUME NEW d \in Nat, NEW n \in Nat \ {0}
  PROVE  /\ \A w \in 0 .. n : Closest(d * w, n) \in 0 .. d
         /\ \A v, w \in 0 .. n : v <= w => Closest(d * v, n) <= Closest(d * w, n)
         /\ Closest(d * n, n) = d
<1> DEFINE at(w) == 2 * (d * w) + n
           m == 2 * n
<1>1. m \in Nat \ {0} /\ \A w \in 0 .. n : at(w) \in Int /\ Closest(d * w, n) = at(w) \div m
  BY DEF Closest
<1>2. ASSUME NEW v \in 0 .. n, NEW w \in 0 .. n, v <= w PROVE at(v) <= at(w)
  <2>1. d * v <= d * w
    BY <1>2
  <2>2. d * v \in Int /\ d * w \in Int
    OBVIOUS
  <2> QED BY <2>1, <2>2
<1>3. at(0) \div m = 0
  <2>1. at(0) = n /\ m * 0 <= n /\ n < m * 0 + m
    OBVIOUS
  <2> HIDE DEF at, m
  <2> QED BY <1>1, <2>1, QuotientBetween
<1>4. at(n) \div m = d
  <2>1. at(n) \in Int /\ m * d <= at(n) /\ at(n) < m * d + m
    <3>1. m * d = 2 * (d * n)
      OBVIOUS
    <3>2. d * n \in Int
      OBVIOUS
    <3> QED BY <3>1, <3>2
  <2> HIDE DEF at, m
  <2> QED BY <1>1, <2>1, QuotientBetween
<1> HIDE DEF at, m
<1>5. \A v, w \in 0 .. n : v <= w => at(v) \div m <= at(w) \div m
  BY <1>1, <1>2, QuotientGrows
<1>6. 0 \in 0 .. n /\ n \in 0 .. n /\ \A w \in 0 .. n : 0 <= w /\ w <= n
  OBVIOUS
<1>7. \A w \in 0 .. n : at(w) \div m \in Int
  BY <1>1, QuotientIs
<1>8. \A w \in 0 .. n : at(w) \div m \in 0 .. d
  BY <1>3, <1>4, <1>5, <1>6, <1>7
<1> QED BY <1>1, <1>4, <1>5, <1>6, <1>8

-------------------------------------------------------------------------------
(* 32-bit floats *)

(* Numbers that are too large for a spacing. *)
Beyond(n, u) == Precision * u <= n \/ n <= - (Precision * u)

(* What is known of the distance between floats of a size. *)
LEMMA SpacingIs ==
  ASSUME NEW n \in Int
  PROVE  /\ Spacing(n) \in Spacings /\ Spacing(n) \in Nat \ {0}
         /\ Magnitude(n) < Precision => Spacing(n) = 1
         /\ \A v \in Spacings : v < Spacing(n) => Beyond(n, v)
         /\ \A u \in Spacings : (\A v \in Spacings : v < u => Beyond(n, v)) => u <= Spacing(n)
<1> DEFINE fine == {u \in Spacings : - Precision * u < n /\ n < Precision * u}
<1>1. Precision \in Nat \ {0} /\ IsFiniteSet(Spacings) /\ Spacings \subseteq Nat \ {0} /\ 1 \in Spacings
  BY FloatAssumption
<1>2. \A u \in Spacings : u \in fine <=> ~Beyond(n, u)
  <2> TAKE u \in Spacings
  <2> DEFINE m == Precision * u
  <2>1. m \in Int /\ - Precision * u = - m
    BY <1>1
  <2>2. u \in fine <=> - m < n /\ n < m
    BY <2>1
  <2> HIDE DEF m, fine
  <2> QED BY <2>1, <2>2 DEF Beyond, m
<1>3. Spacing(n) = IF fine = {} THEN Max(Spacings) ELSE Min(fine)
  BY DEF Spacing
<1>4. fine \in SUBSET Spacings
  OBVIOUS
<1> HIDE DEF fine
<1>5. CASE fine = {}
  <2>0. Spacings # {} /\ \A u \in Spacings : u \in Int
    BY <1>1
  <2>1. Spacing(n) \in Spacings /\ \A u \in Spacings : u <= Spacing(n)
    BY <1>1, <1>3, <1>5, <2>0, MaxIs
  <2>2. Magnitude(n) < Precision => 1 \in fine
    BY <1>1, <1>2 DEF Magnitude, Beyond
  <2> QED BY <1>1, <1>2, <1>5, <2>1, <2>2
<1>6. CASE fine # {}
  <2> DEFINE f == [u \in fine |-> u]
  <2>0. IsFiniteSet(fine)
    BY <1>1, <1>4, FS_Subset
  <2>1. \A u \in fine : f[u] = u /\ f[u] \in Int
    BY <1>1, <1>4
  <2> HIDE DEF f
  <2>2. \E u \in fine : \A v \in fine : f[u] <= f[v]
    BY <1>6, <2>0, <2>1, HasLeast
  <2>3. \E u \in fine : \A v \in fine : u <= v
    BY <2>1, <2>2
  <2>4. Min(fine) \in fine /\ \A v \in fine : Min(fine) <= v
    BY <2>3, Zenon DEF Min
  <2>5. Spacing(n) \in fine /\ \A v \in fine : Spacing(n) <= v
    BY <1>3, <1>6, <2>4
  <2>6. Spacing(n) \in Spacings /\ Spacing(n) \in Nat \ {0}
    BY <1>1, <1>4, <2>5
  <2>7. Magnitude(n) < Precision => 1 \in fine
    BY <1>1, <1>2 DEF Magnitude, Beyond
  <2>8. Magnitude(n) < Precision => Spacing(n) = 1
    BY <2>5, <2>6, <2>7
  <2>9. \A v \in Spacings : v < Spacing(n) => Beyond(n, v)
    BY <1>1, <1>2, <2>5, <2>6
  <2>10. \A u \in Spacings : (\A v \in Spacings : v < u => Beyond(n, v)) => u <= Spacing(n)
    BY <1>1, <1>2, <2>5, <2>6
  <2> QED BY <2>6, <2>8, <2>9, <2>10
<1> QED BY <1>5, <1>6

(* A number, rounded to a multiple. *)
Rounded(n, u) ==
  LET place == n \div u
      rest == n - u * place
  IN  IF 2 * rest < u \/ (2 * rest = u /\ place % 2 = 0) THEN u * place ELSE u * place + u

(* It is half of it away at most, and on the same side of all multiples. *)
LEMMA RoundedIs ==
  ASSUME NEW n \in Int, NEW u \in Nat \ {0}
  PROVE  /\ Rounded(n, u) \in Int
         /\ 2 * (Rounded(n, u) - n) <= u /\ 2 * (n - Rounded(n, u)) <= u
         /\ \A k \in Int : (u * k <= n => u * k <= Rounded(n, u)) /\ (n <= u * k => Rounded(n, u) <= u * k)
<1> DEFINE place == n \div u
           low == u * place
           rest == n - low
           F == Rounded(n, u)
<1>1. place \in Int /\ low <= n /\ n < low + u
  BY QuotientIs
<1>2. low \in Int /\ rest \in Int
  <2> HIDE DEF place
  <2> QED BY <1>1
<1>3. F = low \/ F = low + u
  BY DEF Rounded
<1>4. (F = low => 2 * rest <= u) /\ (F = low + u => u <= 2 * rest)
  <2>1. (F = low /\ 2 * rest <= u) \/ (F = low + u /\ u <= 2 * rest)
    <3>1. F = IF 2 * rest < u \/ (2 * rest = u /\ place % 2 = 0) THEN low ELSE low + u
      BY DEF Rounded
    <3> HIDE DEF F, low, rest, place
    <3>2. CASE 2 * rest < u \/ (2 * rest = u /\ place % 2 = 0)
      BY <1>2, <3>1, <3>2
    <3>3. CASE ~(2 * rest < u \/ (2 * rest = u /\ place % 2 = 0))
      BY <1>2, <3>1, <3>3
    <3> QED BY <3>2, <3>3
  <2> HIDE DEF F, low, rest
  <2> QED BY <1>2, <2>1
<1>5. rest = n - low
  OBVIOUS
<1>6. 2 * (F - n) <= u /\ 2 * (n - F) <= u /\ F \in Int
  <2> HIDE DEF F, low, rest
  <2> QED BY <1>1, <1>2, <1>3, <1>4, <1>5
<1>7. ASSUME NEW k \in Int, u * k <= n PROVE u * k <= F
  <2>1. u * k < u * place + u
    BY <1>1, <1>7
  <2> HIDE DEF place
  <2>2. u * k < u * (place + 1)
    BY <1>1, <2>1
  <2>3. k < place + 1
    BY <1>1, <2>2
  <2>4. k <= place
    BY <1>1, <2>3
  <2>5. u * k <= low
    BY <1>1, <2>4
  <2>6. u * k \in Int
    OBVIOUS
  <2> HIDE DEF F, low
  <2> QED BY <1>2, <1>3, <2>5, <2>6
<1>8. ASSUME NEW k \in Int, n <= u * k PROVE F <= u * k
  <2>0. u * k \in Int
    OBVIOUS
  <2>1. CASE F = low
    <3> HIDE DEF F, low
    <3> QED BY <1>1, <1>2, <1>8, <2>0, <2>1
  <2>2. CASE F = low + u
    <3>1. low < n
      <4> HIDE DEF F, low, rest
      <4> QED BY <1>1, <1>2, <1>4, <1>5, <2>2
    <3>2. u * place < u * k
      BY <1>2, <1>8, <2>0, <3>1
    <3> HIDE DEF place
    <3>3. place < k
      BY <1>1, <3>2
    <3>4. place + 1 <= k
      BY <1>1, <3>3
    <3>5. u * (place + 1) <= u * k
      BY <1>1, <3>4
    <3>6. u * (place + 1) = low + u
      BY <1>1
    <3> QED BY <2>2, <3>5, <3>6
  <2> QED BY <1>3, <2>1, <2>2
<1> QED BY <1>6, <1>7, <1>8

(* A float of a number is its rounding to the spacing of its size. *)
LEMMA FloatIs == \A n : Float(n) = Rounded(n, Spacing(n))
BY Zenon DEF Float, Rounded

(* It is a whole number, *)
LEMMA FloatType ==
  ASSUME NEW n \in Int
  PROVE  Float(n) \in Int
<1>1. Spacing(n) \in Nat \ {0}
  BY SpacingIs
<1> QED BY <1>1, FloatIs, RoundedIs

(* the same if that is not too large, *)
LEMMA FloatExact ==
  ASSUME NEW n \in Int, Magnitude(n) < Precision
  PROVE  Float(n) = n
<1>1. Spacing(n) = 1
  BY SpacingIs
<1>2. Float(n) \in Int /\ 2 * (Float(n) - n) <= 1 /\ 2 * (n - Float(n)) <= 1
  <2>1. 1 \in Nat \ {0}
    OBVIOUS
  <2> QED BY <1>1, <2>1, FloatIs, RoundedIs
<1> QED BY <1>2

(* and nearer than half of what floats of the size of itself are apart. *)
LEMMA FloatNear ==
  ASSUME NEW n \in Int
  PROVE  /\ Rounding(Float(n)) \in Nat
         /\ 2 * (Float(n) - n) <= Rounding(Float(n)) /\ 2 * (n - Float(n)) <= Rounding(Float(n))
<1> DEFINE u == Spacing(n)
           F == Float(n)
<1>1. u \in Spacings /\ u \in Nat \ {0} /\ \A v \in Spacings : v < u => Beyond(n, v)
  BY SpacingIs
<1>2. /\ F \in Int /\ 2 * (F - n) <= u /\ 2 * (n - F) <= u
      /\ \A k \in Int : (u * k <= n => u * k <= F) /\ (n <= u * k => F <= u * k)
  BY <1>1, FloatIs, RoundedIs
<1> HIDE DEF u, F
<1>3. Spacing(F) \in Nat \ {0} /\ Rounding(F) = IF Magnitude(F) < Precision THEN 0 ELSE Spacing(F)
  BY <1>2, SpacingIs DEF Rounding
<1>4. Rounding(F) \in Nat
  BY <1>3
<1>5. CASE u = 1
  <2>1. F = n
    BY <1>2, <1>5
  <2> QED BY <1>2, <1>4, <2>1 DEF F
<1>6. CASE u # 1
  <2>1. PICK v \in Spacings : u = 2 * v
    BY <1>1, <1>6, FloatAssumption
  <2>2. v \in Nat \ {0} /\ Precision \in Nat \ {0} /\ Precision % 2 = 0
    BY FloatAssumption
  <2> DEFINE h == Precision \div 2
  <2>3. h \in Int /\ Precision = 2 * h
    BY <2>2
  <2> HIDE DEF h
  <2> DEFINE m == Precision * v
  <2>4. m = u * h /\ - m = u * (- h) /\ - h \in Int
    BY <2>1, <2>2, <2>3
  <2>5. m \in Int /\ Precision <= m
    BY <2>2
  <2>6. m <= n \/ n <= - m
    <3>1. v < u
      BY <2>1, <2>2
    <3> QED BY <1>1, <3>1 DEF Beyond
  <2> HIDE DEF m
  <2>7. m <= F \/ F <= - m
    BY <1>2, <2>3, <2>4, <2>6
  <2>8. ~(Magnitude(F) < Precision)
    BY <1>2, <2>2, <2>5, <2>7 DEF Magnitude
  <2>9. ASSUME NEW w \in Spacings, w < u PROVE Beyond(F, w)
    <3>1. w \in Nat \ {0} /\ 2 * w <= u
      BY <1>1, <2>9, FloatAssumption
    <3>2. w <= v
      BY <2>1, <2>2, <3>1
    <3>3. Precision * w \in Int /\ Precision * w <= m
      BY <2>2, <3>1, <3>2 DEF m
    <3> QED BY <1>2, <2>5, <2>7, <3>3 DEF Beyond
  <2>10. u <= Spacing(F)
    BY <1>1, <1>2, <2>9, SpacingIs
  <2>11. Rounding(F) = Spacing(F)
    BY <1>3, <2>8
  <2> QED BY <1>1, <1>2, <1>3, <1>4, <2>10, <2>11 DEF F
<1> QED BY <1>5, <1>6
(* The function that a sum of floats is recursive in. *)
Added(g, f, s) == IF s = {} THEN 0 ELSE Float(g[s \ {Max(s)}] + f[Max(s)])
FloatSums(f) == CHOOSE g : g = [s \in SUBSET (DOMAIN f) |-> Added(g, f, s)]
Adds(g, f) == \A s \in SUBSET (DOMAIN f) : g[s] = Added(g, f, s)

(* A sum of floats is the value of that function. *)
LEMMA FloatSumIs == \A f : FloatSum(f) = FloatSums(f)[DOMAIN f]
BY Zenon DEF FloatSum, MapThenFoldSet, FloatSums, Added

(* Numbers that may be added by their place. *)
Addends(f) == IsFiniteSet(DOMAIN f) /\ \A i \in DOMAIN f : i \in Int /\ f[i] \in Int

(* It exists. *)
LEMMA FloatSumsExist ==
  ASSUME NEW f, Addends(f)
  PROVE  FloatSums(f) \in [SUBSET (DOMAIN f) -> Int] /\ Adds(FloatSums(f), f)
<1> DEFINE S == DOMAIN f
           p == [s \in SUBSET S |-> Max(s)]
           o == [e \in (SUBSET S) \X Int |-> IF e[1] = {} THEN 0 ELSE Float(e[2] + f[Max(e[1])])]
<1>1. IsFiniteSet(S) /\ \A i \in S : i \in Int /\ f[i] \in Int
  BY DEF Addends
<1> HIDE DEF S
<1>2. ASSUME NEW s \in SUBSET S, s # {} PROVE Max(s) \in s /\ f[Max(s)] \in Int
  <2>1. IsFiniteSet(s) /\ \A x \in s : x \in Int
    BY <1>1, FS_Subset
  <2>2. Max(s) \in s
    BY <1>2, <2>1, MaxIs
  <2> QED BY <1>1, <2>2
<1>3. o \in [(SUBSET S) \X Int -> Int]
  <2>1. ASSUME NEW e \in (SUBSET S) \X Int, e[1] # {} PROVE Float(e[2] + f[Max(e[1])]) \in Int
    <3>1. e[1] \in SUBSET S /\ e[2] \in Int
      OBVIOUS
    <3>2. f[Max(e[1])] \in Int
      BY <1>2, <2>1, <3>1
    <3>3. e[2] + f[Max(e[1])] \in Int
      BY <3>1, <3>2
    <3> QED BY <3>3, FloatType
  <2> QED BY <2>1
<1>4. \A s \in SUBSET S : s # {} => p[s] \in s
  BY <1>2
<1>5. \A s \in SUBSET S, v \in Int : s # {} => o[<<s, v>>] = Float(v + f[Max(s)])
  OBVIOUS
<1>6. \A s \in SUBSET S : p[s] = Max(s)
  OBVIOUS
<1> HIDE DEF o, p
<1>7. PICK g \in [SUBSET S -> Int] : Recurs(g, S, p, o, 0)
  <2>1. 0 \in Int
    OBVIOUS
  <2> QED BY <1>1, <1>3, <1>4, <2>1, RecursionExists
<1>8. ASSUME NEW s \in SUBSET S PROVE g[s] = Added(g, f, s)
  <2>1. g[s] = IF s = {} THEN 0 ELSE o[<<s, g[s \ {p[s]}]>>]
    BY <1>7 DEF Recurs
  <2>2. CASE s = {}
    BY <2>1, <2>2 DEF Added
  <2>3. CASE s # {}
    <3>1. g[s \ {Max(s)}] \in Int
      OBVIOUS
    <3>2. g[s] = Float(g[s \ {Max(s)}] + f[Max(s)])
      BY <1>5, <1>6, <2>1, <2>3, <3>1
    <3> QED BY <2>3, <3>2 DEF Added
  <2> QED BY <2>2, <2>3
<1>9. g = [s \in SUBSET S |-> Added(g, f, s)]
  BY <1>8
<1>10. FloatSums(f) = [s \in SUBSET S |-> Added(FloatSums(f), f, s)]
  BY <1>9, Zenon DEF FloatSums, S
<1> DEFINE h == FloatSums(f)
<1>11. \A s \in SUBSET S : h[s] = Added(h, f, s)
  <2> HIDE DEF h
  <2> QED BY <1>10 DEF h
<1>12. \A s \in SUBSET S : h[s] \in Int
  <2> DEFINE G == {s \in SUBSET S : h[s] \in Int}
  <2>1. ASSUME NEW s \in SUBSET S, \A x \in s : s \ {x} \in G PROVE s \in G
    <3> HIDE DEF h
    <3>1. CASE s = {}
      <4>1. h[s] = Added(h, f, s)
        BY <1>11
      <4>2. h[s] = 0
        BY <3>1, <4>1 DEF Added
      <4> QED BY <4>2
    <3>2. CASE s # {}
      <4>1. Max(s) \in s /\ f[Max(s)] \in Int
        BY <1>2, <3>2
      <4>2. h[s \ {Max(s)}] \in Int
        BY <2>1, <4>1
      <4>3. h[s \ {Max(s)}] + f[Max(s)] \in Int
        BY <4>1, <4>2
      <4>4. h[s] = Float(h[s \ {Max(s)}] + f[Max(s)])
        BY <1>11, <3>2 DEF Added
      <4> QED BY <4>3, <4>4, FloatType
    <3> QED BY <3>1, <3>2
  <2> HIDE DEF G
  <2>2. \A s \in SUBSET S : s \in G
    BY <1>1, <2>1, RemovalInduction
  <2> QED BY <2>2 DEF G
<1>13. h \in [SUBSET S -> Int]
  <2>1. h = [s \in SUBSET S |-> Added(h, f, s)]
    BY <1>10
  <2> HIDE DEF h
  <2> QED BY <1>11, <1>12, <2>1
<1> QED BY <1>11, <1>13 DEF Adds, S

(* A sum of floats is a whole number, *)
LEMMA FloatSumType ==
  ASSUME NEW f, Addends(f)
  PROVE  FloatSum(f) \in Int
BY FloatSumsExist, FloatSumIs

(* and exact if nothing on the way can be too large. *)
LEMMA FloatSumExact ==
  ASSUME NEW f, Addends(f), NEW m, \A i \in DOMAIN f : m[i] \in Nat /\ Magnitude(f[i]) <= m[i],
         SumOver(m, DOMAIN f) < Precision
  PROVE  FloatSum(f) = SumOver(f, DOMAIN f)
<1> DEFINE S == DOMAIN f
           g == FloatSums(f)
           G == {T \in SUBSET S : g[T] = SumOver(f, T) /\ Magnitude(SumOver(f, T)) <= SumOver(m, T)}
<1>1. IsFiniteSet(S) /\ \A i \in S : i \in Int /\ f[i] \in Int /\ m[i] \in Nat /\ m[i] \in Int /\ Magnitude(f[i]) <= m[i]
  BY DEF Addends
<1>2. \A T \in SUBSET S : g[T] = Added(g, f, T)
  BY FloatSumsExist DEF Adds
<1>3. SumOver(m, S) < Precision /\ Precision \in Nat
  BY FloatAssumption
<1> HIDE DEF S, g
<1>4. ASSUME NEW T \in SUBSET S, \A x \in T : T \ {x} \in G PROVE T \in G
  <2>0. IsFiniteSet(T)
    BY <1>1, FS_Subset
  <2>1. CASE T = {}
    <3>1. SumOver(f, T) = 0 /\ SumOver(m, T) = 0
      BY <2>1, SumEmpty
    <3>2. g[T] = 0
      BY <1>2, <2>1 DEF Added
    <3> QED BY <3>1, <3>2 DEF Magnitude
  <2>2. CASE T # {}
    <3> DEFINE x == Max(T)
               R == T \ {x}
               a == f[x]
               b == SumOver(f, R)
               c == SumOver(m, R)
    <3>1. x \in T
      BY <1>1, <2>0, <2>2, MaxIs
    <3>2. a \in Int /\ m[x] \in Nat /\ Magnitude(a) <= m[x]
      BY <1>1, <3>1
    <3>3. R \in G
      BY <1>4, <3>1
    <3>4. g[R] = b /\ Magnitude(b) <= c
      BY <3>3
    <3>5. (\A y \in T : f[y] \in Int) /\ \A y \in T : m[y] \in Int
      BY <1>1
    <3>6. IsFiniteSet(R) /\ R \in SUBSET T
      BY <2>0, FS_Subset
    <3>7. b \in Int /\ c \in Int
      BY <3>5, <3>6, SumType
    <3>8. SumOver(f, T) = a + b
      BY <2>0, <3>1, <3>5, SumWithout
    <3>9. SumOver(m, T) = m[x] + c
      BY <2>0, <3>1, <3>5, SumWithout
    <3>10. SumOver(m, T) <= SumOver(m, S) /\ SumOver(m, S) \in Int
      BY <1>1, SumOfPart, SumType
    <3>11. g[T] = Float(g[R] + a)
      BY <1>2, <2>2 DEF Added
    <3> HIDE DEF R, a, b, c, x
    <3>12. Magnitude(a + b) <= m[x] + c /\ Magnitude(b + a) < Precision /\ b + a \in Int /\ a + b = b + a
      BY <1>3, <3>2, <3>4, <3>7, <3>9, <3>10 DEF Magnitude
    <3>13. Float(b + a) = b + a
      BY <3>12, FloatExact
    <3>14. g[T] = SumOver(f, T)
      BY <3>4, <3>8, <3>11, <3>12, <3>13
    <3>15. Magnitude(SumOver(f, T)) <= SumOver(m, T)
      BY <3>8, <3>9, <3>12
    <3> QED BY <3>14, <3>15
  <2> QED BY <2>1, <2>2
<1> HIDE DEF G
<1>5. \A T \in SUBSET S : T \in G
  BY <1>1, <1>4, RemovalInduction
<1>6. S \in G
  BY <1>5
<1>7. g[S] = SumOver(f, S)
  BY <1>6 DEF G
<1> QED BY <1>7, FloatSumIs DEF g, S
-------------------------------------------------------------------------------
(* The numbers in the records of a capture. *)
LEMMA NumbersAre ==
  ASSUME NEW r \in Captures
  PROVE  \A i \in DOMAIN r : i \in Int /\ r[i].counter \in Counters /\ r[i].time \in Int /\ r[i].value \in Int
<1> DEFINE R == [counter : Counters, xcc : Nat, se : Nat, cu : Nat, time : Int, value : Int]
<1>1. r \in Seq(R)
  BY CounterAssumption
<1>2. \A e \in R : e.counter \in Counters /\ e.time \in Int /\ e.value \in Int
  OBVIOUS
<1> HIDE DEF R
<1>3. \A i \in DOMAIN r : r[i] \in R
  BY <1>1
<1>4. \A i \in DOMAIN r : i \in Int
  BY <1>1
<1> QED BY <1>2, <1>3, <1>4

(* The times of an XCC are in order. *)
LEMMA TimesAre ==
  ASSUME NEW r \in Captures, NEW x
  PROVE  LET o == Times(r, x)
             S == {r[i].time : i \in On(r, x)}
         IN  /\ Len(o) \in Nat /\ DOMAIN o = 1 .. Len(o)
             /\ \A k \in 1 .. Len(o) : o[k] \in Int /\ o[k] \in S
             /\ \A k, m \in 1 .. Len(o) : k < m => o[k] < o[m]
             /\ \A i \in On(r, x) : \E k \in 1 .. Len(o) : o[k] = r[i].time
<1> DEFINE f == [i \in On(r, x) |-> r[i].time]
           S == {r[i].time : i \in On(r, x)}
           o == Times(r, x)
<1>1. IsFiniteSet(On(r, x)) /\ On(r, x) \in SUBSET DOMAIN r
  <2>1. On(r, x) \in SUBSET DOMAIN r
    BY DEF On
  <2>2. IsFiniteSet(DOMAIN r)
    BY RecordsAre
  <2> QED BY <2>1, <2>2, FS_Subset
<1>2. S = {f[i] : i \in On(r, x)}
  OBVIOUS
<1>3. IsFiniteSet(S)
  <2> HIDE DEF f, S
  <2>1. IsFiniteSet({f[i] : i \in On(r, x)})
    BY <1>1, FiniteImage
  <2> QED BY <1>2, <2>1
<1>4. \A e \in S : e \in Int
  BY <1>1, NumbersAre
<1>5. o = Order(S)
  BY DEF Times
<1>6. \A i \in On(r, x) : r[i].time \in S
  OBVIOUS
<1> HIDE DEF S, f
<1>7. InOrderOf(Order(S), S)
  BY <1>3, <1>4, OrderIs
<1>8. Cardinality(S) \in Nat
  BY <1>3, FS_CardinalityType
<1>9. Len(o) = Cardinality(S) /\ DOMAIN o = 1 .. Cardinality(S)
  <2>1. o = [i \in 1 .. Cardinality(S) |-> o[i]]
    BY <1>5 DEF Order
  <2> HIDE DEF o
  <2>2. Len(o) = Cardinality(S)
    BY <1>8, <2>1
  <2> QED BY <2>1, <2>2
<1> HIDE DEF o
<1>10. /\ \A p \in DOMAIN o : o[p] \in S
       /\ \A p, q \in DOMAIN o : p < q => o[p] < o[q]
       /\ \A e \in S : \E p \in DOMAIN o : o[p] = e
  BY <1>5, <1>7, Zenon DEF InOrderOf
<1>11. /\ \A k \in 1 .. Len(o) : o[k] \in Int /\ o[k] \in S
       /\ \A i \in On(r, x) : \E k \in 1 .. Len(o) : o[k] = r[i].time
  BY <1>4, <1>6, <1>9, <1>10
<1>12. \A k, m \in 1 .. Len(o) : k < m => o[k] < o[m]
  BY <1>9, <1>10
<1> QED BY <1>8, <1>9, <1>11, <1>12 DEF o, S

(* When a window of a group ends that stands for n of them. *)
WindowEnd(o, k, w, n) == IF n = 1 THEN o[k] ELSE o[k - 1] + Closest((o[k] - o[k - 1]) * w, n)

(* A timeline has the windows of each group, one after the other. *)
Windowed(t, r, x, size, off) ==
  LET o == Times(r, x)
  IN  /\ size[1] = 1 /\ off[1] = 0 /\ off[Len(o) + 1] = Len(t)
      /\ \A k \in 1 .. Len(o) : size[k] \in Nat \ {0} /\ off[k] \in Nat /\ off[k + 1] = off[k] + size[k]
      /\ \A k \in 1 .. Len(o) : \A w \in 1 .. size[k] :
           /\ off[k] + w \in 1 .. Len(t)
           /\ t[off[k] + w].time = WindowEnd(o, k, w, size[k])
           /\ t[off[k] + w].group = Group(r, x, o[k]) /\ t[off[k] + w].windows = size[k]
      /\ \A j \in 1 .. Len(t) : \E k \in 1 .. Len(o) : \E w \in 1 .. size[k] : j = off[k] + w

(* and each XCC has some number of samples, as its groups have windows. *)
LEMMA TimelineHas ==
  ASSUME NEW r \in Captures, NEW x
  PROVE  /\ Len(Timeline(r, x)) \in Nat /\ DOMAIN Timeline(r, x) = 1 .. Len(Timeline(r, x))
         /\ \E size, off : Windowed(Timeline(r, x), r, x, size, off)
<1> DEFINE times == Times(r, x)
           nominal == NominalCycles(r, x)
           group(k) == Group(r, x, times[k])
           n(k) == IF k = 1 THEN 1 ELSE Windows(Cycles(r, group(k)), nominal)
           at(k, w) == IF n(k) = 1 THEN times[k] ELSE times[k - 1] + Closest((times[k] - times[k - 1]) * w, n(k))
           samples(k) == [w \in 1 .. n(k) |-> [time |-> at(k, w), group |-> group(k), windows |-> n(k)]]
           seqs == [k \in DOMAIN times |-> samples(k)]
           A == UNION {{seqs[k][w] : w \in 1 .. n(k)} : k \in DOMAIN times}
           M == Len(times)
           size == [k \in 1 .. M + 1 |-> n(k)]
<1>1. Timeline(r, x) = FlattenSeq(seqs)
  BY DEF Timeline
<1>2. M \in Nat /\ DOMAIN times = 1 .. M
  BY TimesAre
<1>3. \A k : n(k) \in Nat \ {0}
  BY DEF Windows
<1>4. n(1) = 1
  OBVIOUS
<1>5. \A k, w : at(k, w) = WindowEnd(times, k, w, n(k))
  BY DEF WindowEnd
<1> HIDE DEF n, times, group, at
<1>6. ASSUME NEW k \in 1 .. M
      PROVE  /\ seqs[k] = [w \in 1 .. n(k) |-> seqs[k][w]]
             /\ \A w \in 1 .. n(k) : /\ seqs[k][w].time = at(k, w)
                                     /\ seqs[k][w].group = group(k) /\ seqs[k][w].windows = n(k)
  BY <1>2
<1>7. seqs = [k \in 1 .. M |-> seqs[k]]
  BY <1>2
<1> HIDE DEF seqs
<1>8. ASSUME NEW k \in 1 .. M PROVE seqs[k] \in Seq(A) /\ Len(seqs[k]) = n(k)
  <2>1. \A w \in 1 .. n(k) : seqs[k][w] \in A
    BY <1>2
  <2> HIDE DEF A, M
  <2>2. [w \in 1 .. n(k) |-> seqs[k][w]] \in Seq(A) /\ Len([w \in 1 .. n(k) |-> seqs[k][w]]) = n(k)
    BY <1>3, <2>1
  <2> QED BY <1>6, <2>2
<1> HIDE DEF A, M
<1>9. [k \in 1 .. M |-> seqs[k]] \in Seq(Seq(A)) /\ Len([k \in 1 .. M |-> seqs[k]]) = M
  BY <1>2, <1>8
<1>10. seqs \in Seq(Seq(A)) /\ Len(seqs) = M
  BY <1>7, <1>9
<1> DEFINE t == FlattenSeq(seqs)
<1>11. t \in Seq(A) /\ \E off : Laid(t, seqs, M, off)
  BY <1>10, FlattenLaid
<1> HIDE DEF t
<1>12. PICK off : Laid(t, seqs, M, off)
  BY <1>11
<1>13. \A k \in 1 .. M : size[k] = n(k)
  BY <1>2
<1>14. size[1] = 1
  BY <1>2, <1>4
<1> HIDE DEF size
<1>15. off[1] = 0 /\ off[M + 1] = Len(t) /\ \A k \in 1 .. M : size[k] \in Nat \ {0} /\ off[k] \in Nat /\ off[k + 1] = off[k] + size[k]
  BY <1>3, <1>8, <1>12, <1>13 DEF Laid
<1>16. ASSUME NEW k \in 1 .. M, NEW w \in 1 .. size[k]
       PROVE  /\ off[k] + w \in 1 .. Len(t)
              /\ t[off[k] + w].time = WindowEnd(times, k, w, size[k])
              /\ t[off[k] + w].group = Group(r, x, times[k]) /\ t[off[k] + w].windows = size[k]
  <2>1. w \in 1 .. n(k) /\ w \in 1 .. Len(seqs[k])
    BY <1>8, <1>13
  <2>2. off[k] + w \in 1 .. Len(t) /\ t[off[k] + w] = seqs[k][w]
    BY <1>12, <2>1 DEF Laid
  <2>3. seqs[k][w].time = at(k, w) /\ seqs[k][w].group = group(k) /\ seqs[k][w].windows = n(k)
    BY <1>6, <2>1
  <2>4. group(k) = Group(r, x, times[k])
    BY DEF group
  <2> QED BY <1>5, <1>13, <2>2, <2>3, <2>4
<1>17. \A j \in 1 .. Len(t) : \E k \in 1 .. M : \E w \in 1 .. size[k] : j = off[k] + w
  BY <1>8, <1>12, <1>13, SMTT(30) DEF Laid
<1>18. Windowed(t, r, x, size, off)
  BY <1>14, <1>15, <1>16, <1>17 DEF Windowed, M, times
<1>19. Len(t) \in Nat /\ DOMAIN t = 1 .. Len(t)
  BY <1>11, LenProperties
<1> QED BY <1>1, <1>18, <1>19 DEF t

(* What is known of a capture once it is loaded. *)
IsSpm(s) ==
  /\ {"counters", "times", "clock", "spmClock"} \subseteq DOMAIN s
  /\ DOMAIN s.counters \subseteq Counters /\ IsTensors(s.counters) /\ IsTensor(s.clock) /\ IsTensor(s.spmClock)

(* A timeline for each XCC. *)
Timelines(t, n) == t = [x \in 0 .. n - 1 |-> t[x]] /\ \A x \in 0 .. n - 1 : Len(t[x]) \in Nat

(* The largest of some samples. *)
LEMMA SamplesAre ==
  ASSUME NEW n \in Nat, n > 0, NEW t, Timelines(t, n)
  PROVE  Max({Len(t[x]) : x \in DOMAIN t}) \in Nat /\ 1 + Max(DOMAIN t) = n
<1>1. DOMAIN t = 0 .. n - 1 /\ \A x \in 0 .. n - 1 : Len(t[x]) \in Nat
  BY DEF Timelines
<1>2. IsFiniteSet(0 .. n - 1) /\ 0 \in 0 .. n - 1 /\ n - 1 \in 0 .. n - 1
  BY FS_Interval
<1> DEFINE f == [x \in 0 .. n - 1 |-> Len(t[x])]
           S == {f[x] : x \in 0 .. n - 1}
<1>3. S = {Len(t[x]) : x \in DOMAIN t} /\ S # {} /\ \A y \in S : y \in Nat
  BY <1>1, <1>2
<1>4. IsFiniteSet(S)
  <2> HIDE DEF f
  <2> QED BY <1>2, FiniteImage
<1> HIDE DEF S
<1>5. Max(S) \in Nat
  BY <1>3, <1>4, MaxIs, SMTT(30)
<1>6. Max(0 .. n - 1) \in 0 .. n - 1 /\ \A x \in 0 .. n - 1 : x <= Max(0 .. n - 1)
  BY <1>2, MaxIs
<1>7. Max(0 .. n - 1) = n - 1
  BY <1>2, <1>6
<1> QED BY <1>1, <1>3, <1>5, <1>7

(* What a capture is loaded as. *)
LEMMA FilledIs ==
  ASSUME NEW r \in Captures, NEW t, Timelines(t, XccCount(r))
  PROVE  IsSpm(Filled(r, t))
<1> DEFINE s == Filled(r, t)
           N == Max({Len(t[x]) : x \in DOMAIN t})
           row == <<1 + Max(DOMAIN t), 1, 1, N>>
<1>1. N \in Nat /\ 1 + Max(DOMAIN t) \in Nat
  BY XccCountIs, SamplesAre
<1>2. /\ {"counters", "times", "clock", "spmClock"} \subseteq DOMAIN s
      /\ DOMAIN s.counters = {d \in Counters : Of(r, d) # {}}
  BY DEF Filled
<1>3. ASSUME NEW c \in DOMAIN s.counters
      PROVE  \E at : DOMAIN at \subseteq Cells(Append(Dimensions(r, c), N)) /\ s.counters[c] = Collected(Append(Dimensions(r, c), N), at)
  <2> DEFINE shape == Append(Dimensions(r, c), N)
             shared(cell) == {i \in t[cell[XCC]][cell[Time] + 1].group \cap Of(r, c) : r[i].se = cell[SE] /\ r[i].cu = cell[CU]}
             at == [cell \in {d \in Cells(shape) : d[Time] < Len(t[d[XCC]]) /\ shared(d) # {}} |->
                      FloatSum([i \in shared(cell) |-> Share(r[i].value, t[cell[XCC]][cell[Time] + 1].windows)])]
  <2>1. s.counters[c] = Collected(shape, at)
    BY <1>2 DEF Filled
  <2>2. DOMAIN at \subseteq Cells(shape)
    OBVIOUS
  <2> HIDE DEF at, shape, s
  <2>3. \E a : DOMAIN a \subseteq Cells(shape) /\ s.counters[c] = Collected(shape, a)
    BY <2>1, <2>2
  <2> QED BY <2>3, SMTT(30) DEF shape
<1>4. \E at : DOMAIN at \subseteq Cells(row) /\ s.clock = Collected(row, at)
  BY DEF Filled
<1>5. \E at : DOMAIN at \subseteq Cells(row) /\ s.spmClock = Collected(row, at)
  BY DEF Filled
<1>6. row \in [Axes -> Nat]
  BY <1>1 DEF Axes
<1> HIDE DEF s, row, N
<1>7. IsTensor(s.clock) /\ IsTensor(s.spmClock)
  BY <1>4, <1>5, <1>6, CollectedIs
<1>8. ASSUME NEW c \in DOMAIN s.counters PROVE IsTensor(s.counters[c])
  <2>1. Append(Dimensions(r, c), N) \in [Axes -> Nat]
    BY <1>1, <1>2, DimensionsAre
  <2> QED BY <1>3, <2>1, CollectedIs
<1> QED BY <1>2, <1>7, <1>8 DEF IsSpm, IsTensors, s

(* A capture is loaded as its records on a timeline for each XCC. *)
LEMMA LoadedAre ==
  ASSUME NEW r \in Captures, NEW s \in Loaded(r)
  PROVE  IsSpm(s)
<1> DEFINE n == XccCount(r)
           t == [x \in 0 .. n - 1 |-> Timeline(r, x)]
<1>1. s = Filled(r, t)
  BY DEF Loaded
<1>2. Timelines(t, n)
  BY TimelineHas DEF Timelines
<1> HIDE DEF t
<1> QED BY <1>1, <1>2, FilledIs

(* Aligning moves only the clock. *)
LEMMA AlignedAre ==
  ASSUME NEW s, IsSpm(s), NEW a, NEW q \in Aligned(s, a)
  PROVE  IsSpm(q) /\ q.counters = s.counters
<1>1. \E at : DOMAIN at = DOMAIN s.clock.at /\ q = [s EXCEPT !.clock.at = at]
  BY DEF Aligned
<1>2. PICK at : DOMAIN at = DOMAIN s.clock.at /\ q = [s EXCEPT !.clock.at = at]
  BY <1>1
<1>3. {"counters", "times", "clock", "spmClock"} \subseteq DOMAIN s
  BY DEF IsSpm
<1>4. /\ {"counters", "times", "clock", "spmClock"} \subseteq DOMAIN q
      /\ q.counters = s.counters /\ q.spmClock = s.spmClock /\ q.clock = [s.clock EXCEPT !.at = at]
  BY <1>2, <1>3
<1>5. IsTensor(q.clock)
  BY <1>2, <1>4, NegatedIs DEF IsSpm
<1> QED BY <1>4, <1>5, SMTT(30) DEF IsSpm

-------------------------------------------------------------------------------
(* The calls in progress are of different names and hold tensors. *)
Distinct(s) == \A i, j \in DOMAIN s : s[i].name = s[j].name => i = j
Held(s) == Distinct(s) /\ \A i \in DOMAIN s : IsTensors(s[i].args)

(* What is held stays so when a value is added, *)
LEMMA TensorsAppended ==
  ASSUME NEW A, NEW s \in Seq(A), IsTensors(s), NEW t, IsTensor(t)
  PROVE  IsTensors(Append(s, t))
<1> DEFINE B == A \cup {t}
           r == Append(s, t)
<1>1. s \in Seq(B) /\ t \in B /\ Len(s) \in Nat /\ DOMAIN s = 1 .. Len(s)
  OBVIOUS
<1> HIDE DEF B
<1>2. /\ Len(r) = Len(s) + 1 /\ r \in Seq(B) /\ (\A i \in 1 .. Len(s) : r[i] = s[i]) /\ r[Len(s) + 1] = t
  BY <1>1, AppendProperties
<1>3. DOMAIN r = 1 .. Len(s) + 1
  BY <1>2
<1> HIDE DEF r
<1>4. ASSUME NEW i \in DOMAIN r PROVE IsTensor(r[i])
  <2>1. i \in 1 .. Len(s) \/ i = Len(s) + 1
    BY <1>1, <1>3
  <2> QED BY <1>1, <1>2, <2>1 DEF IsTensors
<1>5. IsTensors(r)
  BY <1>4 DEF IsTensors
<1> QED BY <1>5 DEF r

(* to a map, *)
LEMMA TensorAdded ==
  ASSUME NEW f, IsTensors(f), NEW n, NEW t, IsTensor(t)
  PROVE  IsTensors(Over(f, Entry(n, t))) /\ IsTensors(Over(Entry(n, t), f))
BY DEF IsTensors, Over, Entry

(* to the innermost call (a sequence that is not empty has a last element), *)
LEMMA LastIs ==
  ASSUME NEW C, NEW s \in Seq(C), s # <<>>
  PROVE  Len(s) \in Nat /\ Len(s) >= 1 /\ DOMAIN s = 1 .. Len(s) /\ s[Len(s)] \in C
OBVIOUS

(* whose arguments grow by one, *)
LEMMA HeldDelivered ==
  ASSUME NEW A, NEW B, NEW C, C = [name : A, args : Seq(B)], NEW s \in Seq(C), s # <<>>, Held(s),
         NEW t, IsTensor(t)
  PROVE  Held([s EXCEPT ![Len(s)].args = Append(@, t)])
<1> DEFINE N == Len(s)
           a == Append(s[N].args, t)
           r == [s EXCEPT ![N].args = Append(@, t)]
<1> HIDE DEF a, r
<1>1. N \in Nat /\ N >= 1 /\ DOMAIN s = 1 .. N /\ s[N] \in C
  BY LastIs
<1>2. s[N].args \in Seq(B) /\ s[N].name \in A /\ s[N] = [name |-> s[N].name, args |-> s[N].args]
  BY <1>1
<1>3. IsTensors(a)
  <2>1. IsTensors(s[N].args)
    BY <1>1 DEF Held
  <2> QED BY <1>2, <2>1, TensorsAppended DEF a
<1> HIDE DEF N
<1>4. r = [s EXCEPT ![N] = [s[N] EXCEPT !.args = a]]
  <2> DEFINE x == s[N]
  <2>1. [s EXCEPT ![N].args = Append(@, t)] = [s EXCEPT ![N] = [x EXCEPT !.args = Append(s[N].args, t)]]
    OBVIOUS
  <2> QED BY <2>1 DEF r, a
<1>5. [s[N] EXCEPT !.args = a] = [name |-> s[N].name, args |-> a]
  <2> DEFINE c == s[N]
  <2> HIDE DEF a, c
  <2>1. c = [name |-> c.name, args |-> c.args]
    BY <1>2 DEF c
  <2>2. [c EXCEPT !.args = a] = [name |-> c.name, args |-> a]
    BY <2>1, RecordChanged
  <2> QED BY <2>2 DEF c
<1>6. r = [s EXCEPT ![N] = [name |-> s[N].name, args |-> a]]
  BY <1>4, <1>5
<1>7. DOMAIN r = DOMAIN s /\ \A i \in DOMAIN s : r[i] = IF i = N THEN [name |-> s[N].name, args |-> a] ELSE s[i]
  BY <1>1, <1>6
<1>8. \A i \in DOMAIN s : r[i].name = s[i].name /\ (i = N => r[i].args = a) /\ (i # N => r[i].args = s[i].args)
  BY <1>7
<1>9. Held(r)
  BY <1>3, <1>7, <1>8 DEF Held, Distinct
<1> QED BY <1>9 DEF r, N

(* as a call begins that is of none of their names, *)
LEMMA HeldCalled ==
  ASSUME NEW C, NEW s \in Seq(C), Held(s), NEW w, \A i \in DOMAIN s : s[i].name # w
  PROVE  Held(Append(s, [name |-> w, args |-> <<>>]))
<1> DEFINE c == [name |-> w, args |-> <<>>]
           B == C \cup {c}
           r == Append(s, c)
<1>0. c.name = w /\ IsTensors(c.args)
  BY DEF IsTensors
<1>1. s \in Seq(B) /\ c \in B /\ Len(s) \in Nat /\ DOMAIN s = 1 .. Len(s)
  OBVIOUS
<1> HIDE DEF B, c
<1>2. Len(r) = Len(s) + 1 /\ r \in Seq(B) /\ (\A i \in 1 .. Len(s) : r[i] = s[i]) /\ r[Len(s) + 1] = c
  BY <1>1, AppendProperties
<1>3. DOMAIN r = 1 .. Len(s) + 1
  BY <1>2
<1> HIDE DEF r
<1>4. ASSUME NEW i \in DOMAIN r
      PROVE  IF i = Len(s) + 1 THEN r[i] = c ELSE i \in DOMAIN s /\ r[i] = s[i]
  BY <1>1, <1>2, <1>3
<1>5. \A i \in DOMAIN r : IsTensors(r[i].args)
  BY <1>0, <1>4 DEF Held
<1>6. Distinct(r)
  <2> SUFFICES ASSUME NEW i \in DOMAIN r, NEW j \in DOMAIN r, r[i].name = r[j].name PROVE i = j
    BY DEF Distinct
  <2> QED BY <1>0, <1>4 DEF Held, Distinct
<1>7. Held(r)
  BY <1>5, <1>6 DEF Held
<1> QED BY <1>7 DEF r, c

(* and as one ends. *)
LEMMA HeldReturned ==
  ASSUME NEW C, NEW s \in Seq(C), s # <<>>, Held(s)
  PROVE  Held(Front(s)) /\ Front(s) \in Seq(C)
<1> DEFINE r == Front(s)
<1>1. r \in Seq(C) /\ Len(r) = Len(s) - 1 /\ \A i \in 1 .. Len(s) - 1 : r[i] = s[i]
  BY FrontIs
<1>2. Len(s) \in Nat /\ DOMAIN s = 1 .. Len(s)
  OBVIOUS
<1> HIDE DEF r
<1>3. DOMAIN r = 1 .. Len(s) - 1
  BY <1>1
<1>4. \A i \in DOMAIN r : i \in DOMAIN s /\ r[i] = s[i]
  BY <1>1, <1>2, <1>3
<1>5. Held(r)
  BY <1>4 DEF Held, Distinct
<1> QED BY <1>1, <1>5 DEF r

(* No calls hold nothing. *)
LEMMA NothingHeld == Held(<<>>) /\ IsTensors(<<>>)
BY DEF Held, Distinct, IsTensors

(* A value that is got goes where values are held. *)
LEMMA TensorDelivered ==
  ASSUME NEW A, NEW B, NEW C, C = [name : A, args : Seq(B)], NEW s \in Seq(C), Held(s), IsTensors(results),
         NEW t, IsTensor(t), Deliver(s, t)
  PROVE  Held(calls') /\ IsTensors(results')
<1>1. CASE s = <<>>
  <2>1. results' = Over(results, Entry(asked, t)) /\ calls' = <<>>
    BY <1>1 DEF Deliver
  <2> QED BY <2>1, TensorAdded, NothingHeld
<1>2. CASE s # <<>>
  <2>1. results' = results /\ calls' = [s EXCEPT ![Len(s)].args = Append(@, t)]
    BY <1>2 DEF Deliver
  <2> QED BY <1>2, <2>1, HeldDelivered
<1> QED BY <1>1, <1>2

(* The counters of an expression are tensors. *)
LEMMA RawAre ==
  ASSUME IsSpm(spm)
  PROVE  IsTensors(Raw)
<1> DEFINE clocks == [c \in Clocks |-> IF c = "SCLOCK" THEN spm.clock ELSE spm.spmClock]
<1>1. IsTensors(clocks)
  BY DEF IsSpm, IsTensors
<1> HIDE DEF clocks
<1>2. IsTensors(spm.counters) /\ Raw = Over(spm.counters, clocks)
  BY DEF Raw, clocks, IsSpm
<1> QED BY <1>1, <1>2 DEF IsTensors, Over

(* The inductive invariant of the types, beside CounterInv: all that has a  *)
(* value has a tensor, and what outlives an evaluation belongs to it.       *)
TypeInv ==
  /\ phase \in {"import", "loaded", "failed", "imported", "evaluate", "draw", "shown"}
  /\ records \in Captures /\ (phase \notin {"import", "failed"} => IsSpm(spm))
  /\ IsTensors(cache) /\ IsTensors(results) /\ Held(calls)
  /\ errors # {} => phase = "evaluate"
  /\ phase \in {"import", "loaded"} => hidden = {}
  /\ hidden # {} => hidden \subseteq DOMAIN spm.counters

(* The calls in progress are of definitions that have all operands. *)
LEMMA CallsAre ==
  ASSUME Evaluating
  PROVE  calls \in Seq(Calls(Meant, text)) /\ defs = text /\ text \in Texts
BY DEF Evaluating, Progress, Tracked

(* What is got is a tensor. *)
LEMMA GetCounterTyped ==
  ASSUME Evaluating, IsSpm(spm), IsTensors(cache), IsTensors(results), Held(calls), GetCounter
  PROVE  IsTensors(cache') /\ IsTensors(results') /\ Held(calls')
<1> DEFINE w == Wanted
           B == {Meant[n] : n \in DOMAIN Meant}
           C == Calls(Meant, text)
<1>1. calls \in Seq(C) /\ C = [name : DOMAIN text, args : Seq(B)]
  BY CallsAre DEF Calls
<1>2. IsTensors(Raw)
  BY RawAre
<1> HIDE DEF w, B, C
<1>3. ASSUME NEW t, IsTensor(t), Deliver(calls, t) PROVE Held(calls') /\ IsTensors(results')
  BY <1>1, <1>3, TensorDelivered
<1>4. CASE w \in DOMAIN Literals /\ Deliver(calls, Literal(Literals[w])) /\ UNCHANGED <<cache, errors, accessed>>
  BY <1>3, <1>4, LiteralIs
<1>5. CASE w \in DOMAIN cache /\ Deliver(calls, cache[w]) /\ UNCHANGED <<cache, errors, accessed>>
  <2>1. IsTensor(cache[w])
    BY <1>5 DEF IsTensors
  <2> QED BY <1>3, <1>5, <2>1
<1>6. CASE w \in Builtins \ DOMAIN cache /\ cache' = Over(cache, Entry(w, BuiltinScalar(w))) /\ Deliver(calls, cache'[w])
  <2>1. IsTensor(BuiltinScalar(w))
    BY LiteralIs DEF BuiltinScalar
  <2>2. IsTensors(cache')
    BY <1>6, <2>1, TensorAdded
  <2>3. w \in DOMAIN cache'
    BY <1>6 DEF Over, Entry
  <2>4. IsTensor(cache'[w])
    BY <2>2, <2>3 DEF IsTensors
  <2> QED BY <1>3, <1>6, <2>2, <2>4
<1>7. CASE w \in DOMAIN Raw \ (DOMAIN cache \cup Builtins) /\ Deliver(calls, Raw[w]) /\ UNCHANGED <<cache, errors>>
  <2>1. IsTensor(Raw[w])
    BY <1>2, <1>7 DEF IsTensors
  <2> QED BY <1>3, <1>7, <2>1
<1>8. CASE /\ \A i \in DOMAIN calls : calls[i].name # w
           /\ calls' = Append(calls, [name |-> w, args |-> <<>>])
           /\ UNCHANGED <<asked, results, cache, errors, accessed>>
  BY <1>1, <1>8, HeldCalled
<1>9. CASE Throw
  BY <1>9, NothingHeld DEF Throw
<1> QED BY <1>4, <1>5, <1>6, <1>7, <1>8, <1>9 DEF GetCounter, w

(* What a call computes is a tensor, as its definition has all operands. *)
LEMMA EvaluateTyped ==
  ASSUME Evaluating, IsTensors(cache), IsTensors(results), Held(calls), Evaluate
  PROVE  IsTensors(cache') /\ IsTensors(results') /\ Held(calls')
<1> DEFINE c == calls[Len(calls)]
           d == text[c.name]
           value == Apply(d, c.args)
           B == {Meant[n] : n \in DOMAIN Meant}
           C == Calls(Meant, text)
<1>1. calls \in Seq(C) /\ C = [name : DOMAIN text, args : Seq(B)] /\ defs = text /\ text \in Texts
  BY CallsAre DEF Calls
<1>2. calls # <<>> /\ Wanted = ""
  BY DEF Evaluate
<1>3. IF value = {} THEN Throw
      ELSE cache' = Over(cache, Entry(c.name, Chosen(value))) /\ Deliver(Front(calls), Chosen(value))
  BY <1>1 DEF Evaluate, Last, Chosen
<1>4. Len(c.args) = Len(d.args)
  BY <1>2, WantedIs
<1>5. c \in C /\ Len(calls) \in DOMAIN calls
  <2> HIDE DEF C
  <2>1. Len(calls) \in Nat /\ Len(calls) >= 1 /\ DOMAIN calls = 1 .. Len(calls) /\ calls[Len(calls)] \in C
    BY <1>1, <1>2, LastIs
  <2> QED BY <2>1
<1>6. IsTensors(c.args) /\ c.args \in Seq(B) /\ c.name \in DOMAIN text
  <2>1. IsTensors(c.args)
    BY <1>5 DEF Held
  <2> HIDE DEF c, C, B
  <2>2. c.args \in Seq(B) /\ c.name \in DOMAIN text
    BY <1>1, <1>5
  <2> QED BY <2>1, <2>2
<1>7. d.op \in Operations /\ d.axis \in Axes /\ Len(d.args) = Operands(d.op)
  BY <1>1, <1>6, CounterAssumption
<1>8. \A v \in value : IsTensor(v)
  <2> HIDE DEF c, d, B
  <2>1. \A v \in Apply(d, c.args) : IsTensor(v)
    BY <1>4, <1>6, <1>7, ApplyIs
  <2> QED BY <2>1
<1> HIDE DEF value, c, C, B
<1>9. CASE value = {}
  BY <1>3, <1>9, NothingHeld DEF Throw
<1>10. CASE value # {}
  <2>1. IsTensor(Chosen(value))
    BY <1>8, <1>10 DEF Chosen
  <2>2. IsTensors(cache')
    BY <1>3, <1>10, <2>1, TensorAdded
  <2>3. Held(Front(calls)) /\ Front(calls) \in Seq(C)
    BY <1>1, <1>2, HeldReturned
  <2>4. Held(calls') /\ IsTensors(results')
    BY <1>1, <1>3, <1>10, <2>1, <2>3, TensorDelivered
  <2> QED BY <2>2, <2>4
<1> QED BY <1>9, <1>10

(* Initially nothing has a value. *)
LEMMA InitTypeInv == Init => TypeInv
BY NothingHeld DEF Init, TypeInv

(* Every step keeps the types. *)
LEMMA NextTypeInv == CounterInv /\ TypeInv /\ [Next]_vars => TypeInv'
<1> SUFFICES ASSUME CounterInv, TypeInv, [Next]_vars PROVE TypeInv'
  OBVIOUS
<1> USE DEF context, file, plot
<1>1. CASE Load
  <2>1. spm' \in Loaded(records) /\ records \in Captures
    BY <1>1 DEF Load, TypeInv
  <2>2. IsSpm(spm')
    BY <2>1, LoadedAre
  <2> QED BY <1>1, <2>2 DEF Load, TypeInv, IsSpm
<1>2. CASE Align
  <2>1. phase = "loaded" /\ ((phase' = "imported" /\ spm' \in Aligned(spm, anchors)) \/ phase' = "failed") /\ hidden' = {}
    BY <1>2 DEF Align, TypeInv
  <2>2. phase' = "imported" => IsSpm(spm')
    BY <2>1, AlignedAre DEF TypeInv
  <2> QED BY <1>2, <2>1, <2>2 DEF Align, TypeInv
<1>3. CASE UpdateDataSelection
  BY <1>3 DEF UpdateDataSelection, TypeInv
<1>4. ASSUME NEW t \in Texts, Update(t) PROVE TypeInv'
  BY <1>4, NothingHeld DEF Update, TypeInv
<1>5. ASSUME NEW n \in todo, Ask(n) PROVE TypeInv'
  BY <1>5 DEF Ask, TypeInv
<1>6. CASE GetCounter
  <2>1. Evaluating /\ IsSpm(spm) /\ IsTensors(cache) /\ IsTensors(results) /\ Held(calls)
    BY <1>6 DEF GetCounter, TypeInv, CounterInv
  <2>2. IsTensors(cache') /\ IsTensors(results') /\ Held(calls')
    BY <1>6, <2>1, GetCounterTyped
  <2>3. phase = "evaluate" /\ UNCHANGED <<phase, records, spm, hidden>>
    BY <1>6 DEF GetCounter
  <2> QED BY <2>2, <2>3 DEF TypeInv
<1>7. CASE Evaluate
  <2>1. Evaluating /\ IsTensors(cache) /\ IsTensors(results) /\ Held(calls)
    BY <1>7 DEF Evaluate, TypeInv, CounterInv
  <2>2. IsTensors(cache') /\ IsTensors(results') /\ Held(calls')
    BY <1>7, <2>1, EvaluateTyped
  <2>3. phase = "evaluate" /\ UNCHANGED <<phase, records, spm, hidden>>
    BY <1>7 DEF Evaluate
  <2> QED BY <2>2, <2>3 DEF TypeInv
<1>8. CASE Collect
  <2>1. /\ phase = "evaluate" /\ phase' = "draw" /\ errors' = {} /\ UNCHANGED <<records, spm, results, calls>>
        /\ cache' = [n \in DOMAIN cache \ errors |-> cache[n]]
        /\ hidden' = hidden \/ hidden' = hidden \cup (accessed \cap DOMAIN spm.counters)
    BY <1>8 DEF Collect
  <2>2. IsTensors(cache')
    BY <2>1 DEF TypeInv, IsTensors
  <2>3. hidden' # {} => hidden' \subseteq DOMAIN spm'.counters
    BY <2>1 DEF TypeInv
  <2> QED BY <2>1, <2>2, <2>3 DEF TypeInv
<1>9. ASSUME phase \in {"draw", "shown"}, phase' \in {"draw", "shown"},
             UNCHANGED <<records, spm, cache, results, calls, errors, hidden>>
      PROVE  TypeInv'
  BY <1>9 DEF TypeInv
<1>10. ASSUME NEW n \in pending, AddSeries(n) PROVE TypeInv'
  BY <1>9, <1>10, SMTT(30) DEF AddSeries
<1>11. CASE Advance
  BY <1>9, <1>11 DEF Advance
<1>12. CASE EndSeries
  BY <1>9, <1>12 DEF EndSeries
<1>13. CASE Show
  BY <1>9, <1>13 DEF Show
<1>14. CASE UNCHANGED vars
  BY <1>14 DEF vars, TypeInv
<1> QED BY <1>1, <1>2, <1>3, <1>4, <1>5, <1>6, <1>7, <1>8, <1>10, <1>11, <1>12, <1>13, <1>14 DEF Next

(* Types: values have their cells within their shapes and a source for     *)
(* each row, the calls of the recursive evaluator are of different         *)
(* definitions and end with the evaluation they belong to, and only        *)
(* counters of the capture are hidden.                                     *)
THEOREM TypeCorrect == Spec => []TypeOK
<1>1. CounterInv /\ TypeInv => TypeOK
  <2> SUFFICES ASSUME CounterInv, TypeInv PROVE TypeOK
    OBVIOUS
  <2>1. (\A n \in DOMAIN cache : WellFormed(cache[n])) /\ \A n \in DOMAIN results : WellFormed(results[n])
    BY DEF TypeInv, IsTensors, IsTensor, WellFormed
  <2>2. {calls[i].name : i \in DOMAIN calls} \subseteq DOMAIN defs
    <3>1. CASE phase = "evaluate"
      <4>1. calls \in Seq(Calls(Meant, text)) /\ defs = text
        BY <3>1, CallsAre DEF CounterInv
      <4>2. \A i \in DOMAIN calls : calls[i] \in Calls(Meant, text)
        BY <4>1
      <4> QED BY <4>1, <4>2 DEF Calls
    <3>2. CASE phase # "evaluate"
      <4>1. calls = <<>>
        BY <3>2 DEF CounterInv
      <4>2. DOMAIN <<>> = {}
        OBVIOUS
      <4>3. DOMAIN calls = {}
        BY <4>1, <4>2
      <4> QED BY <4>3
    <3> QED BY <3>1, <3>2
  <2>3. (asked = "" => calls = <<>>) /\ (asked # "" => phase = "evaluate" /\ asked \notin todo)
    BY DEF CounterInv, Evaluating, Progress
  <2> QED BY <2>1, <2>2, <2>3 DEF TypeOK, TypeInv, Held, Distinct
<1>2. Init => CounterInv /\ TypeInv
  BY InitCounterInv, InitTypeInv
<1>3. (CounterInv /\ TypeInv) /\ [Next]_vars => (CounterInv /\ TypeInv)'
  BY NextCounterInv, NextTypeInv
<1> QED BY <1>1, <1>2, <1>3, PTL DEF Spec
-------------------------------------------------------------------------------
(* The samples of an XCC. *)

(* The windows of a group end one after the other, the last with it. *)
LEMMA WindowsEnd ==
  ASSUME NEW r \in Captures, NEW x, NEW k \in 1 .. Len(Times(r, x)), NEW n \in Nat \ {0}, k = 1 => n = 1
  PROVE  LET o == Times(r, x)
         IN  /\ \A w \in 1 .. n : WindowEnd(o, k, w, n) \in Int /\ (k # 1 => o[k - 1] <= WindowEnd(o, k, w, n))
             /\ \A v, w \in 1 .. n : v <= w => WindowEnd(o, k, v, n) <= WindowEnd(o, k, w, n)
             /\ WindowEnd(o, k, n, n) = o[k]
<1> DEFINE o == Times(r, x)
           d == o[k] - o[k - 1]
<1>1. Len(o) \in Nat /\ o[k] \in Int
  BY TimesAre
<1>2. ASSUME k # 1 PROVE k - 1 \in 1 .. Len(o) /\ o[k - 1] \in Int /\ o[k - 1] < o[k] /\ d \in Nat
  <2>1. k - 1 \in 1 .. Len(o) /\ k - 1 < k
    BY <1>1, <1>2
  <2>2. o[k - 1] \in Int /\ o[k - 1] < o[k]
    BY <2>1, TimesAre
  <2> HIDE DEF o
  <2>3. d \in Nat
    BY <1>1, <2>2
  <2> QED BY <2>1, <2>2, <2>3
<1> HIDE DEF o
<1>3. CASE n = 1
  <2>1. \A w \in 1 .. n : WindowEnd(o, k, w, n) = o[k]
    BY <1>3 DEF WindowEnd
  <2>2. n \in 1 .. n
    OBVIOUS
  <2>3. k # 1 => o[k - 1] <= o[k]
    BY <1>1, <1>2
  <2> QED BY <1>1, <2>1, <2>2, <2>3 DEF o
<1>4. CASE n # 1
  <2>1. k # 1
    BY <1>4
  <2>2. d \in Nat /\ o[k - 1] \in Int /\ o[k] = o[k - 1] + d
    BY <1>1, <1>2, <2>1
  <2>3. \A w \in 1 .. n : WindowEnd(o, k, w, n) = o[k - 1] + Closest(d * w, n)
    BY <1>4 DEF WindowEnd
  <2> HIDE DEF d
  <2>4. \A w \in 1 .. n : w \in 0 .. n
    OBVIOUS
  <2>5. /\ \A w \in 1 .. n : Closest(d * w, n) \in 0 .. d
        /\ \A v, w \in 1 .. n : v <= w => Closest(d * v, n) <= Closest(d * w, n)
        /\ Closest(d * n, n) = d
    BY <2>2, <2>4, ClosestIs
  <2>6. \A w \in 1 .. n : WindowEnd(o, k, w, n) \in Int /\ o[k - 1] <= WindowEnd(o, k, w, n)
    BY <2>2, <2>3, <2>5, SMTT(30)
  <2>7. \A v, w \in 1 .. n : v <= w => WindowEnd(o, k, v, n) <= WindowEnd(o, k, w, n)
    <3> SUFFICES ASSUME NEW v \in 1 .. n, NEW w \in 1 .. n, v <= w
                 PROVE  WindowEnd(o, k, v, n) <= WindowEnd(o, k, w, n)
      OBVIOUS
    <3> DEFINE a == Closest(d * v, n)
               b == Closest(d * w, n)
    <3>0. a \in 0 .. d /\ b \in 0 .. d /\ a <= b
      BY <2>5
    <3>1. WindowEnd(o, k, v, n) = o[k - 1] + a /\ WindowEnd(o, k, w, n) = o[k - 1] + b
      BY <2>3
    <3> HIDE DEF a, b
    <3> QED BY <2>2, <3>0, <3>1
  <2>8. WindowEnd(o, k, n, n) = o[k]
    <3>1. n \in 1 .. n
      OBVIOUS
    <3> QED BY <2>2, <2>3, <2>5, <3>1
  <2> QED BY <2>6, <2>7, <2>8 DEF o
<1> QED BY <1>3, <1>4

(* The samples of an XCC are in order. *)
LEMMA SamplesInOrder ==
  ASSUME NEW r \in Captures, NEW x
  PROVE  LET t == Timeline(r, x)
         IN  /\ \A j \in 1 .. Len(t) : t[j].time \in Int
             /\ \A j \in 2 .. Len(t) : t[j - 1].time <= t[j].time
<1> DEFINE o == Times(r, x)
           t == Timeline(r, x)
           M == Len(o)
<1>1. Len(t) \in Nat /\ \E size, off : Windowed(t, r, x, size, off)
  BY TimelineHas
<1>2. PICK size, off : Windowed(t, r, x, size, off)
  BY <1>1
<1>3. M \in Nat /\ \A k \in 1 .. M : o[k] \in Int
  BY TimesAre
<1>4. /\ size[1] = 1 /\ off[1] = 0
      /\ \A k \in 1 .. M : size[k] \in Nat \ {0} /\ off[k] \in Nat /\ off[k + 1] = off[k] + size[k]
      /\ \A k \in 1 .. M : \A w \in 1 .. size[k] : t[off[k] + w].time = WindowEnd(o, k, w, size[k])
      /\ \A j \in 1 .. Len(t) : \E k \in 1 .. M : \E w \in 1 .. size[k] : j = off[k] + w
  BY <1>2, Zenon DEF Windowed
<1>5. ASSUME NEW k \in 1 .. M
      PROVE  /\ \A w \in 1 .. size[k] : WindowEnd(o, k, w, size[k]) \in Int /\ (k # 1 => o[k - 1] <= WindowEnd(o, k, w, size[k]))
             /\ \A v, w \in 1 .. size[k] : v <= w => WindowEnd(o, k, v, size[k]) <= WindowEnd(o, k, w, size[k])
             /\ WindowEnd(o, k, size[k], size[k]) = o[k]
  <2>1. size[k] \in Nat \ {0} /\ (k = 1 => size[k] = 1)
    BY <1>4
  <2> QED BY <2>1, WindowsEnd
<1> HIDE DEF o, t, M
<1>6. ASSUME NEW j \in 1 .. Len(t) PROVE t[j].time \in Int
  <2>1. PICK k \in 1 .. M : \E w \in 1 .. size[k] : j = off[k] + w
    BY <1>4
  <2>2. PICK w \in 1 .. size[k] : j = off[k] + w
    BY <2>1
  <2>3. t[j].time = WindowEnd(o, k, w, size[k])
    BY <1>4, <2>2
  <2>4. WindowEnd(o, k, w, size[k]) \in Int
    BY <1>5
  <2> QED BY <2>3, <2>4
<1>7. ASSUME NEW j \in 2 .. Len(t) PROVE t[j - 1].time <= t[j].time
  <2>0. j \in 1 .. Len(t)
    BY <1>1
  <2>1. PICK k \in 1 .. M : \E w \in 1 .. size[k] : j = off[k] + w
    BY <1>4, <2>0
  <2>2. PICK w \in 1 .. size[k] : j = off[k] + w
    BY <2>1
  <2>3. size[k] \in Nat \ {0} /\ off[k] \in Nat
    BY <1>4
  <2>4. t[j].time = WindowEnd(o, k, w, size[k])
    BY <1>4, <2>2
  <2>5. CASE w # 1
    <3>1. w - 1 \in 1 .. size[k] /\ w - 1 <= w /\ j - 1 = off[k] + (w - 1)
      BY <2>2, <2>3, <2>5
    <3>2. t[j - 1].time = WindowEnd(o, k, w - 1, size[k])
      BY <1>4, <3>1
    <3> QED BY <1>5, <2>4, <3>1, <3>2
  <2>6. CASE w = 1
    <3>1. k # 1
      BY <1>4, <2>2, <2>6
    <3>2. k - 1 \in 1 .. M /\ (k - 1) + 1 = k
      BY <1>3, <3>1
    <3>3. size[k - 1] \in Nat \ {0} /\ off[k - 1] \in Nat /\ off[k] = off[k - 1] + size[k - 1]
      BY <1>4, <3>2
    <3>4. j - 1 = off[k - 1] + size[k - 1] /\ size[k - 1] \in 1 .. size[k - 1]
      BY <2>2, <2>6, <3>3
    <3>5. t[j - 1].time = o[k - 1]
      BY <1>4, <1>5, <3>2, <3>4, ZenonT(40)
    <3> QED BY <1>5, <2>4, <3>1, <3>5
  <2> QED BY <2>5, <2>6
<1> QED BY <1>6, <1>7 DEF t

(* The samples that a record is counted in. *)
Holding(t, i) == {n \in 1 .. Len(t) : i \in t[n].group}

(* They are the windows of its group. *)
LEMMA HoldingIs ==
  ASSUME NEW r \in Captures, NEW x, NEW i \in On(r, x)
  PROVE  \E n \in Nat \ {0} : /\ IsFiniteSet(Holding(Timeline(r, x), i)) /\ Cardinality(Holding(Timeline(r, x), i)) = n
                              /\ Holding(Timeline(r, x), i) # {}
                              /\ \A j \in Holding(Timeline(r, x), i) : Timeline(r, x)[j].windows = n
<1> DEFINE o == Times(r, x)
           t == Timeline(r, x)
           M == Len(o)
<1>1. Len(t) \in Nat /\ \E size, off : Windowed(t, r, x, size, off)
  BY TimelineHas
<1>2. PICK size, off : Windowed(t, r, x, size, off)
  BY <1>1
<1>3. /\ \A k \in 1 .. M : size[k] \in Nat \ {0} /\ off[k] \in Nat
      /\ \A k \in 1 .. M : \A w \in 1 .. size[k] :
           off[k] + w \in 1 .. Len(t) /\ t[off[k] + w].group = Group(r, x, o[k]) /\ t[off[k] + w].windows = size[k]
      /\ \A j \in 1 .. Len(t) : \E k \in 1 .. M : \E w \in 1 .. size[k] : j = off[k] + w
  BY <1>2, Zenon DEF Windowed
<1>4. /\ \A k, m \in 1 .. M : k < m => o[k] < o[m]
      /\ \A k \in 1 .. M : o[k] \in Int
      /\ M \in Nat
      /\ \E k \in 1 .. M : o[k] = r[i].time
  <2>1. M \in Nat
    BY TimesAre
  <2>2. \A k \in 1 .. M : o[k] \in Int
    BY TimesAre
  <2>3. \A k, m \in 1 .. M : k < m => o[k] < o[m]
    BY TimesAre
  <2>4. \E k \in 1 .. M : o[k] = r[i].time
    <3>1. \A j \in On(r, x) : \E k \in 1 .. M : o[k] = r[j].time
      BY TimesAre
    <3> QED BY <3>1
  <2> HIDE DEF o, t, M
  <2> QED BY <2>1, <2>2, <2>3, <2>4
<1>5. PICK k \in 1 .. M : o[k] = r[i].time
  BY <1>4
<1>6. ASSUME NEW m \in 1 .. M PROVE i \in Group(r, x, o[m]) <=> m = k
  <2>1. i \in Group(r, x, o[m]) <=> r[i].time = o[m]
    BY DEF Group
  <2>2. m # k => o[m] # o[k]
    <3>1. (m < k => o[m] < o[k]) /\ (k < m => o[k] < o[m]) /\ o[m] \in Int /\ o[k] \in Int
      BY <1>4
    <3> HIDE DEF o, M
    <3>2. m \in Int /\ k \in Int
      OBVIOUS
    <3> QED BY <3>1, <3>2
  <2> QED BY <1>5, <2>1, <2>2
<1> DEFINE n == size[k]
           place == [w \in 1 .. n |-> off[k] + w]
           H == Holding(t, i)
<1> HIDE DEF o, t, M
<1>7. n \in Nat \ {0} /\ off[k] \in Nat
  BY <1>3
<1>8. H = {off[k] + w : w \in 1 .. n}
  <2>1. ASSUME NEW j \in H PROVE \E w \in 1 .. n : j = off[k] + w
    <3>1. j \in 1 .. Len(t) /\ i \in t[j].group
      BY DEF Holding
    <3>2. PICK m \in 1 .. M : \E w \in 1 .. size[m] : j = off[m] + w
      BY <1>3, <3>1
    <3>3. PICK w \in 1 .. size[m] : j = off[m] + w
      BY <3>2
    <3>4. t[j].group = Group(r, x, o[m])
      BY <1>3, <3>3
    <3>5. m = k
      BY <1>6, <3>1, <3>4
    <3> QED BY <3>3, <3>5
  <2>2. ASSUME NEW w \in 1 .. n PROVE off[k] + w \in H
    <3>1. off[k] + w \in 1 .. Len(t) /\ t[off[k] + w].group = Group(r, x, o[k])
      BY <1>3
    <3>2. i \in Group(r, x, o[k])
      BY <1>6
    <3> QED BY <3>1, <3>2 DEF Holding
  <2> HIDE DEF H
  <2> QED BY <2>1, <2>2
<1>9. \A j \in H : t[j].windows = n
  BY <1>3, <1>8
<1>10. place \in Bijection(1 .. n, H)
  <2>1. place \in [1 .. n -> H]
    BY <1>8
  <2>2. \A v, w \in 1 .. n : place[v] = place[w] => v = w
    BY <1>7
  <2>3. \A j \in H : \E w \in 1 .. n : place[w] = j
    BY <1>8
  <2> HIDE DEF place, H
  <2> QED BY <2>1, <2>2, <2>3 DEF Bijection, Injection, Surjection, IsInjective
<1>11. IsFiniteSet(1 .. n) /\ Cardinality(1 .. n) = n
  <2>1. 1 \in Int /\ n \in Int /\ n > 0
    BY <1>7
  <2> HIDE DEF n
  <2>2. IsFiniteSet(1 .. n) /\ Cardinality(1 .. n) = IF 1 > n THEN 0 ELSE n - 1 + 1
    BY <2>1, FS_Interval
  <2> QED BY <2>1, <2>2
<1>12. IsFiniteSet(H) /\ Cardinality(H) = n
  <2> HIDE DEF H, place, n
  <2>1. ExistsBijection(1 .. n, H)
    BY <1>10 DEF ExistsBijection
  <2> QED BY <1>11, <2>1, FS_Bijection
<1>13. H # {}
  <2>1. 1 \in 1 .. n
    BY <1>7
  <2> HIDE DEF H, n
  <2> QED BY <1>8, <2>1
<1> QED BY <1>7, <1>9, <1>12, <1>13 DEF H, t

(* The shares of a record in the samples of a row. *)
Shares(r, t, i) == [n \in 1 .. Len(t) |-> IF i \in t[n].group THEN r[i].value \div t[n].windows ELSE 0]

(* Each record of a row has whole shares. *)
EvenOn(r, x) ==
  \A n \in DOMAIN Timeline(r, x) : \A j \in Timeline(r, x)[n].group : r[j].value % Timeline(r, x)[n].windows = 0

(* They add up to what the record counted. *)
LEMMA SharesAre ==
  ASSUME NEW r \in Captures, NEW x, NEW i \in On(r, x),
         EvenOn(r, x)
  PROVE  SumOver(Shares(r, Timeline(r, x), i), 1 .. Len(Timeline(r, x))) = r[i].value
<1> DEFINE t == Timeline(r, x)
           H == Holding(t, i)
           L == Len(t)
           f == Shares(r, t, i)
           v == r[i].value
<1>1. L \in Nat /\ DOMAIN t = 1 .. L
  BY TimelineHas
<1>2. PICK n \in Nat \ {0} : IsFiniteSet(H) /\ Cardinality(H) = n /\ H # {} /\ \A j \in H : t[j].windows = n
  BY HoldingIs
<1>3. v \in Int
  BY NumbersAre DEF On
<1>4. v % n = 0
  <2>1. PICK j \in H : TRUE
    BY <1>2
  <2>2. j \in DOMAIN t /\ i \in t[j].group /\ t[j].windows = n
    BY <1>1, <1>2 DEF Holding
  <2> QED BY <2>2 DEF EvenOn
<1>5. v \div n \in Int /\ n * (v \div n) = v
  BY <1>2, <1>3, <1>4
<1>6. /\ \A j \in H : f[j] = v \div n
      /\ \A j \in (1 .. L) \ H : f[j] = 0
  BY <1>2 DEF Holding, Shares
<1>7. H \in SUBSET (1 .. L)
  BY DEF Holding
<1> HIDE DEF t, H, L, f, v
<1>8. \A j \in 1 .. L : f[j] \in Int
  BY <1>5, <1>6
<1>9. IsFiniteSet(1 .. L)
  <2>1. 1 \in Int /\ L \in Int
    BY <1>1
  <2> QED BY <2>1, FS_Interval
<1>10. SumOver(f, 1 .. L) = SumOver(f, H)
  BY <1>6, <1>7, <1>8, <1>9, SumSupport
<1>11. SumOver(f, H) = Cardinality(H) * (v \div n)
  BY <1>2, <1>5, <1>6, SumEqual
<1> QED BY <1>2, <1>5, <1>10, <1>11 DEF f, v, L, t
-------------------------------------------------------------------------------
(* The counts of an XCC. *)

(* The records of an instance of a counter. *)
Instance(r, c, x, s, u) == {i \in Of(r, c) \cap On(r, x) : r[i].se = s /\ r[i].cu = u}

(* Those of them in a sample. *)
Sampled(r, c, t, cell) ==
  {i \in t[cell[XCC]][cell[Time] + 1].group \cap Of(r, c) : r[i].se = cell[SE] /\ r[i].cu = cell[CU]}

(* A counter as it is loaded, and as it would be if floats were exact. *)
CountedAt(r, c, t, shape) ==
  [cell \in {d \in Cells(shape) : d[Time] < Len(t[d[XCC]]) /\ Sampled(r, c, t, d) # {}} |->
     FloatSum([i \in Sampled(r, c, t, cell) |-> Share(r[i].value, t[cell[XCC]][cell[Time] + 1].windows)])]
ExactAt(r, c, t, shape) ==
  [cell \in {d \in Cells(shape) : d[Time] < Len(t[d[XCC]]) /\ Sampled(r, c, t, d) # {}} |->
     Total([i \in Sampled(r, c, t, cell) |-> r[i].value \div t[cell[XCC]][cell[Time] + 1].windows])]
Longest(t) == Max({Len(t[x]) : x \in DOMAIN t})
LinesOf(r) == [x \in 0 .. XccCount(r) - 1 |-> Timeline(r, x)]

(* The counters that are loaded, *)
LEMMA CountersAre ==
  ASSUME NEW r \in Captures, NEW t, NEW c \in DOMAIN Filled(r, t).counters
  PROVE  /\ c \in Counters
         /\ Filled(r, t).counters[c].shape = Append(Dimensions(r, c), Longest(t))
         /\ Filled(r, t).counters[c].at = CountedAt(r, c, t, Append(Dimensions(r, c), Longest(t)))
BY DEF Filled, Collected, CountedAt, Sampled, Longest

(* and the times of the samples. *)
LEMMA TimesOfFilled ==
  ASSUME NEW r, NEW t
  PROVE  Filled(r, t).times = [x \in DOMAIN t |-> [n \in DOMAIN t[x] |-> t[x][n].time]]
BY DEF Filled

(* A sequence, appended to. *)
LEMMA AppendIs ==
  ASSUME NEW S, NEW q \in Seq(S), NEW e \in S
  PROVE  /\ \A i \in 1 .. Len(q) : Append(q, e)[i] = q[i]
         /\ Append(q, e)[Len(q) + 1] = e
BY AppendProperties

(* The dimensions of a counter with the samples of a row, *)
LEMMA ShapeIs ==
  ASSUME NEW r \in Captures, NEW c \in Counters, NEW n \in Nat
  PROVE  LET d == Append(Dimensions(r, c), n) IN d \in [Axes -> Nat] /\ d[XCC] = XccCount(r) /\ d[Time] = n
<1> DEFINE d == Dimensions(r, c)
<1>1. Append(d, n) \in [Axes -> Nat]
  BY DimensionsAre
<1>2. Len(d) = 3 /\ d[1] = XccCount(r) /\ d \in Seq(Nat)
  BY DimensionsTyped
<1> HIDE DEF d
<1> DEFINE e == Append(d, n)
<1>3. (\A i \in 1 .. Len(d) : e[i] = d[i]) /\ e[Len(d) + 1] = n
  BY <1>2, AppendIs
<1> HIDE DEF e
<1>4. 1 \in 1 .. Len(d) /\ Len(d) + 1 = 4
  BY <1>2
<1>5. e[1] = d[1] /\ e[4] = n
  BY <1>3, <1>4
<1> QED BY <1>1, <1>2, <1>5 DEF d, e, XCC, Time

(* of which the last is as long as any row. *)
LEMMA LongestIs ==
  ASSUME NEW r \in Captures
  PROVE  Longest(LinesOf(r)) \in Nat /\ \A x \in 0 .. XccCount(r) - 1 : Len(Timeline(r, x)) <= Longest(LinesOf(r))
<1> DEFINE n == XccCount(r)
           f == [x \in 0 .. n - 1 |-> Len(Timeline(r, x))]
           S == {f[x] : x \in 0 .. n - 1}
<1>1. n \in Nat /\ n > 0
  BY XccCountIs
<1>2. 0 \in 0 .. n - 1 /\ IsFiniteSet(0 .. n - 1)
  <2> HIDE DEF n
  <2>1. 0 \in Int /\ n - 1 \in Int
    BY <1>1
  <2> QED BY <1>1, <2>1, FS_Interval
<1>3. \A x \in 0 .. n - 1 : f[x] \in Nat
  BY TimelineHas
<1>4. S = {Len(LinesOf(r)[x]) : x \in DOMAIN LinesOf(r)}
  BY DEF LinesOf
<1>5. \A x \in 0 .. n - 1 : f[x] = Len(Timeline(r, x)) /\ f[x] \in S
  OBVIOUS
<1>6. S # {} /\ \A e \in S : e \in Nat
  <2> HIDE DEF f
  <2> QED BY <1>2, <1>3
<1>7. IsFiniteSet(S)
  <2> HIDE DEF f
  <2> QED BY <1>2, FiniteImage
<1> HIDE DEF S, f
<1>8. Max(S) \in S /\ \A e \in S : e <= Max(S)
  BY <1>6, <1>7, MaxIs
<1>9. Max(S) = Longest(LinesOf(r))
  BY <1>4 DEF Longest
<1> QED BY <1>5, <1>6, <1>8, <1>9 DEF n

(* Then the sum of an instance over a row of samples is that over its       *)
(* records.                                                                *)
RowKept(r, c, x, s, u, shape) ==
  LET at == ExactAt(r, c, LinesOf(r), shape)
      cells == {v \in DOMAIN at : v[XCC] = x /\ v[SE] = s /\ v[CU] = u}
  IN  SumOver(at, cells) = Total([i \in Instance(r, c, x, s, u) |-> r[i].value])

(* It is, by samples and by records, the sum of one table. *)
LEMMA RowConserved ==
  ASSUME NEW r \in Captures, NEW c \in Counters, NEW x \in 0 .. XccCount(r) - 1,
         EvenOn(r, x),
         NEW shape, shape = Append(Dimensions(r, c), Longest(LinesOf(r))),
         NEW s \in 0 .. shape[SE] - 1, NEW u \in 0 .. shape[CU] - 1
  PROVE  RowKept(r, c, x, s, u, shape)
<1> DEFINE t == Timeline(r, x)
           L == Len(t)
           I == Instance(r, c, x, s, u)
           at == ExactAt(r, c, LinesOf(r), shape)
           cells == {v \in DOMAIN at : v[XCC] = x /\ v[SE] = s /\ v[CU] = u}
           cell == [n \in 1 .. L |-> <<x, s, u, n - 1>>]
           g == [n \in 1 .. L |-> [i \in I |-> Shares(r, t, i)[n]]]
           held(n) == t[n].group \cap I
           P == {n \in 1 .. L : held(n) # {}}
           rows == RowSums(g, 1 .. L, I)
           value == [i \in I |-> r[i].value]
<1>1. L \in Nat /\ DOMAIN t = 1 .. L /\ IsFiniteSet(1 .. L)
  <2>1. L \in Nat /\ DOMAIN t = 1 .. L
    BY TimelineHas
  <2>2. 1 \in Int /\ L \in Int
    BY <2>1
  <2> QED BY <2>1, <2>2, FS_Interval
<1>2. IsFiniteSet(I) /\ I \subseteq On(r, x) /\ I \subseteq DOMAIN r
  <2>1. I \in SUBSET DOMAIN r /\ I \subseteq On(r, x)
    BY DEF Instance, On
  <2>2. IsFiniteSet(DOMAIN r)
    BY RecordsAre
  <2> QED BY <2>1, <2>2, FS_Subset
<1>3. \A n \in 1 .. L : t[n].group \subseteq On(r, x)
  <2>1. PICK size, off : Windowed(t, r, x, size, off)
    BY TimelineHas
  <2> TAKE n \in 1 .. L
  <2>2. PICK k \in 1 .. Len(Times(r, x)) : \E w \in 1 .. size[k] : n = off[k] + w
    BY <2>1 DEF Windowed
  <2>3. t[n].group = Group(r, x, Times(r, x)[k])
    BY <2>1, <2>2, SMTT(30) DEF Windowed
  <2> HIDE DEF t
  <2> QED BY <2>3 DEF Group
<1>4. \A n \in 1 .. L : t[n].windows \in Nat \ {0}
  <2>1. PICK size, off : Windowed(t, r, x, size, off)
    BY TimelineHas
  <2> TAKE n \in 1 .. L
  <2>2. PICK k \in 1 .. Len(Times(r, x)) : \E w \in 1 .. size[k] : n = off[k] + w
    BY <2>1 DEF Windowed
  <2>3. t[n].windows = size[k] /\ size[k] \in Nat \ {0}
    BY <2>1, <2>2 DEF Windowed
  <2> HIDE DEF t
  <2> QED BY <2>3
<1>5. \A n \in 1 .. L : \A i \in I : g[n][i] \in Int /\ g[n][i] = IF i \in t[n].group THEN r[i].value \div t[n].windows ELSE 0
  <2> SUFFICES ASSUME NEW n \in 1 .. L, NEW i \in I
               PROVE  g[n][i] \in Int /\ g[n][i] = IF i \in t[n].group THEN r[i].value \div t[n].windows ELSE 0
    OBVIOUS
  <2>1. g[n][i] = IF i \in t[n].group THEN r[i].value \div t[n].windows ELSE 0
    BY DEF Shares
  <2>2. r[i].value \in Int /\ t[n].windows \in Nat \ {0}
    BY <1>2, <1>4, NumbersAre
  <2>3. r[i].value \div t[n].windows \in Int
    <3> DEFINE a == r[i].value
               b == t[n].windows
    <3> HIDE DEF a, b
    <3>1. a \in Int /\ b \in Nat \ {0}
      BY <2>2 DEF a, b
    <3>2. a \div b \in Int
      BY <3>1
    <3> QED BY <3>2 DEF a, b
  <2> HIDE DEF g
  <2> QED BY <2>1, <2>3
<1>6. ASSUME NEW n \in 1 .. L
      PROVE  /\ held(n) = Sampled(r, c, LinesOf(r), cell[n])
             /\ cell[n] \in Cells(shape) /\ cell[n][Time] < Len(LinesOf(r)[cell[n][XCC]])
             /\ LinesOf(r)[cell[n][XCC]][cell[n][Time] + 1] = t[n]
  <2>1. /\ cell[n][XCC] = x /\ cell[n][SE] = s /\ cell[n][CU] = u /\ cell[n][Time] = n - 1 /\ (n - 1) + 1 = n
        /\ n - 1 < L /\ n - 1 \in Nat
    BY <1>1 DEF XCC, SE, CU, Time
  <2>2. LinesOf(r)[x] = t
    BY DEF LinesOf
  <2>3. held(n) = Sampled(r, c, LinesOf(r), cell[n])
    <3> HIDE DEF cell, t
    <3> QED BY <1>3, <2>1, <2>2 DEF Sampled, Instance
  <2>4. cell[n] \in Cells(shape)
    <3>1. Longest(LinesOf(r)) \in Nat /\ L <= Longest(LinesOf(r))
      BY LongestIs
    <3>2. shape \in [Axes -> Nat] /\ shape[XCC] = XccCount(r) /\ shape[Time] = Longest(LinesOf(r))
      BY <3>1, ShapeIs
    <3>3. n - 1 \in 0 .. shape[Time] - 1
      <4> HIDE DEF L
      <4> QED BY <1>1, <2>1, <3>1, <3>2
    <3>4. x \in 0 .. shape[XCC] - 1
      BY <3>2
    <3>5. cell[n] = <<x, s, u, n - 1>>
      OBVIOUS
    <3> HIDE DEF cell, L
    <3> QED BY <3>3, <3>4, <3>5, CellHeld, ZenonT(40)
  <2> QED BY <2>1, <2>2, <2>3, <2>4
<1>7. cells = Image(cell, P)
  <2>1. ASSUME NEW v \in cells PROVE \E n \in P : v = cell[n]
    <3>1. v \in Cells(shape) /\ v[Time] < Len(LinesOf(r)[v[XCC]]) /\ Sampled(r, c, LinesOf(r), v) # {}
      BY DEF ExactAt
    <3>2. v[XCC] = x /\ v[SE] = s /\ v[CU] = u
      OBVIOUS
    <3> DEFINE k == v[Time]
    <3>3. v = <<v[XCC], v[SE], v[CU], v[Time]>> /\ v[Time] \in 0 .. shape[Time] - 1
      <4> HIDE DEF cells
      <4> QED BY <3>1, CellMade
    <3>4. v = <<x, s, u, k>> /\ k \in Nat
      <4>1. shape[Time] \in Int
        <5>1. Longest(LinesOf(r)) \in Nat
          BY LongestIs
        <5>2. Append(Dimensions(r, c), Longest(LinesOf(r)))[Time] = Longest(LinesOf(r))
          BY <5>1, ShapeIs, ZenonT(40)
        <5> QED BY <5>1, <5>2
      <4> HIDE DEF cells
      <4> QED BY <3>2, <3>3, <4>1
    <3> HIDE DEF k
    <3>5. LinesOf(r)[x] = t
      BY DEF LinesOf
    <3>6. k < L
      <4> HIDE DEF cells
      <4> QED BY <3>1, <3>2, <3>5 DEF k
    <3>7. k + 1 \in 1 .. L /\ (k + 1) - 1 = k
      <4> HIDE DEF L
      <4> QED BY <1>1, <3>4, <3>6
    <3>8. v = cell[k + 1]
      <4> HIDE DEF L
      <4> QED BY <3>4, <3>7
    <3>9. held(k + 1) # {}
      <4> HIDE DEF cell, held, L, cells
      <4> QED BY <1>6, <3>1, <3>7, <3>8
    <3> HIDE DEF cell, held, L, cells
    <3> QED BY <3>7, <3>8, <3>9
  <2>2. ASSUME NEW n \in P PROVE cell[n] \in cells
    <3>1. n \in 1 .. L /\ held(n) # {}
      OBVIOUS
    <3>2. cell[n][XCC] = x /\ cell[n][SE] = s /\ cell[n][CU] = u
      BY <3>1 DEF XCC, SE, CU
    <3> HIDE DEF held, cell, L
    <3>3. cell[n] \in DOMAIN at
      BY <1>6, <3>1 DEF ExactAt
    <3> QED BY <3>2, <3>3
  <2> HIDE DEF cells, P, cell
  <2> QED BY <2>1, <2>2 DEF Image
<1>8. ASSUME NEW n \in 1 .. L
      PROVE  /\ rows[n] \in Int
             /\ n \in P => at[cell[n]] = rows[n]
             /\ n \notin P => rows[n] = 0
  <2>1. rows[n] = SumOver(g[n], I)
    BY DEF RowSums
  <2>2. \A i \in I : g[n][i] \in Int
    BY <1>5
  <2>3. \A i \in I \ held(n) : g[n][i] = 0
    <3> HIDE DEF g
    <3> QED BY <1>5
  <2>4. held(n) \in SUBSET I /\ IsFiniteSet(held(n))
    <3>1. held(n) \in SUBSET I
      OBVIOUS
    <3> HIDE DEF held, I
    <3> QED BY <1>2, <3>1, FS_Subset
  <2> DEFINE share == [i \in held(n) |-> r[i].value \div t[n].windows]
  <2>5. \A i \in held(n) : g[n][i] = share[i]
    <3> HIDE DEF g
    <3> QED BY <1>5
  <2>6. ASSUME n \in P PROVE at[cell[n]] = SumOver(share, held(n))
    <3>1. held(n) # {}
      BY <2>6, SMTT(30)
    <3> HIDE DEF cell
    <3>2. at[cell[n]] = Total([i \in Sampled(r, c, LinesOf(r), cell[n]) |->
                                r[i].value \div LinesOf(r)[cell[n][XCC]][cell[n][Time] + 1].windows])
      <4> HIDE DEF held
      <4> QED BY <1>6, <3>1, ZenonT(40) DEF ExactAt
    <3>3. at[cell[n]] = Total(share)
      <4> HIDE DEF held, at
      <4> QED BY <1>6, <3>2
    <3>4. DOMAIN share = held(n)
      OBVIOUS
    <3> HIDE DEF share, held, at
    <3> QED BY <3>3, <3>4, Zenon DEF Total, SumOver
  <2> HIDE DEF rows, g, I, held, share
  <2>7. SumOver(g[n], I) = SumOver(g[n], held(n))
    BY <1>2, <2>2, <2>3, <2>4, SumSupport
  <2>8. SumOver(g[n], held(n)) = SumOver(share, held(n))
    BY <2>4, <2>5, SumAgrees
  <2>9. rows[n] \in Int
    BY <1>2, <2>1, <2>2, SumType
  <2>10. n \notin P => rows[n] = 0
    <3>1. SumOver(g[n], {}) = 0
      BY SumEmpty
    <3>2. n \notin P => held(n) = {}
      OBVIOUS
    <3> QED BY <2>1, <2>7, <3>1, <3>2
  <2>11. n \in P => at[cell[n]] = rows[n]
    BY <2>1, <2>6, <2>7, <2>8
  <2> QED BY <2>9, <2>10, <2>11
<1>9. SumOver(at, cells) = SumOver(rows, P)
  <2>1. Renames(cell, P, at, rows)
    <3>1. \A a, b \in P : cell[a] = cell[b] => a = b
      OBVIOUS
    <3>2. \A a \in P : a \in 1 .. L
      OBVIOUS
    <3> HIDE DEF cell, P, at, rows
    <3> QED BY <1>8, <3>1, <3>2 DEF Renames
  <2>2. IsFiniteSet(P)
    <3>1. P \in SUBSET (1 .. L)
      OBVIOUS
    <3> HIDE DEF P
    <3> QED BY <1>1, <3>1, FS_Subset
  <2> HIDE DEF cell, P, at, rows, cells
  <2> QED BY <1>7, <2>1, <2>2, SumImage
<1>10. SumOver(rows, 1 .. L) = SumOver(rows, P)
  <2>1. P \in SUBSET (1 .. L)
    OBVIOUS
  <2>2. \A n \in 1 .. L : rows[n] \in Int
    BY <1>8
  <2>3. \A n \in (1 .. L) \ P : rows[n] = 0
    BY <1>8
  <2> HIDE DEF P, rows, L
  <2> QED BY <1>1, <2>1, <2>2, <2>3, SumSupport
<1> DEFINE columns == Columns(g, 1 .. L, I)
<1>11. SumOver(rows, 1 .. L) = SumOver(RowSums(columns, I, 1 .. L), I)
  <2>1. \A n \in 1 .. L, i \in I : g[n][i] \in Int
    BY <1>5
  <2> HIDE DEF g, I, L
  <2> QED BY <1>1, <1>2, <2>1, SumExchanged, ZenonT(40)
<1>12. ASSUME NEW i \in I PROVE RowSums(columns, I, 1 .. L)[i] = value[i]
  <2>1. RowSums(columns, I, 1 .. L)[i] = SumOver(columns[i], 1 .. L)
    BY DEF RowSums
  <2>2. \A n \in 1 .. L : columns[i][n] = Shares(r, t, i)[n]
    BY DEF Columns
  <2> HIDE DEF columns
  <2>3. SumOver(columns[i], 1 .. L) = SumOver(Shares(r, t, i), 1 .. L)
    BY <1>1, <2>2, SumAgrees
  <2>4. SumOver(Shares(r, t, i), 1 .. L) = r[i].value
    BY <1>2, SharesAre
  <2>5. value[i] = r[i].value
    OBVIOUS
  <2> QED BY <2>1, <2>3, <2>4, <2>5
<1>13. SumOver(RowSums(columns, I, 1 .. L), I) = SumOver(value, I)
  <2> HIDE DEF columns, value, I
  <2> QED BY <1>2, <1>12, SumAgrees
<1>14. SumOver(value, I) = Total(value)
  <2>1. DOMAIN value = I
    OBVIOUS
  <2> HIDE DEF value, I
  <2> QED BY <2>1, Zenon DEF Total, SumOver
<1>15. SumOver(at, cells) = Total(value)
  BY <1>9, <1>10, <1>11, <1>13, <1>14
<1> QED BY <1>15, Zenon DEF RowKept

(* A total is the sum over the domain of a function. *)
LEMMA TotalIs == \A f : Total(f) = SumOver(f, DOMAIN f)
BY Zenon DEF Total, SumOver

(* A capture is loaded in one way. *)
LEMMA LoadedOnly == \A r, s : s \in Loaded(r) <=> s = Filled(r, LinesOf(r))
BY DEF Loaded, LinesOf

(* The cells of a shape are finitely many. *)
LEMMA CellsFinite ==
  ASSUME NEW s \in [Axes -> Nat]
  PROVE  IsFiniteSet(Cells(s))
<1> DEFINE F == [Axes -> Nat]
           R(a) == 0 .. s[a] - 1
           P == (R(XCC) \X R(SE)) \X (R(CU) \X R(Time))
           cell == [p \in P |-> <<p[1][1], p[1][2], p[2][1], p[2][2]>>]
<1>1. IsFiniteSet(R(XCC)) /\ IsFiniteSet(R(SE)) /\ IsFiniteSet(R(CU)) /\ IsFiniteSet(R(Time))
  <2>1. \A a \in Axes : s[a] \in Nat
    OBVIOUS
  <2>2. \A a \in Axes : 0 \in Int /\ s[a] - 1 \in Int
    BY <2>1
  <2>3. \A a \in Axes : IsFiniteSet(R(a))
    BY <2>2, FS_Interval
  <2> QED BY <2>3 DEF Axes, XCC, SE, CU, Time
<1>2. IsFiniteSet(P)
  <2> HIDE DEF R
  <2>1. IsFiniteSet(R(XCC) \X R(SE)) /\ IsFiniteSet(R(CU) \X R(Time))
    BY <1>1, FS_Product
  <2> QED BY <2>1, FS_Product
<1>3. Cells(s) = {cell[p] : p \in P}
  <2>1. ASSUME NEW v \in Cells(s) PROVE \E p \in P : v = cell[p]
    <3>1. PICK x \in R(XCC), e \in R(SE), c \in R(CU), n \in R(Time) : v = <<x, e, c, n>>
      BY DEF Cells
    <3>2. <<<<x, e>>, <<c, n>>>> \in P
      OBVIOUS
    <3>3. v = cell[<<<<x, e>>, <<c, n>>>>]
      BY <3>1, <3>2
    <3> QED BY <3>2, <3>3
  <2>2. ASSUME NEW p \in P PROVE cell[p] \in Cells(s)
    <3>1. p[1][1] \in R(XCC) /\ p[1][2] \in R(SE) /\ p[2][1] \in R(CU) /\ p[2][2] \in R(Time)
      OBVIOUS
    <3>2. <<p[1][1], p[1][2], p[2][1], p[2][2]>> \in Cells(s)
      BY <3>1, CellHeld
    <3> QED BY <3>2
  <2> HIDE DEF P, cell
  <2> QED BY <2>1, <2>2
<1> HIDE DEF P, cell
<1> QED BY <1>2, <1>3, FiniteImage

(* Samples of a capture have windows and whole numbers of records. *)
LEMMA SampleIs ==
  ASSUME NEW r \in Captures, NEW x, NEW n \in 1 .. Len(Timeline(r, x))
  PROVE  /\ Timeline(r, x)[n].windows \in Nat \ {0}
         /\ Timeline(r, x)[n].group \subseteq DOMAIN r /\ Timeline(r, x)[n].group \subseteq On(r, x)
<1> DEFINE t == Timeline(r, x)
<1>1. PICK size, off : Windowed(t, r, x, size, off)
  BY TimelineHas
<1>2. PICK k \in 1 .. Len(Times(r, x)) : \E w \in 1 .. size[k] : n = off[k] + w
  BY <1>1 DEF Windowed
<1>3. t[n].group = Group(r, x, Times(r, x)[k]) /\ t[n].windows = size[k] /\ size[k] \in Nat \ {0}
  BY <1>1, <1>2, SMTT(30) DEF Windowed
<1> HIDE DEF t
<1>4. t[n].group \subseteq DOMAIN r /\ t[n].group \subseteq On(r, x)
  BY <1>3 DEF Group, On
<1> QED BY <1>3, <1>4 DEF t

(* The records in a cell of a counter, and their windows. *)
LEMMA CellIs ==
  ASSUME NEW r \in Captures, NEW c \in Counters, NEW n \in Nat,
         NEW v \in DOMAIN CountedAt(r, c, LinesOf(r), Append(Dimensions(r, c), n))
  PROVE  /\ IsFiniteSet(Sampled(r, c, LinesOf(r), v))
         /\ Sampled(r, c, LinesOf(r), v) \subseteq Instance(r, c, v[XCC], v[SE], v[CU])
         /\ LinesOf(r)[v[XCC]][v[Time] + 1].windows \in Nat \ {0}
<1> DEFINE shape == Append(Dimensions(r, c), n)
           t == LinesOf(r)
           line == t[v[XCC]]
           k == v[Time] + 1
           I == Sampled(r, c, t, v)
<1>1. v \in Cells(shape) /\ v[Time] < Len(line)
  BY DEF CountedAt
<1>2. shape \in [Axes -> Nat] /\ shape[XCC] = XccCount(r)
  BY ShapeIs
<1> HIDE DEF shape
<1>3. v \in [Axes -> Nat] /\ v[XCC] < shape[XCC] /\ XCC \in Axes /\ Time \in Axes
  BY <1>1, <1>2, CellsAre DEF Axes, XCC, Time
<1>4. v[XCC] \in Nat /\ v[Time] \in Nat /\ XccCount(r) \in Nat
  BY <1>3, XccCountIs
<1>5. v[XCC] \in 0 .. XccCount(r) - 1
  BY <1>2, <1>3, <1>4
<1>6. line = Timeline(r, v[XCC])
  BY <1>5 DEF LinesOf
<1> HIDE DEF line, t
<1>7. k \in 1 .. Len(line)
  <2>1. Len(line) \in Nat
    BY <1>6, TimelineHas
  <2> QED BY <1>1, <1>4, <2>1
<1> HIDE DEF k
<1>8. line[k].windows \in Nat \ {0} /\ line[k].group \subseteq DOMAIN r /\ line[k].group \subseteq On(r, v[XCC])
  BY <1>6, <1>7, SampleIs
<1>9. I \in SUBSET DOMAIN r
  BY <1>8 DEF Sampled, k, line
<1>10. I \subseteq Instance(r, c, v[XCC], v[SE], v[CU])
  BY <1>8 DEF Sampled, Instance, k, line
<1>11. IsFiniteSet(I)
  <2>1. IsFiniteSet(DOMAIN r)
    BY RecordsAre
  <2> HIDE DEF I
  <2> QED BY <1>9, <2>1, FS_Subset
<1> QED BY <1>8, <1>10, <1>11 DEF t, line, k

(* A multiple is no nearer to zero. *)
LEMMA MultipleIs ==
  ASSUME NEW x \in Int, NEW b \in Nat \ {0}
  PROVE  b * x \in Int /\ (0 <= x => x <= b * x) /\ (x <= 0 => b * x <= x)
OBVIOUS

(* A share is a number, and exact and no larger than what it is a share of *)
(* if that is not too large.                                               *)
LEMMA ShareIs ==
  ASSUME NEW a \in Int, NEW b \in Nat \ {0}
  PROVE  /\ Share(a, b) \in Int
         /\ Magnitude(a) < Precision => Share(a, b) = a \div b /\ Magnitude(a \div b) <= Magnitude(a)
<1>1. Float(a) \in Int
  BY FloatType
<1>2. Float(a) \div b \in Int
  BY <1>1, QuotientIs
<1>3. Share(a, b) \in Int
  BY <1>2, FloatType DEF Share
<1>4. ASSUME Magnitude(a) < Precision PROVE Share(a, b) = a \div b /\ Magnitude(a \div b) <= Magnitude(a)
  <2> DEFINE q == a \div b
  <2>1. q \in Int /\ b * q <= a /\ a < b * q + b
    BY QuotientIs
  <2> HIDE DEF q
  <2>2. Precision \in Nat
    BY FloatAssumption
  <2>3. /\ b * q \in Int /\ (0 <= q => q <= b * q)
        /\ (q + 1 <= 0 => b * (q + 1) <= q + 1) /\ b * (q + 1) = b * q + b
    <3>1. b * q \in Int /\ (0 <= q => q <= b * q)
      BY <2>1, MultipleIs
    <3>2. q + 1 \in Int
      BY <2>1
    <3>3. q + 1 <= 0 => b * (q + 1) <= q + 1
      BY <3>2, MultipleIs
    <3>4. b * (q + 1) = b * q + b
      BY <2>1
    <3> QED BY <3>1, <3>3, <3>4
  <2> DEFINE low == b * q
             next == b * (q + 1)
  <2>4. Magnitude(q) <= Magnitude(a)
    <3>1. low \in Int /\ next = low + b /\ low <= a /\ a < next
      BY <2>1, <2>3
    <3>2. (0 <= q => q <= low) /\ (q + 1 <= 0 => next <= q + 1)
      BY <2>3
    <3> HIDE DEF low, next
    <3> QED BY <2>1, <3>1, <3>2 DEF Magnitude
  <2>5. Magnitude(q) <= Magnitude(a) /\ Magnitude(q) \in Int /\ Magnitude(a) \in Int
    <3>1. Magnitude(q) <= Magnitude(a)
      BY <2>4
    <3> QED BY <2>1, <3>1 DEF Magnitude
  <2>6. Float(a) = a /\ Magnitude(q) < Precision
    <3>1. Float(a) = a
      BY <1>4, FloatExact
    <3> QED BY <1>4, <2>2, <2>5, <3>1
  <2>7. Float(q) = q
    BY <2>1, <2>6, FloatExact
  <2>8. Share(a, b) = q
    BY <2>6, <2>7 DEF Share, q
  <2> QED BY <2>5, <2>8 DEF q
<1> QED BY <1>3, <1>4

(* What is counted in a sample is a number. *)
LEMMA CountIs ==
  ASSUME NEW r \in Captures, NEW c \in Counters, NEW n \in Nat,
         NEW v \in DOMAIN CountedAt(r, c, LinesOf(r), Append(Dimensions(r, c), n))
  PROVE  CountedAt(r, c, LinesOf(r), Append(Dimensions(r, c), n))[v] \in Int
<1> DEFINE shape == Append(Dimensions(r, c), n)
           t == LinesOf(r)
           b == t[v[XCC]][v[Time] + 1].windows
           I == Sampled(r, c, t, v)
           share == [i \in I |-> Share(r[i].value, b)]
<1>1. CountedAt(r, c, t, shape)[v] = FloatSum(share)
  BY DEF CountedAt
<1>2. IsFiniteSet(I) /\ b \in Nat \ {0} /\ I \subseteq Instance(r, c, v[XCC], v[SE], v[CU])
  BY CellIs
<1>3. \A i \in I : i \in DOMAIN r /\ i \in Int /\ r[i].value \in Int
  <2>1. \A i \in I : i \in DOMAIN r
    BY <1>2 DEF Instance, On
  <2>2. \A i \in DOMAIN r : i \in Int /\ r[i].value \in Int
    BY NumbersAre, RecordsAre
  <2> QED BY <2>1, <2>2
<1> HIDE DEF I, b, shape, t
<1>4. ASSUME NEW i \in I PROVE share[i] \in Int
  <2>1. share[i] = Share(r[i].value, b)
    OBVIOUS
  <2> HIDE DEF share
  <2> QED BY <1>2, <1>3, <2>1, ShareIs
<1>5. DOMAIN share = I
  OBVIOUS
<1> HIDE DEF share
<1>6. Addends(share)
  BY <1>2, <1>3, <1>4, <1>5 DEF Addends
<1> QED BY <1>1, <1>6, FloatSumType DEF shape, t

(* What the records of an instance count in all, whatever the sign. *)
Counted(r, J) == SumOver([i \in J |-> Magnitude(r[i].value)], J)

(* If that is not too large, each of its cells is exact. *)
LEMMA CellExact ==
  ASSUME NEW r \in Captures, NEW c \in Counters, NEW n \in Nat,
         NEW v \in DOMAIN CountedAt(r, c, LinesOf(r), Append(Dimensions(r, c), n)),
         Counted(r, Instance(r, c, v[XCC], v[SE], v[CU])) < Precision
  PROVE  CountedAt(r, c, LinesOf(r), Append(Dimensions(r, c), n))[v]
           = ExactAt(r, c, LinesOf(r), Append(Dimensions(r, c), n))[v]
<1> DEFINE shape == Append(Dimensions(r, c), n)
           t == LinesOf(r)
           b == t[v[XCC]][v[Time] + 1].windows
           I == Sampled(r, c, t, v)
           J == Instance(r, c, v[XCC], v[SE], v[CU])
           share == [i \in I |-> Share(r[i].value, b)]
           exact == [i \in I |-> r[i].value \div b]
           m == [i \in J |-> Magnitude(r[i].value)]
<1>1. CountedAt(r, c, t, shape)[v] = FloatSum(share) /\ ExactAt(r, c, t, shape)[v] = Total(exact)
  BY DEF CountedAt, ExactAt
<1>2. IsFiniteSet(I) /\ b \in Nat \ {0} /\ I \in SUBSET J
  BY CellIs
<1>3. J \in SUBSET DOMAIN r
  BY DEF Instance, On
<1>4. IsFiniteSet(J) /\ \A i \in J : i \in Int /\ r[i].value \in Int
  <2>1. IsFiniteSet(DOMAIN r) /\ \A i \in DOMAIN r : i \in Int /\ r[i].value \in Int
    BY NumbersAre, RecordsAre
  <2> HIDE DEF J
  <2> QED BY <1>3, <2>1, FS_Subset
<1>5. SumOver(m, J) < Precision /\ Precision \in Nat
  BY FloatAssumption DEF Counted
<1> HIDE DEF I, J, b, shape, t
<1>6. \A i \in J : m[i] = Magnitude(r[i].value) /\ m[i] \in Nat
  BY <1>4 DEF Magnitude
<1> HIDE DEF m
<1>7. SumOver(m, J) \in Nat /\ \A i \in J : m[i] <= SumOver(m, J)
  BY <1>4, <1>6, SumBounds
<1>8. SumOver(m, I) <= SumOver(m, J) /\ SumOver(m, I) \in Nat
  <2>1. \A i \in I : m[i] \in Nat
    BY <1>2, <1>6
  <2>2. SumOver(m, I) \in Nat
    BY <1>2, <2>1, SumBounds
  <2> QED BY <1>2, <1>4, <1>6, <2>2, SumOfPart
<1>9. ASSUME NEW i \in I
      PROVE  share[i] = exact[i] /\ share[i] \in Int /\ Magnitude(share[i]) <= m[i]
  <2>1. share[i] = Share(r[i].value, b) /\ exact[i] = r[i].value \div b
    OBVIOUS
  <2>2. i \in J /\ r[i].value \in Int /\ m[i] = Magnitude(r[i].value)
    BY <1>2, <1>4, <1>6
  <2>3. Magnitude(r[i].value) < Precision
    BY <1>5, <1>6, <1>7, <2>2
  <2>4. Share(r[i].value, b) \in Int /\ Share(r[i].value, b) = r[i].value \div b
        /\ Magnitude(r[i].value \div b) <= Magnitude(r[i].value)
    BY <1>2, <2>2, <2>3, ShareIs
  <2> HIDE DEF share, exact
  <2> QED BY <2>1, <2>2, <2>4
<1>10. DOMAIN share = I /\ DOMAIN exact = I
  OBVIOUS
<1> HIDE DEF share, exact
<1>11. Addends(share)
  BY <1>2, <1>4, <1>9, <1>10 DEF Addends
<1>12. \A i \in DOMAIN share : m[i] \in Nat /\ Magnitude(share[i]) <= m[i]
  BY <1>2, <1>6, <1>9, <1>10
<1>13. SumOver(m, DOMAIN share) < Precision
  BY <1>5, <1>7, <1>8, <1>10
<1>14. FloatSum(share) = SumOver(share, I)
  BY <1>10, <1>11, <1>12, <1>13, FloatSumExact
<1>15. SumOver(share, I) = SumOver(exact, I)
  BY <1>2, <1>9, SumAgrees
<1>16. Total(exact) = SumOver(exact, I)
  BY <1>10, TotalIs
<1> QED BY <1>1, <1>14, <1>15, <1>16, SMTT(30) DEF shape, t

(* No count is lost or made up. *)
LEMMA CountKept ==
  ASSUME NEW r \in Captures, NEW x \in 0 .. XccCount(r) - 1,
         EvenOn(r, x),
         NEW c \in DOMAIN Filled(r, LinesOf(r)).counters,
         NEW s \in 0 .. Filled(r, LinesOf(r)).counters[c].shape[SE] - 1,
         NEW u \in 0 .. Filled(r, LinesOf(r)).counters[c].shape[CU] - 1,
         Counted(r, Instance(r, c, x, s, u)) < Precision
  PROVE  LET at == Filled(r, LinesOf(r)).counters[c].at
             cells == {v \in DOMAIN at : v[XCC] = x /\ v[SE] = s /\ v[CU] = u}
         IN  Total([v \in cells |-> at[v]]) = Total([i \in Instance(r, c, x, s, u) |-> r[i].value])
<1> DEFINE shape == Append(Dimensions(r, c), Longest(LinesOf(r)))
           at == CountedAt(r, c, LinesOf(r), shape)
           cells == {v \in DOMAIN at : v[XCC] = x /\ v[SE] = s /\ v[CU] = u}
           part == [v \in cells |-> at[v]]
           exact == ExactAt(r, c, LinesOf(r), shape)
<1>1. c \in Counters /\ Filled(r, LinesOf(r)).counters[c].shape = shape /\ Filled(r, LinesOf(r)).counters[c].at = at
  BY CountersAre
<1>2. s \in 0 .. shape[SE] - 1 /\ u \in 0 .. shape[CU] - 1
  BY <1>1
<1>3. SumOver(exact, cells) = Total([i \in Instance(r, c, x, s, u) |-> r[i].value])
  <2> HIDE DEF shape
  <2>1. shape = Append(Dimensions(r, c), Longest(LinesOf(r)))
    BY DEF shape
  <2>2. RowKept(r, c, x, s, u, shape)
    BY <1>1, <1>2, <2>1, RowConserved
  <2>3. DOMAIN exact = DOMAIN at
    BY DEF ExactAt, CountedAt
  <2> QED BY <2>2, <2>3, Zenon DEF RowKept
<1>4. IsFiniteSet(cells)
  <2>1. Longest(LinesOf(r)) \in Nat
    BY LongestIs
  <2>2. shape \in [Axes -> Nat]
    BY <1>1, <2>1, ShapeIs
  <2>3. IsFiniteSet(Cells(shape))
    <3> HIDE DEF shape
    <3> QED BY <2>2, CellsFinite
  <2>4. cells \in SUBSET Cells(shape)
    BY DEF CountedAt
  <2> HIDE DEF cells, shape
  <2> QED BY <2>3, <2>4, FS_Subset
<1>5. DOMAIN part = cells /\ \A v \in cells : part[v] = at[v]
  OBVIOUS
<1>6. \A v \in cells : part[v] = exact[v]
  <2> TAKE v \in cells
  <2>1. v \in DOMAIN at /\ v[XCC] = x /\ v[SE] = s /\ v[CU] = u
    OBVIOUS
  <2>2. Longest(LinesOf(r)) \in Nat
    BY LongestIs
  <2>3. at[v] = exact[v]
    <3> HIDE DEF cells, part
    <3> QED BY <1>1, <2>1, <2>2, CellExact
  <2> QED BY <1>5, <2>3
<1>7. Total(part) = SumOver(exact, cells)
  <2> HIDE DEF part, cells, at, exact
  <2> QED BY <1>4, <1>5, <1>6, TotalIs, SumAgrees
<1> QED BY <1>1, <1>3, <1>7
-------------------------------------------------------------------------------
(* The clock of an XCC. *)

(* The rows of a capture and their times. *)
LEMMA TimesAt ==
  ASSUME NEW r \in Captures, NEW x
  PROVE  /\ DOMAIN Filled(r, LinesOf(r)).times = 0 .. XccCount(r) - 1
         /\ x \in 0 .. XccCount(r) - 1 =>
              /\ DOMAIN Filled(r, LinesOf(r)).times[x] = 1 .. Len(Timeline(r, x))
              /\ Len(Filled(r, LinesOf(r)).times[x]) = Len(Timeline(r, x))
              /\ \A n \in 1 .. Len(Timeline(r, x)) : Filled(r, LinesOf(r)).times[x][n] = Timeline(r, x)[n].time
<1> DEFINE t == LinesOf(r)
           times == [y \in DOMAIN t |-> [n \in DOMAIN t[y] |-> t[y][n].time]]
<1>1. Filled(r, t).times = times
  BY TimesOfFilled
<1>2. DOMAIN times = 0 .. XccCount(r) - 1
  BY DEF LinesOf
<1>3. ASSUME x \in 0 .. XccCount(r) - 1
      PROVE  /\ DOMAIN times[x] = 1 .. Len(Timeline(r, x)) /\ Len(times[x]) = Len(Timeline(r, x))
             /\ \A n \in 1 .. Len(Timeline(r, x)) : times[x][n] = Timeline(r, x)[n].time
  <2>1. t[x] = Timeline(r, x) /\ x \in DOMAIN t
    BY <1>3 DEF LinesOf
  <2>2. Len(Timeline(r, x)) \in Nat /\ DOMAIN Timeline(r, x) = 1 .. Len(Timeline(r, x))
    BY TimelineHas
  <2>3. times[x] = [n \in 1 .. Len(Timeline(r, x)) |-> Timeline(r, x)[n].time]
    BY <2>1, <2>2
  <2>4. DOMAIN times[x] = 1 .. Len(Timeline(r, x)) /\ \A n \in 1 .. Len(Timeline(r, x)) : times[x][n] = Timeline(r, x)[n].time
    BY <2>3
  <2> HIDE DEF times
  <2>5. Len(times[x]) = Len(Timeline(r, x))
    BY <2>2, <2>4, LengthIs
  <2> QED BY <2>4, <2>5
<1> QED BY <1>1, <1>2, <1>3

(* The counts and times of a capture that is true to its records. *)
LEMMA CountsConservedIs ==
  ASSUME records \in Captures,
         spm.counters = Filled(records, LinesOf(records)).counters, spm.times = Filled(records, LinesOf(records)).times
  PROVE  CountsConserved
<1> DEFINE F == Filled(records, LinesOf(records))
<1>1. ASSUME NEW x \in DOMAIN spm.times PROVE x \in 0 .. XccCount(records) - 1
  BY TimesAt
<1>2. ASSUME NEW x \in DOMAIN spm.times, NEW n \in 2 .. Len(spm.times[x])
      PROVE  spm.times[x][n - 1] <= spm.times[x][n]
  <2> DEFINE t == Timeline(records, x)
  <2>1. Len(t) \in Nat
    BY TimelineHas
  <2>2. Len(spm.times[x]) = Len(t) /\ \A k \in 1 .. Len(t) : spm.times[x][k] = t[k].time
    BY <1>1, TimesAt
  <2>3. n \in 2 .. Len(t) /\ n \in 1 .. Len(t) /\ n - 1 \in 1 .. Len(t)
    BY <2>1, <2>2
  <2>4. t[n - 1].time <= t[n].time
    BY <2>3, SamplesInOrder
  <2> QED BY <2>2, <2>3, <2>4
<1>3. ASSUME NEW x \in DOMAIN spm.times, Even(Timeline(records, x)), NEW c \in DOMAIN spm.counters,
             NEW s \in 0 .. spm.counters[c].shape[SE] - 1, NEW u \in 0 .. spm.counters[c].shape[CU] - 1,
             Total([i \in {j \in Of(records, c) \cap On(records, x) : records[j].se = s /\ records[j].cu = u} |->
                      Magnitude(records[i].value)]) < Precision
      PROVE  LET at == spm.counters[c].at
                 cells == {v \in DOMAIN at : v[XCC] = x /\ v[SE] = s /\ v[CU] = u}
                 counted == {i \in Of(records, c) \cap On(records, x) : records[i].se = s /\ records[i].cu = u}
             IN  Total([v \in cells |-> at[v]]) = Total([i \in counted |-> records[i].value])
  <2>1. EvenOn(records, x)
    BY <1>3 DEF Even, EvenOn
  <2>2. x \in 0 .. XccCount(records) - 1
    BY <1>1
  <2>3. c \in DOMAIN F.counters /\ s \in 0 .. F.counters[c].shape[SE] - 1 /\ u \in 0 .. F.counters[c].shape[CU] - 1
    OBVIOUS
  <2>0. Instance(records, c, x, s, u) = {i \in Of(records, c) \cap On(records, x) : records[i].se = s /\ records[i].cu = u}
    BY DEF Instance
  <2> DEFINE m == [i \in Instance(records, c, x, s, u) |-> Magnitude(records[i].value)]
  <2>5. Counted(records, Instance(records, c, x, s, u)) < Precision
    <3>1. Total(m) < Precision
      BY <1>3, <2>0
    <3>2. DOMAIN m = Instance(records, c, x, s, u)
      OBVIOUS
    <3>3. Total(m) = SumOver(m, Instance(records, c, x, s, u))
      <4> HIDE DEF m
      <4> QED BY <3>2, TotalIs
    <3> QED BY <3>1, <3>3 DEF Counted
  <2>4. LET at == F.counters[c].at
            cells == {v \in DOMAIN at : v[XCC] = x /\ v[SE] = s /\ v[CU] = u}
        IN  Total([v \in cells |-> at[v]]) = Total([i \in Instance(records, c, x, s, u) |-> records[i].value])
    BY <2>1, <2>2, <2>3, <2>5, CountKept
  <2> QED BY <2>0, <2>4
<1> QED BY <1>2, <1>3 DEF CountsConserved

(* The least of a range is its first. *)
LEMMA MinIs ==
  ASSUME NEW m \in Int, NEW n \in Int, m <= n
  PROVE  Min(m .. n) = m
<1>1. m \in m .. n /\ \A x \in m .. n : m <= x
  OBVIOUS
<1>2. \A x \in m .. n : (\A y \in m .. n : x <= y) => x = m
  OBVIOUS
<1>3. \E x \in m .. n : \A y \in m .. n : x <= y
  BY <1>1
<1>4. Min(m .. n) \in m .. n /\ \A y \in m .. n : Min(m .. n) <= y
  BY <1>3, Zenon DEF Min
<1> QED BY <1>2, <1>4

(* There are n numbers from 1 to n. *)
LEMMA CardinalityOfFirst ==
  ASSUME NEW n \in Nat
  PROVE  Cardinality(1 .. n) = n
<1>1. 1 \in Int /\ n \in Int
  OBVIOUS
<1>2. Cardinality(1 .. n) = IF 1 > n THEN 0 ELSE n - 1 + 1
  BY <1>1, FS_Interval
<1> QED BY <1>2

(* The interval of an anchor is the one that holds its time. *)
LEMMA IntervalIs ==
  ASSUME NEW L \in Nat, L > 1, NEW t, Len(t) = L, DOMAIN t = 1 .. L,
         \A n \in 1 .. L : t[n] \in Int, \A n \in 2 .. L : t[n - 1] <= t[n], NEW a \in Int
  PROVE  LET p == Nearest(t, a)
             past == {n \in 2 .. L : a <= t[n]}
             i == IF past = {} THEN L ELSE Min(past)
         IN  i \in 2 .. L /\ AnchorInterval(t, p, a) = i /\ p \in {i - 1, i}
<1> DEFINE B == {n \in DOMAIN t : t[n] < a}
           b == Cardinality(B)
           p == Nearest(t, a)
           past == {n \in 2 .. L : a <= t[n]}
           i == IF past = {} THEN L ELSE Min(past)
<1>1. \A k \in 1 .. L : \A j \in 1 .. k : t[j] <= t[k]
  <2> DEFINE G == {k \in Nat : k + 1 <= L => \A j \in 1 .. k + 1 : t[j] <= t[k + 1]}
  <2>1. 0 \in G
    <3>1. \A j \in 1 .. 0 + 1 : j = 1
      OBVIOUS
    <3>2. t[1] <= t[1]
      OBVIOUS
    <3> QED BY <3>1, <3>2
  <2>2. ASSUME NEW k \in Nat, k \in G PROVE k + 1 \in G
    <3> SUFFICES ASSUME (k + 1) + 1 <= L, NEW j \in 1 .. (k + 1) + 1 PROVE t[j] <= t[(k + 1) + 1]
      OBVIOUS
    <3>1. k + 1 \in 1 .. L /\ (k + 1) + 1 \in 1 .. L /\ (k + 1) + 1 \in 2 .. L /\ ((k + 1) + 1) - 1 = k + 1
      OBVIOUS
    <3>2. t[k + 1] <= t[(k + 1) + 1] /\ t[k + 1] \in Int /\ t[(k + 1) + 1] \in Int /\ t[j] \in Int
      <4>1. j \in 1 .. L
        BY <3>1
      <4>2. t[((k + 1) + 1) - 1] <= t[(k + 1) + 1]
        BY <3>1
      <4> QED BY <3>1, <4>1, <4>2
    <3>3. CASE j = (k + 1) + 1
      BY <3>2, <3>3
    <3>4. CASE j # (k + 1) + 1
      <4>1. j \in 1 .. k + 1
        BY <3>4
      <4>2. t[j] <= t[k + 1]
        BY <2>2, <3>1, <4>1
      <4> QED BY <3>2, <4>2
    <3> QED BY <3>3, <3>4
  <2> HIDE DEF G
  <2>3. Nat \subseteq G
    BY <2>1, <2>2, Induction
  <2> USE DEF G
  <2>4. ASSUME NEW k \in 1 .. L, NEW j \in 1 .. k PROVE t[j] <= t[k]
    <3>1. k - 1 \in Nat /\ (k - 1) + 1 = k
      OBVIOUS
    <3>2. k - 1 \in G
      BY <2>3, <3>1
    <3>3. (k - 1) + 1 <= L => \A m \in 1 .. (k - 1) + 1 : t[m] <= t[(k - 1) + 1]
      BY <3>2
    <3> QED BY <3>1, <3>3
  <2> QED BY <2>4
<1>2. IsFiniteSet(1 .. L) /\ B \in SUBSET (1 .. L)
  <2>1. 1 \in Int /\ L \in Int
    OBVIOUS
  <2> QED BY <2>1, FS_Interval
<1>3. IsFiniteSet(B)
  <2> HIDE DEF B
  <2> QED BY <1>2, FS_Subset
<1>4. PICK m \in 0 .. L : B = 1 .. m
  <2>1. CASE B = {}
    <3>1. 0 \in 0 .. L /\ 1 .. 0 = {}
      OBVIOUS
    <3> HIDE DEF B
    <3> QED BY <2>1, <3>1
  <2>2. CASE B # {}
    <3> DEFINE f == [n \in B |-> n]
    <3>1. \A n \in B : f[n] = n /\ n \in 1 .. L /\ f[n] \in Int
      OBVIOUS
    <3>2. PICK m \in B : \A n \in B : f[n] <= f[m]
      <4> HIDE DEF f, B
      <4> QED BY <1>3, <2>2, <3>1, HasGreatest
    <3>3. m \in 1 .. L /\ t[m] < a /\ t[m] \in Int /\ m \in 0 .. L
      BY <3>2
    <3>4. ASSUME NEW n \in 1 .. m PROVE n \in B
      <4>1. n \in 1 .. L /\ t[n] <= t[m] /\ t[n] \in Int
        BY <1>1, <3>3
      <4>2. t[n] < a
        BY <3>3, <4>1
      <4> QED BY <4>1, <4>2
    <3>5. ASSUME NEW n \in B PROVE n \in 1 .. m
      <4>1. n \in 1 .. L /\ f[n] = n /\ f[m] = m /\ f[n] <= f[m]
        <5> HIDE DEF f, B
        <5> QED BY <3>1, <3>2
      <4>2. n <= m
        <5> HIDE DEF f, B
        <5> QED BY <4>1
      <4> HIDE DEF f, B
      <4> QED BY <3>3, <4>1, <4>2
    <3>6. B = 1 .. m
      <4> HIDE DEF B
      <4> QED BY <3>4, <3>5
    <3> HIDE DEF B
    <3> QED BY <3>3, <3>6
  <2> QED BY <2>1, <2>2
<1>5. b = m
  <2>1. m \in Nat
    OBVIOUS
  <2>2. Cardinality(1 .. m) = m
    BY <2>1, CardinalityOfFirst
  <2> HIDE DEF B
  <2> QED BY <1>4, <2>2
<1>6. \A n \in 1 .. L : t[n] < a <=> n <= m
  <2>1. \A n \in 1 .. L : t[n] < a <=> n \in B
    OBVIOUS
  <2> HIDE DEF B
  <2> QED BY <1>4, <2>1
<1>7. past = {n \in 2 .. L : m < n}
  <2>1. \A n \in 2 .. L : a <= t[n] <=> m < n
    <3> TAKE n \in 2 .. L
    <3>1. n \in 1 .. L /\ t[n] \in Int
      OBVIOUS
    <3>2. t[n] < a <=> n <= m
      BY <1>6, <3>1
    <3> QED BY <3>1, <3>2
  <2> QED BY <2>1
<1>8. p = IF m = 0 THEN 1 ELSE IF m = L THEN m ELSE IF a - t[m] <= t[m + 1] - a THEN m ELSE m + 1
  <2> HIDE DEF B
  <2>1. Nearest(t, a) = IF b = 0 THEN 1 ELSE IF b = L THEN b ELSE IF a - t[b] <= t[b + 1] - a THEN b ELSE b + 1
    BY DEF Nearest, B
  <2> HIDE DEF b
  <2> QED BY <1>5, <2>1
<1> HIDE DEF B, b, p, past
<1>9. CASE m = 0
  <2>1. p = 1 /\ ~(t[1] < a)
    BY <1>6, <1>8, <1>9
  <2>2. past = 2 .. L /\ 2 \in 2 .. L
    BY <1>7, <1>9
  <2>3. Min(2 .. L) = 2
    BY <2>2, MinIs
  <2>4. i = 2
    BY <2>2, <2>3
  <2>5. AnchorInterval(t, p, a) = 2
    BY <2>1 DEF AnchorInterval
  <2> QED BY <2>1, <2>4, <2>5, SMTT(30) DEF p, past
<1>10. CASE m = L
  <2>1. p = L
    BY <1>8, <1>10
  <2>2. past = {}
    BY <1>7, <1>10
  <2>3. i = L
    BY <2>2
  <2>4. AnchorInterval(t, p, a) = L
    BY <2>1 DEF AnchorInterval
  <2> QED BY <2>1, <2>3, <2>4, SMTT(30) DEF p, past
<1>11. CASE m # 0 /\ m # L
  <2>1. m \in 1 .. L /\ m + 1 \in 2 .. L /\ m < L /\ t[m] < a /\ m + 1 \in 1 .. L
    BY <1>6, <1>11
  <2>2. ~(t[m + 1] < a)
    BY <1>6, <2>1
  <2>3. past = m + 1 .. L /\ m + 1 \in m + 1 .. L /\ m + 1 \in Nat
    BY <1>7, <2>1
  <2>4. Min(m + 1 .. L) = m + 1
    BY <2>3, MinIs
  <2>5. i = m + 1
    BY <2>3, <2>4
  <2>6. CASE p = m
    <3>1. AnchorInterval(t, p, a) = m + 1
      BY <2>1, <2>6 DEF AnchorInterval
    <3>2. i \in 2 .. L /\ i - 1 = m
      <4> HIDE DEF i
      <4> QED BY <2>1, <2>5
    <3>3. p \in {i - 1, i} /\ AnchorInterval(t, p, a) = i
      <4> HIDE DEF i
      <4> QED BY <2>5, <2>6, <3>1, <3>2
    <3> QED BY <3>2, <3>3 DEF p, past
  <2>7. CASE p = m + 1
    <3>1. AnchorInterval(t, p, a) = m + 1
      BY <2>1, <2>2, <2>7 DEF AnchorInterval
    <3> QED BY <2>1, <2>5, <2>7, <3>1 DEF p, past
  <2> QED BY <1>8, <1>11, <2>6, <2>7
<1> QED BY <1>9, <1>10, <1>11

(* A mean of whole numbers is taken as one. *)
LEMMA MeanIs ==
  ASSUME NEW S, IsFiniteSet(S), S # {}, NEW f, DOMAIN f = S, \A e \in S : f[e] \in Int
  PROVE  Total(f) \div Cardinality(S) \in Int
<1>1. Total(f) \in Int
  BY TotalIs, SumType
<1>2. Cardinality(S) \in Nat /\ Cardinality(S) # 0
  BY FS_CardinalityType, FS_EmptySet
<1> QED BY <1>1, <1>2, QuotientIs

(* The cycles that a counter says an XCC had in a sample. *)
LEMMA CounterValueIs ==
  ASSUME NEW t, IsFiniteSet(DOMAIN t.at), \A v \in DOMAIN t.at : t.at[v] \in Int, t.shape[SE] \in Nat,
         NEW x, NEW se, NEW n
  PROVE  CounterValue(t, x, se, n) \in Int
<1> DEFINE positive(s) == {v \in DOMAIN t.at : v[XCC] = x /\ v[SE] = s /\ v[Time] = n /\ t.at[v] > 0}
           values(s) == [v \in positive(s) |-> t.at[v]]
           mean(s) == Total(values(s)) \div Cardinality(positive(s))
           engines == {s \in 0 .. t.shape[SE] - 1 : positive(s) # {}}
           means == [s \in engines |-> mean(s)]
<1>1. CounterValue(t, x, se, n) = IF se \in engines THEN mean(se)
                                  ELSE IF engines = {} THEN 0 ELSE Total(means) \div Cardinality(engines)
  BY DEF CounterValue
<1>2. ASSUME NEW s \in engines PROVE mean(s) \in Int
  <2>1. positive(s) # {}
    OBVIOUS
  <2>2. positive(s) \in SUBSET DOMAIN t.at
    OBVIOUS
  <2>3. DOMAIN values(s) = positive(s) /\ \A v \in positive(s) : values(s)[v] \in Int
    OBVIOUS
  <2> HIDE DEF values, positive, engines
  <2>4. IsFiniteSet(positive(s))
    BY <2>2, FS_Subset
  <2> QED BY <2>1, <2>3, <2>4, MeanIs
<1>3. IsFiniteSet(engines)
  <2>1. engines \in SUBSET (0 .. t.shape[SE] - 1)
    OBVIOUS
  <2>2. 0 \in Int /\ t.shape[SE] - 1 \in Int
    OBVIOUS
  <2>3. IsFiniteSet(0 .. t.shape[SE] - 1)
    BY <2>2, FS_Interval
  <2> HIDE DEF engines
  <2> QED BY <2>1, <2>3, FS_Subset
<1> HIDE DEF mean, engines
<1>4. DOMAIN means = engines /\ \A s \in engines : means[s] \in Int
  BY <1>2
<1> HIDE DEF means
<1>5. engines # {} => Total(means) \div Cardinality(engines) \in Int
  BY <1>3, <1>4, MeanIs
<1> QED BY <1>1, <1>2, <1>5

(* What SQ_CYCLES says, and what follows from the REALTIME records. *)
Measured(s, se, x, n) ==
  IF "SQ_CYCLES" \in DOMAIN s.counters THEN CounterValue(s.counters["SQ_CYCLES"], x, se, n - 1) ELSE 0
LastAnchor(A) ==
  CHOOSE a \in A : a.se = FirstAnchor(A).se /\ \A b \in A : b.se = FirstAnchor(A).se => b.real <= a.real
HasSlope(A) == LastAnchor(A).real > FirstAnchor(A).real /\ LastAnchor(A).clock > FirstAnchor(A).clock
Slope(A, duration) ==
  ((LastAnchor(A).clock - FirstAnchor(A).clock) * duration) \div (LastAnchor(A).real - FirstAnchor(A).real)
CyclesOf(s, A, x, n) ==
  IF Measured(s, FirstAnchor(A).se, x, n) > 0 THEN Measured(s, FirstAnchor(A).se, x, n)
  ELSE Slope(A, s.times[x][n] - s.times[x][n - 1])
Place(s, A, x) == Nearest(s.times[x], FirstAnchor(A).real)
EndOf(s, A, x) == AnchorInterval(s.times[x], Place(s, A, x), FirstAnchor(A).real)
Lasts(s, A, x) == s.times[x][EndOf(s, A, x)] - s.times[x][EndOf(s, A, x) - 1]
Away(s, A, x) == s.times[x][Place(s, A, x)] - FirstAnchor(A).real
Moved(s, A, x) == IF Away(s, A, x) = 0 THEN 0 ELSE (Away(s, A, x) * CyclesOf(s, A, x, EndOf(s, A, x))) \div Lasts(s, A, x)

(* The anchors of a trace. *)
LEMMA AnchorsAre ==
  ASSUME NEW A \in AnchorSets, A # {}
  PROVE  /\ FirstAnchor(A).real \in Int /\ FirstAnchor(A).clock \in Int
         /\ LastAnchor(A).real \in Int /\ LastAnchor(A).clock \in Int
<1> DEFINE f == [a \in A |-> a.real]
           S == {a \in A : a.se = FirstAnchor(A).se}
<1>1. IsFiniteSet(A) /\ A \subseteq [se : Nat, real : Int, clock : Int]
  BY CounterAssumption
<1>2. \A a \in A : f[a] = a.real /\ a.real \in Int /\ a.clock \in Int
  BY <1>1
<1> HIDE DEF f
<1>3. \E a \in A : \A b \in A : f[a] <= f[b]
  BY <1>1, <1>2, HasLeast
<1>4. FirstAnchor(A) \in A
  <2>1. \E a \in A : \A b \in A : a.real <= b.real
    BY <1>2, <1>3
  <2> QED BY <2>1, Zenon DEF FirstAnchor
<1>5. IsFiniteSet(S) /\ S # {} /\ \A a \in S : f[a] \in Int
  <2>1. S \in SUBSET A /\ FirstAnchor(A) \in S
    BY <1>4
  <2> HIDE DEF S
  <2>2. IsFiniteSet(S)
    BY <1>1, <2>1, FS_Subset
  <2> QED BY <1>2, <2>1, <2>2
<1>6. \E a \in S : \A b \in S : f[b] <= f[a]
  <2> HIDE DEF S
  <2> QED BY <1>5, HasGreatest
<1>7. LastAnchor(A) \in A
  <2>1. \E a \in A : a.se = FirstAnchor(A).se /\ \A b \in A : b.se = FirstAnchor(A).se => b.real <= a.real
    BY <1>2, <1>6, SMTT(30)
  <2> QED BY <2>1, Zenon DEF LastAnchor
<1> QED BY <1>2, <1>4, <1>7

(* The clock at a sample. *)
ClockIs(q, s, A, x, n) ==
  LET m == (n - 1) + 1
      cycles(ns) == Total([k \in ns |-> CyclesOf(s, A, x, k)])
  IN  q.clock.at[<<x, 0, 0, n - 1>>] =
        Float(IF m >= Place(s, A, x) THEN FirstAnchor(A).clock + Moved(s, A, x) + cycles(Place(s, A, x) + 1 .. m)
              ELSE FirstAnchor(A).clock + Moved(s, A, x) - cycles(m + 1 .. Place(s, A, x)))

(* An aligned capture, where the anchor is on an interval that lasts. *)
LEMMA AlignedAt ==
  ASSUME NEW s, {"counters", "times", "clock", "spmClock"} \subseteq DOMAIN s, "at" \in DOMAIN s.clock,
         NEW A, NEW q \in Aligned(s, A)
  PROVE  /\ q.times = s.times /\ q.counters = s.counters
         /\ HasSlope(A) \/ \A x \in DOMAIN s.times : s.times[x] # <<>> =>
                              \A n \in 2 .. Len(s.times[x]) : Measured(s, FirstAnchor(A).se, x, n) > 0
         /\ \A x \in DOMAIN s.times : Len(s.times[x]) > 1 /\ s.times[x] # <<>> /\ Lasts(s, A, x) > 0 =>
              \A n : <<x, 0, 0, n - 1>> \in DOMAIN s.clock.at => ClockIs(q, s, A, x, n)
<1> DEFINE first == FirstAnchor(A)
           last == LastAnchor(A)
           cycles(x, n) == CyclesOf(s, A, x, n)
           sampled == {x \in DOMAIN s.times : s.times[x] # <<>>}
           pivot == [x \in sampled |-> Nearest(s.times[x], first.real)]
           interval(x) == AnchorInterval(s.times[x], pivot[x], first.real)
           duration(x) == s.times[x][interval(x)] - s.times[x][interval(x) - 1]
           away(x) == s.times[x][pivot[x]] - first.real
           rated(x) == Len(s.times[x]) > 1 /\ duration(x) > 0
           moved(x) == IF away(x) = 0 THEN 0
                       ELSE IF rated(x) THEN (away(x) * cycles(x, interval(x))) \div duration(x) ELSE Slope(A, away(x))
           sum(x, ns) == Total([n \in ns |-> cycles(x, n)])
           clock(x, n) == IF n >= pivot[x] THEN first.clock + moved(x) + sum(x, pivot[x] + 1 .. n)
                          ELSE first.clock + moved(x) - sum(x, n + 1 .. pivot[x])
           at == [cell \in DOMAIN s.clock.at |-> Float(clock(cell[XCC], cell[Time] + 1))]
           may == HasSlope(A) \/ \A x \in sampled : /\ \A n \in 2 .. Len(s.times[x]) : Measured(s, first.se, x, n) > 0
                                                    /\ away(x) = 0 \/ rated(x)
<1>1. Aligned(s, A) = IF may THEN {[s EXCEPT !.clock.at = at]} ELSE {}
  BY Zenon DEF Aligned, LastAnchor, HasSlope, Slope, CyclesOf, Measured
<1>2. may /\ q = [s EXCEPT !.clock.at = at]
  <2> HIDE DEF may, at
  <2> QED BY <1>1
<1>3. q.times = s.times /\ q.counters = s.counters /\ q.clock = [s.clock EXCEPT !.at = at]
  <2> HIDE DEF at
  <2> QED BY <1>2
<1>4. q.clock.at = at
  <2> HIDE DEF at
  <2> QED BY <1>3
<1>5. ASSUME NEW x \in DOMAIN s.times, Len(s.times[x]) > 1, s.times[x] # <<>>, Lasts(s, A, x) > 0,
             NEW n, <<x, 0, 0, n - 1>> \in DOMAIN s.clock.at
      PROVE  ClockIs(q, s, A, x, n)
  <2> DEFINE cell == <<x, 0, 0, n - 1>>
             m == (n - 1) + 1
  <2>1. cell[XCC] = x /\ cell[Time] + 1 = m
    BY DEF XCC, Time
  <2>2. at[cell] = Float(clock(x, m))
    <3> HIDE DEF clock, cell, m
    <3> QED BY <1>5, <2>1 DEF cell
  <2>3. x \in sampled
    BY <1>5
  <2>4. pivot[x] = Place(s, A, x)
    <3> HIDE DEF sampled
    <3> QED BY <2>3 DEF Place
  <2> HIDE DEF pivot
  <2>5. interval(x) = EndOf(s, A, x)
    BY <2>4 DEF EndOf
  <2> HIDE DEF interval
  <2>6. duration(x) = Lasts(s, A, x) /\ away(x) = Away(s, A, x)
    BY <2>4, <2>5 DEF Lasts, Away
  <2> HIDE DEF duration, away
  <2>7. moved(x) = Moved(s, A, x)
    BY <1>5, <2>5, <2>6, SMTT(30) DEF Moved
  <2> HIDE DEF moved, m, cell, at
  <2> QED BY <1>4, <2>2, <2>4, <2>7 DEF cell, m, ClockIs
<1>6. HasSlope(A) \/ \A x \in DOMAIN s.times : s.times[x] # <<>> =>
                       \A n \in 2 .. Len(s.times[x]) : Measured(s, FirstAnchor(A).se, x, n) > 0
  BY <1>2
<1> QED BY <1>3, <1>5, <1>6

(* A capture has a clock. *)
LEMMA ClockExists ==
  ASSUME NEW r
  PROVE  /\ {"counters", "times", "clock", "spmClock"} \subseteq DOMAIN Filled(r, LinesOf(r))
         /\ "at" \in DOMAIN Filled(r, LinesOf(r)).clock
BY DEF Filled, Collected

(* Each sample of a row is on the clock of its XCC. *)
LEMMA ClockHas ==
  ASSUME NEW r \in Captures, NEW x \in 0 .. XccCount(r) - 1, NEW n \in 1 .. Len(Timeline(r, x))
  PROVE  /\ {"counters", "times", "clock", "spmClock"} \subseteq DOMAIN Filled(r, LinesOf(r))
         /\ "at" \in DOMAIN Filled(r, LinesOf(r)).clock
         /\ <<x, 0, 0, n - 1>> \in DOMAIN Filled(r, LinesOf(r)).clock.at
<1> DEFINE t == LinesOf(r)
           F == Filled(r, t)
           shape == <<1 + Max(DOMAIN t), 1, 1, Longest(t)>>
           cell == <<x, 0, 0, n - 1>>
           sampled == {d \in Cells(shape) : d[Time] < Len(t[d[XCC]])}
<1>1. {"counters", "times", "clock", "spmClock"} \subseteq DOMAIN F
  BY DEF Filled
<1>2. \E value : F.clock = Collected(shape, [d \in sampled |-> value[d]])
  <2> DEFINE value == [d \in sampled |-> Float(t[d[XCC]][d[Time] + 1].time - Min({r[i].time : i \in DOMAIN r}))]
  <2>1. F.clock = Collected(shape, value)
    BY DEF Filled, Longest
  <2>2. value = [d \in sampled |-> value[d]]
    OBVIOUS
  <2> HIDE DEF value, F, sampled, shape
  <2> QED BY <2>1, <2>2
<1>3. "at" \in DOMAIN F.clock /\ DOMAIN F.clock.at = sampled
  <2> HIDE DEF F, sampled, shape
  <2> QED BY <1>2 DEF Collected
<1>4. Longest(t) \in Nat /\ Len(Timeline(r, x)) <= Longest(t) /\ Len(Timeline(r, x)) \in Nat
  BY LongestIs, TimelineHas
<1>5. 1 + Max(DOMAIN t) = XccCount(r)
  <2>1. Timelines(t, XccCount(r))
    BY TimelineHas DEF Timelines, LinesOf
  <2> HIDE DEF t
  <2> QED BY <2>1, XccCountIs, SamplesAre
<1>6. /\ x \in 0 .. shape[XCC] - 1 /\ 0 \in 0 .. shape[SE] - 1 /\ 0 \in 0 .. shape[CU] - 1
      /\ n - 1 \in 0 .. shape[Time] - 1
  <2>1. shape[XCC] = XccCount(r) /\ shape[SE] = 1 /\ shape[CU] = 1 /\ shape[Time] = Longest(t)
    BY <1>5 DEF XCC, SE, CU, Time
  <2> HIDE DEF t, shape
  <2> QED BY <1>4, <2>1
<1>7. cell \in Cells(shape)
  <2> HIDE DEF shape
  <2> QED BY <1>6, CellHeld
<1>8. cell[XCC] = x /\ cell[Time] = n - 1 /\ t[x] = Timeline(r, x) /\ n - 1 < Len(Timeline(r, x))
  BY <1>4 DEF XCC, Time, LinesOf
<1> QED BY <1>1, <1>3, <1>7, <1>8

(* The cycles that are summed are whole numbers. *)
LEMMA CyclesAre ==
  ASSUME NEW r \in Captures, NEW A \in AnchorSets, A # {}, NEW q \in Aligned(Filled(r, LinesOf(r)), A),
         NEW x \in 0 .. XccCount(r) - 1, NEW n \in 2 .. Len(Timeline(r, x))
  PROVE  CyclesOf(Filled(r, LinesOf(r)), A, x, n) \in Int
<1> DEFINE F == Filled(r, LinesOf(r))
           se == FirstAnchor(A).se
           counted == F.counters["SQ_CYCLES"]
<1>1. Measured(F, se, x, n) \in Int
  <2>1. CASE "SQ_CYCLES" \in DOMAIN F.counters
    <3> DEFINE shape == Append(Dimensions(r, "SQ_CYCLES"), Longest(LinesOf(r)))
    <3>1. "SQ_CYCLES" \in Counters /\ counted.shape = shape /\ counted.at = CountedAt(r, "SQ_CYCLES", LinesOf(r), shape)
      BY <2>1, CountersAre
    <3>2. Longest(LinesOf(r)) \in Nat
      BY LongestIs
    <3>3. shape \in [Axes -> Nat]
      BY <3>1, <3>2, ShapeIs
    <3>4. \A v \in DOMAIN counted.at : counted.at[v] \in Int
      BY <3>1, <3>2, CountIs
    <3>5. DOMAIN counted.at \in SUBSET Cells(shape)
      BY <3>1 DEF CountedAt
    <3> HIDE DEF shape, counted
    <3>6. IsFiniteSet(DOMAIN counted.at)
      <4>1. IsFiniteSet(Cells(shape))
        BY <3>3, CellsFinite
      <4> QED BY <3>5, <4>1, FS_Subset
    <3>7. counted.shape[SE] \in Nat
      BY <3>1, <3>3 DEF Axes, SE
    <3>8. CounterValue(counted, x, se, n - 1) \in Int
      BY <3>4, <3>6, <3>7, CounterValueIs
    <3> HIDE DEF F, se
    <3> QED BY <2>1, <3>8 DEF Measured, counted
  <2>2. CASE "SQ_CYCLES" \notin DOMAIN F.counters
    BY <2>2 DEF Measured
  <2> QED BY <2>1, <2>2
<1>2. Len(Timeline(r, x)) \in Nat
  BY TimelineHas
<1>3. n \in 1 .. Len(Timeline(r, x)) /\ n - 1 \in 1 .. Len(Timeline(r, x))
  BY <1>2
<1>4. F.times[x][n] \in Int /\ F.times[x][n - 1] \in Int
  BY <1>3, TimesAt, SamplesInOrder, SMTT(30)
<1>5. CASE HasSlope(A)
  <2> DEFINE c == LastAnchor(A).clock - FirstAnchor(A).clock
             d == LastAnchor(A).real - FirstAnchor(A).real
             e == F.times[x][n] - F.times[x][n - 1]
  <2>1. c \in Int /\ d \in Nat \ {0}
    BY <1>5, AnchorsAre DEF HasSlope
  <2>2. e \in Int
    BY <1>4
  <2>3. Slope(A, e) = (c * e) \div d
    BY DEF Slope
  <2> HIDE DEF c, d
  <2>4. (c * e) \div d \in Int
    <3> HIDE DEF e
    <3>1. c * e \in Int
      BY <2>1, <2>2
    <3> QED BY <2>1, <3>1, QuotientIs
  <2> HIDE DEF F, se
  <2> QED BY <1>1, <2>3, <2>4 DEF CyclesOf, se, F
<1>6. CASE ~HasSlope(A)
  <2>1. F.times[x] # <<>> /\ x \in DOMAIN F.times /\ n \in 2 .. Len(F.times[x])
    <3>1. DOMAIN F.times[x] = 1 .. Len(Timeline(r, x)) /\ Len(F.times[x]) = Len(Timeline(r, x)) /\ x \in DOMAIN F.times
      BY TimesAt
    <3>2. DOMAIN <<>> = {}
      OBVIOUS
    <3> HIDE DEF F
    <3> QED BY <1>3, <3>1, <3>2
  <2>2. {"counters", "times", "clock", "spmClock"} \subseteq DOMAIN F /\ "at" \in DOMAIN F.clock
    BY <1>3, ClockHas
  <2> HIDE DEF F, se
  <2>3. \A y \in DOMAIN F.times : F.times[y] # <<>> => \A k \in 2 .. Len(F.times[y]) : Measured(F, se, y, k) > 0
    <3>1. q \in Aligned(F, A)
      BY DEF F
    <3> QED BY <1>6, <2>2, <3>1, AlignedAt DEF se
  <2>4. Measured(F, se, x, n) > 0
    BY <2>1, <2>3
  <2> QED BY <1>1, <2>4 DEF CyclesOf, F, se
<1> QED BY <1>5, <1>6

(* What a clock that is off by the rounding of one quotient misses. *)
LEMMA MetIs ==
  ASSUME NEW c \in Int, NEW m \in Int, NEW n \in Int, NEW a \in Int, NEW low \in Int, NEW high \in Int, NEW away \in Int,
         low < high, n * away - (high - low) * m \in 0 .. high - low - 1, NEW below, NEW above,
         \/ below = c + m - n /\ above = c + m /\ away = high - a
         \/ below = c + m /\ above = c + m + n /\ away = low - a
  PROVE  (c - below) * (high - low) - (above - below) * (a - low) \in 0 .. high - low - 1
<1>1. CASE below = c + m - n /\ above = c + m /\ away = high - a
  <2>1. c - below = n - m /\ above - below = n
    BY <1>1
  <2>2. (n - m) * (high - low) - n * (a - low) = n * (high - a) - (high - low) * m
    OBVIOUS
  <2> QED BY <1>1, <2>1, <2>2
<1>2. CASE below = c + m /\ above = c + m + n /\ away = low - a
  <2>1. c - below = 0 - m /\ above - below = n
    BY <1>2
  <2>2. (0 - m) * (high - low) - n * (a - low) = n * (low - a) - (high - low) * m
    OBVIOUS
  <2> QED BY <1>2, <2>1, <2>2
<1> QED BY <1>1, <1>2

(* A difference of less than half of r, so many times. *)
LEMMA RoundedOften ==
  ASSUME NEW d \in Int, NEW k \in Int, NEW r \in Nat, 2 * d <= r, 2 * (- d) <= r
  PROVE  r * Magnitude(k) \in Nat /\ 2 * (d * k) <= r * Magnitude(k) /\ - (r * Magnitude(k)) <= 2 * (d * k)
<1>1. CASE k >= 0
  <2>1. (2 * d) * k <= r * k /\ (2 * (- d)) * k <= r * k
    BY <1>1
  <2>2. (2 * d) * k = 2 * (d * k) /\ (2 * (- d)) * k = - (2 * (d * k))
    OBVIOUS
  <2>3. r * k \in Nat /\ d * k \in Int
    BY <1>1
  <2> QED BY <1>1, <2>1, <2>2, <2>3 DEF Magnitude
<1>2. CASE k < 0
  <2> DEFINE j == - k
  <2>1. j \in Nat /\ Magnitude(k) = j /\ k = - j
    BY <1>2 DEF Magnitude
  <2> HIDE DEF j
  <2>2. (2 * d) * j <= r * j /\ (2 * (- d)) * j <= r * j
    BY <2>1
  <2>3. (2 * d) * j = - (2 * (d * k)) /\ (2 * (- d)) * j = 2 * (d * k)
    BY <2>1
  <2>4. r * j \in Nat /\ d * k \in Int
    BY <2>1
  <2> QED BY <2>1, <2>2, <2>3, <2>4
<1> QED BY <1>1, <1>2

(* What it misses once its ends are rounded as well. *)
LEMMA MetRounded ==
  ASSUME NEW c \in Int, NEW a \in Int, NEW low \in Int, NEW high \in Int, low < high, NEW below \in Int, NEW above \in Int,
         (c - below) * (high - low) - (above - below) * (a - low) \in 0 .. high - low - 1,
         NEW B \in Int, NEW A \in Int, NEW b \in Nat, NEW e \in Nat,
         2 * (B - below) <= b, 2 * (below - B) <= b, 2 * (A - above) <= e, 2 * (above - A) <= e
  PROVE  2 * ((c - B) * (high - low) - (A - B) * (a - low))
           \in 0 - (b * Magnitude(high - a) + e * Magnitude(a - low))
                 .. 2 * (high - low - 1) + (b * Magnitude(high - a) + e * Magnitude(a - low))
<1> DEFINE exact == (c - below) * (high - low) - (above - below) * (a - low)
           off == (c - B) * (high - low) - (A - B) * (a - low)
           f == (B - below) * (high - a)
           g == (A - above) * (a - low)
           s == b * Magnitude(high - a)
           t == e * Magnitude(a - low)
<1>1. off = exact - f - g
  OBVIOUS
<1>2. s \in Nat /\ 2 * f <= s /\ - s <= 2 * f
  <2>1. B - below \in Int /\ high - a \in Int /\ 2 * (- (B - below)) <= b
    OBVIOUS
  <2> QED BY <2>1, RoundedOften
<1>3. t \in Nat /\ 2 * g <= t /\ - t <= 2 * g
  <2>1. A - above \in Int /\ a - low \in Int /\ 2 * (- (A - above)) <= e
    OBVIOUS
  <2> QED BY <2>1, RoundedOften
<1>4. exact \in Int /\ f \in Int /\ g \in Int /\ exact \in 0 .. high - low - 1
  OBVIOUS
<1> HIDE DEF exact, off, f, g, s, t
<1>5. 2 * off \in 0 - (s + t) .. 2 * (high - low - 1) + (s + t)
  BY <1>1, <1>2, <1>3, <1>4, SMTT(30)
<1> QED BY <1>5 DEF off, s, t

(* The interval that the clock is compared with the anchor on. *)
Compared(t, a) == LET past == {n \in 2 .. Len(t) : a <= t[n]} IN IF past = {} THEN Len(t) ELSE Min(past)

MetAt(q, A, x, t, i) ==
  LET clock(n) == q.clock.at[<<x, 0, 0, n - 1>>]
      off == (FirstAnchor(A).clock - clock(i - 1)) * (t[i] - t[i - 1]) - (clock(i) - clock(i - 1)) * (FirstAnchor(A).real - t[i - 1])
      slack == Rounding(clock(i - 1)) * Magnitude(t[i] - FirstAnchor(A).real)
                 + Rounding(clock(i)) * Magnitude(FirstAnchor(A).real - t[i - 1])
  IN  2 * off \in 0 - slack .. 2 * (t[i] - t[i - 1] - 1) + slack

(* The aligned clock of an XCC passes through the anchor. *)
LEMMA AnchorMet ==
  ASSUME NEW r \in Captures, NEW A \in AnchorSets, A # {}, NEW q \in Aligned(Filled(r, LinesOf(r)), A),
         NEW x \in 0 .. XccCount(r) - 1, NEW t, t = Filled(r, LinesOf(r)).times[x], Len(t) > 1,
         NEW i, i = Compared(t, FirstAnchor(A).real),
         t[i - 1] < t[i]
  PROVE  MetAt(q, A, x, t, i)
<1> DEFINE F == Filled(r, LinesOf(r))
           L == Len(t)
           a == FirstAnchor(A).real
           c == FirstAnchor(A).clock
           p == Place(F, A, x)
           m == Moved(F, A, x)
           n == CyclesOf(F, A, x, i)
           away == t[p] - a
           clock(k) == q.clock.at[<<x, 0, 0, k - 1>>]
           cycles(ns) == Total([k \in ns |-> CyclesOf(F, A, x, k)])
           exact(k) == IF k >= p THEN c + m + cycles(p + 1 .. k) ELSE c + m - cycles(k + 1 .. p)
<1>1. a \in Int /\ c \in Int
  BY AnchorsAre
<1>2. /\ x \in DOMAIN F.times /\ F.times[x] = t /\ L \in Nat /\ L = Len(Timeline(r, x)) /\ DOMAIN t = 1 .. L
      /\ \A k \in 1 .. L : t[k] \in Int
      /\ \A k \in 2 .. L : t[k - 1] <= t[k]
  <2> DEFINE line == Timeline(r, x)
  <2>1. Len(line) \in Nat /\ L = Len(line) /\ DOMAIN t = 1 .. Len(line) /\ x \in DOMAIN F.times
    BY TimelineHas, TimesAt
  <2>2. \A k \in 1 .. Len(line) : t[k] = line[k].time
    BY TimesAt
  <2>3. (\A k \in 1 .. Len(line) : line[k].time \in Int) /\ \A k \in 2 .. Len(line) : line[k - 1].time <= line[k].time
    BY SamplesInOrder
  <2> HIDE DEF F, line
  <2>4. \A k \in 2 .. Len(line) : k \in 1 .. Len(line) /\ k - 1 \in 1 .. Len(line)
    BY <2>1
  <2> QED BY <2>1, <2>2, <2>3, <2>4 DEF F, line
<1>3. i \in 2 .. L /\ AnchorInterval(t, p, a) = i /\ p \in {i - 1, i}
  <2>1. p = Nearest(t, a)
    BY <1>2 DEF Place
  <2> HIDE DEF F, p, a
  <2> DEFINE past == {k \in 2 .. L : a <= t[k]}
  <2>2. i = IF past = {} THEN L ELSE Min(past)
    BY DEF a, Compared
  <2>3. LET w == Nearest(t, a)
            over == {k \in 2 .. L : a <= t[k]}
            j == IF over = {} THEN L ELSE Min(over)
        IN  j \in 2 .. L /\ AnchorInterval(t, w, a) = j /\ w \in {j - 1, j}
    BY <1>1, <1>2, IntervalIs
  <2> QED BY <2>1, <2>2, <2>3
<1> HIDE DEF F, L, m, n
<1>4. EndOf(F, A, x) = i /\ Lasts(F, A, x) = t[i] - t[i - 1] /\ Away(F, A, x) = away
  BY <1>2, <1>3 DEF EndOf, Lasts, Away
<1> HIDE DEF p, a, c
<1>5. i \in Int /\ i \in 1 .. L /\ i - 1 \in 1 .. L /\ t[i] \in Int /\ t[i - 1] \in Int /\ t[i] - t[i - 1] \in Nat \ {0}
  <2>1. i \in Int /\ i \in 1 .. L /\ i - 1 \in 1 .. L
    BY <1>2, <1>3
  <2>2. t[i] \in Int /\ t[i - 1] \in Int
    BY <1>2, <2>1
  <2> QED BY <2>1, <2>2, SMTT(30)
<1>6. n \in Int
  <2>1. i \in 2 .. Len(Timeline(r, x))
    BY <1>2, <1>3
  <2> QED BY <2>1, CyclesAre DEF n, F
<1>7. away \in Int
  <2>1. t[p] \in Int
    BY <1>3, <1>5
  <2> QED BY <1>1, <2>1
<1>8. ASSUME NEW k \in {i - 1, i}
      PROVE  clock(k) = Float(exact(k))
  <2>1. k \in 1 .. Len(Timeline(r, x)) /\ (k - 1) + 1 = k
    BY <1>2, <1>5
  <2>2. /\ {"counters", "times", "clock", "spmClock"} \subseteq DOMAIN F /\ "at" \in DOMAIN F.clock
        /\ <<x, 0, 0, k - 1>> \in DOMAIN F.clock.at
    BY <2>1, ClockHas DEF F
  <2>3. x \in DOMAIN F.times /\ Len(F.times[x]) > 1 /\ F.times[x] # <<>> /\ Lasts(F, A, x) > 0
    <3>1. DOMAIN <<>> = {}
      OBVIOUS
    <3>2. t # <<>>
      BY <1>2, <1>5, <3>1
    <3>3. Len(F.times[x]) > 1
      BY <1>2 DEF L
    <3>4. Lasts(F, A, x) > 0
      BY <1>4, <1>5
    <3> QED BY <1>2, <3>2, <3>3, <3>4
  <2>4. q \in Aligned(F, A)
    BY DEF F
  <2>5. ClockIs(q, F, A, x, k)
    BY <2>2, <2>3, <2>4, AlignedAt
  <2> QED BY <2>1, <2>5 DEF p, m, c, ClockIs
<1>9. cycles({}) = 0 /\ cycles({i}) = n
  <2> DEFINE f(ns) == [k \in ns |-> CyclesOf(F, A, x, k)]
  <2>1. DOMAIN f({}) = {} /\ DOMAIN f({i}) = {i} /\ f({i})[i] = n
    BY DEF n
  <2> HIDE DEF f, n
  <2>2. Total(f({})) = 0
    BY <2>1, TotalIs, SumEmpty
  <2>3. Total(f({i})) = n
    <3>1. IsFiniteSet({i}) /\ {i} \ {i} = {}
      BY FS_Singleton
    <3>2. \A k \in {i} : f({i})[k] \in Int
      BY <1>6, <2>1 DEF n
    <3>3. SumOver(f({i}), {i}) = f({i})[i] + SumOver(f({i}), {i} \ {i})
      BY <3>1, <3>2, SumWithout
    <3>4. SumOver(f({i}), {i}) = n + 0
      BY <2>1, <3>1, <3>3, SumEmpty
    <3>5. n \in Int
      BY <1>6 DEF n
    <3> QED BY <2>1, <3>4, <3>5, TotalIs
  <2> QED BY <2>2, <2>3 DEF f, n
<1>10. m \in Int /\ n * away - (t[i] - t[i - 1]) * m \in 0 .. t[i] - t[i - 1] - 1
  <2> DEFINE d == t[i] - t[i - 1]
             u == away * n
  <2>1. m = IF away = 0 THEN 0 ELSE u \div d
    BY <1>4 DEF Moved, m, n, p
  <2>2. d \in Nat \ {0} /\ u \in Int /\ u = n * away
    BY <1>5, <1>6, <1>7, SMTT(30)
  <2>3. away = 0 => u = 0
    BY <1>6
  <2> HIDE DEF d, u, m, n, away
  <2>4. CASE away = 0
    <3>1. m = 0 /\ n * away = 0 /\ d * m = 0
      BY <2>1, <2>2, <2>3, <2>4
    <3> QED BY <2>2, <3>1 DEF d
  <2>5. CASE away # 0
    <3>1. m = u \div d
      BY <2>1, <2>5
    <3>2. m \in Int /\ d * m <= u /\ u < d * m + d
      BY <2>2, <3>1, QuotientIs
    <3>3. d * m \in Int
      BY <2>2, <3>2
    <3>4. u - d * m \in 0 .. d - 1
      BY <2>2, <3>2, <3>3
    <3> QED BY <2>2, <3>2, <3>4 DEF d
  <2> QED BY <2>4, <2>5
<1> HIDE DEF m, n, a, c
<1>11. \/ exact(i - 1) = c + m - n /\ exact(i) = c + m /\ away = t[i] - a
       \/ exact(i - 1) = c + m /\ exact(i) = c + m + n /\ away = t[i - 1] - a
  <2> HIDE DEF clock, cycles, p
  <2>1. CASE p = i
    <3>1. i + 1 .. i = {} /\ (i - 1) + 1 .. i = {i} /\ ~(i - 1 >= i) /\ i >= i
      BY <1>5, SMTT(30)
    <3>2. exact(i) = c + m + cycles({}) /\ exact(i - 1) = c + m - cycles({i})
      BY <2>1, <3>1
    <3>3. c + m + 0 = c + m
      BY <1>1, <1>10
    <3> HIDE DEF exact
    <3> QED BY <1>9, <2>1, <3>2, <3>3
  <2>2. CASE p = i - 1
    <3>1. (i - 1) + 1 .. i - 1 = {} /\ (i - 1) + 1 .. i = {i} /\ i - 1 >= i - 1 /\ i >= i - 1
      BY <1>5
    <3>2. exact(i) = c + m + cycles({i}) /\ exact(i - 1) = c + m + cycles({})
      BY <2>2, <3>1
    <3>3. c + m + 0 = c + m
      BY <1>1, <1>10
    <3> HIDE DEF exact
    <3> QED BY <1>9, <2>2, <3>2, <3>3
  <2> QED BY <1>3, <2>1, <2>2
<1> HIDE DEF exact
<1> DEFINE low == t[i - 1]
           high == t[i]
           below == exact(i - 1)
           above == exact(i)
           B == clock(i - 1)
           E == clock(i)
<1>12. /\ low \in Int /\ high \in Int /\ low < high /\ n * away - (high - low) * m \in 0 .. high - low - 1
       /\ \/ below = c + m - n /\ above = c + m /\ away = high - a
          \/ below = c + m /\ above = c + m + n /\ away = low - a
  BY <1>5, <1>10, <1>11
<1>13. below \in Int /\ above \in Int
  BY <1>1, <1>6, <1>10, <1>11
<1>14. B = Float(below) /\ E = Float(above)
  BY <1>8
<1> HIDE DEF low, high, below, above, away, B, E
<1>15. (c - below) * (high - low) - (above - below) * (a - low) \in 0 .. high - low - 1
  BY <1>1, <1>6, <1>7, <1>10, <1>12, MetIs
<1>16. B \in Int /\ Rounding(B) \in Nat /\ 2 * (B - below) <= Rounding(B) /\ 2 * (below - B) <= Rounding(B)
  BY <1>13, <1>14, FloatType, FloatNear
<1>17. E \in Int /\ Rounding(E) \in Nat /\ 2 * (E - above) <= Rounding(E) /\ 2 * (above - E) <= Rounding(E)
  BY <1>13, <1>14, FloatType, FloatNear
<1> DEFINE slack == Rounding(B) * Magnitude(high - a) + Rounding(E) * Magnitude(a - low)
<1>18. 2 * ((c - B) * (high - low) - (E - B) * (a - low)) \in 0 - slack .. 2 * (high - low - 1) + slack
  BY <1>1, <1>12, <1>13, <1>15, <1>16, <1>17, MetRounded
<1> QED BY <1>18 DEF low, high, B, E, a, c, MetAt

(* What is plotted is the capture, as it is loaded or as it is aligned.    *)
AsLoaded == Filled(records, LinesOf(records))
FileInv ==
  /\ records \in Captures /\ (attached => anchors \in AnchorSets)
  /\ phase = "loaded" => attached /\ spm = AsLoaded
  /\ phase \notin {"import", "loaded", "failed"} =>
       IF attached THEN anchors # {} /\ spm \in Aligned(AsLoaded, anchors) ELSE spm = AsLoaded

(* Initially nothing is plotted, *)
LEMMA InitFileInv == Init => FileInv
BY DEF Init, FileInv

(* and only Load and Align change what will be. *)
LEMMA NextFileInv == FileInv /\ [Next]_vars => FileInv'
<1> SUFFICES ASSUME FileInv, [Next]_vars PROVE FileInv'
  OBVIOUS
<1> USE DEF context, file, plot
<1>1. CASE Load
  <2>1. spm' \in Loaded(records) /\ UNCHANGED <<records, attached, anchors>> /\ phase' = IF attached THEN "loaded" ELSE "imported"
    BY <1>1 DEF Load
  <2>2. spm' = AsLoaded
    BY <2>1, LoadedOnly DEF AsLoaded
  <2>3. AsLoaded' = AsLoaded
    BY <2>1 DEF AsLoaded
  <2> HIDE DEF AsLoaded
  <2> QED BY <2>1, <2>2, <2>3 DEF FileInv
<1>2. CASE Align
  <2>1. /\ phase = "loaded" /\ UNCHANGED <<records, attached, anchors>>
        /\ phase' = "failed" \/ (phase' = "imported" /\ anchors # {} /\ spm' \in Aligned(spm, anchors))
    BY <1>2 DEF Align
  <2>2. AsLoaded' = AsLoaded
    BY <2>1 DEF AsLoaded
  <2> QED BY <2>1, <2>2 DEF FileInv
<1>3. ASSUME phase \in {"imported", "evaluate", "draw", "shown"}, phase' \in {"imported", "evaluate", "draw", "shown"},
             UNCHANGED <<records, attached, anchors, spm>>
      PROVE  FileInv'
  <2>1. AsLoaded' = AsLoaded
    BY <1>3 DEF AsLoaded
  <2> QED BY <1>3, <2>1 DEF FileInv
<1>4. CASE UpdateDataSelection
  BY <1>3, <1>4 DEF UpdateDataSelection
<1>5. ASSUME NEW t \in Texts, Update(t) PROVE FileInv'
  BY <1>3, <1>5 DEF Update
<1>6. ASSUME NEW n \in todo, Ask(n) PROVE FileInv'
  BY <1>3, <1>6 DEF Ask
<1>7. CASE GetCounter
  BY <1>3, <1>7 DEF GetCounter
<1>8. CASE Evaluate
  BY <1>3, <1>8 DEF Evaluate
<1>9. CASE Collect
  BY <1>3, <1>9 DEF Collect
<1>10. ASSUME NEW n \in pending, AddSeries(n) PROVE FileInv'
  BY <1>3, <1>10, SMTT(30) DEF AddSeries
<1>11. CASE Advance
  BY <1>3, <1>11 DEF Advance
<1>12. CASE EndSeries
  BY <1>3, <1>12 DEF EndSeries
<1>13. CASE Show
  BY <1>3, <1>13 DEF Show
<1>14. CASE UNCHANGED vars
  <2>1. AsLoaded' = AsLoaded
    BY <1>14 DEF vars, AsLoaded
  <2> QED BY <1>14, <2>1 DEF vars, FileInv
<1> QED BY <1>1, <1>2, <1>4, <1>5, <1>6, <1>7, <1>8, <1>9, <1>10, <1>11, <1>12, <1>13, <1>14 DEF Next

(* The clock of an aligned capture passes through the anchor. *)
LEMMA AnchorMeetsIs ==
  ASSUME records \in Captures, anchors \in AnchorSets, anchors # {}, spm \in Aligned(AsLoaded, anchors)
  PROVE  spm.times = AsLoaded.times /\ spm.counters = AsLoaded.counters /\ AnchorMeets
<1>1. 0 \in 0 .. XccCount(records) - 1
  <2>1. XccCount(records) \in Nat /\ XccCount(records) > 0
    BY XccCountIs
  <2> QED BY <2>1
<1>2. {"counters", "times", "clock", "spmClock"} \subseteq DOMAIN AsLoaded /\ "at" \in DOMAIN AsLoaded.clock
  BY ClockExists DEF AsLoaded
<1>3. spm.times = AsLoaded.times /\ spm.counters = AsLoaded.counters
  BY <1>2, AlignedAt
<1>4. ASSUME NEW x \in DOMAIN spm.times, Len(spm.times[x]) > 1
      PROVE  LET t == spm.times[x]
                 i == Compared(t, FirstAnchor(anchors).real)
             IN  t[i - 1] < t[i] => MetAt(spm, anchors, x, t, i)
  <2>1. x \in 0 .. XccCount(records) - 1
    BY <1>3, TimesAt DEF AsLoaded
  <2> DEFINE t == spm.times[x]
             i == Compared(t, FirstAnchor(anchors).real)
  <2>2. t = Filled(records, LinesOf(records)).times[x] /\ spm \in Aligned(Filled(records, LinesOf(records)), anchors)
    BY <1>3 DEF AsLoaded
  <2>3. SUFFICES ASSUME t[i - 1] < t[i] PROVE MetAt(spm, anchors, x, t, i)
    OBVIOUS
  <2>4. Len(t) > 1 /\ i = Compared(t, FirstAnchor(anchors).real)
    BY <1>4, SMTT(30)
  <2> HIDE DEF t, i
  <2> QED BY <2>1, <2>2, <2>3, <2>4, AnchorMet, SMTT(30)
<1>5. AnchorMeets
  BY <1>4 DEF AnchorMeets, Compared, MetAt
<1> QED BY <1>3, <1>5

(* A loaded capture is true to its records: the samples of each XCC are in *)
(* order, what each instance of a counter counted is on them if the        *)
(* windows have whole shares of it and it is, in all, below the numbers    *)
(* that a float rounds, and the aligned clock of each XCC is that of the   *)
(* trace's first REALTIME record at the moment of that record, up to the   *)
(* rounding of one quotient and of the two clocks around it.               *)
THEOREM TrueToRecords == Spec => []SamplesFaithful
<1>1. FileInv => SamplesFaithful
  <2> SUFFICES ASSUME FileInv, phase \notin {"import", "failed"} PROVE CountsConserved /\ (attached /\ phase # "loaded" => AnchorMeets)
    BY DEF SamplesFaithful
  <2>1. CASE phase = "loaded" \/ ~attached
    <3>1. records \in Captures /\ spm = AsLoaded
      BY <2>1 DEF FileInv
    <3>2. CountsConserved
      BY <3>1, CountsConservedIs DEF AsLoaded
    <3> QED BY <2>1, <3>2
  <2>2. CASE phase # "loaded" /\ attached
    <3>1. records \in Captures /\ anchors \in AnchorSets /\ anchors # {} /\ spm \in Aligned(AsLoaded, anchors)
      BY <2>2 DEF FileInv
    <3>2. spm.times = AsLoaded.times /\ spm.counters = AsLoaded.counters /\ AnchorMeets
      BY <3>1, AnchorMeetsIs
    <3>3. CountsConserved
      BY <3>1, <3>2, CountsConservedIs DEF AsLoaded
    <3> QED BY <3>2, <3>3
  <2> QED BY <2>1, <2>2
<1> QED BY <1>1, InitFileInv, NextFileInv, PTL DEF Spec
===============================================================================
