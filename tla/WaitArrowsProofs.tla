--------------------------- MODULE WaitArrowsProofs ---------------------------
(***************************************************************************)
(* No arrow is drawn too early, whatever a wave of any length executes.    *)
(* The first part says what a walk over the counters of a wait does to the *)
(* analysis; the second relates its lists to the counters of the hardware. *)
(***************************************************************************)
EXTENDS WaitArrows, FiniteSetTheorems, SequenceTheorems, TLAPS

Token == Kinds \cup {AWait, IdleWait}
Values == UNION {[cs -> Nat] : cs \in SUBSET Used[arch]}
State ==
  [parallel : [Used[arch] -> BOOLEAN], list : [Used[arch] -> Seq(Nat)], flats : [Flats -> Seq(Nat)],
   joined : Seq(Nat), found : SUBSET Nat]

Types ==
  /\ arch \in Archs
  /\ tokens \in Seq(Token) /\ Len(tokens) <= MaxTokens[arch]
  /\ parallel \in [Used[arch] -> BOOLEAN] /\ list \in [Used[arch] -> Seq(Nat)] /\ flats \in [Flats -> Seq(Nat)]
  /\ pending \in [Used[arch] -> Seq(Nat)] /\ loose \in [Used[arch] -> BOOLEAN]
  /\ misread \in BOOLEAN

-------------------------------------------------------------------------------
(* A walk over the counters of a wait                                       *)

(* Every operation in a flat list is counted on the counter. *)
Serves(c, f) == \A i \in 1 .. Len(flats[f]) : c \in tokens[flats[f][i]].on

(* Why a wait for the values v finds an operation: there are no fewer after *)
(* it in the list of a counter, or it is flat and counted on one; and the   *)
(* counter is in order or waited for until it is zero.                      *)
InOrderOrZero(c, v) == parallel[c] => v[c] = 0
FromList(op, c, v) == \E i \in 1 .. Len(list[c]) : op = list[c][i] /\ i + v[c] <= Len(list[c])
FromFlats(op, c) == \E f \in Flats : Serves(c, f) /\ \E i \in 1 .. Len(flats[f]) : op = flats[f][i]
Justified(op, v) == \E c \in DOMAIN v : InOrderOrZero(c, v) /\ (FromList(op, c, v) \/ FromFlats(op, c))

(* What is left of a list is its end. *)
EndOf(rest, whole) ==
  /\ Len(rest) <= Len(whole)
  /\ \A i \in 1 .. Len(rest) : rest[i] = whole[Len(whole) - Len(rest) + i]

(* An operation that is found leaves its place, in a list of a counter or *)
(* among the flat ones.                                                   *)
Consumed(op, lists, flat) ==
  \/ \E c \in Used[arch] : \E i \in 1 .. Len(list[c]) : op = list[c][i] /\ i + Len(lists[c]) <= Len(list[c])
  \/ \E f \in Flats : flat[f] = <<>> /\ \E i \in 1 .. Len(flats[f]) : op = flats[f][i]

Walked(s, v) ==
  /\ s \in State
  /\ \A c \in Used[arch] : EndOf(s.list[c], list[c])
  /\ \A f \in Flats : s.flats[f] = flats[f] \/ s.flats[f] = <<>>
  /\ \A c \in Used[arch] : parallel[c] => s.parallel[c] \/ (c \in DOMAIN v /\ v[c] = 0)
  /\ \A op \in s.found : Justified(op, v) /\ Consumed(op, s.list, s.flats)

(* Taking the first of a list off. *)
LEMMA SuffixOf ==
  ASSUME NEW s \in Seq(Nat), NEW k \in Nat, k <= Len(s)
  PROVE  LET r == SubSeq(s, k + 1, Len(s))
         IN  /\ r \in Seq(Nat) /\ Len(r) = Len(s) - k
             /\ \A i \in 1 .. Len(s) - k : r[i] = s[k + i]
<1> DEFINE r == SubSeq(s, k + 1, Len(s))
<1>1. Len(s) \in Nat /\ \A i \in k + 1 .. Len(s) : s[i] \in Nat
  OBVIOUS
<1>2. /\ r \in Seq(Nat)
      /\ Len(r) = IF k + 1 <= Len(s) THEN Len(s) - (k + 1) + 1 ELSE 0
      /\ \A i \in 1 .. Len(s) - (k + 1) + 1 : r[i] = s[k + 1 + i - 1]
  BY <1>1, SubSeqProperties
<1> HIDE DEF r
<1>3. Len(r) = Len(s) - k
  BY <1>1, <1>2
<1>4. \A i \in 1 .. Len(s) - k : r[i] = s[k + i]
  BY <1>1, <1>2
<1> QED BY <1>2, <1>3, <1>4 DEF r

(* An end of an end is an end. *)
LEMMA EndOfEnd ==
  ASSUME NEW w \in Seq(Nat), NEW s \in Seq(Nat), EndOf(s, w), NEW k \in Nat, k <= Len(s)
  PROVE  EndOf(SubSeq(s, k + 1, Len(s)), w)
<1> DEFINE r == SubSeq(s, k + 1, Len(s))
<1>1. /\ Len(r) = Len(s) - k /\ \A i \in 1 .. Len(s) - k : r[i] = s[k + i]
  BY SuffixOf
<1>2. Len(s) \in Nat /\ Len(w) \in Nat /\ Len(s) <= Len(w)
  BY DEF EndOf
<1> HIDE DEF r
<1>3. ASSUME NEW i \in 1 .. Len(r) PROVE r[i] = w[Len(w) - Len(r) + i]
  <2>0. i \in 1 .. Len(s) - k BY <1>1, <1>2
  <2>1. r[i] = s[k + i] /\ k + i \in 1 .. Len(s) BY <1>1, <1>2, <2>0
  <2>2. s[k + i] = w[Len(w) - Len(s) + (k + i)] BY <2>1 DEF EndOf
  <2>3. Len(w) - Len(s) + (k + i) = Len(w) - Len(r) + i BY <1>1, <1>2
  <2> QED BY <2>1, <2>2, <2>3
<1>4. EndOf(r, w) BY <1>1, <1>2, <1>3 DEF EndOf
<1> QED BY <1>4 DEF r

(* Forgetting what was joined. *)
LEMMA ChangedJoined ==
  ASSUME NEW s \in State, NEW j \in Seq(Nat)
  PROVE  LET r == [s EXCEPT !.joined = j]
         IN  r \in State /\ r.list = s.list /\ r.flats = s.flats /\ r.parallel = s.parallel /\ r.found = s.found
BY DEF State

(* The operations of a sequence. *)
In(op, s) == \E i \in 1 .. Len(s) : s[i] = op

(* What is in two lists put together is in one of them. *)
LEMMA InBoth ==
  ASSUME NEW a \in Seq(Nat), NEW b \in Seq(Nat)
  PROVE  a \o b \in Seq(Nat) /\ \A op : In(op, a \o b) <=> In(op, a) \/ In(op, b)
<1>1. /\ a \o b \in Seq(Nat) /\ Len(a \o b) = Len(a) + Len(b) /\ Len(a) \in Nat /\ Len(b) \in Nat
      /\ \A i \in 1 .. Len(a) + Len(b) : (a \o b)[i] = IF i <= Len(a) THEN a[i] ELSE b[i - Len(a)]
  OBVIOUS
<1> DEFINE m == Len(a)  n == Len(b)  r == a \o b
<1>2. /\ Len(r) = m + n /\ m \in Nat /\ n \in Nat
      /\ \A i \in 1 .. m + n : r[i] = IF i <= m THEN a[i] ELSE b[i - m]
  BY <1>1
<1> HIDE DEF m, n, r
<1>3. ASSUME NEW i \in 1 .. m + n PROVE (\E j \in 1 .. m : a[j] = r[i]) \/ (\E j \in 1 .. n : b[j] = r[i])
  <2>1. CASE i <= m
    <3>1. i \in 1 .. m /\ r[i] = a[i] BY <1>2, <2>1
    <3> QED BY <3>1
  <2>2. CASE ~(i <= m)
    <3>1. i - m \in 1 .. n /\ r[i] = b[i - m] BY <1>2, <2>2
    <3> QED BY <3>1
  <2> QED BY <2>1, <2>2
<1>4. ASSUME NEW j \in 1 .. m PROVE \E i \in 1 .. m + n : r[i] = a[j]
  <2>1. j \in 1 .. m + n /\ j <= m BY <1>2
  <2> QED BY <1>2, <2>1
<1>5. ASSUME NEW j \in 1 .. n PROVE \E i \in 1 .. m + n : r[i] = b[j]
  <2>1. j + m \in 1 .. m + n /\ ~(j + m <= m) /\ (j + m) - m = j BY <1>2
  <2>2. r[j + m] = b[j] BY <1>2, <2>1
  <2> QED BY <2>1, <2>2
<1>6. ASSUME NEW op PROVE In(op, r) <=> In(op, a) \/ In(op, b)
  <2>1. In(op, r) <=> \E i \in 1 .. m + n : r[i] = op BY <1>2 DEF In
  <2>2. In(op, a) <=> \E j \in 1 .. m : a[j] = op BY DEF In, m
  <2>3. In(op, b) <=> \E j \in 1 .. n : b[j] = op BY DEF In, n
  <2>4. ASSUME In(op, r) PROVE In(op, a) \/ In(op, b)
    <3>1. PICK i \in 1 .. m + n : r[i] = op BY <2>1, <2>4
    <3>2. (\E j \in 1 .. m : a[j] = r[i]) \/ (\E j \in 1 .. n : b[j] = r[i]) BY <1>3
    <3> QED BY <2>2, <2>3, <3>1, <3>2
  <2>5. ASSUME In(op, a) PROVE In(op, r)
    <3>1. PICK j \in 1 .. m : a[j] = op BY <2>2, <2>5
    <3>2. \E i \in 1 .. m + n : r[i] = a[j] BY <1>4
    <3> QED BY <2>1, <3>1, <3>2
  <2>6. ASSUME In(op, b) PROVE In(op, r)
    <3>1. PICK j \in 1 .. n : b[j] = op BY <2>3, <2>6
    <3>2. \E i \in 1 .. m + n : r[i] = b[j] BY <1>5
    <3> QED BY <2>1, <3>1, <3>2
  <2> QED BY <2>4, <2>5, <2>6
<1> QED BY <1>1, <1>6 DEF r

(* The first of a sequence. *)
LEMMA PrefixOf ==
  ASSUME NEW s \in Seq(Nat), NEW k \in Nat, k <= Len(s)
  PROVE  /\ SubSeq(s, 1, k) \in Seq(Nat)
         /\ \A op : In(op, SubSeq(s, 1, k)) <=> \E i \in 1 .. k : s[i] = op
<1> DEFINE b == SubSeq(s, 1, k)
<1>1. Len(s) \in Nat /\ \A i \in 1 .. Len(s) : s[i] \in Nat
  OBVIOUS
<1>2. \A i \in 1 .. k : s[i] \in Nat
  BY <1>1
<1>3. /\ b \in Seq(Nat) /\ Len(b) = IF 1 <= k THEN k - 1 + 1 ELSE 0
      /\ \A i \in 1 .. k - 1 + 1 : b[i] = s[1 + i - 1]
  BY <1>1, <1>2, SubSeqProperties
<1> HIDE DEF b
<1>4. Len(b) = k
  BY <1>3
<1>5. \A i \in 1 .. k : b[i] = s[i]
  BY <1>3
<1> QED BY <1>3, <1>4, <1>5 DEF In, b

(* One call of handle_mem_op: while the counter's order is parallel, it does *)
(* nothing; otherwise it takes all but the last n operations off.            *)
MemOpDone(r, s, c, f, n) ==
  LET done == IF Len(s.list[c]) > n THEN Len(s.list[c]) - n ELSE 0
  IN  /\ r \in State
      /\ IF s.parallel[c] /\ n # 0
         THEN r.list = s.list /\ r.flats = s.flats /\ r.parallel = s.parallel /\ r.found = s.found
         ELSE /\ r.list = [s.list EXCEPT ![c] = SubSeq(s.list[c], done + 1, Len(s.list[c]))]
              /\ r.parallel = [s.parallel EXCEPT ![c] = FALSE]
              /\ r.flats = [s.flats EXCEPT ![f] = <<>>]
              /\ \A op : op \in r.found <=> \/ op \in s.found \/ In(op, s.flats[f])
                                            \/ \E i \in 1 .. done : s.list[c][i] = op

(* MemoryCounter's handler does that. *)
LEMMA MemOpDoes ==
  ASSUME NEW s \in State, NEW c \in Used[arch], NEW n \in Nat, NEW f \in Flats
  PROVE  MemOpDone(HandleMemOp(s, c, f, n), s, c, f, n)
<1> DEFINE here == s.list[c]
           done == IF Len(here) > n THEN Len(here) - n ELSE 0
           joined == s.flats[f] \o SubSeq(here, 1, done)
           rest == SubSeq(here, done + 1, Len(here))
           r == HandleMemOp(s, c, f, n)
<1>1. /\ here \in Seq(Nat) /\ s.flats[f] \in Seq(Nat)
      /\ Len(here) \in Nat /\ done \in Nat /\ done <= Len(here)
  BY DEF State
<1>2. CASE s.parallel[c] /\ n # 0
  <2>1. r = [s EXCEPT !.joined = <<>>] BY <1>2 DEF HandleMemOp
  <2>e. <<>> \in Seq(Nat) OBVIOUS
  <2> HIDE DEF r
  <2>2. r \in State /\ r.list = s.list /\ r.flats = s.flats /\ r.parallel = s.parallel /\ r.found = s.found
    BY <2>1, <2>e, ChangedJoined
  <2> QED BY <1>2, <2>2 DEF MemOpDone, r
<1>3. CASE ~(s.parallel[c] /\ n # 0)
  <2>1. r = [s EXCEPT !.list[c] = rest, !.parallel[c] = FALSE, !.flats[f] = <<>>,
                      !.joined = joined, !.found = @ \cup {joined[i] : i \in 1 .. Len(joined)}]
    BY <1>3 DEF HandleMemOp
  <2>2. rest \in Seq(Nat)
    BY <1>1, SuffixOf
  <2> DEFINE first == SubSeq(here, 1, done)
  <2>3. first \in Seq(Nat) /\ \A op : In(op, first) <=> \E i \in 1 .. done : here[i] = op
    BY <1>1, PrefixOf
  <2>4. joined \in Seq(Nat) /\ \A op : In(op, joined) <=> In(op, s.flats[f]) \/ In(op, first)
    <3> DEFINE fl == s.flats[f]
    <3>1. fl \in Seq(Nat) /\ first \in Seq(Nat)
      BY <1>1, <2>3
    <3> HIDE DEF fl, first
    <3>2. fl \o first \in Seq(Nat) /\ \A op : In(op, fl \o first) <=> In(op, fl) \/ In(op, first)
      BY <3>1, InBoth
    <3> QED BY <3>2 DEF fl, first
  <2> DEFINE new == {joined[i] : i \in 1 .. Len(joined)}
  <2>5. \A op : op \in new <=> In(op, joined)
    BY DEF In
  <2>6. new \in SUBSET Nat
    <3>1. joined \in Seq(Nat) BY <2>4
    <3> HIDE DEF joined
    <3> QED BY <3>1
  <2>7. <<>> \in Seq(Nat) OBVIOUS
  <2>8. r = [s EXCEPT !.list[c] = rest, !.parallel[c] = FALSE, !.flats[f] = <<>>,
                      !.joined = joined, !.found = @ \cup new]
    BY <2>1
  <2> HIDE DEF r, new, joined, rest, first, done, here
  <2>9. r \in State BY <2>2, <2>4, <2>6, <2>7, <2>8 DEF State
  <2>10. r.list = [s.list EXCEPT ![c] = rest] BY <2>8 DEF State
  <2>11. r.parallel = [s.parallel EXCEPT ![c] = FALSE] BY <2>8 DEF State
  <2>12. r.flats = [s.flats EXCEPT ![f] = <<>>] BY <2>8 DEF State
  <2>13. r.found = s.found \cup new BY <2>8 DEF State
  <2>14. \A op : op \in r.found <=> op \in s.found \/ In(op, s.flats[f]) \/ \E i \in 1 .. done : here[i] = op
    BY <2>3, <2>4, <2>5, <2>13
  <2> QED BY <1>3, <2>9, <2>10, <2>11, <2>12, <2>14 DEF MemOpDone, r, rest, done, here
<1> QED BY <1>2, <1>3

(* What one call leaves is walked. *)
LEMMA MemOpWalks ==
  ASSUME Types, NEW v \in Values, NEW s, Walked(s, v), NEW c \in DOMAIN v, NEW f \in Flats, Serves(c, f)
  PROVE  Walked(HandleMemOp(s, c, f, v[c]), v)
<1> DEFINE n == v[c]  here == s.list[c]
           done == IF Len(here) > n THEN Len(here) - n ELSE 0
           rest == SubSeq(here, done + 1, Len(here))
           r == HandleMemOp(s, c, f, n)
<1>1. /\ s \in State /\ c \in Used[arch] /\ n \in Nat /\ here \in Seq(Nat) /\ s.flats[f] \in Seq(Nat)
      /\ Len(here) \in Nat /\ done \in Nat /\ done <= Len(here) /\ list[c] \in Seq(Nat)
  <2>1. s \in State BY DEF Walked
  <2>2. c \in Used[arch] /\ n \in Nat BY DEF Values
  <2>3. here \in Seq(Nat) /\ s.flats[f] \in Seq(Nat) BY <2>1, <2>2 DEF State
  <2>4. list[c] \in Seq(Nat) BY <2>2 DEF Types
  <2> QED BY <2>1, <2>2, <2>3, <2>4
<1>2. CASE s.parallel[c] /\ n # 0
  <2>1. MemOpDone(r, s, c, f, n)
    BY <1>1, MemOpDoes
  <2> HIDE DEF r
  <2>2. r \in State /\ r.list = s.list /\ r.flats = s.flats /\ r.parallel = s.parallel /\ r.found = s.found
    BY <1>2, <2>1 DEF MemOpDone
  <2> QED BY <2>2 DEF Walked, r
<1>3. CASE ~(s.parallel[c] /\ n # 0)
  <2>2. rest \in Seq(Nat) /\ EndOf(rest, list[c]) /\ Len(rest) = Len(here) - done
    BY <1>1, SuffixOf, EndOfEnd DEF Walked
  <2>5. /\ r.list = [s.list EXCEPT ![c] = rest] /\ r.parallel = [s.parallel EXCEPT ![c] = FALSE]
        /\ r.flats = [s.flats EXCEPT ![f] = <<>>] /\ r \in State
        /\ \A op : op \in r.found <=> \/ op \in s.found \/ In(op, s.flats[f])
                                      \/ \E i \in 1 .. done : here[i] = op
    <3>1. MemOpDone(r, s, c, f, n)
      BY <1>1, MemOpDoes
    <3> HIDE DEF r
    <3> QED BY <1>3, <3>1 DEF MemOpDone
  <2> HIDE DEF rest, here, done
  <2> HIDE DEF r
  <2>6. \A d \in Used[arch] : EndOf(r.list[d], list[d])
    BY <1>1, <2>2, <2>5 DEF Walked, State
  <2>7. \A g \in Flats : r.flats[g] = flats[g] \/ r.flats[g] = <<>>
    BY <1>1, <2>5 DEF Walked, State
  <2>8. parallel[c] => n = 0
    BY <1>1, <1>3 DEF Walked
  <2>9. \A d \in Used[arch] : parallel[d] => r.parallel[d] \/ (d \in DOMAIN v /\ v[d] = 0)
    BY <1>1, <2>5, <2>8 DEF Walked, State
  <2>10. ASSUME NEW op, In(op, s.flats[f]) \/ \E i \in 1 .. done : here[i] = op
         PROVE  Justified(op, v) /\ Consumed(op, r.list, r.flats)
    <3>1. InOrderOrZero(c, v) BY <2>8 DEF InOrderOrZero
    <3>2. CASE In(op, s.flats[f])
      <4>0. s.flats[f] = flats[f]
        <5>1. s.flats[f] # <<>> BY <3>2 DEF In
        <5> QED BY <5>1 DEF Walked
      <4>1. FromFlats(op, c) BY <3>2, <4>0 DEF FromFlats, In
      <4>2. r.flats[f] = <<>> BY <1>1, <2>5 DEF State
      <4>3. Consumed(op, r.list, r.flats) BY <3>2, <4>0, <4>2 DEF Consumed, In
      <4> QED BY <3>1, <4>1, <4>3 DEF Justified
    <3>3. CASE \E j \in 1 .. done : here[j] = op
      <4>1. PICK j \in 1 .. done : here[j] = op BY <3>3
      <4>2. EndOf(here, list[c]) BY <1>1 DEF Walked, here
      <4>3. Len(here) <= Len(list[c]) /\ Len(list[c]) \in Nat BY <1>1, <4>2 DEF EndOf
      <4> DEFINE k == Len(list[c]) - Len(here) + j
      <4>4. done + n = Len(here) BY <1>1, <4>1 DEF done
      <4>5. k \in 1 .. Len(list[c]) /\ k + n <= Len(list[c])
        <5> DEFINE a == Len(list[c])  b == Len(here)
        <5>1. a \in Nat /\ b \in Nat /\ b <= a /\ done \in Nat /\ n \in Nat /\ done + n = b /\ j \in 1 .. done
          BY <1>1, <4>1, <4>3, <4>4
        <5>2. k = a - b + j OBVIOUS
        <5> HIDE DEF a, b, n, k
        <5>3. k \in 1 .. a /\ k + n <= a BY <5>1, <5>2
        <5> QED BY <5>3 DEF a
      <4>6. op = list[c][k]
        <5>1. j \in 1 .. Len(here) BY <1>1, <4>1
        <5>2. here[j] = list[c][Len(list[c]) - Len(here) + j] BY <4>2, <5>1 DEF EndOf
        <5> QED BY <4>1, <5>2
      <4>7. FromList(op, c, v) BY <4>5, <4>6 DEF FromList
      <4>8. Len(r.list[c]) = n
        <5>1. r.list[c] = rest BY <1>1, <2>5 DEF State
        <5> QED BY <1>1, <2>2, <4>4, <5>1
      <4>9. Consumed(op, r.list, r.flats) BY <1>1, <4>5, <4>6, <4>8 DEF Consumed
      <4> QED BY <3>1, <4>7, <4>9 DEF Justified
    <3> QED BY <2>10, <3>2, <3>3
  <2>11. ASSUME NEW op \in s.found PROVE Justified(op, v) /\ Consumed(op, r.list, r.flats)
    <3>1. Justified(op, v) /\ Consumed(op, s.list, s.flats) BY DEF Walked
    <3>2. \A d \in Used[arch] : Len(r.list[d]) \in Nat /\ Len(s.list[d]) \in Nat /\ Len(r.list[d]) <= Len(s.list[d])
      <4> SUFFICES ASSUME NEW d \in Used[arch]
                   PROVE  Len(r.list[d]) \in Nat /\ Len(s.list[d]) \in Nat /\ Len(r.list[d]) <= Len(s.list[d])
        OBVIOUS
      <4>1. r.list[d] \in Seq(Nat) /\ s.list[d] \in Seq(Nat) BY <1>1, <2>5 DEF State
      <4>2. r.list[d] = IF d = c THEN rest ELSE s.list[d] BY <1>1, <2>5 DEF State
      <4>3. Len(rest) <= Len(here) BY <1>1, <2>2
      <4> QED BY <4>1, <4>2, <4>3 DEF here
    <3>3. \A g \in Flats : s.flats[g] = <<>> => r.flats[g] = <<>> BY <1>1, <2>5 DEF State
    <3>4. Consumed(op, r.list, r.flats)
      <4>1. CASE \E d \in Used[arch] : \E i \in 1 .. Len(list[d]) : op = list[d][i] /\ i + Len(s.list[d]) <= Len(list[d])
        <5>1. PICK d \in Used[arch] : \E i \in 1 .. Len(list[d]) : op = list[d][i] /\ i + Len(s.list[d]) <= Len(list[d])
          BY <4>1
        <5>2. PICK i \in 1 .. Len(list[d]) : op = list[d][i] /\ i + Len(s.list[d]) <= Len(list[d]) BY <5>1
        <5>3. list[d] \in Seq(Nat) BY DEF Types
        <5>4. i + Len(r.list[d]) <= Len(list[d])
          <6> DEFINE a == Len(r.list[d])  b == Len(s.list[d])  m == Len(list[d])
          <6>1. a \in Nat /\ b \in Nat /\ a <= b BY <3>2
          <6>2. m \in Nat /\ i \in Nat /\ i + b <= m BY <5>2, <5>3
          <6> HIDE DEF a, b, m
          <6>3. i + a <= m BY <6>1, <6>2
          <6> QED BY <6>3 DEF a, m
        <5> QED BY <5>2, <5>4 DEF Consumed
      <4>2. CASE \E g \in Flats : s.flats[g] = <<>> /\ \E i \in 1 .. Len(flats[g]) : op = flats[g][i]
        BY <3>3, <4>2 DEF Consumed
      <4> QED BY <3>1, <4>1, <4>2 DEF Consumed
    <3> QED BY <3>1, <3>4
  <2>12. \A op \in r.found : Justified(op, v) /\ Consumed(op, r.list, r.flats)
    BY <2>5, <2>10, <2>11
  <2> QED BY <2>5, <2>6, <2>7, <2>9, <2>12 DEF Walked, r
<1> QED BY <1>2, <1>3

(* The counter of flat loads and stores: one call or two. *)
LEMMA SharedWalks ==
  ASSUME Types, NEW v \in Values, NEW s, Walked(s, v), NEW c \in DOMAIN v, Serves(c, "load"), Serves(c, "stor")
  PROVE  Walked(HandleShared(s, c, v[c]), v)
<1> DEFINE loads == HandleMemOp(s, c, "load", v[c])
<1>1. Walked(loads, v)
  BY MemOpWalks DEF Flats
<1> HIDE DEF loads
<1>2. Walked(HandleMemOp(loads, c, "stor", v[c]), v)
  BY <1>1, MemOpWalks DEF Flats
<1>3. HandleShared(s, c, v[c]) = loads \/ HandleShared(s, c, v[c]) = HandleMemOp(loads, c, "stor", v[c])
  BY DEF HandleShared, loads
<1> QED BY <1>1, <1>2, <1>3

(* Which list of flat operations the wait of a counter joins. *)
Joins(c) ==
  IF (arch = "gfx10" /\ c = "lgkm") \/ c = "ds" THEN {"load", "stor"}
  ELSE IF c \in {"lgkm", "vm", "load"} THEN {"load"}
  ELSE IF c \in {"vs", "store"} THEN {"stor"}
  ELSE {"empty"}

(* One counter of a wait keeps the invariant of the walk over it. *)
LEMMA CounterWalks ==
  ASSUME Types, NEW v \in Values, NEW s, Walked(s, v), NEW c, c \in DOMAIN v => \A f \in Joins(c) : Serves(c, f)
  PROVE  Walked(At(s, c, v), v)
<1>1. CASE c \notin DOMAIN v
  BY <1>1 DEF At
<1>2. CASE c \in DOMAIN v
  <2>1. At(s, c, v) = HandleCounter(s, c, v[c]) BY <1>2 DEF At
  <2>2. CASE (arch = "gfx10" /\ c = "lgkm") \/ c = "ds"
    <3>1. Serves(c, "load") /\ Serves(c, "stor") BY <1>2, <2>2 DEF Joins
    <3> QED BY <1>2, <2>1, <2>2, <3>1, SharedWalks DEF HandleCounter
  <2>3. CASE ~((arch = "gfx10" /\ c = "lgkm") \/ c = "ds") /\ c \in {"lgkm", "vm", "load"}
    <3>1. Serves(c, "load") BY <1>2, <2>3 DEF Joins
    <3> QED BY <1>2, <2>1, <2>3, <3>1, MemOpWalks DEF HandleCounter, Flats
  <2>4. CASE ~((arch = "gfx10" /\ c = "lgkm") \/ c = "ds") /\ c \notin {"lgkm", "vm", "load"} /\ c \in {"vs", "store"}
    <3>1. Serves(c, "stor") BY <1>2, <2>4 DEF Joins
    <3> QED BY <1>2, <2>1, <2>4, <3>1, MemOpWalks DEF HandleCounter, Flats
  <2>5. CASE ~((arch = "gfx10" /\ c = "lgkm") \/ c = "ds") /\ c \notin {"lgkm", "vm", "load"} /\ c \notin {"vs", "store"}
    <3>1. Serves(c, "empty") BY <1>2, <2>5 DEF Joins
    <3> QED BY <1>2, <2>1, <2>5, <3>1, MemOpWalks DEF HandleCounter, Flats
  <2> QED BY <2>2, <2>3, <2>4, <2>5
<1> QED BY <1>1, <1>2

(* The kinds of operations: on what they count and what lists they go to. *)
LEMMA KindFacts ==
  ASSUME arch \in Archs, NEW k \in Kinds
  PROVE  /\ k.on \subseteq Used[arch] /\ k.on # {} /\ k.times \in {1, 2} /\ k.ordered \in BOOLEAN /\ k.flat \in Flats
         /\ k.flat # "empty" => ~k.ordered /\ k.times = 1
         /\ k.flat = "load" => k.on = IF arch = "gfx12" THEN {"ds", "load"} ELSE {"lgkm", "vm"}
         /\ k.flat = "stor" => k.on = IF arch = "gfx12" THEN {"ds", "store"} ELSE {"lgkm", "vs"}
         /\ arch = "gfx9" => k.flat # "stor"
         /\ k.flat = "empty" => \A c, d \in k.on : c = d
<1>1. k.on \subseteq Used[arch]
  BY DEF Kinds
<1>2. \/ \E c : k = InOrder(c) \/ k = Twice(c) \/ k = OutOfOrder(c)
      \/ k = Flat(IF arch = "gfx12" THEN {"ds", "load"} ELSE {"lgkm", "vm"}, "load")
      \/ k = Flat(IF arch = "gfx12" THEN {"ds", "store"} ELSE {"lgkm", "vs"}, "stor") /\ arch # "gfx9"
  <2>1. CASE arch = "gfx9" BY <2>1 DEF Kinds, Kinds9
  <2>2. CASE arch = "gfx10" BY <2>2 DEF Kinds, Kinds10
  <2>3. CASE arch = "gfx12" BY <2>3 DEF Kinds, Kinds12
  <2> QED BY <2>1, <2>2, <2>3, BoundsAssumption
<1>3. CASE \E c : k = InOrder(c) \/ k = Twice(c) \/ k = OutOfOrder(c)
  <2>1. PICK c : k = InOrder(c) \/ k = Twice(c) \/ k = OutOfOrder(c) BY <1>3
  <2>2. k.on = {c} /\ k.times \in {1, 2} /\ k.ordered \in BOOLEAN /\ k.flat = "empty"
    <3>1. CASE k = InOrder(c) BY <3>1 DEF InOrder
    <3>2. CASE k = Twice(c) BY <3>2 DEF Twice
    <3>3. CASE k = OutOfOrder(c) BY <3>3 DEF OutOfOrder
    <3> QED BY <2>1, <3>1, <3>2, <3>3
  <2> QED BY <1>1, <2>2 DEF Flats
<1>4. ASSUME NEW cs, NEW f, k = Flat(cs, f)
      PROVE  k.on = cs /\ k.times = 1 /\ k.ordered = FALSE /\ k.flat = f
  BY <1>4 DEF Flat
<1>5. CASE k = Flat(IF arch = "gfx12" THEN {"ds", "load"} ELSE {"lgkm", "vm"}, "load")
  <2> DEFINE cs == IF arch = "gfx12" THEN {"ds", "load"} ELSE {"lgkm", "vm"}
  <2>1. cs # {} OBVIOUS
  <2>2. k.on = cs /\ k.times = 1 /\ k.ordered = FALSE /\ k.flat = "load" BY <1>4, <1>5
  <2> HIDE DEF cs
  <2>3. /\ k.on \subseteq Used[arch] /\ k.on # {} /\ k.times \in {1, 2} /\ k.ordered \in BOOLEAN /\ k.flat \in Flats
        /\ k.flat # "empty" /\ ~k.ordered /\ k.flat # "stor" /\ k.on = cs
    BY <1>1, <2>1, <2>2 DEF Flats
  <2> QED BY <2>2, <2>3 DEF cs
<1>6. CASE k = Flat(IF arch = "gfx12" THEN {"ds", "store"} ELSE {"lgkm", "vs"}, "stor") /\ arch # "gfx9"
  <2> DEFINE cs == IF arch = "gfx12" THEN {"ds", "store"} ELSE {"lgkm", "vs"}
  <2>1. cs # {} OBVIOUS
  <2>2. k.on = cs /\ k.times = 1 /\ k.ordered = FALSE /\ k.flat = "stor" BY <1>4, <1>6
  <2> HIDE DEF cs
  <2>3. /\ k.on \subseteq Used[arch] /\ k.on # {} /\ k.times \in {1, 2} /\ k.ordered \in BOOLEAN /\ k.flat \in Flats
        /\ k.flat # "empty" /\ ~k.ordered /\ k.flat # "load" /\ k.on = cs
    BY <1>1, <2>1, <2>2 DEF Flats
  <2> QED BY <1>6, <2>2, <2>3 DEF cs
<1> QED BY <1>2, <1>3, <1>5, <1>6

-------------------------------------------------------------------------------
(* The lists and the counters of the hardware                               *)

(* The lists hold operations of their counter, or flat ones of their sort. *)
Lists ==
  /\ \A c \in Used[arch] : \A i \in 1 .. Len(list[c]) :
       list[c][i] \in 1 .. Len(tokens) /\ c \in tokens[list[c][i]].on
  /\ \A f \in Flats : \A i \in 1 .. Len(flats[f]) :
       flats[f][i] \in Issued /\ tokens[flats[f][i]].flat = f
  /\ flats["empty"] = <<>>

Pairs == arrows \subseteq (1 .. Len(tokens)) \X Issued /\ waited \subseteq (1 .. Len(tokens)) \X Nat

(* The operation was waited for; the counter has it, with n after it. *)
IsWaited(op) == \E w \in waited : w[2] = op
Has(s, op, n) == \E j \in 1 .. Len(s) : s[j] = op /\ j + n <= Len(s)
Pends(op, c, n) == Has(pending[c], op, n)

(* An operation in a list that nobody waited for is as far behind in the   *)
(* counter as in the list, or further: flat operations are only there.     *)
Behind ==
  \A c \in Used[arch] : \A i \in 1 .. Len(list[c]) :
    IsWaited(list[c][i]) \/ Pends(list[c][i], c, Len(list[c]) - i)

(* A flat operation that nobody waited for makes its counters loose. *)
UnderWay ==
  \A f \in Flats : \A i \in 1 .. Len(flats[f]) :
    IsWaited(flats[f][i]) \/ \A c \in tokens[flats[f][i]].on : loose[c] /\ Pends(flats[f][i], c, 0)

(* As long as values are read right, no counter is in order for the *)
(* analysis that is not for the hardware.                           *)
Cautious == ~misread => \A c \in Used[arch] : loose[c] => parallel[c]

IInv == Types /\ Lists /\ Pairs /\ Behind /\ UnderWay /\ Cautious /\ NoArrowTooEarly

(* A wait of a counter joins only flat operations counted on it. *)
LEMMA FlatsServe ==
  ASSUME Types, Lists
  PROVE  /\ \A c : Serves(c, "empty")
         /\ arch \in {"gfx9", "gfx10"} => Serves("lgkm", "load") /\ Serves("vm", "load")
         /\ arch = "gfx10" => Serves("lgkm", "stor") /\ Serves("vs", "stor")
         /\ arch = "gfx12" => Serves("ds", "load") /\ Serves("load", "load") /\ Serves("ds", "stor") /\ Serves("store", "stor")
<1>1. ASSUME NEW c PROVE Serves(c, "empty")
  BY DEF Serves, Lists
<1>2. ASSUME NEW f \in {"load", "stor"}, NEW i \in 1 .. Len(flats[f])
      PROVE  tokens[flats[f][i]] \in Kinds /\ tokens[flats[f][i]].flat = f
  <2>1. flats[f][i] \in 1 .. Len(tokens) /\ tokens[flats[f][i]].flat = f BY DEF Lists, Issued, Flats
  <2>2. tokens[flats[f][i]] \in Token BY <2>1 DEF Types
  <2>3. AWait.flat = "empty" /\ IdleWait.flat = "empty" BY DEF AWait, IdleWait
  <2> QED BY <2>1, <2>2, <2>3 DEF Token
<1>3. arch \in Archs
  BY DEF Types
<1>4. ASSUME NEW i \in 1 .. Len(flats["load"])
      PROVE  tokens[flats["load"][i]].on = IF arch = "gfx12" THEN {"ds", "load"} ELSE {"lgkm", "vm"}
  BY <1>2, <1>3, KindFacts
<1>5. ASSUME NEW i \in 1 .. Len(flats["stor"])
      PROVE  tokens[flats["stor"][i]].on = IF arch = "gfx12" THEN {"ds", "store"} ELSE {"lgkm", "vs"}
  BY <1>2, <1>3, KindFacts
<1>6. ASSUME NEW c, c \in IF arch = "gfx12" THEN {"ds", "load"} ELSE {"lgkm", "vm"} PROVE Serves(c, "load")
  BY <1>4, <1>6 DEF Serves
<1>7. ASSUME NEW c, c \in IF arch = "gfx12" THEN {"ds", "store"} ELSE {"lgkm", "vs"} PROVE Serves(c, "stor")
  BY <1>5, <1>7 DEF Serves
<1> QED BY <1>1, <1>6, <1>7

(* The walk of a wait, on each architecture. *)
LEMMA FoundWalks ==
  ASSUME Types, Lists, NEW v \in Values
  PROVE  Walked(Found(v), v)
<1> DEFINE start == [parallel |-> parallel, list |-> list, flats |-> flats, joined |-> <<>>, found |-> {}]
<1>1. Walked(start, v)
  <2>1. start \in State BY DEF Types, State
  <2>2. \A c \in Used[arch] : EndOf(list[c], list[c])
    <3>1. \A c \in Used[arch] : Len(list[c]) \in Nat BY DEF Types
    <3> QED BY <3>1 DEF EndOf
  <2> QED BY <2>1, <2>2 DEF Walked
<1> HIDE DEF start
<1>2. CASE arch = "gfx9"
  <2>1. Joins("lgkm") = {"load"} /\ Joins("vm") = {"load"} BY <1>2 DEF Joins
  <2> DEFINE s1 == At(start, "lgkm", v)
  <2>2. Walked(s1, v) BY <1>1, <1>2, <2>1, FlatsServe, CounterWalks
  <2> HIDE DEF s1
  <2>3. Walked(At(s1, "vm", v), v) BY <1>2, <2>1, <2>2, FlatsServe, CounterWalks
  <2> QED BY <1>2, <2>3 DEF Found, Walk9, s1, start
<1>3. CASE arch = "gfx10"
  <2>1. Joins("vs") = {"stor"} /\ Joins("vm") = {"load"} /\ Joins("lgkm") = {"load", "stor"} BY <1>3 DEF Joins
  <2> DEFINE s1 == At(start, "vs", v)  s2 == At(s1, "vm", v)
  <2>2. Walked(s1, v) BY <1>1, <1>3, <2>1, FlatsServe, CounterWalks
  <2> HIDE DEF s1
  <2>3. Walked(s2, v) BY <1>3, <2>1, <2>2, FlatsServe, CounterWalks
  <2> HIDE DEF s2
  <2>4. Walked(At(s2, "lgkm", v), v) BY <1>3, <2>1, <2>3, FlatsServe, CounterWalks
  <2> QED BY <1>3, <2>4 DEF Found, Walk10, s1, s2, start
<1>4. CASE arch = "gfx12"
  <2>1. \A c \in {"bvh", "exp", "sample", "km", "tensor", "async"} : Joins(c) = {"empty"}
    BY <1>4 DEF Joins
  <2>2. Joins("store") = {"stor"} /\ Joins("load") = {"load"} /\ Joins("ds") = {"load", "stor"} BY <1>4 DEF Joins
  <2>3. ASSUME NEW s, Walked(s, v), NEW c \in {"bvh", "exp", "sample", "km", "tensor", "async", "store", "load", "ds"}
        PROVE  Walked(At(s, c, v), v)
    <3>1. \A f \in Joins(c) : Serves(c, f) BY <1>4, <2>1, <2>2, FlatsServe
    <3> QED BY <2>3, <3>1, CounterWalks
  <2> DEFINE s1 == At(start, "bvh", v)  s2 == At(s1, "exp", v)  s3 == At(s2, "sample", v)
             s4 == At(s3, "km", v)  s5 == At(s4, "store", v)  s6 == At(s5, "load", v)
             s7 == At(s6, "tensor", v)  s8 == At(s7, "async", v)  s9 == At(s8, "ds", v)
  <2>4. Found(v) = s9 BY <1>4 DEF Found, Walk12, start
  <2>5. Walked(s3, v)
    <3> HIDE DEF s1, s2
    <3>1. Walked(s1, v) BY <1>1, <2>3 DEF s1
    <3>2. Walked(s2, v) BY <3>1, <2>3 DEF s2
    <3> QED BY <3>2, <2>3 DEF s3
  <2> HIDE DEF s3
  <2>6. Walked(s6, v)
    <3> HIDE DEF s4, s5
    <3>1. Walked(s4, v) BY <2>5, <2>3 DEF s4
    <3>2. Walked(s5, v) BY <3>1, <2>3 DEF s5
    <3> QED BY <3>2, <2>3 DEF s6
  <2> HIDE DEF s6
  <2>7. Walked(s9, v)
    <3> HIDE DEF s7, s8
    <3>1. Walked(s7, v) BY <2>6, <2>3 DEF s7
    <3>2. Walked(s8, v) BY <3>1, <2>3 DEF s8
    <3> QED BY <3>2, <2>3 DEF s9
  <2> QED BY <2>4, <2>7 DEF s3, s6
<1> QED BY <1>2, <1>3, <1>4, BoundsAssumption DEF Types

-------------------------------------------------------------------------------
(* One token more                                                           *)
LEMMA OneMore ==
  ASSUME Types, NEW t \in Token, tokens' = Append(tokens, t), arch' = arch, Len(tokens) < MaxTokens[arch]
  PROVE  /\ tokens' \in Seq(Token)' /\ Len(tokens') = Now /\ Len(tokens') <= MaxTokens[arch'] /\ Now \in Nat
         /\ \A i \in 1 .. Len(tokens) : i \in 1 .. Len(tokens') /\ tokens'[i] = tokens[i]
         /\ tokens'[Now] = t /\ Issued \subseteq Issued'
<1>1. Token' = Token
  BY DEF Token, Kinds, Kinds9, Kinds10, Kinds12
<1>2. Len(tokens) \in Nat /\ arch \in Archs /\ MaxTokens[arch] \in Nat
  BY BoundsAssumption DEF Types
<1>3. /\ tokens' \in Seq(Token) /\ Len(tokens') = Len(tokens) + 1 /\ tokens'[Len(tokens) + 1] = t
      /\ \A i \in 1 .. Len(tokens) : tokens'[i] = tokens[i]
  BY DEF Types
<1>4. \A i \in 1 .. Len(tokens) : i \in 1 .. Len(tokens')
  BY <1>2, <1>3
<1>5. Issued \subseteq Issued'
  BY <1>3, <1>4 DEF Issued
<1> QED BY <1>1, <1>2, <1>3, <1>4, <1>5 DEF Now

(* What a wait for the values v completes. *)
LEMMA Completing ==
  ASSUME Types, Pairs, NEW v \in Values, Complete(v), arch' = arch, Len(tokens') = Now
  PROVE  /\ pending' \in [Used[arch] -> Seq(Nat)] /\ loose' \in [Used[arch] -> BOOLEAN]
         /\ waited \subseteq waited' /\ waited' \subseteq (1 .. Len(tokens')) \X Nat
         /\ \A c \in Used[arch], op, n \in Nat : Pends(op, c, n) => Pends(op, c, n)' \/ IsWaited(op)'
         /\ \A c \in DOMAIN v, op \in Nat : Pends(op, c, v[c]) /\ (loose[c] => v[c] = 0) => IsWaited(op)'
         /\ \A c \in Used[arch] : loose'[c] <=> loose[c] /\ ~(c \in DOMAIN v /\ v[c] = 0)
<1> DEFINE N(c) == IF c \in DOMAIN v THEN Completed(c, v[c]) ELSE 0
<1>1. Len(tokens) \in Nat /\ Now \in Nat /\ Now \in 1 .. Len(tokens')
  BY DEF Types, Now
<1>2. ASSUME NEW c \in Used[arch]
      PROVE  /\ pending[c] \in Seq(Nat) /\ Len(pending[c]) \in Nat /\ N(c) \in Nat /\ N(c) <= Len(pending[c])
             /\ c \in DOMAIN v /\ (loose[c] => v[c] = 0) => v[c] \in Nat /\ Len(pending[c]) <= N(c) + v[c]
  <2>1. pending[c] \in Seq(Nat) /\ Len(pending[c]) \in Nat BY DEF Types
  <2>2. c \in DOMAIN v => v[c] \in Nat BY DEF Values
  <2> QED BY <2>1, <2>2 DEF Completed
<1>3. /\ pending' = [c \in Used[arch] |-> SubSeq(pending[c], N(c) + 1, Len(pending[c]))]
      /\ loose' = [c \in Used[arch] |-> loose[c] /\ ~(c \in DOMAIN v /\ v[c] = 0)]
      /\ waited' = waited \cup UNION {{<<Now, pending[c][i]>> : i \in 1 .. N(c)} : c \in DOMAIN v}
  BY DEF Complete, Types
<1> HIDE DEF N
<1>4. ASSUME NEW c \in Used[arch]
      PROVE  /\ pending'[c] \in Seq(Nat) /\ Len(pending'[c]) = Len(pending[c]) - N(c)
             /\ \A i \in 1 .. Len(pending[c]) - N(c) : pending'[c][i] = pending[c][N(c) + i]
  BY <1>2, <1>3, SuffixOf
<1>5. pending' \in [Used[arch] -> Seq(Nat)] /\ loose' \in [Used[arch] -> BOOLEAN]
  BY <1>3, <1>4
<1>6. DOMAIN v \subseteq Used[arch]
  BY DEF Values
<1>7. \A c \in DOMAIN v : \A i \in 1 .. N(c) : <<Now, pending[c][i]>> \in waited' /\ pending[c][i] \in Nat
  <2> SUFFICES ASSUME NEW c \in DOMAIN v, NEW i \in 1 .. N(c)
               PROVE  <<Now, pending[c][i]>> \in waited' /\ pending[c][i] \in Nat
    OBVIOUS
  <2>1. <<Now, pending[c][i]>> \in waited' BY <1>3
  <2>2. i \in 1 .. Len(pending[c]) BY <1>2, <1>6
  <2> QED BY <1>2, <1>6, <2>1, <2>2, SMTT(30)
<1>8. waited \subseteq waited'
  BY <1>3
<1>9. waited' \subseteq (1 .. Len(tokens')) \X Nat
  <2>1. waited \subseteq (1 .. Len(tokens')) \X Nat
    <3>1. 1 .. Len(tokens) \subseteq 1 .. Len(tokens') BY <1>1 DEF Now
    <3> QED BY <3>1 DEF Pairs
  <2>2. ASSUME NEW c \in DOMAIN v, NEW i \in 1 .. N(c) PROVE <<Now, pending[c][i]>> \in (1 .. Len(tokens')) \X Nat
    BY <1>1, <1>7
  <2> QED BY <1>3, <2>1, <2>2
<1>10. ASSUME NEW c \in DOMAIN v, NEW i \in 1 .. N(c) PROVE \E w \in waited' : w[2] = pending[c][i]
  <2>1. <<Now, pending[c][i]>> \in waited' BY <1>7
  <2> QED BY <2>1
<1>11. ASSUME NEW c \in Used[arch], NEW op, NEW n \in Nat, Pends(op, c, n)
       PROVE  Pends(op, c, n)' \/ IsWaited(op)'
  <2>1. PICK j \in 1 .. Len(pending[c]) : pending[c][j] = op /\ j + n <= Len(pending[c])
    BY <1>11 DEF Pends, Has
  <2>2. CASE j <= N(c)
    <3>1. c \in DOMAIN v BY <1>2, <2>2 DEF N
    <3>2. j \in 1 .. N(c) BY <1>2, <2>2
    <3> QED BY <1>10, <2>1, <3>1, <3>2 DEF IsWaited
  <2>3. CASE ~(j <= N(c))
    <3> DEFINE m == Len(pending[c])  k == j - N(c)
    <3>1. m \in Nat /\ N(c) \in Nat /\ N(c) <= m /\ j \in 1 .. m /\ j + n <= m BY <1>2, <2>1
    <3>2. Len(pending'[c]) = m - N(c) BY <1>4
    <3> HIDE DEF m
    <3>3. k \in 1 .. m - N(c) /\ k + n <= m - N(c) /\ N(c) + k = j BY <2>3, <3>1
    <3>4. pending'[c][k] = pending[c][N(c) + k] BY <1>4, <3>3 DEF m
    <3>5. pending'[c][k] = op /\ k \in 1 .. Len(pending'[c]) /\ k + n <= Len(pending'[c])
      BY <2>1, <3>2, <3>3, <3>4
    <3> QED BY <3>5 DEF Pends, Has
  <2> QED BY <2>2, <2>3
<1>12. ASSUME NEW c \in DOMAIN v, NEW op, Pends(op, c, v[c]), loose[c] => v[c] = 0
       PROVE  IsWaited(op)'
  <2>1. PICK j \in 1 .. Len(pending[c]) : pending[c][j] = op /\ j + v[c] <= Len(pending[c])
    BY <1>12 DEF Pends, Has
  <2>2. v[c] \in Nat /\ Len(pending[c]) <= N(c) + v[c] /\ Len(pending[c]) \in Nat /\ N(c) \in Nat
    BY <1>2, <1>6, <1>12
  <2>3. j \in 1 .. N(c) BY <2>1, <2>2
  <2> QED BY <1>10, <2>1, <2>3 DEF IsWaited
<1>13. \A c \in Used[arch] : loose'[c] <=> loose[c] /\ ~(c \in DOMAIN v /\ v[c] = 0)
  BY <1>3
<1> QED BY <1>5, <1>8, <1>9, <1>11, <1>12, <1>13

(* The part of the invariant about flat operations, after any wait. *)
LEMMA WaitUnderWay ==
  ASSUME Types, Lists, Pairs, UnderWay, NEW t \in Token, tokens' = Append(tokens, t), arch' = arch,
         Len(tokens) < MaxTokens[arch], NEW v \in Values, Complete(v),
         \A f \in Flats : flats'[f] = flats[f] \/ flats'[f] = <<>>
  PROVE  UnderWay'
<1> SUFFICES ASSUME NEW f \in Flats, NEW i \in 1 .. Len(flats'[f]), NEW op, op = flats'[f][i], ~IsWaited(op)',
                    NEW c \in tokens'[op].on
             PROVE  loose'[c] /\ Pends(op, c, 0)'
  BY DEF UnderWay
<1>1. flats'[f] = flats[f] /\ op = flats[f][i] /\ i \in 1 .. Len(flats[f])
  OBVIOUS
<1>2. op \in 1 .. Len(tokens) /\ tokens'[op] = tokens[op] /\ tokens[op].flat = f /\ tokens[op].on # {}
  <2>1. op \in Issued /\ tokens[op].flat = f BY <1>1 DEF Lists
  <2>2. op \in 1 .. Len(tokens) /\ tokens[op].on # {} BY <2>1 DEF Issued
  <2>3. \A j \in 1 .. Len(tokens) : tokens'[j] = tokens[j] BY OneMore
  <2> QED BY <2>1, <2>2, <2>3
<1>3. tokens[op] \in Kinds
  <2>1. tokens[op] \in Token BY <1>2 DEF Types
  <2>2. AWait.on = {} /\ IdleWait.on = {} BY DEF AWait, IdleWait
  <2> QED BY <1>2, <2>1, <2>2 DEF Token
<1>4. c \in tokens[op].on /\ c \in Used[arch]
  BY <1>2, <1>3, KindFacts DEF Types
<1>5. Len(tokens') = Now
  BY OneMore
<1>6. ~IsWaited(op)' /\ ~IsWaited(op)
  <2>1. waited \subseteq waited' BY <1>5, Completing
  <2> QED BY <2>1 DEF IsWaited
<1>7. loose[c] /\ Pends(op, c, 0)
  BY <1>1, <1>4, <1>6 DEF UnderWay
<1>8. Pends(op, c, 0)' \/ IsWaited(op)'
  <2>1. op \in Nat BY <1>2
  <2> QED BY <1>4, <1>5, <1>7, <2>1, Completing
<1>9. ~(c \in DOMAIN v /\ v[c] = 0)
  <2> SUFFICES ASSUME c \in DOMAIN v, v[c] = 0 PROVE FALSE OBVIOUS
  <2>1. op \in Nat BY <1>2
  <2>2. IsWaited(op)' BY <1>5, <1>7, <2>1, Completing
  <2> QED BY <1>6, <2>2
<1>10. loose'[c]
  BY <1>4, <1>5, <1>7, <1>9, Completing
<1> QED BY <1>6, <1>8, <1>10

(* The parts about the lists, after any wait: what is left of a list keeps *)
(* its distance to the end.                                                *)
LEMMA WaitKeeps ==
  ASSUME IInv, NEW t \in Token, tokens' = Append(tokens, t), arch' = arch,
         Len(tokens) < MaxTokens[arch], NEW v \in Values, Complete(v),
         list' \in [Used[arch] -> Seq(Nat)], \A c \in Used[arch] : EndOf(list'[c], list[c]),
         \A f \in Flats : flats'[f] = flats[f] \/ flats'[f] = <<>>
  PROVE  Lists' /\ Behind' /\ UnderWay'
<1> USE DEF IInv
<1>1. Len(tokens') = Now /\ \A i \in 1 .. Len(tokens) : i \in 1 .. Len(tokens') /\ tokens'[i] = tokens[i]
  BY OneMore
<1>2. ASSUME NEW c \in Used[arch], NEW i \in 1 .. Len(list'[c])
      PROVE  \E k \in 1 .. Len(list[c]) : list'[c][i] = list[c][k] /\ Len(list[c]) - k = Len(list'[c]) - i
                                          /\ Len(list[c]) - k \in Nat
  <2> DEFINE m == Len(list[c])  n == Len(list'[c])  k == m - n + i
  <2>1. m \in Nat /\ n \in Nat /\ n <= m /\ list'[c][i] = list[c][k]
    <3>1. m \in Nat /\ n \in Nat BY DEF Types
    <3>2. EndOf(list'[c], list[c]) OBVIOUS
    <3> QED BY <3>1, <3>2 DEF EndOf
  <2>2. k \in 1 .. m /\ m - k = n - i /\ m - k \in Nat
    <3> HIDE DEF m
    <3>1. n \in Nat /\ i \in 1 .. n BY <2>1
    <3> HIDE DEF n
    <3> QED BY <2>1, <3>1
  <2> QED BY <2>1, <2>2
<1>3. \A c \in Used[arch] : \A i \in 1 .. Len(list'[c]) :
        list'[c][i] \in 1 .. Len(tokens') /\ c \in tokens'[list'[c][i]].on
  <2> SUFFICES ASSUME NEW c \in Used[arch], NEW i \in 1 .. Len(list'[c])
               PROVE  list'[c][i] \in 1 .. Len(tokens') /\ c \in tokens'[list'[c][i]].on
    OBVIOUS
  <2>1. PICK k \in 1 .. Len(list[c]) : list'[c][i] = list[c][k] BY <1>2
  <2>2. list[c][k] \in 1 .. Len(tokens) /\ c \in tokens[list[c][k]].on BY DEF Lists
  <2> QED BY <1>1, <2>1, <2>2
<1>4. \A f \in Flats : \A i \in 1 .. Len(flats'[f]) : flats'[f][i] \in Issued' /\ tokens'[flats'[f][i]].flat = f
  <2> SUFFICES ASSUME NEW f \in Flats, NEW i \in 1 .. Len(flats'[f])
               PROVE  flats'[f][i] \in Issued' /\ tokens'[flats'[f][i]].flat = f
    OBVIOUS
  <2>1. flats'[f] = flats[f] OBVIOUS
  <2>2. flats[f][i] \in Issued /\ tokens[flats[f][i]].flat = f BY <2>1 DEF Lists
  <2>3. flats[f][i] \in 1 .. Len(tokens) BY <2>2 DEF Issued
  <2>4. flats[f][i] \in Issued' BY <2>2, OneMore
  <2> QED BY <1>1, <2>1, <2>2, <2>3, <2>4
<1>5. flats'["empty"] = <<>>
  BY DEF Lists, Flats
<1>6. Lists'
  BY <1>3, <1>4, <1>5 DEF Lists
<1>7. Behind'
  <2> SUFFICES ASSUME NEW c \in Used[arch], NEW i \in 1 .. Len(list'[c]), NEW op, op = list'[c][i],
                      NEW n, n = Len(list'[c]) - i
               PROVE  IsWaited(op)' \/ Pends(op, c, n)'
    BY DEF Behind
  <2>1. PICK k \in 1 .. Len(list[c]) : op = list[c][k] /\ Len(list[c]) - k = n /\ n \in Nat BY <1>2
  <2>2. IsWaited(op) \/ Pends(op, c, n) BY <2>1 DEF Behind
  <2>3. op \in Nat BY <2>1, SMTT(30) DEF Lists
  <2>4. waited \subseteq waited' BY <1>1, Completing
  <2>5. IsWaited(op) => IsWaited(op)' BY <2>4 DEF IsWaited
  <2>6. Pends(op, c, n) => Pends(op, c, n)' \/ IsWaited(op)' BY <1>1, <2>1, <2>3, Completing
  <2> QED BY <2>2, <2>5, <2>6
<1> QED BY <1>6, <1>7, WaitUnderWay

(* New arrows: to operations that were waited for by now. *)
LEMMA NewArrows ==
  ASSUME Types, Pairs, NoArrowTooEarly, Len(tokens') = Now, waited \subseteq waited',
         waited' \subseteq (1 .. Len(tokens')) \X Nat, Issued \subseteq Issued', misread => misread',
         NEW ops, ops \subseteq Issued', arrows' = arrows \cup {<<Now, op>> : op \in ops},
         ~misread' => \A op \in ops : IsWaited(op)'
  PROVE  Pairs' /\ NoArrowTooEarly'
<1>1. Now \in Nat /\ Now \in 1 .. Len(tokens') /\ 1 .. Len(tokens) \subseteq 1 .. Len(tokens')
  BY DEF Types, Now
<1>2. Pairs'
  <2>1. arrows \subseteq (1 .. Len(tokens')) \X Issued' BY <1>1 DEF Pairs
  <2> QED BY <1>1, <2>1 DEF Pairs
<1>3. ASSUME ~misread', NEW a \in arrows' PROVE \E w \in waited' : w[2] = a[2] /\ w[1] <= a[1]
  <2>1. CASE a \in arrows
    <3>1. PICK w \in waited : w[2] = a[2] /\ w[1] <= a[1] BY <1>3, <2>1 DEF NoArrowTooEarly
    <3> QED BY <3>1
  <2>2. CASE a \notin arrows
    <3>1. PICK op \in ops : a = <<Now, op>> BY <2>2
    <3>2. PICK w \in waited' : w[2] = op BY <1>3, <3>1 DEF IsWaited
    <3>3. w[1] \in 1 .. Now BY <3>2
    <3>4. w[1] <= Now BY <1>1, <3>3
    <3> QED BY <3>1, <3>2, <3>4
  <2> QED BY <2>1, <2>2
<1> QED BY <1>2, <1>3 DEF NoArrowTooEarly

(* What is read is a value for each counter that the wait is for. *)
LEMMA ReadIsTyped ==
  ASSUME Types, NEW values \in Waits
  PROVE  values \in Values /\ Read(values) \in Values /\ DOMAIN Read(values) = DOMAIN values
<1>1. PICK cs \in (IF arch = "gfx9" THEN Sets9 ELSE IF arch = "gfx10" THEN Sets10 ELSE Sets12) :
        cs \subseteq Used[arch] /\ values \in [cs -> 0 .. MaxValue]
  BY DEF Waits
<1>2. values \in [cs -> Nat]
  BY <1>1
<1>3. ASSUME NEW c \in cs
      PROVE  (IF c = "vs" THEN 0
              ELSE IF Cardinality(DOMAIN values) = 1 \/ arch # "gfx12" THEN values[c]
              ELSE IF c = "ds" THEN values["ds"] + 256 * values[CHOOSE d \in DOMAIN values : d # "ds"]
              ELSE 0) \in Nat
  <2>1. CASE Cardinality(cs) # 1 /\ arch = "gfx12" /\ c = "ds"
    <3>1. cs # {"ds"} BY <2>1, FS_Singleton
    <3>2. cs \in Sets12 BY <1>1, <2>1
    <3>3. \E d \in cs : d # "ds" BY <3>1, <3>2, <2>1
    <3>4. DOMAIN values = cs BY <1>2
    <3> DEFINE e == CHOOSE d \in DOMAIN values : d # "ds"
    <3>5. e \in cs BY <3>3, <3>4
    <3> HIDE DEF e
    <3>6. values["ds"] \in Nat /\ values[e] \in Nat BY <1>2, <2>1, <3>5
    <3>7. values["ds"] + 256 * values[e] \in Nat BY <3>6
    <3> QED BY <2>1, <3>4, <3>7 DEF e
  <2>2. CASE ~(Cardinality(cs) # 1 /\ arch = "gfx12" /\ c = "ds")
    BY <1>2, <2>2
  <2> QED BY <2>1, <2>2
<1>4. Read(values) \in [cs -> Nat]
  BY <1>2, <1>3 DEF Read
<1>5. values \in Values /\ Read(values) \in Values
  BY <1>1, <1>2, <1>4 DEF Values
<1> QED BY <1>2, <1>4, <1>5

(* Whatever a wait finds was issued, and if it was read right, waited for. *)
LEMMA FoundIsWaited ==
  ASSUME IInv, arch' = arch, Len(tokens') = Now, NEW v \in Values, Complete(v),
         NEW r \in Values, DOMAIN r = DOMAIN v, ~misread' => ~misread /\ r = v, NEW op, Justified(op, r)
  PROVE  op \in Issued /\ (~misread' => IsWaited(op)')
<1> USE DEF IInv
<1>1. PICK c \in DOMAIN r : InOrderOrZero(c, r) /\ (FromList(op, c, r) \/ FromFlats(op, c))
  BY DEF Justified
<1>2. c \in Used[arch] /\ v[c] \in Nat
  BY DEF Values
<1>3. IsWaited(op) => IsWaited(op)'
  <2>1. waited \subseteq waited' BY Completing
  <2> QED BY <2>1 DEF IsWaited
<1>4. ~misread' => (loose[c] => v[c] = 0)
  BY <1>1, <1>2 DEF Cautious, InOrderOrZero
<1>5. CASE FromList(op, c, r)
  <2>1. PICK i \in 1 .. Len(list[c]) : op = list[c][i] /\ i + r[c] <= Len(list[c]) BY <1>5 DEF FromList
  <2>2. op \in 1 .. Len(tokens) /\ c \in tokens[op].on BY <1>2, <2>1 DEF Lists
  <2>3. ASSUME ~misread' PROVE IsWaited(op)'
    <3>1. i + v[c] <= Len(list[c]) /\ Len(list[c]) \in Nat BY <1>2, <2>1, <2>3 DEF Types
    <3>2. CASE Pends(op, c, Len(list[c]) - i)
      <4>1. PICK j \in 1 .. Len(pending[c]) : pending[c][j] = op /\ j + (Len(list[c]) - i) <= Len(pending[c])
        BY <3>2 DEF Pends, Has
      <4>2. Len(pending[c]) \in Nat BY <1>2 DEF Types
      <4>3. j + v[c] <= Len(pending[c]) BY <1>2, <3>1, <4>1, <4>2
      <4>4. Pends(op, c, v[c]) BY <4>1, <4>3 DEF Pends, Has
      <4> QED BY <1>4, <2>2, <2>3, <4>4, Completing
    <3> QED BY <1>2, <1>3, <2>1, <3>2 DEF Behind
  <2>4. op \in Issued BY <2>2 DEF Issued
  <2> QED BY <2>3, <2>4
<1>6. CASE FromFlats(op, c)
  <2>1. PICK f \in Flats : Serves(c, f) /\ \E i \in 1 .. Len(flats[f]) : op = flats[f][i] BY <1>6 DEF FromFlats
  <2>2. PICK i \in 1 .. Len(flats[f]) : op = flats[f][i] BY <2>1
  <2>3. op \in Issued /\ c \in tokens[op].on BY <2>1, <2>2 DEF Lists, Serves
  <2>4. op \in Nat BY <2>3 DEF Issued
  <2>5. ASSUME ~misread', ~IsWaited(op) PROVE IsWaited(op)'
    <3>1. loose[c] /\ Pends(op, c, 0) BY <2>2, <2>3, <2>5 DEF UnderWay
    <3>2. v[c] = 0 BY <1>4, <2>5, <3>1
    <3> QED BY <2>4, <3>1, <3>2, Completing
  <2> QED BY <1>3, <2>3, <2>5
<1> QED BY <1>1, <1>5, <1>6

(* A wait, on every architecture. *)
LEMMA WaitIInv == ASSUME IInv, Wait PROVE IInv'
<1> USE DEF IInv
<1>1. PICK values \in Waits :
        /\ Complete(values) /\ misread' = (misread \/ Read(values) # values)
        /\ parallel' = Found(Read(values)).parallel /\ list' = Found(Read(values)).list
        /\ flats' = Found(Read(values)).flats
        /\ arrows' = arrows \cup {<<Now, op>> : op \in Found(Read(values)).found}
  BY DEF Wait
<1> DEFINE r == Read(values)  s == Found(r)
<1>2. values \in Values /\ r \in Values /\ DOMAIN r = DOMAIN values
  BY ReadIsTyped
<1>3. Walked(s, r)
  BY <1>2, FoundWalks
<1>4. /\ parallel' = s.parallel /\ list' = s.list /\ flats' = s.flats
      /\ arrows' = arrows \cup {<<Now, op>> : op \in s.found}
      /\ misread' \in BOOLEAN /\ (misread => misread') /\ (~misread' => ~misread /\ r = values)
  BY <1>1 DEF Types
<1> HIDE DEF r, s
<1>5. tokens' = Append(tokens, AWait) /\ AWait \in Token /\ arch' = arch /\ Len(tokens) < MaxTokens[arch]
  BY DEF Wait, Token
<1>6. Len(tokens') = Now
  BY <1>5, OneMore
<1>7. /\ parallel' \in [Used[arch] -> BOOLEAN] /\ list' \in [Used[arch] -> Seq(Nat)]
      /\ flats' \in [Flats -> Seq(Nat)]
  BY <1>3, <1>4 DEF Walked, State
<1>8. Types'
  BY <1>1, <1>2, <1>4, <1>5, <1>6, <1>7, OneMore, Completing DEF Types
<1>9. Lists' /\ Behind' /\ UnderWay'
  <2>1. \A c \in Used[arch] : EndOf(list'[c], list[c]) BY <1>3, <1>4 DEF Walked
  <2>2. \A f \in Flats : flats'[f] = flats[f] \/ flats'[f] = <<>> BY <1>3, <1>4 DEF Walked
  <2> QED BY <1>1, <1>2, <1>5, <1>7, <2>1, <2>2, WaitKeeps
<1>10. Cautious'
  <2> SUFFICES ASSUME ~misread', NEW c \in Used[arch], loose'[c] PROVE parallel'[c]
    BY <1>5 DEF Cautious
  <2>1. loose[c] /\ ~(c \in DOMAIN values /\ values[c] = 0) BY <1>1, <1>2, <1>5, <1>6, Completing
  <2>2. parallel[c] BY <1>4, <2>1 DEF Cautious
  <2>3. s.parallel[c] \/ (c \in DOMAIN r /\ r[c] = 0) BY <1>3, <2>2 DEF Walked
  <2> QED BY <1>4, <2>1, <2>3
<1>11. Pairs' /\ NoArrowTooEarly'
  <2> DEFINE ops == s.found
  <2>1. ASSUME NEW op \in ops PROVE op \in Issued /\ (~misread' => IsWaited(op)')
    <3>1. Justified(op, r) BY <1>3 DEF Walked
    <3> QED BY <1>1, <1>2, <1>4, <1>5, <1>6, <3>1, FoundIsWaited
  <2>2. Issued \subseteq Issued' BY <1>5, OneMore
  <2>3. waited \subseteq waited' /\ waited' \subseteq (1 .. Len(tokens')) \X Nat
    BY <1>1, <1>2, <1>5, <1>6, Completing
  <2>4. arrows' = arrows \cup {<<Now, op>> : op \in ops} BY <1>4
  <2>5. ops \subseteq Issued' BY <2>1, <2>2
  <2> HIDE DEF ops
  <2> QED BY <1>4, <1>6, <2>1, <2>2, <2>3, <2>4, <2>5, NewArrows
<1> QED BY <1>8, <1>9, <1>10, <1>11

(* s_wait_idle, which the analysis treats as a wait for all counters. *)
LEMMA IdleIInv == ASSUME IInv, WaitIdle PROVE IInv'
<1> USE DEF IInv
<1> DEFINE v == [c \in Used[arch] |-> 0]  ops == UNION {{list[c][i] : i \in 1 .. Len(list[c])} : c \in Used[arch]}
<1>1. v \in Values /\ DOMAIN v = Used[arch] /\ \A c \in Used[arch] : v[c] = 0
  BY DEF Values
<1>2. Complete(v)
  BY DEF WaitIdle, Types
<1> HIDE DEF v
<1>3. tokens' = Append(tokens, IdleWait) /\ IdleWait \in Token /\ arch' = arch /\ Len(tokens) < MaxTokens[arch]
  BY DEF WaitIdle, Token
<1>4. Len(tokens') = Now
  BY <1>3, OneMore
<1>5. /\ list' = [c \in Used[arch] |-> <<>>] /\ list' \in [Used[arch] -> Seq(Nat)]
      /\ parallel' = parallel /\ flats' = flats /\ misread' = misread
  BY DEF WaitIdle, Types
<1>6. Types'
  BY <1>1, <1>2, <1>3, <1>4, <1>5, OneMore, Completing DEF Types
<1>7. Lists' /\ Behind' /\ UnderWay'
  <2>1. \A c \in Used[arch] : EndOf(list'[c], list[c])
    <3> SUFFICES ASSUME NEW c \in Used[arch] PROVE EndOf(<<>>, list[c])
      BY <1>5
    <3>1. Len(list[c]) \in Nat BY DEF Types
    <3> QED BY <3>1 DEF EndOf
  <2> QED BY <1>1, <1>2, <1>3, <1>5, <2>1, WaitKeeps
<1>8. Cautious'
  <2>1. \A c \in Used[arch] : ~loose'[c] BY <1>1, <1>2, <1>3, <1>4, Completing
  <2> QED BY <1>3, <2>1 DEF Cautious
<1>9. ASSUME NEW op \in ops PROVE op \in Issued /\ IsWaited(op)'
  <2>0. PICK c \in Used[arch] : op \in {list[c][i] : i \in 1 .. Len(list[c])} OBVIOUS
  <2>1. PICK i \in 1 .. Len(list[c]) : op = list[c][i] BY <2>0
  <2>2. op \in 1 .. Len(tokens) /\ op \in Issued BY <2>1 DEF Lists, Issued
  <2>3. CASE IsWaited(op)
    <3>1. waited \subseteq waited' BY <1>1, <1>2, <1>3, <1>4, Completing
    <3> QED BY <2>2, <2>3, <3>1 DEF IsWaited
  <2>4. CASE Pends(op, c, Len(list[c]) - i)
    <3>1. PICK j \in 1 .. Len(pending[c]) : pending[c][j] = op BY <2>4 DEF Pends, Has
    <3>2. Len(pending[c]) \in Nat BY DEF Types
    <3>3. Pends(op, c, 0) BY <3>1, <3>2 DEF Pends, Has
    <3> QED BY <1>1, <1>2, <1>3, <1>4, <2>2, <3>3, Completing
  <2> QED BY <2>1, <2>3, <2>4 DEF Behind
<1>10. Pairs' /\ NoArrowTooEarly'
  <2>1. arrows' = arrows \cup {<<Now, op>> : op \in ops}
    <3>1. arrows' = arrows \cup UNION {{<<Now, list[c][i]>> : i \in 1 .. Len(list[c])} : c \in Used[arch]}
      BY DEF WaitIdle, Types
    <3> QED BY <3>1
  <2>2. Issued \subseteq Issued' BY <1>3, OneMore
  <2>3. waited \subseteq waited' /\ waited' \subseteq (1 .. Len(tokens')) \X Nat
    BY <1>1, <1>2, <1>3, <1>4, Completing
  <2>4. ops \subseteq Issued' BY <1>9, <2>2
  <2> HIDE DEF ops
  <2> QED BY <1>4, <1>5, <1>9, <2>1, <2>2, <2>3, <2>4, NewArrows
<1> QED BY <1>6, <1>7, <1>8, <1>10

-------------------------------------------------------------------------------
(* An operation                                                             *)
IsExtended(r, s, op, n) ==
  /\ r \in Seq(Nat) /\ Len(r) = Len(s) + n
  /\ \A i \in 1 .. Len(s) : r[i] = s[i]
  /\ \A i \in Len(s) + 1 .. Len(s) + n : r[i] = op

(* Recording an operation twice extends a list by two. *)
LEMMA Repeated ==
  ASSUME NEW s \in Seq(Nat), NEW op \in Nat, NEW n \in {1, 2}
  PROVE  IsExtended(s \o Repeat(op, n), s, op, n)
<1>1. Repeat(op, n) \in Seq(Nat) /\ Len(Repeat(op, n)) = n /\ \A i \in 1 .. n : Repeat(op, n)[i] = op
  BY DEF Repeat
<1> DEFINE b == Repeat(op, n)
<1> HIDE DEF b
<1>2. /\ s \o b \in Seq(Nat) /\ Len(s \o b) = Len(s) + Len(b) /\ Len(s) \in Nat
      /\ \A i \in 1 .. Len(s) + Len(b) : (s \o b)[i] = IF i <= Len(s) THEN s[i] ELSE b[i - Len(s)]
  BY <1>1 DEF b
<1>3. b \in Seq(Nat) /\ Len(b) = n /\ \A i \in 1 .. n : b[i] = op
  BY <1>1 DEF b
<1>4. \A i \in 1 .. Len(s) : (s \o b)[i] = s[i]
  BY <1>2, <1>3
<1>5. ASSUME NEW i \in Len(s) + 1 .. Len(s) + n PROVE (s \o b)[i] = op
  <2>1. i - Len(s) \in 1 .. n /\ ~(i <= Len(s)) /\ i \in 1 .. Len(s) + n BY <1>2
  <2> QED BY <1>2, <1>3, <2>1
<1> QED BY <1>2, <1>3, <1>4, <1>5 DEF IsExtended, b

(* What was there is now further from the end, and what is new is near it. *)
Further(r, s, t) == \A o, n \in Nat : Has(s, o, n) => Has(r, o, n + t) /\ Has(r, o, n)
AtEnd(r, op, t) == \A i \in 1 .. t : Has(r, op, t - i)
OldOrNew(r, s, op, t) ==
  \A i \in 1 .. Len(r) : (i \in 1 .. Len(s) /\ r[i] = s[i]) \/ (i - Len(s) \in 1 .. t /\ r[i] = op)

(* What an extended list holds, and at which places. *)
LEMMA ExtendedHas ==
  ASSUME NEW s \in Seq(Nat), NEW op, NEW t \in {1, 2}, NEW r, IsExtended(r, s, op, t)
  PROVE  Further(r, s, t) /\ AtEnd(r, op, t) /\ OldOrNew(r, s, op, t)
<1> DEFINE m == Len(s)  p == Len(r)
<1>1. /\ m \in Nat /\ t \in Nat /\ p = m + t
      /\ \A i \in 1 .. m : r[i] = s[i]
      /\ \A i \in m + 1 .. m + t : r[i] = op
  BY DEF IsExtended
<1> HIDE DEF m, p
<1>2. ASSUME NEW o \in Nat, NEW n \in Nat, Has(s, o, n) PROVE Has(r, o, n + t) /\ Has(r, o, n)
  <2>1. PICK j \in 1 .. m : s[j] = o /\ j + n <= m BY <1>2 DEF Has, m
  <2>2. j \in 1 .. p /\ j + (n + t) <= p /\ j + n <= p BY <1>1, <2>1
  <2>3. r[j] = o BY <1>1, <2>1
  <2> QED BY <2>2, <2>3 DEF Has, p
<1>3. ASSUME NEW i \in 1 .. t PROVE Has(r, op, t - i)
  <2>1. m + i \in 1 .. p /\ m + i \in m + 1 .. m + t /\ (m + i) + (t - i) <= p BY <1>1
  <2>2. r[m + i] = op BY <1>1, <2>1
  <2> QED BY <2>1, <2>2 DEF Has, p
<1>4. ASSUME NEW i \in 1 .. p PROVE (i \in 1 .. m /\ r[i] = s[i]) \/ (i - m \in 1 .. t /\ r[i] = op)
  <2>1. CASE i \in 1 .. m BY <1>1, <2>1
  <2>2. CASE i \notin 1 .. m
    <3>1. i \in m + 1 .. m + t /\ i - m \in 1 .. t BY <1>1, <2>2
    <3> QED BY <1>1, <3>1
  <2> QED BY <2>1, <2>2
<1> QED BY <1>2, <1>3, <1>4 DEF Further, AtEnd, OldOrNew, m, p

(* A memory operation is issued: listed by the analysis, counted by the hardware. *)
LEMMA IssueIInv == ASSUME IInv, Issue PROVE IInv'
<1> USE DEF IInv
<1>1. PICK k \in Kinds : tokens' = Append(tokens, k) /\ Record(k) /\ Count(k)
  BY DEF Issue
<1>2. /\ k.on \subseteq Used[arch] /\ k.on # {} /\ k.times \in {1, 2} /\ k.ordered \in BOOLEAN /\ k.flat \in Flats
      /\ k.flat # "empty" => ~k.ordered
  BY KindFacts DEF Types
<1>3. /\ k \in Token /\ arch' = arch /\ Len(tokens) < MaxTokens[arch]
      /\ UNCHANGED <<arrows, misread, waited>>
  BY DEF Issue, Token
<1>4. /\ tokens' \in Seq(Token)' /\ Len(tokens') = Now /\ Len(tokens') <= MaxTokens[arch'] /\ Now \in Nat
      /\ \A i \in 1 .. Len(tokens) : i \in 1 .. Len(tokens') /\ tokens'[i] = tokens[i]
      /\ tokens'[Now] = k /\ Issued \subseteq Issued' /\ Now \in 1 .. Len(tokens') /\ Now \in Issued'
  <2>1. /\ tokens' \in Seq(Token)' /\ Len(tokens') = Now /\ Len(tokens') <= MaxTokens[arch'] /\ Now \in Nat
        /\ \A i \in 1 .. Len(tokens) : i \in 1 .. Len(tokens') /\ tokens'[i] = tokens[i]
        /\ tokens'[Now] = k /\ Issued \subseteq Issued'
    BY <1>1, <1>3, OneMore
  <2>2. Now > 0 BY DEF Now, Types
  <2>3. Now \in 1 .. Len(tokens') BY <2>1, <2>2
  <2>4. Now \in Issued' BY <1>2, <2>1, <2>3 DEF Issued
  <2> QED BY <2>1, <2>3, <2>4
<1>5. ASSUME NEW c \in Used[arch]
      PROVE  /\ list[c] \in Seq(Nat) /\ Len(list[c]) \in Nat /\ pending[c] \in Seq(Nat) /\ Len(pending[c]) \in Nat
             /\ k.flat = "empty" /\ c \in k.on => list'[c] = list[c] \o Repeat(Now, k.times)
             /\ ~(k.flat = "empty" /\ c \in k.on) => list'[c] = list[c]
             /\ c \in k.on => pending'[c] = pending[c] \o Repeat(Now, k.times)
             /\ c \notin k.on => pending'[c] = pending[c]
             /\ loose'[c] <=> loose[c] \/ (c \in k.on /\ ~k.ordered)
             /\ parallel'[c] <=> parallel[c] \/ (c \in k.on /\ ~k.ordered)
  <2>1. list[c] \in Seq(Nat) /\ Len(list[c]) \in Nat /\ pending[c] \in Seq(Nat) /\ Len(pending[c]) \in Nat
    BY DEF Types
  <2>2. list'[c] = IF k.flat = "empty" /\ c \in k.on THEN list[c] \o Repeat(Now, k.times) ELSE list[c]
    BY <1>1 DEF Types, Record
  <2>3. pending'[c] = IF c \in k.on THEN pending[c] \o Repeat(Now, k.times) ELSE pending[c]
    BY <1>1 DEF Types, Count
  <2>4. parallel'[c] = (parallel[c] \/ (c \in k.on /\ ~k.ordered)) BY <1>1 DEF Types, Record
  <2>5. loose'[c] = (loose[c] \/ (c \in k.on /\ ~k.ordered)) BY <1>1 DEF Types, Count
  <2> QED BY <2>1, <2>2, <2>3, <2>4, <2>5
<1>6. ASSUME NEW c \in Used[arch], c \in k.on
      PROVE  /\ IsExtended(pending'[c], pending[c], Now, k.times) /\ Further(pending'[c], pending[c], k.times)
             /\ AtEnd(pending'[c], Now, k.times) /\ OldOrNew(pending'[c], pending[c], Now, k.times)
  <2>1. pending[c] \in Seq(Nat) /\ pending'[c] = pending[c] \o Repeat(Now, k.times) BY <1>5, <1>6
  <2>2. k.times \in {1, 2} /\ Now \in Nat BY <1>2, <1>4
  <2>3. IsExtended(pending[c] \o Repeat(Now, k.times), pending[c], Now, k.times) BY <2>1, <2>2, Repeated
  <2>4. IsExtended(pending'[c], pending[c], Now, k.times) BY <2>1, <2>3
  <2> QED BY <2>1, <2>2, <2>4, ExtendedHas
<1>7. ASSUME NEW c \in Used[arch], c \in k.on, k.flat = "empty"
      PROVE  /\ IsExtended(list'[c], list[c], Now, k.times) /\ Further(list'[c], list[c], k.times)
             /\ AtEnd(list'[c], Now, k.times) /\ OldOrNew(list'[c], list[c], Now, k.times)
  <2>1. list[c] \in Seq(Nat) /\ list'[c] = list[c] \o Repeat(Now, k.times) BY <1>5, <1>7
  <2>2. k.times \in {1, 2} /\ Now \in Nat BY <1>2, <1>4
  <2>3. IsExtended(list[c] \o Repeat(Now, k.times), list[c], Now, k.times) BY <2>1, <2>2, Repeated
  <2>4. IsExtended(list'[c], list[c], Now, k.times) BY <2>1, <2>3
  <2> QED BY <2>1, <2>2, <2>4, ExtendedHas
<1>8. ASSUME NEW f \in Flats
      PROVE  /\ flats[f] \in Seq(Nat) /\ Len(flats[f]) \in Nat
             /\ k.flat # f \/ f = "empty" => flats'[f] = flats[f]
             /\ k.flat = f /\ f # "empty" =>
                  /\ flats'[f] \in Seq(Nat) /\ Len(flats'[f]) = Len(flats[f]) + 1
                  /\ \A i \in 1 .. Len(flats[f]) : flats'[f][i] = flats[f][i]
                  /\ flats'[f][Len(flats[f]) + 1] = Now
  <2>1. flats[f] \in Seq(Nat) /\ Len(flats[f]) \in Nat BY DEF Types
  <2>2. k.flat # f \/ f = "empty" => flats'[f] = flats[f] BY <1>1 DEF Record, Types
  <2>3. k.flat = f /\ f # "empty" => flats'[f] = Append(flats[f], Now) BY <1>1 DEF Record, Types
  <2>4. /\ Append(flats[f], Now) \in Seq(Nat) /\ Len(Append(flats[f], Now)) = Len(flats[f]) + 1
        /\ \A i \in 1 .. Len(flats[f]) : Append(flats[f], Now)[i] = flats[f][i]
        /\ Append(flats[f], Now)[Len(flats[f]) + 1] = Now
    BY <1>4, <2>1
  <2> QED BY <2>1, <2>2, <2>3, <2>4
<1>9. Types'
  <2>1. parallel' \in [Used[arch] -> BOOLEAN] /\ loose' \in [Used[arch] -> BOOLEAN] BY <1>1 DEF Record, Count, Types
  <2>2. \A c \in Used[arch] : list'[c] \in Seq(Nat) BY <1>5, <1>7 DEF IsExtended
  <2>3. \A c \in Used[arch] : pending'[c] \in Seq(Nat) BY <1>5, <1>6 DEF IsExtended
  <2>4. \A f \in Flats : flats'[f] \in Seq(Nat) BY <1>8
  <2>5. list' \in [Used[arch] -> Seq(Nat)]
    <3>1. list' = [c \in Used[arch] |-> list'[c]] BY <1>1 DEF Record, Types
    <3> QED BY <2>2, <3>1
  <2>6. pending' \in [Used[arch] -> Seq(Nat)]
    <3>1. pending' = [c \in Used[arch] |-> pending'[c]] BY <1>1 DEF Count, Types
    <3> QED BY <2>3, <3>1
  <2>7. flats' \in [Flats -> Seq(Nat)]
    <3>1. flats' = [f \in Flats |-> flats'[f]] BY <1>1 DEF Record, Types
    <3> QED BY <2>4, <3>1
  <2> QED BY <1>3, <1>4, <2>1, <2>5, <2>6, <2>7 DEF Types
<1>10. Lists'
  <2>1. ASSUME NEW c \in Used[arch], NEW i \in 1 .. Len(list'[c])
        PROVE  list'[c][i] \in 1 .. Len(tokens') /\ c \in tokens'[list'[c][i]].on
    <3>1. CASE i \in 1 .. Len(list[c]) /\ list'[c][i] = list[c][i]
      <4>1. list[c][i] \in 1 .. Len(tokens) /\ c \in tokens[list[c][i]].on BY <3>1 DEF Lists
      <4> QED BY <1>4, <3>1, <4>1
    <3>2. CASE k.flat = "empty" /\ c \in k.on
      <4>1. (i \in 1 .. Len(list[c]) /\ list'[c][i] = list[c][i]) \/ list'[c][i] = Now
        BY <1>7, <3>2 DEF OldOrNew
      <4> QED BY <1>4, <3>1, <3>2, <4>1
    <3> QED BY <1>5, <3>1, <3>2
  <2>2. ASSUME NEW f \in Flats, NEW i \in 1 .. Len(flats'[f])
        PROVE  flats'[f][i] \in Issued' /\ tokens'[flats'[f][i]].flat = f
    <3>1. CASE i \in 1 .. Len(flats[f])
      <4>1. flats'[f][i] = flats[f][i] BY <1>8, <3>1
      <4>2. flats[f][i] \in Issued /\ tokens[flats[f][i]].flat = f BY <3>1 DEF Lists
      <4>3. flats[f][i] \in 1 .. Len(tokens) BY <4>2 DEF Issued
      <4> QED BY <1>4, <4>1, <4>2, <4>3
    <3>2. CASE i \notin 1 .. Len(flats[f])
      <4>1. k.flat = f /\ f # "empty" BY <1>8, <3>2
      <4>2. i = Len(flats[f]) + 1 BY <1>8, <3>2, <4>1
      <4> QED BY <1>4, <1>8, <4>1, <4>2
    <3> QED BY <3>1, <3>2
  <2>3. flats'["empty"] = <<>> BY <1>8 DEF Lists, Flats
  <2> QED BY <1>3, <2>1, <2>2, <2>3 DEF Lists
<1>11. Pairs'
  <2>1. 1 .. Len(tokens) \subseteq 1 .. Len(tokens') BY <1>4
  <2> QED BY <1>3, <1>4, <2>1 DEF Pairs
<1>12. \A op : IsWaited(op)' <=> IsWaited(op)
  BY <1>3 DEF IsWaited
<1>13. ASSUME NEW c \in Used[arch], NEW op \in Nat, NEW n \in Nat, Pends(op, c, n) PROVE Pends(op, c, n)'
  <2>1. CASE c \in k.on
    <3>1. Has(pending'[c], op, n) BY <1>6, <1>13, <2>1 DEF Pends, Further
    <3> QED BY <3>1 DEF Pends
  <2>2. CASE c \notin k.on BY <1>5, <1>13, <2>2 DEF Pends
  <2> QED BY <2>1, <2>2
<1>14. Behind'
  <2> SUFFICES ASSUME NEW c \in Used[arch], NEW i \in 1 .. Len(list'[c]), NEW op, op = list'[c][i],
                      NEW n, n = Len(list'[c]) - i
               PROVE  IsWaited(op)' \/ Pends(op, c, n)'
    BY <1>3 DEF Behind
  <2>1. list[c] \in Seq(Nat) /\ Len(list[c]) \in Nat /\ pending[c] \in Seq(Nat) BY <1>5
  <2>2. ASSUME i \in 1 .. Len(list[c]), op = list[c][i]
        PROVE  /\ Len(list[c]) - i \in Nat /\ op \in Nat
               /\ IsWaited(op) \/ Pends(op, c, Len(list[c]) - i)
    <3>1. Len(list[c]) - i \in Nat BY <2>1, <2>2, SMTT(30)
    <3>2. op \in Nat
      <4>1. op \in 1 .. Len(tokens) BY <2>2 DEF Lists
      <4> QED BY <4>1
    <3>3. IsWaited(list[c][i]) \/ Pends(list[c][i], c, Len(list[c]) - i) BY <2>2 DEF Behind
    <3> QED BY <2>2, <3>1, <3>2, <3>3
  <2>3. CASE k.flat = "empty" /\ c \in k.on
    <3>1. /\ IsExtended(list'[c], list[c], Now, k.times) /\ OldOrNew(list'[c], list[c], Now, k.times)
          /\ Further(pending'[c], pending[c], k.times) /\ AtEnd(pending'[c], Now, k.times)
      BY <1>6, <1>7, <2>3
    <3>2. Len(list'[c]) = Len(list[c]) + k.times /\ k.times \in Nat
      <4>1. IsExtended(list'[c], list[c], Now, k.times) BY <3>1
      <4>2. Len(list'[c]) = Len(list[c]) + k.times BY <4>1 DEF IsExtended
      <4>3. k.times \in Nat BY <1>2
      <4> QED BY <4>2, <4>3
    <3>3. CASE i \in 1 .. Len(list[c]) /\ op = list[c][i]
      <4> DEFINE m == Len(list[c]) - i
      <4>1. n = m + k.times BY <2>1, <3>2, <3>3
      <4>2. m \in Nat /\ op \in Nat /\ (IsWaited(op) \/ Has(pending[c], op, m)) BY <2>2, <3>3 DEF Pends
      <4> HIDE DEF m
      <4>3. Has(pending[c], op, m) => Has(pending'[c], op, n) BY <3>1, <4>1, <4>2 DEF Further
      <4> QED BY <1>12, <4>2, <4>3 DEF Pends
    <3>4. CASE i - Len(list[c]) \in 1 .. k.times /\ op = Now
      <4> DEFINE d == i - Len(list[c])
      <4>1. n = k.times - d BY <2>1, <3>2, <3>4
      <4>2. d \in 1 .. k.times BY <3>4
      <4> HIDE DEF d
      <4>3. Has(pending'[c], op, n) BY <3>1, <3>4, <4>1, <4>2 DEF AtEnd
      <4> QED BY <4>3 DEF Pends
    <3> QED BY <3>1, <3>3, <3>4 DEF OldOrNew
  <2>4. CASE ~(k.flat = "empty" /\ c \in k.on)
    <3>1. i \in 1 .. Len(list[c]) /\ op = list[c][i] /\ n = Len(list[c]) - i BY <1>5, <2>4
    <3>2. n \in Nat /\ op \in Nat /\ (IsWaited(op) \/ Pends(op, c, n)) BY <2>2, <3>1
    <3> QED BY <1>12, <1>13, <3>2
  <2> QED BY <2>3, <2>4
<1>15. UnderWay'
  <2> SUFFICES ASSUME NEW f \in Flats, NEW i \in 1 .. Len(flats'[f]), NEW op, op = flats'[f][i], ~IsWaited(op)',
                      NEW c \in tokens'[op].on
               PROVE  loose'[c] /\ Pends(op, c, 0)'
    BY DEF UnderWay
  <2>1. CASE i \in 1 .. Len(flats[f])
    <3>1. op = flats[f][i] BY <1>8, <2>1
    <3>2. op \in 1 .. Len(tokens) /\ tokens[op].on # {} BY <2>1, <3>1 DEF Lists, Issued
    <3>3. tokens'[op] = tokens[op] BY <1>4, <3>2
    <3>4. tokens[op] \in Token /\ AWait.on = {} /\ IdleWait.on = {} BY <3>2 DEF Types, AWait, IdleWait
    <3>5. tokens[op] \in Kinds BY <3>2, <3>4 DEF Token
    <3>6. c \in Used[arch] /\ c \in tokens[op].on BY <3>3, <3>5, KindFacts DEF Types
    <3>7. loose[c] /\ Pends(op, c, 0) BY <1>12, <2>1, <3>1, <3>6 DEF UnderWay
    <3>8. op \in Nat BY <3>2
    <3> QED BY <1>5, <1>13, <3>6, <3>7, <3>8
  <2>2. CASE i \notin 1 .. Len(flats[f])
    <3>1. k.flat = f /\ f # "empty" BY <1>8, <2>2
    <3>2. op = Now BY <1>8, <2>2, <3>1
    <3>3. c \in k.on /\ c \in Used[arch] /\ ~k.ordered BY <1>2, <1>4, <3>1, <3>2
    <3>4. loose'[c] BY <1>5, <3>3
    <3>5. AtEnd(pending'[c], Now, k.times) BY <1>6, <3>3
    <3>6. k.times \in 1 .. k.times /\ k.times - k.times = 0 BY <1>2
    <3>7. Has(pending'[c], op, 0) BY <3>2, <3>5, <3>6 DEF AtEnd
    <3> QED BY <3>4, <3>7 DEF Pends
  <2> QED BY <2>1, <2>2
<1>16. Cautious'
  BY <1>3, <1>5 DEF Cautious
<1>17. NoArrowTooEarly'
  BY <1>3 DEF NoArrowTooEarly
<1> QED BY <1>9, <1>10, <1>11, <1>14, <1>15, <1>16, <1>17

-------------------------------------------------------------------------------
(* At the start nothing is listed and nothing is counted. *)
LEMMA InitIInv == Init => IInv
<1> SUFFICES ASSUME Init PROVE IInv
  OBVIOUS
<1>1. Types
  <2>1. arch \in Archs /\ MaxTokens[arch] \in Nat BY BoundsAssumption DEF Init
  <2>2. <<>> \in Seq(Token) /\ Len(<<>>) = 0 OBVIOUS
  <2>3. <<>> \in Seq(Nat) OBVIOUS
  <2>4. list \in [Used[arch] -> Seq(Nat)] /\ flats \in [Flats -> Seq(Nat)] /\ pending \in [Used[arch] -> Seq(Nat)]
    BY <2>3 DEF Init
  <2>5. tokens \in Seq(Token) /\ Len(tokens) <= MaxTokens[arch] BY <2>1, <2>2 DEF Init
  <2> QED BY <2>1, <2>4, <2>5 DEF Init, Types
<1>2. Lists /\ Pairs
  BY DEF Init, Lists, Pairs, Flats
<1>3. Behind /\ UnderWay /\ Cautious /\ NoArrowTooEarly
  BY DEF Init, Behind, UnderWay, Cautious, NoArrowTooEarly
<1> QED BY <1>1, <1>2, <1>3 DEF IInv

(* Every step keeps the invariant. *)
LEMMA StepIInv == IInv /\ [Next]_vars => IInv'
<1> SUFFICES ASSUME IInv, [Next]_vars PROVE IInv'
  OBVIOUS
<1>1. CASE UNCHANGED vars
  <2> USE <1>1 DEF vars, analysis, hardware, IInv
  <2>1. Token' = Token BY DEF Token, Kinds, Kinds9, Kinds10, Kinds12
  <2>2. Types' BY <2>1 DEF Types
  <2>3. Lists' /\ Pairs' BY DEF Lists, Pairs, Issued
  <2>4. Behind' /\ UnderWay' BY DEF Behind, UnderWay, IsWaited, Pends
  <2>5. Cautious' /\ NoArrowTooEarly' BY DEF Cautious, NoArrowTooEarly
  <2> QED BY <2>2, <2>3, <2>4, <2>5
<1> QED BY <1>1, IssueIInv, WaitIInv, IdleIInv DEF Next

(* The inductive invariant. *)
THEOREM Invariance == Spec => []IInv
BY InitIInv, StepIInv, PTL DEF Spec

(* The lists hold operations of their counters, and the list that all walks *)
(* of the process share stays empty (gfx12.cpp, empty_list), for waves and  *)
(* values of any size.                                                      *)
THEOREM TypeCorrect == Spec => []TypeOK
<1>1. IInv => TypeOK
  BY DEF IInv, Types, Lists, Pairs, Issued, TypeOK
<1> QED BY <1>1, Invariance, PTL

(* When the analysis says that a wait waited for an operation, that wait or *)
(* an earlier one made sure of it (MemoryCounter::handle_mem_op), for waves *)
(* and values of any size.                                                  *)
THEOREM NeverTooEarly == Spec => []NoArrowTooEarly
<1>1. IInv => NoArrowTooEarly
  BY DEF IInv
<1> QED BY <1>1, Invariance, PTL
-------------------------------------------------------------------------------
(* How often an operation is found                                          *)

(* An operation is in the list of one counter, in as many places as it      *)
(* counts there, one after the other, or once among the flat ones.          *)
Slots ==
  /\ \A c \in Used[arch] : \A i, j \in 1 .. Len(list[c]) :
       /\ tokens[list[c][i]].flat = "empty"
       /\ list[c][i] = list[c][j] => j < i + tokens[list[c][i]].times
  /\ \A f \in Flats : \A i, j \in 1 .. Len(flats[f]) : flats[f][i] = flats[f][j] => i = j

(* The places that are left to it, and the arrows it has. *)
Listed(op) == \E c \in Used[arch] : \E i \in 1 .. Len(list[c]) : list[c][i] = op
Doubled(op) == \E c \in Used[arch] : \E i, j \in 1 .. Len(list[c]) : i # j /\ list[c][i] = op /\ list[c][j] = op
Floats(op) == \E f \in Flats : \E i \in 1 .. Len(flats[f]) : flats[f][i] = op
Left(op) == IF Doubled(op) THEN 2 ELSE IF Listed(op) \/ Floats(op) THEN 1 ELSE 0
Hits(op) == {a \in arrows : a[2] = op}

(* Each arrow costs the operation a place. *)
Budget == \A op \in Issued : Cardinality(Hits(op)) + Left(op) <= tokens[op].times

FInv == IInv /\ Slots /\ Budget

(* What a wait does to the lists and the arrows. *)
Consumes(ops) ==
  /\ arrows' = arrows \cup {<<Now, op>> : op \in ops}
  /\ \A op \in ops : Consumed(op, list', flats')
  /\ \A c \in Used[arch] : list'[c] \in Seq(Nat) /\ EndOf(list'[c], list[c])
  /\ \A f \in Flats : flats'[f] = flats[f] \/ flats'[f] = <<>>

(* Every wait consumes what it reports. *)
LEMMA WaitConsumes == ASSUME IInv, Wait \/ WaitIdle PROVE \E ops : Consumes(ops)
<1> USE DEF IInv
<1>1. CASE Wait
  <2>1. PICK values \in Waits :
          /\ list' = Found(Read(values)).list /\ flats' = Found(Read(values)).flats
          /\ arrows' = arrows \cup {<<Now, op>> : op \in Found(Read(values)).found}
    BY <1>1 DEF Wait
  <2> DEFINE s == Found(Read(values))
  <2>2. Walked(s, Read(values))
    BY ReadIsTyped, FoundWalks
  <2>3. list' = s.list /\ flats' = s.flats /\ arrows' = arrows \cup {<<Now, op>> : op \in s.found}
    BY <2>1
  <2> HIDE DEF s
  <2>4. \A c \in Used[arch] : list'[c] \in Seq(Nat)
    BY <2>2, <2>3 DEF Walked, State
  <2>5. Consumes(s.found)
    BY <2>2, <2>3, <2>4 DEF Walked, Consumes
  <2> QED BY <2>5
<1>2. CASE WaitIdle
  <2> DEFINE ops == UNION {{list[c][i] : i \in 1 .. Len(list[c])} : c \in Used[arch]}
  <2>1. list' = [c \in Used[arch] |-> <<>>] /\ flats' = flats
    BY <1>2 DEF WaitIdle, Types
  <2>2. arrows' = arrows \cup {<<Now, op>> : op \in ops}
    <3>1. arrows' = arrows \cup UNION {{<<Now, list[c][i]>> : i \in 1 .. Len(list[c])} : c \in Used[arch]}
      BY <1>2 DEF WaitIdle, Types
    <3> QED BY <3>1
  <2>3. ASSUME NEW op \in ops PROVE Consumed(op, list', flats')
    <3>1. PICK c \in Used[arch] : op \in {list[c][i] : i \in 1 .. Len(list[c])}
      OBVIOUS
    <3>2. PICK i \in 1 .. Len(list[c]) : op = list[c][i]
      BY <3>1
    <3>3. i + Len(list'[c]) <= Len(list[c])
      <4>1. Len(list'[c]) = 0 /\ Len(list[c]) \in Nat
        BY <2>1 DEF Types
      <4> QED BY <4>1
    <3> QED BY <3>2, <3>3 DEF Consumed
  <2>4. \A c \in Used[arch] : list'[c] \in Seq(Nat) /\ EndOf(list'[c], list[c])
    <3> SUFFICES ASSUME NEW c \in Used[arch] PROVE <<>> \in Seq(Nat) /\ EndOf(<<>>, list[c])
      BY <2>1
    <3>1. Len(list[c]) \in Nat
      BY DEF Types
    <3> QED BY <3>1 DEF EndOf
  <2> HIDE DEF ops
  <2>5. Consumes(ops)
    BY <2>1, <2>2, <2>3, <2>4 DEF Consumes
  <2> QED BY <2>5
<1> QED BY <1>1, <1>2

(* What is issued is of a kind, and counts once or twice. *)
LEMMA IssuedIsKind ==
  ASSUME Types, NEW op \in Issued
  PROVE  /\ op \in 1 .. Len(tokens) /\ tokens[op] \in Kinds
         /\ tokens[op].times \in {1, 2} /\ tokens[op].times \in Nat
<1>1. op \in 1 .. Len(tokens) /\ tokens[op].on # {}
  BY DEF Issued
<1>2. tokens[op] \in Token /\ AWait.on = {} /\ IdleWait.on = {}
  BY <1>1 DEF Types, AWait, IdleWait
<1>3. tokens[op] \in Kinds
  BY <1>1, <1>2 DEF Token
<1>4. arch \in Archs
  BY DEF Types
<1>5. tokens[op].times \in {1, 2}
  BY <1>3, <1>4, KindFacts
<1> QED BY <1>1, <1>3, <1>5

(* An operation in a list is counted on that counter alone. *)
LEMMA OneCounter ==
  ASSUME IInv, Slots, NEW c \in Used[arch], NEW i \in 1 .. Len(list[c]), NEW op, op = list[c][i]
  PROVE  /\ op \in Issued /\ tokens[op] \in Kinds /\ ~Floats(op) /\ tokens[op].times \in {1, 2}
         /\ \A d \in Used[arch] : \A j \in 1 .. Len(list[d]) : list[d][j] = op => d = c
<1>1. op \in 1 .. Len(tokens) /\ c \in tokens[op].on /\ tokens[op].flat = "empty"
  BY DEF IInv, Lists, Slots
<1>2. op \in Issued
  BY <1>1 DEF Issued
<1>3. tokens[op] \in Kinds
  BY <1>2, IssuedIsKind DEF IInv
<1>4. tokens[op].times \in {1, 2} /\ \A d \in tokens[op].on : d = c
  BY <1>1, <1>3, KindFacts DEF IInv, Types
<1>5. ~Floats(op)
  BY <1>1 DEF Floats, IInv, Lists
<1>6. \A d \in Used[arch] : \A j \in 1 .. Len(list[d]) : list[d][j] = op => d \in tokens[op].on
  BY DEF IInv, Lists
<1> QED BY <1>2, <1>3, <1>4, <1>5, <1>6

(* The end of a list was already in it. *)
LEMMA EndIs ==
  ASSUME Types, NEW ops, Consumes(ops), NEW c \in Used[arch], NEW i \in 1 .. Len(list'[c])
  PROVE  LET k == Len(list[c]) - Len(list'[c]) + i
         IN  k \in 1 .. Len(list[c]) /\ list[c][k] = list'[c][i] /\ Len(list[c]) - Len(list'[c]) \in Nat
<1> DEFINE m == Len(list[c])  n == Len(list'[c])
<1>1. m \in Nat /\ n \in Nat
  BY DEF Types, Consumes
<1>2. n <= m /\ list'[c][i] = list[c][m - n + i]
  BY DEF Consumes, EndOf
<1>3. m - n + i \in 1 .. m /\ m - n \in Nat
  <2>1. i \in 1 .. n
    OBVIOUS
  <2> HIDE DEF m, n
  <2> QED BY <1>1, <1>2, <2>1
<1> QED BY <1>2, <1>3

(* A wait leaves an operation no place that it did not have, and takes one *)
(* from each that it finds.                                                *)
LEMMA PlacesGo ==
  ASSUME IInv, Slots, NEW ops, Consumes(ops), arch' = arch, NEW op
  PROVE  Left(op)' <= Left(op) /\ (op \in ops => Left(op)' + 1 <= Left(op))
<1>0. Types
  BY DEF IInv
<1>1. Listed(op)' => Listed(op)
  <2> SUFFICES ASSUME NEW c \in Used[arch], NEW i \in 1 .. Len(list'[c]), list'[c][i] = op PROVE Listed(op)
    BY DEF Listed
  <2> DEFINE k == Len(list[c]) - Len(list'[c]) + i
  <2>1. k \in 1 .. Len(list[c]) /\ list[c][k] = op
    BY <1>0, EndIs
  <2> HIDE DEF k
  <2> QED BY <2>1 DEF Listed
<1>2. Doubled(op)' => Doubled(op)
  <2> SUFFICES ASSUME NEW c \in Used[arch], NEW i \in 1 .. Len(list'[c]), NEW j \in 1 .. Len(list'[c]),
                      i # j, list'[c][i] = op, list'[c][j] = op
               PROVE  Doubled(op)
    BY DEF Doubled
  <2> DEFINE d == Len(list[c]) - Len(list'[c])
  <2>1. /\ d + i \in 1 .. Len(list[c]) /\ list[c][d + i] = op
        /\ d + j \in 1 .. Len(list[c]) /\ list[c][d + j] = op /\ d \in Nat
    BY <1>0, EndIs
  <2> HIDE DEF d
  <2>2. d + i # d + j
    <3>1. i \in Nat /\ j \in Nat
      OBVIOUS
    <3> QED BY <2>1, <3>1
  <2> QED BY <2>1, <2>2 DEF Doubled
<1>3. Floats(op)' => Floats(op)
  <2> SUFFICES ASSUME NEW f \in Flats, NEW i \in 1 .. Len(flats'[f]), flats'[f][i] = op PROVE Floats(op)
    BY DEF Floats
  <2>1. flats'[f] = flats[f]
    <3>1. flats'[f] # <<>>
      OBVIOUS
    <3> QED BY <3>1 DEF Consumes
  <2> QED BY <2>1 DEF Floats
<1>4. ASSUME op \in ops PROVE Left(op)' + 1 <= Left(op)
  <2>1. Consumed(op, list', flats')
    BY <1>4 DEF Consumes
  <2>2. CASE \E c \in Used[arch] : \E i \in 1 .. Len(list[c]) : op = list[c][i] /\ i + Len(list'[c]) <= Len(list[c])
    <3>1. PICK c \in Used[arch] : \E i \in 1 .. Len(list[c]) : op = list[c][i] /\ i + Len(list'[c]) <= Len(list[c])
      BY <2>2
    <3>2. PICK i \in 1 .. Len(list[c]) : op = list[c][i] /\ i + Len(list'[c]) <= Len(list[c])
      BY <3>1
    <3>3. /\ ~Floats(op) /\ tokens[op].times \in {1, 2} /\ Listed(op)
          /\ \A d \in Used[arch] : \A j \in 1 .. Len(list[d]) : list[d][j] = op => d = c
      BY <3>2, OneCounter DEF Listed
    <3>4. ASSUME NEW d \in Used[arch], NEW j \in 1 .. Len(list'[d]), list'[d][j] = op
          PROVE  /\ d = c /\ Doubled(op)
                 /\ Len(list[c]) - Len(list'[c]) + j < i + 2 /\ i < Len(list[c]) - Len(list'[c]) + j
      <4> DEFINE k == Len(list[d]) - Len(list'[d]) + j
      <4>1. k \in 1 .. Len(list[d]) /\ list[d][k] = op /\ Len(list[d]) - Len(list'[d]) \in Nat
        BY <1>0, <3>4, EndIs
      <4>2. d = c
        BY <3>3, <4>1
      <4>3. i < k
        <5> DEFINE m == Len(list[d])  n == Len(list'[d])
        <5>1. m \in Nat /\ n \in Nat /\ j \in 1 .. n /\ i \in 1 .. m /\ i + n <= m
          BY <1>0, <3>2, <4>2 DEF Types, Consumes
        <5> HIDE DEF m, n
        <5>2. i < m - n + j
          BY <5>1
        <5> QED BY <5>2 DEF m, n
      <4>4. k < i + tokens[op].times
        BY <3>2, <4>1, <4>2 DEF Slots
      <4> HIDE DEF k
      <4>5. k < i + 2 /\ k # i
        BY <3>3, <4>1, <4>3, <4>4
      <4>6. Doubled(op)
        BY <3>2, <4>1, <4>2, <4>5 DEF Doubled
      <4> QED BY <4>2, <4>3, <4>5, <4>6 DEF k
    <3>5. ~Doubled(op)'
      <4> SUFFICES ASSUME NEW d \in Used[arch], NEW j \in 1 .. Len(list'[d]), NEW k \in 1 .. Len(list'[d]),
                          j # k, list'[d][j] = op, list'[d][k] = op
                   PROVE  FALSE
        BY DEF Doubled
      <4> DEFINE g == Len(list[c]) - Len(list'[c])
      <4>1. g + j < i + 2 /\ i < g + j /\ g + k < i + 2 /\ i < g + k
        BY <3>4
      <4>2. g \in Int
        BY <1>0 DEF Types, Consumes
      <4>3. i \in Int /\ j \in Int /\ k \in Int
        OBVIOUS
      <4> HIDE DEF g
      <4> QED BY <4>1, <4>2, <4>3
    <3>6. Listed(op)' => Doubled(op)
      BY <3>4 DEF Listed
    <3>7. ~Floats(op)'
      BY <1>3, <3>3
    <3> QED BY <3>3, <3>5, <3>6, <3>7 DEF Left
  <2>3. CASE \E f \in Flats : flats'[f] = <<>> /\ \E i \in 1 .. Len(flats[f]) : op = flats[f][i]
    <3>1. PICK f \in Flats : flats'[f] = <<>> /\ \E i \in 1 .. Len(flats[f]) : op = flats[f][i]
      BY <2>3
    <3>2. tokens[op].flat = f /\ f # "empty" /\ Floats(op)
      BY <3>1 DEF IInv, Lists, Floats
    <3>3. ~Listed(op) /\ ~Doubled(op)
      BY <3>2 DEF Listed, Doubled, Slots
    <3>4. ~Floats(op)'
      <4> SUFFICES ASSUME NEW g \in Flats, NEW i \in 1 .. Len(flats'[g]), flats'[g][i] = op PROVE FALSE
        BY DEF Floats
      <4>1. flats'[g] = flats[g]
        <5>1. flats'[g] # <<>>
          OBVIOUS
        <5> QED BY <5>1 DEF Consumes
      <4>2. g = f
        BY <3>2, <4>1 DEF IInv, Lists
      <4> QED BY <3>1, <4>2
    <3> QED BY <1>1, <1>2, <3>2, <3>3, <3>4 DEF Left
  <2> QED BY <2>1, <2>2, <2>3 DEF Consumed
<1>5. Left(op)' <= Left(op)
  <2>1. Doubled(op) => Listed(op)
    BY DEF Doubled, Listed
  <2> QED BY <1>1, <1>2, <1>3, <2>1 DEF Left
<1> QED BY <1>4, <1>5

(* The arrows of an operation are finitely many. *)
LEMMA HitsFinite == ASSUME Types, Pairs, NEW op PROVE IsFiniteSet(Hits(op))
<1>1. IsFiniteSet(1 .. Len(tokens))
  BY FS_Interval DEF Types
<1>2. IsFiniteSet((1 .. Len(tokens)) \X (1 .. Len(tokens)))
  BY <1>1, FS_Product
<1>3. Hits(op) \subseteq (1 .. Len(tokens)) \X (1 .. Len(tokens))
  BY DEF Hits, Pairs, Issued
<1> QED BY <1>2, <1>3, FS_Subset

(* One arrow more. *)
LEMMA HitsGrow ==
  ASSUME Types, Pairs, NEW op, NEW ops, arrows' = arrows \cup {<<Now, o>> : o \in ops}
  PROVE  /\ Cardinality(Hits(op)) \in Nat /\ Cardinality(Hits(op)') \in Nat
         /\ Cardinality(Hits(op)') <= Cardinality(Hits(op)) + 1
         /\ op \notin ops => Cardinality(Hits(op)') = Cardinality(Hits(op))
<1>1. IsFiniteSet(Hits(op))
  BY HitsFinite
<1>2. Hits(op)' = IF op \in ops THEN Hits(op) \cup {<<Now, op>>} ELSE Hits(op)
  BY DEF Hits
<1>3. Cardinality(Hits(op)) \in Nat
  BY <1>1, FS_CardinalityType
<1>4. /\ Cardinality(Hits(op) \cup {<<Now, op>>}) = Cardinality(Hits(op))
      \/ Cardinality(Hits(op) \cup {<<Now, op>>}) = Cardinality(Hits(op)) + 1
  BY <1>1, FS_AddElement
<1> QED BY <1>2, <1>3, <1>4

(* Waits keep it. *)
LEMMA WaitFInv == ASSUME FInv, Wait \/ WaitIdle PROVE Slots' /\ Budget'
<1>0. IInv /\ Types /\ Pairs /\ Slots /\ Lists
  BY DEF FInv, IInv
<1>1. PICK ops : Consumes(ops)
  BY <1>0, WaitConsumes
<1>2. arch' = arch /\ Len(tokens) < MaxTokens[arch]
  BY DEF Wait, WaitIdle
<1>3. PICK t \in {AWait, IdleWait} : tokens' = Append(tokens, t)
  BY DEF Wait, WaitIdle
<1>4. t \in Token /\ t.on = {}
  BY DEF Token, AWait, IdleWait
<1>5. /\ Len(tokens') = Now /\ Now \in Nat /\ tokens'[Now] = t
      /\ \A i \in 1 .. Len(tokens) : tokens'[i] = tokens[i]
  BY <1>0, <1>2, <1>3, <1>4, OneMore
<1>6. \A op \in Issued' : op \in Issued /\ tokens'[op] = tokens[op]
  <2> SUFFICES ASSUME NEW op \in 1 .. Len(tokens'), tokens'[op].on # {} PROVE op \in Issued /\ tokens'[op] = tokens[op]
    BY DEF Issued
  <2>1. Len(tokens) \in Nat
    BY <1>0 DEF Types
  <2>2. op # Now
    BY <1>4, <1>5
  <2>3. op \in 1 .. Len(tokens)
    BY <1>5, <2>1, <2>2 DEF Now
  <2> QED BY <1>5, <2>3 DEF Issued
<1>7. Slots'
  <2>1. ASSUME NEW c \in Used[arch], NEW i \in 1 .. Len(list'[c]), NEW j \in 1 .. Len(list'[c])
        PROVE  /\ tokens'[list'[c][i]].flat = "empty"
               /\ list'[c][i] = list'[c][j] => j < i + tokens'[list'[c][i]].times
    <3> DEFINE d == Len(list[c]) - Len(list'[c])  op == list'[c][i]
    <3>1. /\ d + i \in 1 .. Len(list[c]) /\ list[c][d + i] = op /\ d \in Nat
          /\ d + j \in 1 .. Len(list[c]) /\ list[c][d + j] = list'[c][j]
      BY <1>0, <1>1, EndIs
    <3> HIDE DEF d, op
    <3>2. op \in 1 .. Len(tokens) /\ c \in tokens[op].on
      BY <1>0, <3>1 DEF Lists
    <3>3. tokens'[op] = tokens[op]
      BY <1>5, <3>2
    <3>4. tokens[op].flat = "empty" /\ tokens[op].times \in Nat
      <4>1. op \in Issued
        BY <3>2 DEF Issued
      <4>2. tokens[op].times \in Nat
        BY <1>0, <4>1, IssuedIsKind
      <4>3. tokens[op].flat = "empty"
        BY <1>0, <3>1 DEF Slots
      <4> QED BY <4>2, <4>3
    <3>5. op = list'[c][j] => d + j < (d + i) + tokens[op].times
      BY <1>0, <3>1 DEF Slots
    <3>6. op = list'[c][j] => j < i + tokens[op].times
      <4>1. i \in Nat /\ j \in Nat
        OBVIOUS
      <4> QED BY <3>1, <3>4, <3>5, <4>1, SMTT(30)
    <3> QED BY <3>3, <3>4, <3>6 DEF op
  <2>2. ASSUME NEW f \in Flats, NEW i \in 1 .. Len(flats'[f]), NEW j \in 1 .. Len(flats'[f]), flats'[f][i] = flats'[f][j]
        PROVE  i = j
    <3>1. flats'[f] # <<>>
      OBVIOUS
    <3>2. flats'[f] = flats[f]
      BY <1>1, <3>1 DEF Consumes
    <3> QED BY <1>0, <2>2, <3>2 DEF Slots
  <2> QED BY <1>2, <2>1, <2>2 DEF Slots
<1>8. ASSUME NEW op \in Issued' PROVE Cardinality(Hits(op))' + Left(op)' <= tokens'[op].times
  <2>1. op \in Issued /\ tokens'[op] = tokens[op]
    BY <1>6
  <2>2. Cardinality(Hits(op)) + Left(op) <= tokens[op].times
    BY <2>1 DEF FInv, Budget
  <2>3. /\ Cardinality(Hits(op)) \in Nat /\ Cardinality(Hits(op)') \in Nat
        /\ Cardinality(Hits(op)') <= Cardinality(Hits(op)) + 1
        /\ op \notin ops => Cardinality(Hits(op)') = Cardinality(Hits(op))
    BY <1>0, <1>1, HitsGrow DEF Consumes
  <2>4. Left(op)' <= Left(op) /\ (op \in ops => Left(op)' + 1 <= Left(op))
    BY <1>0, <1>1, <1>2, PlacesGo
  <2>5. Left(op) \in Nat /\ Left(op)' \in Nat
    BY DEF Left
  <2>6. tokens[op].times \in Nat
    BY <1>0, <2>1, IssuedIsKind
  <2> DEFINE h == Cardinality(Hits(op))  g == Cardinality(Hits(op)')  l == Left(op)  m == Left(op)'
             t1 == tokens[op].times
  <2>7. /\ h + l <= t1 /\ h \in Nat /\ g \in Nat /\ g <= h + 1 /\ (op \notin ops => g = h)
        /\ m <= l /\ (op \in ops => m + 1 <= l) /\ l \in Nat /\ m \in Nat /\ t1 \in Nat
    BY <2>2, <2>3, <2>4, <2>5, <2>6
  <2> HIDE DEF h, g, l, m, t1
  <2>8. g + m <= t1
    BY <2>7
  <2> QED BY <2>1, <2>8 DEF g, m, t1
<1> QED BY <1>7, <1>8 DEF Budget

(* What an operation of kind k adds to the lists. *)
Adds(k) ==
  /\ Len(tokens') = Now /\ tokens'[Now] = k /\ \A i \in 1 .. Len(tokens) : tokens'[i] = tokens[i]
  /\ \A c \in Used[arch] :
       IF k.flat = "empty" /\ c \in k.on THEN OldOrNew(list'[c], list[c], Now, k.times) ELSE list'[c] = list[c]
  /\ \A f \in Flats :
       IF k.flat = f /\ f # "empty" THEN OldOrNew(flats'[f], flats[f], Now, 1) ELSE flats'[f] = flats[f]

(* Every memory operation adds itself at most as often as it is counted. *)
LEMMA IssueAdds == ASSUME Types, Issue PROVE \E k \in Kinds : Adds(k)
<1>1. PICK k \in Kinds : tokens' = Append(tokens, k) /\ Record(k) /\ Count(k)
  BY DEF Issue
<1>2. k.times \in {1, 2} /\ k \in Token /\ Len(tokens) < MaxTokens[arch] /\ arch' = arch
  BY KindFacts DEF Types, Token, Issue
<1>3. /\ Len(tokens') = Now /\ tokens'[Now] = k /\ Now \in Nat
      /\ \A i \in 1 .. Len(tokens) : tokens'[i] = tokens[i]
  BY <1>1, <1>2, OneMore
<1>4. ASSUME NEW c \in Used[arch]
      PROVE  IF k.flat = "empty" /\ c \in k.on
             THEN OldOrNew(list'[c], list[c], Now, k.times) ELSE list'[c] = list[c]
  <2>1. list[c] \in Seq(Nat)
    BY DEF Types
  <2>2. list'[c] = IF k.flat = "empty" /\ c \in k.on THEN list[c] \o Repeat(Now, k.times) ELSE list[c]
    BY <1>1 DEF Types, Record
  <2>3. IsExtended(list[c] \o Repeat(Now, k.times), list[c], Now, k.times)
    BY <1>2, <1>3, <2>1, Repeated
  <2>4. OldOrNew(list[c] \o Repeat(Now, k.times), list[c], Now, k.times)
    BY <1>2, <2>1, <2>3, ExtendedHas
  <2> QED BY <2>2, <2>4
<1>5. ASSUME NEW f \in Flats
      PROVE  IF k.flat = f /\ f # "empty" THEN OldOrNew(flats'[f], flats[f], Now, 1) ELSE flats'[f] = flats[f]
  <2>1. flats[f] \in Seq(Nat)
    BY DEF Types
  <2>2. flats'[f] = IF k.flat = f /\ f # "empty" THEN Append(flats[f], Now) ELSE flats[f]
    BY <1>1 DEF Types, Record
  <2>3. IsExtended(Append(flats[f], Now), flats[f], Now, 1)
    BY <1>3, <2>1 DEF IsExtended
  <2>4. OldOrNew(Append(flats[f], Now), flats[f], Now, 1)
    BY <2>1, <2>3, ExtendedHas
  <2> QED BY <2>2, <2>4
<1>6. Adds(k)
  BY <1>3, <1>4, <1>5 DEF Adds
<1> QED BY <1>6

(* An operation just recorded has as many places as it counts. *)
LEMMA IssueFInv == ASSUME FInv, Issue PROVE Slots' /\ Budget'
<1>0. IInv /\ Types /\ Pairs /\ Slots /\ Lists /\ Budget
  BY DEF FInv, IInv
<1>1. PICK k \in Kinds : Adds(k)
  BY <1>0, IssueAdds
<1>2. arch' = arch /\ arrows' = arrows
  BY DEF Issue
<1>3. k.times \in {1, 2} /\ (k.flat # "empty" => k.times = 1)
  <2>1. arch \in Archs
    BY <1>0 DEF Types
  <2> QED BY <2>1, KindFacts
<1>4. /\ Len(tokens') = Now /\ tokens'[Now] = k /\ Len(tokens) \in Nat /\ Now = Len(tokens) + 1
      /\ \A i \in 1 .. Len(tokens) : tokens'[i] = tokens[i] /\ i # Now
  <2>1. Len(tokens) \in Nat
    BY <1>0 DEF Types
  <2> QED BY <1>1, <2>1 DEF Adds, Now
<1>5. ASSUME NEW c \in Used[arch], NEW i \in 1 .. Len(list'[c])
      PROVE  \/ /\ i \in 1 .. Len(list[c]) /\ list'[c][i] = list[c][i]
                /\ list[c][i] \in 1 .. Len(tokens) /\ list[c][i] # Now
             \/ /\ k.flat = "empty" /\ list'[c][i] = Now
                /\ i - Len(list[c]) \in 1 .. k.times
  <2>1. \A j \in 1 .. Len(list[c]) : list[c][j] \in 1 .. Len(tokens) /\ list[c][j] # Now
    BY <1>0, <1>4 DEF Lists
  <2>2. CASE k.flat = "empty" /\ c \in k.on
    <3>1. OldOrNew(list'[c], list[c], Now, k.times)
      BY <1>1, <2>2 DEF Adds
    <3> QED BY <2>1, <2>2, <3>1 DEF OldOrNew
  <2>3. CASE ~(k.flat = "empty" /\ c \in k.on)
    <3>1. list'[c] = list[c]
      BY <1>1, <2>3 DEF Adds
    <3> QED BY <2>1, <3>1
  <2> QED BY <2>2, <2>3
<1>6. ASSUME NEW f \in Flats, NEW i \in 1 .. Len(flats'[f])
      PROVE  \/ /\ i \in 1 .. Len(flats[f]) /\ flats'[f][i] = flats[f][i] /\ flats[f][i] # Now
             \/ k.flat # "empty" /\ flats'[f][i] = Now /\ i - Len(flats[f]) = 1
  <2>1. \A j \in 1 .. Len(flats[f]) : flats[f][j] # Now
    BY <1>0, <1>4 DEF Lists, Issued
  <2>2. CASE k.flat = f /\ f # "empty"
    <3>1. OldOrNew(flats'[f], flats[f], Now, 1)
      BY <1>1, <2>2 DEF Adds
    <3> QED BY <2>1, <2>2, <3>1 DEF OldOrNew
  <2>3. CASE ~(k.flat = f /\ f # "empty")
    <3>1. flats'[f] = flats[f]
      BY <1>1, <2>3 DEF Adds
    <3> QED BY <2>1, <3>1
  <2> QED BY <2>2, <2>3
<1>7. \A c \in Used[arch] : Len(list[c]) \in Nat
  BY <1>0 DEF Types
<1>8. \A f \in Flats : Len(flats[f]) \in Nat
  BY <1>0 DEF Types
<1>9. Slots'
  <2>1. ASSUME NEW c \in Used[arch], NEW i \in 1 .. Len(list'[c]), NEW j \in 1 .. Len(list'[c])
        PROVE  /\ tokens'[list'[c][i]].flat = "empty"
               /\ list'[c][i] = list'[c][j] => j < i + tokens'[list'[c][i]].times
    <3>1. CASE i \in 1 .. Len(list[c]) /\ list'[c][i] = list[c][i] /\ list[c][i] \in 1 .. Len(tokens) /\ list[c][i] # Now
      <4>1. tokens'[list'[c][i]] = tokens[list[c][i]]
        BY <1>4, <3>1
      <4>2. tokens[list[c][i]].flat = "empty"
        BY <1>0, <3>1 DEF Slots
      <4>3. ASSUME list'[c][i] = list'[c][j] PROVE j < i + tokens[list[c][i]].times
        <5>1. j \in 1 .. Len(list[c]) /\ list'[c][j] = list[c][j]
          BY <1>5, <3>1, <4>3
        <5> QED BY <1>0, <3>1, <4>3, <5>1 DEF Slots
      <4> QED BY <4>1, <4>2, <4>3
    <3>2. CASE k.flat = "empty" /\ list'[c][i] = Now /\ i - Len(list[c]) \in 1 .. k.times
      <4>1. tokens'[list'[c][i]] = k
        BY <1>4, <3>2
      <4>2. ASSUME list'[c][i] = list'[c][j] PROVE j < i + k.times
        <5>1. j - Len(list[c]) \in 1 .. k.times
          BY <1>5, <3>2, <4>2
        <5> DEFINE m == Len(list[c])  t == k.times
        <5>2. m \in Nat /\ t \in Nat /\ i \in Nat /\ j \in Nat /\ i - m \in 1 .. t /\ j - m \in 1 .. t
          BY <1>3, <1>7, <3>2, <5>1
        <5> HIDE DEF m, t
        <5>3. j < i + t
          BY <5>2
        <5> QED BY <5>3 DEF t
      <4> QED BY <3>2, <4>1, <4>2
    <3> QED BY <1>5, <3>1, <3>2
  <2>2. ASSUME NEW f \in Flats, NEW i \in 1 .. Len(flats'[f]), NEW j \in 1 .. Len(flats'[f]), flats'[f][i] = flats'[f][j]
        PROVE  i = j
    <3>1. CASE i \in 1 .. Len(flats[f]) /\ flats'[f][i] = flats[f][i] /\ flats[f][i] # Now
      <4>1. j \in 1 .. Len(flats[f]) /\ flats'[f][j] = flats[f][j]
        BY <1>6, <2>2, <3>1
      <4> QED BY <1>0, <2>2, <3>1, <4>1 DEF Slots
    <3>2. CASE flats'[f][i] = Now /\ i - Len(flats[f]) = 1
      <4>1. j - Len(flats[f]) = 1
        BY <1>6, <2>2, <3>2
      <4> DEFINE m == Len(flats[f])
      <4>2. m \in Nat /\ i \in Nat /\ j \in Nat /\ i - m = 1 /\ j - m = 1
        BY <1>8, <3>2, <4>1
      <4> HIDE DEF m
      <4> QED BY <4>2
    <3> QED BY <1>6, <3>1, <3>2
  <2> QED BY <1>2, <2>1, <2>2 DEF Slots
<1>10. ASSUME NEW op \in Issued' PROVE Cardinality(Hits(op))' + Left(op)' <= tokens'[op].times
  <2>1. Hits(op)' = Hits(op)
    BY <1>2 DEF Hits
  <2>2. op \in 1 .. Len(tokens) \/ op = Now
    <3>1. op \in 1 .. Now
      BY <1>4 DEF Issued
    <3> QED BY <1>4, <3>1
  <2>3. CASE op \in 1 .. Len(tokens)
    <3>1. tokens'[op] = tokens[op] /\ op # Now
      BY <1>4, <2>3
    <3>2. op \in Issued
      BY <2>3, <3>1 DEF Issued
    <3>3. Cardinality(Hits(op)) + Left(op) <= tokens[op].times
      BY <1>0, <3>2 DEF Budget
    <3>4. /\ Listed(op)' => Listed(op)
          /\ Doubled(op)' => Doubled(op)
          /\ Floats(op)' => Floats(op)
      <4>1. Listed(op)' => Listed(op)
        BY <1>2, <1>5, <3>1 DEF Listed
      <4>2. Doubled(op)' => Doubled(op)
        BY <1>2, <1>5, <3>1, SMTT(30) DEF Doubled
      <4>3. Floats(op)' => Floats(op)
        BY <1>6, <3>1 DEF Floats
      <4> QED BY <4>1, <4>2, <4>3
    <3>5. Doubled(op) => Listed(op)
      BY DEF Doubled, Listed
    <3>6. Left(op)' <= Left(op) /\ Left(op) \in Nat /\ Left(op)' \in Nat
      BY <3>4, <3>5 DEF Left
    <3>7. Cardinality(Hits(op)) \in Nat
      BY <1>0, HitsFinite, FS_CardinalityType
    <3>8. tokens[op].times \in Nat
      BY <1>0, <3>2, IssuedIsKind
    <3> DEFINE h == Cardinality(Hits(op))  l == Left(op)  m == Left(op)'  t1 == tokens[op].times
    <3>9. h \in Nat /\ l \in Nat /\ m \in Nat /\ t1 \in Nat /\ h + l <= t1 /\ m <= l
      BY <3>3, <3>6, <3>7, <3>8
    <3> HIDE DEF h, l, m, t1
    <3>10. h + m <= t1
      BY <3>9
    <3> QED BY <2>1, <3>1, <3>10 DEF h, m, t1
  <2>4. CASE op = Now
    <3>1. Hits(op) = {}
      <4> SUFFICES ASSUME NEW a \in arrows, a[2] = Now PROVE FALSE
        BY <2>4 DEF Hits
      <4>1. a[2] \in 1 .. Len(tokens)
        BY <1>0 DEF Pairs, Issued
      <4> QED BY <1>4, <4>1
    <3>2. Cardinality(Hits(op)) = 0
      BY <3>1, FS_EmptySet
    <3>3. tokens'[op] = k
      BY <1>4, <2>4
    <3>4. ASSUME k.times = 1 PROVE ~Doubled(op)'
      <4> SUFFICES ASSUME NEW c \in Used[arch], NEW i \in 1 .. Len(list'[c]), NEW j \in 1 .. Len(list'[c]),
                          i # j, list'[c][i] = Now, list'[c][j] = Now
                   PROVE  FALSE
        BY <1>2, <2>4 DEF Doubled
      <4>1. i - Len(list[c]) \in 1 .. 1 /\ j - Len(list[c]) \in 1 .. 1
        BY <1>5, <3>4
      <4> DEFINE m == Len(list[c])
      <4>2. m \in Nat /\ i \in Nat /\ j \in Nat /\ i - m \in 1 .. 1 /\ j - m \in 1 .. 1
        BY <1>7, <4>1
      <4> HIDE DEF m
      <4> QED BY <4>2
    <3>5. Left(op)' <= k.times /\ Left(op)' \in Nat
      BY <1>3, <3>4 DEF Left
    <3> QED BY <2>1, <3>2, <3>3, <3>5
  <2> QED BY <2>2, <2>3, <2>4
<1> QED BY <1>9, <1>10 DEF Budget

(* The inductive invariant, with the places. *)
LEMMA FInvariant == Spec => []FInv
<1>1. Init => FInv
  <2> SUFFICES ASSUME Init PROVE FInv
    OBVIOUS
  <2>1. Slots
    BY DEF Init, Slots
  <2>2. Issued = {}
    BY DEF Init, Issued
  <2> QED BY <2>1, <2>2, InitIInv DEF FInv, Budget
<1>2. FInv /\ [Next]_vars => FInv'
  <2> SUFFICES ASSUME FInv, [Next]_vars PROVE FInv'
    OBVIOUS
  <2>1. IInv'
    BY StepIInv DEF FInv
  <2>2. CASE Issue
    BY <2>1, <2>2, IssueFInv DEF FInv
  <2>3. CASE Wait \/ WaitIdle
    BY <2>1, <2>3, WaitFInv DEF FInv
  <2>4. CASE UNCHANGED vars
    <3>1. UNCHANGED <<arch, tokens, list, flats, arrows>>
      BY <2>4 DEF vars, analysis
    <3>2. Slots'
      BY <3>1 DEF FInv, Slots
    <3>3. ASSUME NEW op PROVE Hits(op)' = Hits(op) /\ Left(op)' = Left(op)
      BY <3>1 DEF Hits, Left, Listed, Doubled, Floats
    <3>4. Issued' = Issued
      BY <3>1 DEF Issued
    <3>5. Budget'
      BY <3>1, <3>3, <3>4 DEF FInv, Budget
    <3> QED BY <2>1, <3>2, <3>5 DEF FInv
  <2> QED BY <2>2, <2>3, <2>4 DEF Next
<1> QED BY <1>1, <1>2, PTL DEF Spec

(* An operation is found at one wait, or at two if it counts twice: a wait  *)
(* takes what it finds out of the lists, and the copy of a flat list that   *)
(* join_and_reset makes leaves none behind, for waves and values of any     *)
(* size.                                                                    *)
THEOREM FoundAtMostTimes == Spec => []FoundOnce
<1>1. FInv => FoundOnce
  <2> SUFFICES ASSUME FInv, NEW op \in Issued PROVE Cardinality(Hits(op)) <= tokens[op].times
    BY DEF FoundOnce, Hits
  <2>1. Cardinality(Hits(op)) + Left(op) <= tokens[op].times
    BY DEF FInv, Budget
  <2>2. Types /\ Pairs
    BY DEF FInv, IInv
  <2>3. Cardinality(Hits(op)) \in Nat /\ Left(op) \in Nat
    BY <2>2, HitsFinite, FS_CardinalityType DEF Left
  <2>4. tokens[op].times \in Nat
    BY <2>2, IssuedIsKind
  <2> QED BY <2>1, <2>3, <2>4
<1> QED BY <1>1, FInvariant, PTL

-------------------------------------------------------------------------------
(* Exactly what a wait finds                                                *)

(* A wait for the values v takes all but v[c] operations off a counter that *)
(* is in order or waited for until it is zero.                              *)
Active(c, v) == c \in DOMAIN v /\ ~(parallel[c] /\ v[c] # 0)
Done(c, v) == IF Len(list[c]) > v[c] THEN Len(list[c]) - v[c] ELSE 0
Taken(op, c, v) == \E i \in 1 .. Done(c, v) : list[c][i] = op
JoinsLoads(c) == "load" \in Joins(c)
Emptied(D, v) == \E c \in D : Active(c, v) /\ JoinsLoads(c)
Finds(op, D, v) == \E c \in D : Active(c, v) /\ (Taken(op, c, v) \/ (JoinsLoads(c) /\ In(op, flats["load"])))

(* The analysis after the counters D of a wait, if no flat store is listed. *)
Exactly(D, s, v) ==
  /\ s \in State
  /\ s.flats["stor"] = <<>> /\ s.flats["empty"] = <<>>
  /\ s.flats["load"] = IF Emptied(D, v) THEN <<>> ELSE flats["load"]
  /\ \A c \in Used[arch] :
       IF c \in D /\ Active(c, v)
       THEN s.list[c] = SubSeq(list[c], Done(c, v) + 1, Len(list[c])) /\ s.parallel[c] = FALSE
       ELSE s.list[c] = list[c] /\ s.parallel[c] = parallel[c]
  /\ \A op : op \in s.found <=> Finds(op, D, v)

(* One counter more that is looked at. *)
LEMMA MoreEmptied ==
  ASSUME NEW D, NEW c, NEW v
  PROVE  /\ Emptied(D \cup {c}, v) <=> Emptied(D, v) \/ (Active(c, v) /\ JoinsLoads(c))
         /\ \A op : Finds(op, D \cup {c}, v) <=>
              Finds(op, D, v) \/ (Active(c, v) /\ (Taken(op, c, v) \/ (JoinsLoads(c) /\ In(op, flats["load"]))))
         /\ Emptied(D, v) => \A op : In(op, flats["load"]) => Finds(op, D, v)
<1>1. Emptied(D \cup {c}, v) <=> Emptied(D, v) \/ (Active(c, v) /\ JoinsLoads(c))
  BY DEF Emptied
<1>2. \A op : Finds(op, D \cup {c}, v) <=>
        Finds(op, D, v) \/ (Active(c, v) /\ (Taken(op, c, v) \/ (JoinsLoads(c) /\ In(op, flats["load"]))))
  BY DEF Finds
<1>3. Emptied(D, v) => \A op : In(op, flats["load"]) => Finds(op, D, v)
  BY DEF Emptied, Finds
<1> QED BY <1>1, <1>2, <1>3

(* The handler takes one counter more into account, exactly. *)
LEMMA MemOpExactly ==
  ASSUME Types, NEW v \in Values, NEW D, NEW s, Exactly(D, s, v), NEW c \in DOMAIN v, c \notin D,
         NEW f \in Flats, JoinsLoads(c) <=> f = "load"
  PROVE  Exactly(D \cup {c}, HandleMemOp(s, c, f, v[c]), v)
<1> DEFINE r == HandleMemOp(s, c, f, v[c])  n == v[c]
<1>1. c \in Used[arch] /\ n \in Nat /\ s \in State
  BY DEF Values, Exactly
<1>2. s.list[c] = list[c] /\ s.parallel[c] = parallel[c]
  BY <1>1 DEF Exactly
<1>3. MemOpDone(r, s, c, f, n)
  BY <1>1, MemOpDoes
<1>4. Active(c, v) <=> ~(s.parallel[c] /\ n # 0)
  BY <1>2 DEF Active
<1> HIDE DEF r
<1>5. CASE ~Active(c, v)
  <2>1. r \in State /\ r.list = s.list /\ r.flats = s.flats /\ r.parallel = s.parallel /\ r.found = s.found
    BY <1>3, <1>4, <1>5 DEF MemOpDone
  <2>2. Emptied(D \cup {c}, v) <=> Emptied(D, v)
    BY <1>5, MoreEmptied
  <2>3. \A op : Finds(op, D \cup {c}, v) <=> Finds(op, D, v)
    BY <1>5, MoreEmptied
  <2>4. \A d \in Used[arch] : d \in D \cup {c} /\ Active(d, v) <=> d \in D /\ Active(d, v)
    BY <1>5
  <2>5. Exactly(D \cup {c}, r, v)
    BY <2>1, <2>2, <2>3, <2>4 DEF Exactly
  <2> QED BY <2>5 DEF r
<1>6. CASE Active(c, v)
  <2> DEFINE rest == SubSeq(list[c], Done(c, v) + 1, Len(list[c]))
  <2>1. /\ r \in State /\ r.list = [s.list EXCEPT ![c] = rest]
        /\ r.parallel = [s.parallel EXCEPT ![c] = FALSE] /\ r.flats = [s.flats EXCEPT ![f] = <<>>]
        /\ \A op : op \in r.found <=> op \in s.found \/ In(op, s.flats[f]) \/ Taken(op, c, v)
    BY <1>2, <1>3, <1>4, <1>6 DEF MemOpDone, Done, Taken
  <2> HIDE DEF rest
  <2>2. \A d \in Used[arch] : /\ r.list[d] = IF d = c THEN rest ELSE s.list[d]
                              /\ r.parallel[d] = IF d = c THEN FALSE ELSE s.parallel[d]
    BY <1>1, <2>1 DEF State
  <2>3. \A g \in Flats : r.flats[g] = IF g = f THEN <<>> ELSE s.flats[g]
    BY <1>1, <2>1 DEF State
  <2>4. r.flats["stor"] = <<>> /\ r.flats["empty"] = <<>>
    BY <2>3 DEF Flats, Exactly
  <2>5. r.flats["load"] = IF Emptied(D \cup {c}, v) THEN <<>> ELSE flats["load"]
    <3>1. s.flats["load"] = IF Emptied(D, v) THEN <<>> ELSE flats["load"]
      BY DEF Exactly
    <3>2. Emptied(D \cup {c}, v) <=> Emptied(D, v) \/ f = "load"
      BY <1>6, MoreEmptied
    <3>3. r.flats["load"] = IF f = "load" THEN <<>> ELSE s.flats["load"]
      BY <2>3 DEF Flats
    <3> QED BY <3>1, <3>2, <3>3
  <2>6. ASSUME NEW d \in Used[arch]
        PROVE  IF d \in D \cup {c} /\ Active(d, v)
               THEN r.list[d] = SubSeq(list[d], Done(d, v) + 1, Len(list[d])) /\ r.parallel[d] = FALSE
               ELSE r.list[d] = list[d] /\ r.parallel[d] = parallel[d]
    <3>1. CASE d = c
      BY <1>6, <2>2, <3>1 DEF rest
    <3>2. CASE d # c
      BY <2>2, <3>2 DEF Exactly
    <3> QED BY <3>1, <3>2
  <2>7. ASSUME NEW op PROVE op \in r.found <=> Finds(op, D \cup {c}, v)
    <3>1. op \in s.found <=> Finds(op, D, v)
      BY DEF Exactly
    <3>2. In(op, <<>>) <=> FALSE
      BY DEF In
    <3>3. Finds(op, D \cup {c}, v) <=> Finds(op, D, v) \/ Taken(op, c, v) \/ (f = "load" /\ In(op, flats["load"]))
      BY <1>6, MoreEmptied
    <3>4. CASE f = "load"
      <4>1. s.flats["load"] = IF Emptied(D, v) THEN <<>> ELSE flats["load"]
        BY DEF Exactly
      <4>2. Emptied(D, v) => (In(op, flats["load"]) => Finds(op, D, v))
        BY MoreEmptied
      <4> QED BY <2>1, <3>1, <3>2, <3>3, <3>4, <4>1, <4>2
    <3>5. CASE f # "load"
      <4>1. s.flats[f] = <<>>
        BY <3>5 DEF Flats, Exactly
      <4> QED BY <2>1, <3>1, <3>2, <3>3, <3>5, <4>1
    <3> QED BY <3>4, <3>5
  <2>8. Exactly(D \cup {c}, r, v)
    BY <2>1, <2>4, <2>5, <2>6, <2>7 DEF Exactly
  <2> QED BY <2>8 DEF r
<1> QED BY <1>5, <1>6

(* So does the walk over any counter, named by the wait or not. *)
LEMMA CounterExactly ==
  ASSUME Types, NEW v \in Values, NEW D, NEW s, Exactly(D, s, v), NEW c, c \notin D
  PROVE  Exactly(D \cup {c}, At(s, c, v), v)
<1>1. CASE c \notin DOMAIN v
  <2>1. At(s, c, v) = s /\ ~Active(c, v)
    BY <1>1 DEF At, Active
  <2>2. Emptied(D \cup {c}, v) <=> Emptied(D, v)
    BY <2>1, MoreEmptied
  <2>3. \A op : Finds(op, D \cup {c}, v) <=> Finds(op, D, v)
    BY <2>1, MoreEmptied
  <2>4. \A d \in Used[arch] : d \in D \cup {c} /\ Active(d, v) <=> d \in D /\ Active(d, v)
    BY <2>1
  <2> QED BY <2>1, <2>2, <2>3, <2>4 DEF Exactly
<1>2. CASE c \in DOMAIN v
  <2>1. At(s, c, v) = HandleCounter(s, c, v[c])
    BY <1>2 DEF At
  <2>2. CASE (arch = "gfx10" /\ c = "lgkm") \/ c = "ds"
    <3> DEFINE loads == HandleMemOp(s, c, "load", v[c])
    <3>1. JoinsLoads(c)
      BY <2>2 DEF Joins, JoinsLoads
    <3>2. Exactly(D \cup {c}, loads, v)
      BY <1>2, <3>1, MemOpExactly DEF Flats
    <3> HIDE DEF loads
    <3>3. loads.flats["stor"] = <<>>
      BY <3>2 DEF Exactly
    <3>4. HandleShared(s, c, v[c]) = loads
      BY <3>3 DEF HandleShared, loads
    <3> QED BY <2>1, <2>2, <3>2, <3>4 DEF HandleCounter
  <2>3. CASE ~((arch = "gfx10" /\ c = "lgkm") \/ c = "ds") /\ c \in {"lgkm", "vm", "load"}
    <3>1. JoinsLoads(c) /\ HandleCounter(s, c, v[c]) = HandleMemOp(s, c, "load", v[c])
      BY <2>3 DEF Joins, JoinsLoads, HandleCounter
    <3> QED BY <1>2, <2>1, <3>1, MemOpExactly DEF Flats
  <2>4. CASE ~((arch = "gfx10" /\ c = "lgkm") \/ c = "ds") /\ c \notin {"lgkm", "vm", "load"}
    <3>1. ~JoinsLoads(c)
      BY <2>4 DEF Joins, JoinsLoads
    <3>2. PICK f \in {"stor", "empty"} : HandleCounter(s, c, v[c]) = HandleMemOp(s, c, f, v[c])
      BY <2>4 DEF HandleCounter
    <3> QED BY <1>2, <2>1, <3>1, <3>2, MemOpExactly DEF Flats
  <2> QED BY <2>2, <2>3, <2>4
<1> QED BY <1>1, <1>2

(* All that a wait does, whichever walker looks at its counters. *)
LEMMA FoundExactly ==
  ASSUME Types, NEW v \in Values, flats["stor"] = <<>>, flats["empty"] = <<>>,
         DOMAIN v \in (IF arch = "gfx9" THEN Sets9 ELSE IF arch = "gfx10" THEN Sets10 ELSE Sets12)
  PROVE  Exactly(DOMAIN v, Found(v), v)
<1> DEFINE start == [parallel |-> parallel, list |-> list, flats |-> flats, joined |-> <<>>, found |-> {}]
<1>1. Exactly({}, start, v)
  <2>1. start \in State
    BY DEF Types, State
  <2> QED BY <2>1 DEF Exactly, Emptied, Finds
<1> HIDE DEF start
<1>2. ASSUME NEW D, NEW s, Exactly(D, s, v), DOMAIN v \subseteq D PROVE Exactly(DOMAIN v, s, v)
  <2>1. \A c : c \in D /\ Active(c, v) <=> c \in DOMAIN v /\ Active(c, v)
    BY <1>2 DEF Active
  <2>2. Emptied(D, v) <=> Emptied(DOMAIN v, v)
    BY <2>1 DEF Emptied
  <2>3. \A op : Finds(op, D, v) <=> Finds(op, DOMAIN v, v)
    BY <2>1 DEF Finds
  <2> QED BY <1>2, <2>1, <2>2, <2>3 DEF Exactly
<1>3. CASE arch = "gfx9"
  <2> DEFINE s1 == At(start, "lgkm", v)  s2 == At(s1, "vm", v)
  <2>1. Found(v) = s2
    BY <1>3 DEF Found, Walk9, start
  <2> HIDE DEF s2
  <2>2. Exactly({} \cup {"lgkm"}, s1, v)
    BY <1>1, CounterExactly
  <2> HIDE DEF s1
  <2>3. Exactly(({} \cup {"lgkm"}) \cup {"vm"}, s2, v)
    BY <2>2, CounterExactly DEF s2
  <2>4. DOMAIN v \subseteq ({} \cup {"lgkm"}) \cup {"vm"}
    BY <1>3 DEF Sets9
  <2> QED BY <1>2, <2>1, <2>3, <2>4
<1>4. CASE arch = "gfx10"
  <2> DEFINE s1 == At(start, "vs", v)  s2 == At(s1, "vm", v)  s3 == At(s2, "lgkm", v)
  <2>1. Found(v) = s3
    BY <1>4 DEF Found, Walk10, start
  <2> HIDE DEF s3
  <2>2. Exactly({} \cup {"vs"}, s1, v)
    BY <1>1, CounterExactly
  <2> HIDE DEF s2
  <2>3. Exactly(({} \cup {"vs"}) \cup {"vm"}, s2, v)
    BY <2>2, CounterExactly DEF s2
  <2>4. Exactly((({} \cup {"vs"}) \cup {"vm"}) \cup {"lgkm"}, s3, v)
    BY <2>3, CounterExactly DEF s3
  <2>5. DOMAIN v \subseteq (({} \cup {"vs"}) \cup {"vm"}) \cup {"lgkm"}
    BY <1>4 DEF Sets9, Sets10
  <2> QED BY <1>2, <2>1, <2>4, <2>5
<1>5. CASE arch = "gfx12"
  <2> DEFINE s1 == At(start, "bvh", v)  s2 == At(s1, "exp", v)  s3 == At(s2, "sample", v)
             s4 == At(s3, "km", v)  s5 == At(s4, "store", v)  s6 == At(s5, "load", v)
             s7 == At(s6, "tensor", v)  s8 == At(s7, "async", v)  s9 == At(s8, "ds", v)
             D3 == {"bvh", "exp", "sample"}  D6 == D3 \cup {"km", "store", "load"}
             D9 == D6 \cup {"tensor", "async", "ds"}
  <2>1. Found(v) = s9
    BY <1>5 DEF Found, Walk12, start
  <2>2. ASSUME NEW D, NEW s, Exactly(D, s, v), NEW c, c \notin D, NEW E, E = D \cup {c}
        PROVE  Exactly(E, At(s, c, v), v)
    BY <2>2, CounterExactly
  <2>3. Exactly(D3, s3, v)
    <3> HIDE DEF s1, s2
    <3>1. Exactly({"bvh"}, s1, v)
      BY <1>1, <2>2 DEF s1
    <3>2. Exactly({"bvh", "exp"}, s2, v)
      BY <3>1, <2>2 DEF s2
    <3> QED BY <3>2, <2>2 DEF s3
  <2> HIDE DEF s3
  <2>4. Exactly(D6, s6, v)
    <3> HIDE DEF s4, s5
    <3>1. Exactly(D3 \cup {"km"}, s4, v)
      BY <2>3, <2>2 DEF s4
    <3>2. Exactly(D3 \cup {"km", "store"}, s5, v)
      BY <3>1, <2>2 DEF s5
    <3> QED BY <3>2, <2>2 DEF s6
  <2> HIDE DEF s6
  <2>5. Exactly(D9, s9, v)
    <3> HIDE DEF s7, s8
    <3>1. Exactly(D6 \cup {"tensor"}, s7, v)
      BY <2>4, <2>2 DEF s7
    <3>2. Exactly(D6 \cup {"tensor", "async"}, s8, v)
      BY <3>1, <2>2 DEF s8
    <3> QED BY <3>2, <2>2 DEF s9
  <2> HIDE DEF s9
  <2>6. DOMAIN v \subseteq D9
    BY <1>5 DEF Sets12
  <2> HIDE DEF D9
  <2> QED BY <1>2, <2>1, <2>5, <2>6 DEF s9
<1> QED BY <1>3, <1>4, <1>5, BoundsAssumption DEF Types

(* As long as the lists tell all that is pending: a counter in order lists   *)
(* exactly what is pending; of a loose one, what is listed is pending, and   *)
(* what is pending is listed, among the flat ones or has its arrow already;  *)
(* flat loads are pending on their counters, which are loose; and the arrows *)
(* are the waits.                                                            *)
HasArrow(op) == \E a \in arrows : a[2] = op
Alike == \A c \in Used[arch] : parallel[c] = loose[c] /\ (~loose[c] => pending[c] = list[c])
ListedPends == \A c \in Used[arch] : \A op : In(op, list[c]) => In(op, pending[c])
PendingKnown ==
  \A c \in Used[arch] : \A op : In(op, pending[c]) =>
    /\ op \in 1 .. Len(tokens) /\ c \in tokens[op].on
    /\ In(op, list[c]) \/ In(op, flats["load"]) \/ HasArrow(op)
LoadsPend == \A op : In(op, flats["load"]) => \A c \in tokens[op].on : loose[c] /\ In(op, pending[c])
EachWaitHasArrow == \A w \in waited : \E a \in arrows : a[2] = w[2] /\ a[1] <= w[1]

Exact ==
  /\ flats["stor"] = <<>>
  /\ Alike /\ ListedPends /\ PendingKnown /\ LoadsPend
  /\ arrows \subseteq waited /\ EachWaitHasArrow

EInv == IInv /\ (Tracked /\ ~misread => Exact)

(* What the hardware completes at a wait, in the words of the analysis. *)
Gone(c, v) == IF Len(pending[c]) > v[c] THEN Len(pending[c]) - v[c] ELSE 0
Completes(p, v) == \E c \in DOMAIN v : Active(c, v) /\ \E i \in 1 .. Gone(c, v) : p = <<Now, pending[c][i]>>

(* What the hardware completes is said by the counters that are not loose. *)
LEMMA CompleteActive ==
  ASSUME Types, Alike, NEW v \in Values, Complete(v)
  PROVE  /\ \A c \in Used[arch] :
              IF Active(c, v)
              THEN ~loose'[c] /\ pending'[c] = SubSeq(pending[c], Gone(c, v) + 1, Len(pending[c]))
              ELSE loose'[c] = loose[c] /\ pending'[c] = pending[c]
         /\ \A p : p \in waited' <=> p \in waited \/ Completes(p, v)
<1> DEFINE N(c) == IF c \in DOMAIN v THEN Completed(c, v[c]) ELSE 0
<1>1. /\ pending' = [c \in Used[arch] |-> SubSeq(pending[c], N(c) + 1, Len(pending[c]))]
      /\ loose' = [c \in Used[arch] |-> loose[c] /\ ~(c \in DOMAIN v /\ v[c] = 0)]
      /\ waited' = waited \cup UNION {{<<Now, pending[c][i]>> : i \in 1 .. N(c)} : c \in DOMAIN v}
  BY DEF Complete, Types
<1>2. ASSUME NEW c \in Used[arch]
      PROVE  /\ pending[c] \in Seq(Nat) /\ loose[c] \in BOOLEAN
             /\ Active(c, v) <=> c \in DOMAIN v /\ ~(loose[c] /\ v[c] # 0)
             /\ N(c) = IF Active(c, v) THEN Gone(c, v) ELSE 0
  <2>1. pending[c] \in Seq(Nat) /\ Len(pending[c]) \in Nat /\ loose[c] \in BOOLEAN
    BY DEF Types
  <2>2. c \in DOMAIN v => v[c] \in Nat
    BY DEF Values
  <2>3. Active(c, v) <=> c \in DOMAIN v /\ ~(loose[c] /\ v[c] # 0)
    BY DEF Active, Alike
  <2>4. N(c) = IF Active(c, v) THEN Gone(c, v) ELSE 0
    BY <2>1, <2>2, <2>3 DEF Completed, Gone
  <2> QED BY <2>1, <2>3, <2>4
<1> HIDE DEF N
<1>3. DOMAIN v \subseteq Used[arch]
  BY DEF Values
<1>4. ASSUME NEW c \in Used[arch]
      PROVE  IF Active(c, v)
             THEN ~loose'[c] /\ pending'[c] = SubSeq(pending[c], Gone(c, v) + 1, Len(pending[c]))
             ELSE loose'[c] = loose[c] /\ pending'[c] = pending[c]
  <2>1. /\ pending'[c] = SubSeq(pending[c], N(c) + 1, Len(pending[c]))
        /\ loose'[c] = (loose[c] /\ ~(c \in DOMAIN v /\ v[c] = 0))
    BY <1>1
  <2>2. SubSeq(pending[c], 1, Len(pending[c])) = pending[c]
    BY <1>2
  <2>3. CASE Active(c, v)
    BY <1>2, <2>1, <2>3
  <2>4. CASE ~Active(c, v)
    <3>1. pending'[c] = pending[c]
      BY <1>2, <2>1, <2>2, <2>4
    <3>2. ~(c \in DOMAIN v /\ v[c] = 0)
      BY <2>4 DEF Active
    <3>3. loose'[c] = loose[c]
      BY <1>2, <2>1, <3>2
    <3> QED BY <2>4, <3>1, <3>3
  <2> QED BY <2>3, <2>4
<1>5. ASSUME NEW p PROVE p \in waited' <=> p \in waited \/ Completes(p, v)
  <2>1. p \in waited' <=> p \in waited \/ \E c \in DOMAIN v : \E i \in 1 .. N(c) : p = <<Now, pending[c][i]>>
    BY <1>1
  <2>2. ASSUME NEW c \in DOMAIN v
        PROVE  (\E i \in 1 .. N(c) : p = <<Now, pending[c][i]>>) <=>
               (Active(c, v) /\ \E i \in 1 .. Gone(c, v) : p = <<Now, pending[c][i]>>)
    <3>1. N(c) = IF Active(c, v) THEN Gone(c, v) ELSE 0
      BY <1>2, <1>3
    <3>2. CASE Active(c, v)
      BY <3>1, <3>2
    <3>3. CASE ~Active(c, v)
      BY <3>1, <3>3
    <3> QED BY <3>2, <3>3
  <2> QED BY <2>1, <2>2 DEF Completes
<1> QED BY <1>4, <1>5

(* Taking all of a sequence, or only its first. *)
LEMMA InRest ==
  ASSUME NEW s \in Seq(Nat), NEW k \in Nat, k <= Len(s)
  PROVE  \A op : In(op, SubSeq(s, k + 1, Len(s))) => In(op, s)
<1> DEFINE r == SubSeq(s, k + 1, Len(s))  m == Len(s)
<1>0. Len(r) = Len(s) - k /\ \A i \in 1 .. Len(s) - k : r[i] = s[k + i]
  BY SuffixOf
<1> HIDE DEF r
<1>1. Len(r) = m - k /\ m \in Nat /\ k <= m /\ \A i \in 1 .. m - k : r[i] = s[k + i]
  BY <1>0
<1> HIDE DEF m
<1>2. ASSUME NEW i \in 1 .. m - k PROVE k + i \in 1 .. m
  BY <1>1
<1>3. \A op : In(op, r) => \E i \in 1 .. m : s[i] = op
  BY <1>1, <1>2 DEF In
<1> QED BY <1>3 DEF In, r, m

(* A wait whose values are read right keeps it. *)
LEMMA WaitExact ==
  ASSUME IInv, Exact, Wait, ~misread'
  PROVE  Exact'
<1>0. Types /\ Lists /\ Pairs
  BY DEF IInv
<1>1. PICK v \in Waits :
        /\ tokens' = Append(tokens, AWait) /\ Complete(v) /\ Read(v) = v
        /\ parallel' = Found(v).parallel /\ list' = Found(v).list /\ flats' = Found(v).flats
        /\ arrows' = arrows \cup {<<Now, op>> : op \in Found(v).found}
  <2>1. PICK v \in Waits :
          /\ tokens' = Append(tokens, AWait) /\ Complete(v) /\ misread' = (misread \/ Read(v) # v)
          /\ parallel' = Found(Read(v)).parallel /\ list' = Found(Read(v)).list /\ flats' = Found(Read(v)).flats
          /\ arrows' = arrows \cup {<<Now, op>> : op \in Found(Read(v)).found}
    BY DEF Wait
  <2>2. Read(v) = v
    BY <2>1
  <2> QED BY <2>1, <2>2
<1>2. arch' = arch /\ Len(tokens) < MaxTokens[arch]
  BY DEF Wait
<1>3. /\ Len(tokens') = Now /\ Now \in Nat /\ Len(tokens) \in Nat /\ Now = Len(tokens) + 1
      /\ \A i \in 1 .. Len(tokens) : i \in 1 .. Len(tokens') /\ tokens'[i] = tokens[i]
  <2>1. AWait \in Token /\ Len(tokens) \in Nat
    BY <1>0 DEF Token, Types
  <2> QED BY <1>0, <1>1, <1>2, <2>1, OneMore DEF Now
<1>4. v \in Values /\ DOMAIN v \subseteq Used[arch]
      /\ DOMAIN v \in (IF arch = "gfx9" THEN Sets9 ELSE IF arch = "gfx10" THEN Sets10 ELSE Sets12)
  <2>1. v \in Values
    BY <1>0, ReadIsTyped
  <2>2. PICK cs \in (IF arch = "gfx9" THEN Sets9 ELSE IF arch = "gfx10" THEN Sets10 ELSE Sets12) :
          cs \subseteq Used[arch] /\ v \in [cs -> 0 .. MaxValue]
    BY DEF Waits
  <2>3. DOMAIN v = cs
    BY <2>2
  <2> QED BY <2>1, <2>2, <2>3
<1> DEFINE s == Found(v)
<1>5. Exactly(DOMAIN v, s, v)
  <2>1. flats["stor"] = <<>> /\ flats["empty"] = <<>>
    BY <1>0 DEF Exact, Lists
  <2> QED BY <1>0, <1>4, <2>1, FoundExactly
<1>6. /\ parallel' = s.parallel /\ list' = s.list /\ flats' = s.flats
      /\ \A a : a \in arrows' <=> a \in arrows \/ \E op \in s.found : a = <<Now, op>>
  BY <1>1
<1> HIDE DEF s
<1>7. /\ flats'["stor"] = <<>>
      /\ flats'["load"] = IF Emptied(DOMAIN v, v) THEN <<>> ELSE flats["load"]
      /\ \A op : op \in s.found <=> Finds(op, DOMAIN v, v)
  BY <1>5, <1>6 DEF Exactly
<1>8. ASSUME NEW c \in Used[arch]
      PROVE  IF Active(c, v)
             THEN list'[c] = SubSeq(list[c], Done(c, v) + 1, Len(list[c])) /\ parallel'[c] = FALSE
             ELSE list'[c] = list[c] /\ parallel'[c] = parallel[c]
  BY <1>5, <1>6 DEF Exactly, Active
<1>9. Alike /\ ListedPends /\ PendingKnown /\ LoadsPend /\ arrows \subseteq waited /\ EachWaitHasArrow
  BY DEF Exact
<1>10. ASSUME NEW c \in Used[arch]
       PROVE  IF Active(c, v)
              THEN ~loose'[c] /\ pending'[c] = SubSeq(pending[c], Gone(c, v) + 1, Len(pending[c]))
              ELSE loose'[c] = loose[c] /\ pending'[c] = pending[c]
  BY <1>0, <1>1, <1>4, <1>9, CompleteActive
<1>11. \A p : p \in waited' <=> p \in waited \/ Completes(p, v)
  BY <1>0, <1>1, <1>4, <1>9, CompleteActive
<1>12. ASSUME NEW c \in Used[arch]
       PROVE  /\ list[c] \in Seq(Nat) /\ pending[c] \in Seq(Nat) /\ loose[c] \in BOOLEAN /\ parallel[c] = loose[c]
              /\ Len(list[c]) \in Nat /\ Len(pending[c]) \in Nat
  BY <1>0, <1>9 DEF Types, Alike
<1>13. ASSUME NEW c \in Used[arch], Active(c, v)
       PROVE  /\ c \in DOMAIN v /\ v[c] \in Nat
              /\ ~loose[c] => pending[c] = list[c] /\ Done(c, v) = Gone(c, v)
              /\ loose[c] => v[c] = 0 /\ Done(c, v) = Len(list[c]) /\ Gone(c, v) = Len(pending[c])
              /\ Done(c, v) \in Nat /\ Done(c, v) <= Len(list[c])
              /\ Gone(c, v) \in Nat /\ Gone(c, v) <= Len(pending[c])
  <2>1. c \in DOMAIN v /\ v[c] \in Nat /\ (loose[c] => v[c] = 0)
    BY <1>4, <1>12, <1>13 DEF Active, Values
  <2>2. ~loose[c] => pending[c] = list[c]
    BY <1>9 DEF Alike
  <2> QED BY <1>12, <2>1, <2>2 DEF Done, Gone
<1>14. Alike'
  <2> SUFFICES ASSUME NEW c \in Used[arch] PROVE parallel'[c] = loose'[c] /\ (~loose'[c] => pending'[c] = list'[c])
    BY <1>2 DEF Alike
  <2>1. CASE ~Active(c, v)
    BY <1>8, <1>9, <1>10, <2>1 DEF Alike
  <2>2. CASE Active(c, v)
    <3>1. parallel'[c] = FALSE /\ ~loose'[c] /\ loose'[c] \in BOOLEAN
      <4>1. loose'[c] \in BOOLEAN
        BY <1>0, <1>1 DEF Complete, Types
      <4> QED BY <1>8, <1>10, <2>2, <4>1
    <3>2. CASE ~loose[c]
      BY <1>8, <1>10, <1>13, <2>2, <3>1, <3>2
    <3>3. CASE loose[c]
      <4>1. SubSeq(list[c], Len(list[c]) + 1, Len(list[c])) = <<>> /\ SubSeq(pending[c], Len(pending[c]) + 1, Len(pending[c])) = <<>>
        BY <1>12
      <4> QED BY <1>8, <1>10, <1>13, <2>2, <3>1, <3>3, <4>1
    <3> QED BY <3>2, <3>3
  <2> QED BY <2>1, <2>2
<1>15. ListedPends'
  <2> SUFFICES ASSUME NEW c \in Used[arch], NEW op, In(op, list'[c]) PROVE In(op, pending'[c])
    BY <1>2 DEF ListedPends, In
  <2>1. CASE Active(c, v)
    BY <1>2, <1>10, <1>14, <2>1 DEF Alike
  <2>2. CASE ~Active(c, v)
    BY <1>8, <1>9, <1>10, <2>2 DEF ListedPends
  <2> QED BY <2>1, <2>2
<1>16. ASSUME NEW op, HasArrow(op) \/ op \in s.found PROVE HasArrow(op)'
  <2>1. CASE HasArrow(op)
    BY <1>6, <2>1 DEF HasArrow
  <2>2. CASE op \in s.found
    <3>1. <<Now, op>> \in arrows'
      BY <1>6, <2>2
    <3> QED BY <3>1 DEF HasArrow
  <2> QED BY <1>16, <2>1, <2>2
<1>17. ASSUME NEW op, In(op, flats["load"]) PROVE In(op, flats'["load"]) \/ op \in s.found
  <2>1. Emptied(DOMAIN v, v) => Finds(op, DOMAIN v, v)
    BY <1>17 DEF Emptied, Finds
  <2> QED BY <1>7, <1>17, <2>1
<1>18. PendingKnown'
  <2> SUFFICES ASSUME NEW c \in Used[arch], NEW op, In(op, pending'[c])
               PROVE  /\ op \in 1 .. Len(tokens') /\ c \in tokens'[op].on
                      /\ In(op, list'[c]) \/ In(op, flats'["load"]) \/ HasArrow(op)'
    BY <1>2 DEF PendingKnown, In
  <2>1. In(op, pending[c])
    <3>1. CASE Active(c, v)
      BY <1>10, <1>12, <1>13, <3>1, InRest
    <3>2. CASE ~Active(c, v)
      BY <1>10, <3>2
    <3> QED BY <3>1, <3>2
  <2>2. /\ op \in 1 .. Len(tokens) /\ c \in tokens[op].on
        /\ In(op, list[c]) \/ In(op, flats["load"]) \/ HasArrow(op)
    BY <1>9, <2>1 DEF PendingKnown
  <2>3. op \in 1 .. Len(tokens') /\ c \in tokens'[op].on
    BY <1>3, <2>2
  <2>4. CASE Active(c, v)
    <3>1. pending'[c] = list'[c]
      BY <1>2, <1>10, <1>14, <2>4 DEF Alike
    <3> QED BY <2>3, <3>1
  <2>5. CASE ~Active(c, v)
    <3>1. list'[c] = list[c]
      BY <1>8, <2>5
    <3> QED BY <1>16, <1>17, <2>2, <2>3, <3>1
  <2> QED BY <2>4, <2>5
<1>19. ASSUME NEW op, In(op, flats["load"])
       PROVE  /\ op \in 1 .. Len(tokens) /\ tokens[op].on \subseteq Used[arch]
              /\ \A c \in tokens[op].on : JoinsLoads(c)
              /\ \A c \in DOMAIN v : JoinsLoads(c) => c \in tokens[op].on
  <2>1. op \in Issued /\ tokens[op].flat = "load"
    BY <1>0, <1>19 DEF In, Lists, Flats
  <2>2. op \in 1 .. Len(tokens) /\ tokens[op] \in Kinds
    BY <1>0, <2>1, IssuedIsKind
  <2>3. arch \in Archs
    BY <1>0 DEF Types
  <2>4. tokens[op].on = (IF arch = "gfx12" THEN {"ds", "load"} ELSE {"lgkm", "vm"}) /\ tokens[op].on \subseteq Used[arch]
    BY <2>1, <2>2, <2>3, KindFacts
  <2>5. \A c \in tokens[op].on : JoinsLoads(c)
    BY <2>4 DEF JoinsLoads, Joins
  <2>6. ASSUME NEW c \in DOMAIN v, JoinsLoads(c) PROVE c \in tokens[op].on
    <3>1. c \in {"lgkm", "vm", "load", "ds"}
      BY <2>6 DEF JoinsLoads, Joins
    <3>2. CASE arch = "gfx12"
      BY <1>4, <2>4, <3>1, <3>2 DEF Sets12
    <3>3. CASE arch # "gfx12"
      <4>1. arch \in {"gfx9", "gfx10"}
        BY <2>3, <3>3, BoundsAssumption
      <4>2. DOMAIN v \in Sets9 \cup Sets10
        BY <1>4, <4>1
      <4>3. DOMAIN v \subseteq {"lgkm", "vm", "vs"}
        BY <4>2 DEF Sets9, Sets10
      <4> QED BY <2>4, <3>1, <3>3, <4>3
    <3> QED BY <3>2, <3>3
  <2> QED BY <2>2, <2>4, <2>5, <2>6
<1>20. LoadsPend'
  <2> SUFFICES ASSUME NEW op, In(op, flats'["load"]), NEW c \in tokens'[op].on PROVE loose'[c] /\ In(op, pending'[c])
    BY DEF LoadsPend, In
  <2>1. flats'["load"] = flats["load"] /\ ~Emptied(DOMAIN v, v)
    <3>1. flats'["load"] # <<>>
      BY DEF In
    <3> QED BY <1>7, <3>1
  <2>2. In(op, flats["load"])
    BY <2>1
  <2>3. c \in tokens[op].on /\ c \in Used[arch] /\ JoinsLoads(c)
    BY <1>3, <1>19, <2>2
  <2>4. ~Active(c, v)
    BY <2>1, <2>3 DEF Emptied, Active
  <2>5. loose[c] /\ In(op, pending[c])
    BY <1>9, <2>2, <2>3 DEF LoadsPend
  <2> QED BY <1>10, <2>3, <2>4, <2>5
<1>21. arrows' \subseteq waited'
  <2> SUFFICES ASSUME NEW op \in s.found PROVE <<Now, op>> \in waited'
    BY <1>6, <1>9, <1>11
  <2>1. PICK c \in DOMAIN v : Active(c, v) /\ (Taken(op, c, v) \/ (JoinsLoads(c) /\ In(op, flats["load"])))
    BY <1>7 DEF Finds
  <2>2. c \in Used[arch]
    BY <1>4
  <2>3. \E i \in 1 .. Gone(c, v) : pending[c][i] = op
    <3>1. CASE Taken(op, c, v) /\ ~loose[c]
      BY <1>13, <2>1, <2>2, <3>1 DEF Taken
    <3>2. CASE Taken(op, c, v) /\ loose[c]
      <4>1. In(op, list[c])
        BY <1>13, <2>1, <2>2, <3>2 DEF Taken, In
      <4>2. In(op, pending[c])
        BY <1>9, <2>2, <4>1 DEF ListedPends
      <4> QED BY <1>13, <2>1, <2>2, <3>2, <4>2 DEF In
    <3>3. CASE JoinsLoads(c) /\ In(op, flats["load"])
      <4>1. loose[c] /\ In(op, pending[c])
        BY <1>9, <1>19, <3>3 DEF LoadsPend
      <4> QED BY <1>13, <2>1, <2>2, <4>1 DEF In
    <3> QED BY <2>1, <3>1, <3>2, <3>3
  <2>4. Completes(<<Now, op>>, v)
    BY <2>1, <2>3 DEF Completes
  <2> QED BY <1>11, <2>4
<1>22. EachWaitHasArrow'
  <2> SUFFICES ASSUME NEW w \in waited' PROVE \E a \in arrows' : a[2] = w[2] /\ a[1] <= w[1]
    BY DEF EachWaitHasArrow
  <2>1. CASE w \in waited
    BY <1>6, <1>9, <2>1 DEF EachWaitHasArrow
  <2>2. CASE Completes(w, v)
    <3>1. PICK c \in DOMAIN v : Active(c, v) /\ \E i \in 1 .. Gone(c, v) : w = <<Now, pending[c][i]>>
      BY <2>2 DEF Completes
    <3>2. PICK i \in 1 .. Gone(c, v) : w = <<Now, pending[c][i]>>
      BY <3>1
    <3> DEFINE op == pending[c][i]
    <3>3. c \in Used[arch]
      BY <1>4
    <3>4. In(op, pending[c])
      <4>1. i \in 1 .. Len(pending[c])
        BY <1>12, <1>13, <3>1, <3>3
      <4> QED BY <4>1 DEF In
    <3>5. w[1] = Now /\ w[2] = op
      BY <3>2
    <3>6. ~loose[c] => Taken(op, c, v)
      BY <1>13, <3>1, <3>3 DEF Taken
    <3> HIDE DEF op
    <3>7. CASE op \in s.found
      <4>1. <<Now, op>> \in arrows'
        BY <1>6, <3>7
      <4>2. Now <= Now
        BY <1>3
      <4> QED BY <3>5, <4>1, <4>2
    <3>8. CASE HasArrow(op)
      <4>1. PICK a \in arrows : a[2] = op
        BY <3>8 DEF HasArrow
      <4>2. a[1] \in 1 .. Len(tokens)
        BY <1>0 DEF Pairs
      <4>3. a[1] <= Now
        BY <1>3, <4>2
      <4> QED BY <1>6, <3>5, <4>1, <4>3
    <3>9. CASE loose[c] /\ In(op, list[c])
      <4>1. Taken(op, c, v)
        BY <1>13, <3>1, <3>3, <3>9 DEF Taken, In
      <4>2. op \in s.found
        BY <1>7, <3>1, <4>1 DEF Finds
      <4> QED BY <3>7, <4>2
    <3>10. CASE ~loose[c]
      <4>1. op \in s.found
        BY <1>7, <3>1, <3>6, <3>10 DEF Finds
      <4> QED BY <3>7, <4>1
    <3>11. CASE In(op, flats["load"])
      <4>1. c \in tokens[op].on
        BY <1>9, <3>3, <3>4 DEF PendingKnown
      <4>2. JoinsLoads(c)
        BY <1>19, <3>11, <4>1
      <4>3. op \in s.found
        BY <1>7, <3>1, <3>11, <4>2 DEF Finds
      <4> QED BY <3>7, <4>3
    <3>12. In(op, list[c]) \/ In(op, flats["load"]) \/ HasArrow(op)
      BY <1>9, <3>3, <3>4 DEF PendingKnown
    <3> QED BY <3>8, <3>9, <3>10, <3>11, <3>12
  <2> QED BY <1>11, <2>1, <2>2
<1> QED BY <1>7, <1>14, <1>15, <1>18, <1>20, <1>21, <1>22 DEF Exact

(* Adding an operation to a list. *)
LEMMA InMore ==
  ASSUME NEW s \in Seq(Nat), NEW new \in Nat, NEW n \in {1, 2}
  PROVE  \A op : In(op, s \o Repeat(new, n)) <=> In(op, s) \/ op = new
<1> DEFINE b == Repeat(new, n)
<1>1. b \in Seq(Nat) /\ Len(b) = n /\ \A i \in 1 .. n : b[i] = new
  BY DEF Repeat
<1> HIDE DEF b
<1>2. \A op : In(op, s \o b) <=> In(op, s) \/ In(op, b)
  BY <1>1, InBoth
<1>3. ASSUME NEW op PROVE In(op, b) <=> op = new
  <2>1. 1 \in 1 .. n
    OBVIOUS
  <2> QED BY <1>1, <2>1 DEF In
<1> QED BY <1>2, <1>3 DEF b

(* What is in a list with one operation more. *)
LEMMA InOneMore ==
  ASSUME NEW s \in Seq(Nat), NEW new \in Nat
  PROVE  \A op : In(op, Append(s, new)) <=> In(op, s) \/ op = new
<1> DEFINE m == Len(s)  r == Append(s, new)
<1>1. m \in Nat /\ Len(r) = m + 1 /\ r[m + 1] = new /\ \A i \in 1 .. m : r[i] = s[i]
  OBVIOUS
<1> HIDE DEF m, r
<1>2. m + 1 \in 1 .. m + 1 /\ \A i \in 1 .. m + 1 : i \in 1 .. m \/ i = m + 1
  BY <1>1
<1>3. \A i \in 1 .. m : i \in 1 .. m + 1
  BY <1>1
<1>4. ASSUME NEW op PROVE (\E i \in 1 .. m + 1 : r[i] = op) <=> (\E i \in 1 .. m : s[i] = op) \/ op = new
  BY <1>1, <1>2, <1>3
<1> QED BY <1>1, <1>4 DEF In, m, r

(* An operation keeps it, unless it is a flat store. *)
LEMMA IssueExact ==
  ASSUME IInv, Exact, Issue, Tracked'
  PROVE  Exact'
<1>0. Types /\ Lists /\ Pairs
  BY DEF IInv
<1>1. PICK k \in Kinds : tokens' = Append(tokens, k) /\ Record(k) /\ Count(k)
  BY DEF Issue
<1>2. /\ k.on \subseteq Used[arch] /\ k.times \in {1, 2} /\ k.ordered \in BOOLEAN /\ k.flat \in Flats
      /\ k.flat # "empty" => ~k.ordered
      /\ arch = "gfx9" => k.flat # "stor"
      /\ k.on # {} /\ k \in Token
  <2>1. arch \in Archs
    BY <1>0 DEF Types
  <2> QED BY <2>1, KindFacts DEF Token
<1>3. arch' = arch /\ arrows' = arrows /\ waited' = waited /\ Len(tokens) < MaxTokens[arch]
  BY DEF Issue
<1>4. /\ Len(tokens') = Now /\ Now \in Nat /\ tokens'[Now] = k /\ Now \in 1 .. Len(tokens')
      /\ \A i \in 1 .. Len(tokens) : i \in 1 .. Len(tokens') /\ tokens'[i] = tokens[i]
  <2>1. /\ Len(tokens') = Now /\ Now \in Nat /\ tokens'[Now] = k
        /\ \A i \in 1 .. Len(tokens) : i \in 1 .. Len(tokens') /\ tokens'[i] = tokens[i]
    BY <1>0, <1>1, <1>2, <1>3, OneMore
  <2>2. Now > 0
    BY <1>0 DEF Now, Types
  <2> QED BY <2>1, <2>2
<1>5. k.flat # "stor"
  <2>1. Now \in Issued'
    BY <1>2, <1>4 DEF Issued
  <2>2. arch # "gfx9" => ~FlatsIssued("stor")'
    BY <1>3 DEF Tracked
  <2> QED BY <1>2, <1>4, <2>1, <2>2 DEF FlatsIssued
<1>6. ASSUME NEW c \in Used[arch]
      PROVE  /\ list'[c] = IF k.flat = "empty" /\ c \in k.on THEN list[c] \o Repeat(Now, k.times) ELSE list[c]
             /\ pending'[c] = IF c \in k.on THEN pending[c] \o Repeat(Now, k.times) ELSE pending[c]
             /\ parallel'[c] = (parallel[c] \/ (c \in k.on /\ ~k.ordered))
             /\ loose'[c] = (loose[c] \/ (c \in k.on /\ ~k.ordered))
  BY <1>0, <1>1 DEF Types, Record, Count
<1>7. ASSUME NEW c \in Used[arch], NEW op
      PROVE  /\ In(op, list'[c]) <=> In(op, list[c]) \/ (k.flat = "empty" /\ c \in k.on /\ op = Now)
             /\ In(op, pending'[c]) <=> In(op, pending[c]) \/ (c \in k.on /\ op = Now)
  <2>1. list[c] \in Seq(Nat) /\ pending[c] \in Seq(Nat)
    BY <1>0 DEF Types
  <2>2. In(op, list[c] \o Repeat(Now, k.times)) <=> In(op, list[c]) \/ op = Now
    BY <1>2, <1>4, <2>1, InMore
  <2>3. In(op, pending[c] \o Repeat(Now, k.times)) <=> In(op, pending[c]) \/ op = Now
    BY <1>2, <1>4, <2>1, InMore
  <2>4. In(op, list'[c]) <=> In(op, list[c]) \/ (k.flat = "empty" /\ c \in k.on /\ op = Now)
    BY <1>6, <2>2
  <2>5. In(op, pending'[c]) <=> In(op, pending[c]) \/ (c \in k.on /\ op = Now)
    BY <1>6, <2>3
  <2> QED BY <2>4, <2>5
<1>8. ASSUME NEW op PROVE In(op, flats'["load"]) <=> In(op, flats["load"]) \/ (k.flat = "load" /\ op = Now)
  <2>1. flats["load"] \in Seq(Nat)
    BY <1>0 DEF Types, Flats
  <2>2. In(op, Append(flats["load"], Now)) <=> In(op, flats["load"]) \/ op = Now
    BY <1>4, <2>1, InOneMore
  <2>3. flats'["load"] = IF k.flat = "load" THEN Append(flats["load"], Now) ELSE flats["load"]
    BY <1>0, <1>1 DEF Types, Record, Flats
  <2> QED BY <2>2, <2>3
<1>9. Alike /\ ListedPends /\ PendingKnown /\ LoadsPend /\ arrows \subseteq waited /\ EachWaitHasArrow /\ flats["stor"] = <<>>
  BY DEF Exact
<1>10. flats'["stor"] = <<>>
  BY <1>0, <1>1, <1>5, <1>9 DEF Types, Record, Flats
<1>11. Alike'
  <2> SUFFICES ASSUME NEW c \in Used[arch] PROVE parallel'[c] = loose'[c] /\ (~loose'[c] => pending'[c] = list'[c])
    BY <1>3 DEF Alike
  <2>1. parallel'[c] = loose'[c]
    BY <1>6, <1>9 DEF Alike
  <2>2. ASSUME ~loose'[c] PROVE pending'[c] = list'[c]
    <3>1. ~loose[c] /\ ~(c \in k.on /\ ~k.ordered)
      BY <1>6, <2>2
    <3>2. pending[c] = list[c]
      BY <1>9, <3>1 DEF Alike
    <3>3. c \in k.on => k.flat = "empty"
      BY <1>2, <3>1
    <3> QED BY <1>6, <3>2, <3>3
  <2> QED BY <2>1, <2>2
<1>12. ListedPends'
  BY <1>3, <1>7, <1>9 DEF ListedPends
<1>13. PendingKnown'
  <2> SUFFICES ASSUME NEW c \in Used[arch], NEW op, In(op, pending'[c])
               PROVE  /\ op \in 1 .. Len(tokens') /\ c \in tokens'[op].on
                      /\ In(op, list'[c]) \/ In(op, flats'["load"]) \/ HasArrow(op)'
    BY <1>3 DEF PendingKnown, In
  <2>1. CASE In(op, pending[c])
    <3>1. /\ op \in 1 .. Len(tokens) /\ c \in tokens[op].on
          /\ In(op, list[c]) \/ In(op, flats["load"]) \/ HasArrow(op)
      BY <1>9, <2>1 DEF PendingKnown
    <3>2. HasArrow(op)' <=> HasArrow(op)
      BY <1>3 DEF HasArrow
    <3> QED BY <1>4, <1>7, <1>8, <3>1, <3>2
  <2>2. CASE c \in k.on /\ op = Now
    <3>1. op \in 1 .. Len(tokens') /\ c \in tokens'[op].on
      BY <1>4, <2>2
    <3>2. k.flat = "empty" \/ k.flat = "load"
      BY <1>2, <1>5 DEF Flats
    <3> QED BY <1>7, <1>8, <2>2, <3>1, <3>2
  <2> QED BY <1>7, <2>1, <2>2
<1>14. LoadsPend'
  <2> SUFFICES ASSUME NEW op, In(op, flats'["load"]), NEW c \in tokens'[op].on PROVE loose'[c] /\ In(op, pending'[c])
    BY DEF LoadsPend, In
  <2>1. CASE In(op, flats["load"])
    <3>1. op \in Issued
      BY <1>0, <2>1 DEF In, Lists, Flats
    <3>2. op \in 1 .. Len(tokens) /\ tokens[op] \in Kinds
      BY <1>0, <3>1, IssuedIsKind
    <3>3. arch \in Archs
      BY <1>0 DEF Types
    <3>4. c \in tokens[op].on /\ c \in Used[arch]
      BY <1>4, <3>2, <3>3, KindFacts
    <3>5. loose[c] /\ In(op, pending[c])
      BY <1>9, <2>1, <3>4 DEF LoadsPend
    <3>6. loose'[c]
      BY <1>6, <3>4, <3>5
    <3> QED BY <1>7, <3>4, <3>5, <3>6
  <2>2. CASE k.flat = "load" /\ op = Now
    <3>1. c \in k.on /\ c \in Used[arch] /\ ~k.ordered
      BY <1>2, <1>4, <2>2
    <3>2. loose'[c]
      BY <1>6, <3>1
    <3> QED BY <1>7, <2>2, <3>1, <3>2
  <2> QED BY <1>8, <2>1, <2>2
<1>15. arrows' \subseteq waited' /\ EachWaitHasArrow'
  BY <1>3, <1>9 DEF EachWaitHasArrow
<1> QED BY <1>10, <1>11, <1>12, <1>13, <1>14, <1>15 DEF Exact

(* What was lost track of stays lost. *)
LEMMA TrackedBefore ==
  ASSUME Types, Next, Tracked'
  PROVE  Tracked /\ ~WaitIdle
<1>1. PICK t \in Token : tokens' = Append(tokens, t) /\ (WaitIdle => t = IdleWait)
  <2>1. CASE Issue
    <3>1. PICK k \in Kinds : tokens' = Append(tokens, k)
      BY <2>1 DEF Issue
    <3>2. ~WaitIdle
      <4>1. arch \in Archs
        BY DEF Types
      <4>2. k.on # {} /\ IdleWait.on = {}
        BY <4>1, KindFacts DEF IdleWait
      <4>3. tokens'[Len(tokens) + 1] = k
        BY <3>1 DEF Types, Token
      <4>4. WaitIdle => tokens'[Len(tokens) + 1] = IdleWait
        BY DEF WaitIdle, Types, Token
      <4> QED BY <4>2, <4>3, <4>4
    <3> QED BY <3>1, <3>2 DEF Token
  <2>2. CASE Wait
    <3>1. tokens' = Append(tokens, AWait)
      BY <2>2 DEF Wait
    <3>2. ~WaitIdle
      <4>1. AWait # IdleWait
        BY DEF AWait, IdleWait
      <4>2. tokens'[Len(tokens) + 1] = AWait
        BY <3>1 DEF Types, Token
      <4>3. WaitIdle => tokens'[Len(tokens) + 1] = IdleWait
        BY DEF WaitIdle, Types, Token
      <4> QED BY <4>1, <4>2, <4>3
    <3> QED BY <3>1, <3>2 DEF Token
  <2>3. CASE WaitIdle
    BY <2>3 DEF WaitIdle, Token
  <2> QED BY <2>1, <2>2, <2>3 DEF Next
<1>2. arch' = arch /\ Len(tokens) < MaxTokens[arch]
  BY DEF Next, Issue, Wait, WaitIdle
<1>3. /\ Len(tokens') = Now /\ tokens'[Now] = t /\ Issued \subseteq Issued'
      /\ \A i \in 1 .. Len(tokens) : i \in 1 .. Len(tokens') /\ tokens'[i] = tokens[i]
  BY <1>1, <1>2, OneMore
<1>4. Len(tokens) \in Nat /\ Now \in 1 .. Len(tokens')
  BY <1>3 DEF Types, Now
<1>5. ~WaitIdle
  BY <1>1, <1>3, <1>4 DEF Tracked
<1>6. FlatsIssued("stor") => FlatsIssued("stor")'
  BY <1>3 DEF FlatsIssued, Issued
<1>7. Tracked
  BY <1>2, <1>3, <1>6 DEF Tracked
<1> QED BY <1>5, <1>7

(* The inductive invariant, with what the lists tell. *)
LEMMA EInvariant == Spec => []EInv
<1>1. Init => EInv
  <2> SUFFICES ASSUME Init PROVE EInv
    OBVIOUS
  <2>1. \A op : ~In(op, <<>>)
    BY DEF In
  <2>2. Alike /\ ListedPends /\ PendingKnown
    BY <2>1 DEF Init, Alike, ListedPends, PendingKnown
  <2>3. LoadsPend /\ EachWaitHasArrow /\ arrows \subseteq waited /\ flats["stor"] = <<>>
    BY <2>1 DEF Init, LoadsPend, EachWaitHasArrow, Flats
  <2> QED BY <2>2, <2>3, InitIInv DEF EInv, Exact
<1>2. EInv /\ [Next]_vars => EInv'
  <2> SUFFICES ASSUME EInv, [Next]_vars PROVE EInv'
    OBVIOUS
  <2>1. IInv' /\ IInv /\ Types
    BY StepIInv DEF EInv, IInv
  <2>2. ASSUME Next, Tracked', ~misread' PROVE Exact'
    <3>1. Tracked /\ ~WaitIdle
      BY <2>1, <2>2, TrackedBefore
    <3>2. ~misread
      BY <2>2, <3>1 DEF Next, Issue, Wait
    <3>3. Exact
      BY <3>1, <3>2 DEF EInv
    <3>4. CASE Issue
      BY <2>1, <2>2, <3>3, <3>4, IssueExact
    <3>5. CASE Wait
      BY <2>1, <2>2, <3>3, <3>5, WaitExact
    <3> QED BY <2>2, <3>1, <3>4, <3>5 DEF Next
  <2>3. CASE Next
    BY <2>1, <2>2, <2>3 DEF EInv
  <2>4. CASE UNCHANGED vars
    <3>1. UNCHANGED <<arch, tokens, parallel, list, flats, arrows, misread, pending, loose, waited>>
      BY <2>4 DEF vars, analysis, hardware
    <3>2. Tracked' <=> Tracked
      BY <3>1 DEF Tracked, FlatsIssued, Issued
    <3>3. Exact => Exact'
      BY <3>1 DEF Exact, Alike, ListedPends, PendingKnown, LoadsPend, EachWaitHasArrow, HasArrow
    <3> QED BY <2>1, <3>1, <3>2, <3>3 DEF EInv
  <2> QED BY <2>3, <2>4
<1> QED BY <1>1, <1>2, PTL DEF Spec

(* "Arrows link memory operations to the s_waitcnt waiting on them", as     *)
(* long as no flat store and no s_wait_idle comes: every arrow leads to a   *)
(* wait that waited for the operation, and the first wait that did has its  *)
(* arrow (buildWaitcntFromTokens, with any of the walkers), for any         *)
(* counters in use and waves and values of any size.                        *)
THEOREM ArrowsAreExact == Spec => []ArrowsOfTracked
<1>1. EInv => ArrowsOfTracked
  BY DEF EInv, Exact, EachWaitHasArrow, ArrowsOfTracked, ArrowsAreTheWaits
<1> QED BY <1>1, EInvariant, PTL
===============================================================================
