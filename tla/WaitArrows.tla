------------------------------ MODULE WaitArrows ------------------------------
(***************************************************************************)
(* src/data/waitcnt: which memory operations each wait instruction of a    *)
(* wave waits for; the viewer draws an arrow for each pair.  The analysis  *)
(* walks the wave's tokens once and keeps, for each hardware counter, the  *)
(* operations it believes are under way.                                   *)
(*                                                                         *)
(* A token is a memory operation of some kind or a wait; classify's view   *)
(* of its text is the kind and the counters, extract_waitcnt's the value   *)
(* read.  Other tokens change nothing.  The analysis names an operation by *)
(* its line of code, here it is the token itself.  The hardware's own      *)
(* counters stand beside the analysis, which does not see them.            *)
(***************************************************************************)
EXTENDS Naturals, Sequences, FiniteSets

CONSTANTS
  Archs,      \* the architectures: "gfx9", "gfx10" (and gfx11), "gfx12"
  Used,       \* the counters of each that the program's operations count on
  MaxTokens,  \* bound on the tokens of a wave on each
  MaxValue    \* bound on the value a wait names

ASSUME BoundsAssumption ==
  /\ Archs \subseteq {"gfx9", "gfx10", "gfx12"}
  /\ Used \in [Archs -> SUBSET {"lgkm", "vm", "vs", "load", "store", "sample", "ds", "km", "exp",
                               "bvh", "tensor", "async"}]
  /\ MaxTokens \in [Archs -> Nat] /\ MaxValue \in Nat

VARIABLES
  arch,
  tokens,     \* what the wave executed so far: the kinds of its operations, and waits
  parallel,   \* of each counter, whether its order is MEMORY_PARALLEL
  list,       \* of each counter, its operations
  flats,      \* flat_load (vflat_list on gfx9), flat_stor, and the static empty_list
  arrows,     \* the (wait, operation) pairs found
  misread,    \* whether some wait was read as waiting for another value
  pending,    \* hardware: the increments of each counter, oldest first
  loose,      \* hardware: whether an increment of the counter may return out of order
  waited      \* hardware: the (wait, operation) pairs where the wait completed an increment

analysis == <<parallel, list, flats, arrows, misread>>
hardware == <<pending, loose, waited>>
vars == <<arch, tokens, analysis, hardware>>

Flats == {"load", "stor", "empty"}

------------------------------------------------------------------------------
(* classify: the kinds of memory operations *)

InOrder(c) == [on |-> {c}, times |-> 1, ordered |-> TRUE, flat |-> "empty"]
Twice(c) == [on |-> {c}, times |-> 2, ordered |-> TRUE, flat |-> "empty"]
OutOfOrder(c) == [on |-> {c}, times |-> 1, ordered |-> FALSE, flat |-> "empty"]
Flat(cs, f) == [on |-> cs, times |-> 1, ordered |-> FALSE, flat |-> f]

(* Waits count on nothing. *)
AWait == [on |-> {}, times |-> 0, ordered |-> TRUE, flat |-> "empty"]
IdleWait == [on |-> {}, times |-> 0, ordered |-> FALSE, flat |-> "empty"]

Kinds9 ==
  {InOrder("lgkm"), OutOfOrder("lgkm"), InOrder("vm"), Flat({"lgkm", "vm"}, "load")}

Kinds10 ==
  {InOrder("lgkm"), Twice("lgkm"), OutOfOrder("lgkm"), InOrder("vm"), InOrder("vs"),
   Flat({"lgkm", "vm"}, "load"), Flat({"lgkm", "vs"}, "stor")}

Kinds12 ==
  {InOrder("ds"), InOrder("exp"), InOrder("km"), Twice("km"), OutOfOrder("km"),
   InOrder("load"), InOrder("store"), InOrder("bvh"), InOrder("tensor"), InOrder("async"),
   Flat({"ds", "load"}, "load"), Flat({"ds", "store"}, "stor")}

Kinds ==
  {k \in IF arch = "gfx9" THEN Kinds9 ELSE IF arch = "gfx10" THEN Kinds10 ELSE Kinds12 :
     k.on \subseteq Used[arch]}

(* The counters one instruction may wait on.  No operation is classified as *)
(* one of samplecnt.                                                        *)
Sets9 == {{"lgkm"}, {"vm"}, {"lgkm", "vm"}}
Sets10 == Sets9 \cup {{"vs"}}
Sets12 == {{"ds"}, {"exp"}, {"km"}, {"load"}, {"store"}, {"sample"}, {"bvh"}, {"tensor"},
           {"async"}, {"ds", "load"}, {"ds", "store"}}

Waits ==
  UNION {[cs -> 0 .. MaxValue] :
    cs \in {s \in IF arch = "gfx9" THEN Sets9 ELSE IF arch = "gfx10" THEN Sets10 ELSE Sets12 :
              s \subseteq Used[arch]}}

Init ==
  /\ arch \in Archs
  /\ tokens = <<>>
  /\ parallel = [c \in Used[arch] |-> FALSE]
  /\ list = [c \in Used[arch] |-> <<>>]
  /\ flats = [f \in Flats |-> <<>>]
  /\ arrows = {} /\ misread = FALSE
  /\ pending = [c \in Used[arch] |-> <<>>]
  /\ loose = [c \in Used[arch] |-> FALSE]
  /\ waited = {}

Now == Len(tokens) + 1
Repeat(op, n) == [i \in 1 .. n |-> op]

------------------------------------------------------------------------------
(* Bugs this code could have, one per property below: each stands in for the *)
(* operator named after the dash and must break its property.                *)

(* Record - a scalar load leaves the counter's order as it is. *)
RecordInOrder(k) ==
  /\ parallel' = [c \in DOMAIN parallel |-> parallel[c] \/ (c \in k.on /\ k.flat # "empty")]
  /\ list' = [c \in DOMAIN list |->
                IF k.flat = "empty" /\ c \in k.on THEN list[c] \o Repeat(Now, k.times) ELSE list[c]]
  /\ flats' = IF k.flat = "empty" THEN flats ELSE [flats EXCEPT ![k.flat] = Append(@, Now)]

(* HandleMemOp - a wait for zero does not put the order back. *)
OrderKept(s, c, f, n) ==
  LET done == IF Len(s.list[c]) > n THEN Len(s.list[c]) - n ELSE 0
      joined == s.flats[f] \o SubSeq(s.list[c], 1, done)
  IN IF n # 0 /\ s.parallel[c] THEN [s EXCEPT !.joined = <<>>]
     ELSE [s EXCEPT !.list[c] = SubSeq(@, done + 1, Len(@)), !.flats[f] = <<>>,
                    !.joined = joined, !.found = @ \cup {joined[i] : i \in 1 .. Len(joined)}]

(* HandleMemOp - join_and_reset copies the flat list and does not clear it. *)
FlatsKept(s, c, f, n) ==
  LET done == IF Len(s.list[c]) > n THEN Len(s.list[c]) - n ELSE 0
      joined == s.flats[f] \o SubSeq(s.list[c], 1, done)
      par == s.parallel[c] /\ n # 0
  IN IF par THEN [s EXCEPT !.joined = <<>>]
     ELSE [s EXCEPT !.list[c] = SubSeq(@, done + 1, Len(@)), !.parallel[c] = FALSE,
                    !.joined = joined, !.found = @ \cup {joined[i] : i \in 1 .. Len(joined)}]

(* HandleMemOp - joins into the flat list itself instead of a copy. *)
JoinedInPlace(s, c, f, n) ==
  LET done == IF Len(s.list[c]) > n THEN Len(s.list[c]) - n ELSE 0
      joined == s.flats[f] \o SubSeq(s.list[c], 1, done)
      par == s.parallel[c] /\ n # 0
  IN IF par THEN [s EXCEPT !.joined = <<>>]
     ELSE [s EXCEPT !.list[c] = SubSeq(@, done + 1, Len(@)), !.parallel[c] = FALSE,
                    !.flats[f] = joined,
                    !.joined = joined, !.found = @ \cup {joined[i] : i \in 1 .. Len(joined)}]

------------------------------------------------------------------------------
(* A memory operation *)

(* The branches of the walkers' loops: flat operations go to a list of  *)
(* their own, all others to the list of their counter; scalar loads and *)
(* flat operations return in any order.                                 *)
Record(k) ==
  /\ parallel' = [c \in DOMAIN parallel |-> parallel[c] \/ (c \in k.on /\ ~k.ordered)]
  /\ list' = [c \in DOMAIN list |->
                IF k.flat = "empty" /\ c \in k.on THEN list[c] \o Repeat(Now, k.times) ELSE list[c]]
  /\ flats' = IF k.flat = "empty" THEN flats ELSE [flats EXCEPT ![k.flat] = Append(@, Now)]

(* The hardware counts it on each of its counters.  The hardware is taken  *)
(* to count what classify recognises (gfx9.cpp:50-80, gfx10.cpp:66-109,    *)
(* gfx12.cpp:78-151): an instruction that classify drops, or puts on       *)
(* another counter than the hardware does, is not a token here.            *)
Count(k) ==
  /\ pending' = [c \in DOMAIN pending |->
                   IF c \in k.on THEN pending[c] \o Repeat(Now, k.times) ELSE pending[c]]
  /\ loose' = [c \in DOMAIN loose |-> loose[c] \/ (c \in k.on /\ ~k.ordered)]

Issue ==
  /\ Len(tokens) < MaxTokens[arch]
  /\ \E k \in Kinds : tokens' = Append(tokens, k) /\ Record(k) /\ Count(k)
  /\ UNCHANGED <<arch, arrows, misread, waited>>

------------------------------------------------------------------------------
(* A wait *)

(* extract_waitcnt.  The disassembler writes one hexadecimal number after a *)
(* name of two counters, "s_wait_loadcnt_dscnt 0x101", and a register       *)
(* before that of "s_waitcnt_vscnt null, 0x1".  The value is taken from     *)
(* what follows the counter's own name, and what is no number is zero.      *)
Read(values) ==
  [c \in DOMAIN values |->
     IF c = "vs" THEN 0
     ELSE IF Cardinality(DOMAIN values) = 1 \/ arch # "gfx12" THEN values[c]
     ELSE IF c = "ds"
          THEN values["ds"] + 256 * values[CHOOSE d \in DOMAIN values : d # "ds"]
     ELSE 0]

(* MemoryCounter::handle_mem_op and join_and_reset, on the analysis "s": a *)
(* wait for zero puts the counter in order again; unless its order is      *)
(* parallel, all but its last n operations and the flat list are joined.   *)
HandleMemOp(s, c, f, n) ==
  LET done == IF Len(s.list[c]) > n THEN Len(s.list[c]) - n ELSE 0
      joined == s.flats[f] \o SubSeq(s.list[c], 1, done)
      par == s.parallel[c] /\ n # 0
  IN IF par THEN [s EXCEPT !.joined = <<>>]
     ELSE [s EXCEPT !.list[c] = SubSeq(@, done + 1, Len(@)), !.parallel[c] = FALSE,
                    !.flats[f] = <<>>,
                    !.joined = joined, !.found = @ \cup {joined[i] : i \in 1 .. Len(joined)}]

(* The counter flat loads and flat stores share: the stores are joined only *)
(* if the first call found anything.                                        *)
HandleShared(s, c, n) ==
  LET loads == HandleMemOp(s, c, "load", n)
  IN IF loads.joined # <<>> /\ loads.flats["stor"] # <<>>
     THEN HandleMemOp(loads, c, "stor", n)
     ELSE loads

HandleCounter(s, c, n) ==
  IF (arch = "gfx10" /\ c = "lgkm") \/ c = "ds" THEN HandleShared(s, c, n)
  ELSE IF c \in {"lgkm", "vm", "load"} THEN HandleMemOp(s, c, "load", n)
  ELSE IF c \in {"vs", "store"} THEN HandleMemOp(s, c, "stor", n)
  ELSE HandleMemOp(s, c, "empty", n)

(* The walkers look at the counters of a wait one after the other.          *)
At(s, c, values) == IF c \in DOMAIN values THEN HandleCounter(s, c, values[c]) ELSE s

Walk9(s, values) == At(At(s, "lgkm", values), "vm", values)
Walk10(s, values) == At(At(At(s, "vs", values), "vm", values), "lgkm", values)
Walk12(s, values) ==
  LET first == At(At(At(s, "bvh", values), "exp", values), "sample", values)
      next == At(At(At(first, "km", values), "store", values), "load", values)
  IN At(At(At(next, "tensor", values), "async", values), "ds", values)

Found(values) ==
  LET start == [parallel |-> parallel, list |-> list, flats |-> flats, joined |-> <<>>, found |-> {}]
  IN IF arch = "gfx9" THEN Walk9(start, values)
     ELSE IF arch = "gfx10" THEN Walk10(start, values)
     ELSE Walk12(start, values)

(* The hardware: which of its counters' increments the wait completes. *)
Completed(c, n) ==
  IF (n # 0 /\ loose[c]) \/ Len(pending[c]) <= n THEN 0 ELSE Len(pending[c]) - n

Complete(values) ==
  LET N(c) == IF c \in DOMAIN values THEN Completed(c, values[c]) ELSE 0
  IN
  /\ pending' = [c \in DOMAIN pending |-> SubSeq(pending[c], N(c) + 1, Len(pending[c]))]
  /\ loose' = [c \in DOMAIN loose |->
                 loose[c] /\ ~(c \in DOMAIN values /\ values[c] = 0)]
  /\ waited' = waited \cup
       UNION {{<<Now, pending[c][i]>> : i \in 1 .. N(c)} : c \in DOMAIN values}

Wait ==
  /\ Len(tokens) < MaxTokens[arch]
  /\ tokens' = Append(tokens, AWait)
  /\ \E values \in Waits :
       /\ Complete(values)
       /\ misread' = (misread \/ Read(values) # values)
       /\ LET s == Found(Read(values)) IN
          /\ parallel' = s.parallel /\ list' = s.list /\ flats' = s.flats
          /\ arrows' = arrows \cup {<<Now, op>> : op \in s.found}
  /\ UNCHANGED arch

(* s_wait_idle, on gfx12: clearTo for every counter. *)
WaitIdle ==
  /\ arch = "gfx12" /\ Len(tokens) < MaxTokens[arch]
  /\ tokens' = Append(tokens, IdleWait)
  /\ arrows' = arrows \cup UNION {{<<Now, list[c][i]>> : i \in 1 .. Len(list[c])} : c \in DOMAIN list}
  /\ list' = [c \in DOMAIN list |-> <<>>]
  /\ Complete([c \in DOMAIN pending |-> 0])
  /\ UNCHANGED <<arch, parallel, flats, misread>>

Next == Issue \/ Wait \/ WaitIdle

Spec == Init /\ [][Next]_vars

------------------------------------------------------------------------------
(* Properties *)

Issued == {t \in 1 .. Len(tokens) : tokens[t].on # {}}
FlatsIssued(f) == \E t \in Issued : tokens[t].flat = f

(* The lists hold operations of their counters, and the list that all walks *)
(* of the process share, the static empty_list, stays empty.                *)
TypeOK ==
  /\ arch \in Archs
  /\ Len(tokens) <= MaxTokens[arch]
  /\ parallel \in [Used[arch] -> BOOLEAN] /\ loose \in [Used[arch] -> BOOLEAN]
  /\ \A c \in Used[arch] : \A i \in 1 .. Len(list[c]) :
       list[c][i] \in Issued /\ c \in tokens[list[c][i]].on
  /\ \A f \in Flats : \A i \in 1 .. Len(flats[f]) :
       flats[f][i] \in Issued /\ tokens[flats[f][i]].flat = f
  /\ flats["empty"] = <<>>
  /\ arrows \subseteq (1 .. Len(tokens)) \X Issued
  /\ misread \in BOOLEAN

(* No arrow is drawn too early: when the analysis says a wait waited for an *)
(* operation, that wait or an earlier one made sure it had returned on one  *)
(* of its counters, however the operations before it were ordered, as long  *)
(* as the values are read right.                                            *)
NoArrowTooEarly ==
  ~misread => \A a \in arrows : \E w \in waited : w[2] = a[2] /\ w[1] <= a[1]

(* An operation is found at one wait, or at two if it counts twice. *)
FoundOnce ==
  \A op \in Issued : Cardinality({a \in arrows : a[2] = op}) <= tokens[op].times

(* "Arrows link memory operations to the s_waitcnt waiting on them": as *)
(* long as the values are read right, every arrow leads to a wait that  *)
(* waited for the operation, and the first wait that did has its arrow. *)
ArrowsAreTheWaits ==
  ~misread =>
    /\ arrows \subseteq waited
    /\ \A w \in waited : \E a \in arrows : a[2] = w[2] /\ a[1] <= w[1]

(* The same as long as nothing happened that the newer architectures lose   *)
(* track of: flat stores, which the shared counter forgets if it waited for *)
(* nothing else, and on gfx12 s_wait_idle, which leaves the flat lists and  *)
(* the counters' order as they were.                                        *)
Tracked ==
  /\ arch # "gfx9" => ~FlatsIssued("stor")
  /\ \A t \in 1 .. Len(tokens) : tokens[t] # IdleWait
ArrowsOfTracked == Tracked => ArrowsAreTheWaits
=============================================================================
