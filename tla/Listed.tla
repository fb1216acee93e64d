------------------------------- MODULE Listed -------------------------------
(***************************************************************************)
(* Lists as Python builds them: in an order, of what passes a test, with   *)
(* what comes again left out, cut after so many.                           *)
(***************************************************************************)
EXTENDS Integers, Sequences, SequencesExt, FiniteSets

IsList(s) == s \in Seq(ToSet(s))

(* s[:n] *)
Take(s, n) == SubSeq(s, 1, IF Len(s) < n THEN Len(s) ELSE n)

(* sorted: the members of a set in their order, before[c] those ahead of c. *)
Ordered(before) ==
    [n \in 1..Cardinality(DOMAIN before) |->
       CHOOSE c \in DOMAIN before : Cardinality(before[c]) = n - 1]

(* [x for x in s if ...]: what stands at some places, what is in a set. *)
At(s, places) ==
    LET order == Ordered([n \in places |-> {m \in places : m < n}]) IN
    [k \in 1..Cardinality(places) |-> s[order[k]]]
Only(s, set) == At(s, {n \in DOMAIN s : s[n] \in set})

(* [x for part in parts for x in part] *)
Chained(parts) ==
    LET places == UNION {{k} \X DOMAIN parts[k] : k \in DOMAIN parts}
        before(p) == {q \in places : q[1] < p[1] \/ (q[1] = p[1] /\ q[2] < p[2])}
        order == Ordered([p \in places |-> before(p)]) IN
    [n \in 1..Cardinality(places) |-> parts[order[n][1]][order[n][2]]]

(* The first of equal items. *)
dedupe(items) == At(items, {n \in DOMAIN items : \A m \in 1..(n - 1) : items[m] # items[n]})
=============================================================================
