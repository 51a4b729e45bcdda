------------------------------ MODULE Listing ------------------------------
(***************************************************************************)
(* Lists of tasks: sorting a set and filtering a queue, which the inboxes  *)
(* of the broker are made with, and what both promise.                     *)
(***************************************************************************)
EXTENDS Integers, FiniteSets, Sequences

\* The elements of T as a sequence in the order the relation R gives them.
Ordered(T, R) ==
    CHOOSE q \in [1 .. Cardinality(T) -> T] :
        \A i, j \in DOMAIN q : i < j => <<q[i], q[j]>> \in R

WithoutEntries_Mutant(q, T) == q
\* VecDeque::retain: the other entries, in the order they had.
WithoutEntries(q, T) ==
    LET kept == {i \in DOMAIN q : q[i] \notin T}
        at == Ordered(kept, {p \in kept \X kept : p[1] < p[2]})
    IN  [n \in DOMAIN at |-> q[at[n]]]

-----------------------------------------------------------------------------
(* What they promise.                                                      *)

\* A part of a finite set has a number of elements.
CountsSubsets ==
    \A T, S : IsFiniteSet(T) /\ S \subseteq T =>
        IsFiniteSet(S) /\ Cardinality(S) \in Nat

\* Nothing is none, and one thing is one.
CountsSmall == Cardinality({}) = 0 /\ \A x : Cardinality({x}) = 1

\* R orders the finite set T strictly and totally.
Orders(R, T) ==
    /\ IsFiniteSet(T)
    /\ \A x \in T : <<x, x>> \notin R
    /\ \A x, y, z \in T : <<x, y>> \in R /\ <<y, z>> \in R => <<x, z>> \in R
    /\ \A x, y \in T : x # y => <<x, y>> \in R \/ <<y, x>> \in R

\* The number of elements of T before x.
Rank(x, T, R) == Cardinality({u \in T : <<u, x>> \in R})

\* Of two elements the earlier one has fewer predecessors, and none has as many
\* as there are elements.
Ranked(T, R) ==
    /\ Cardinality(T) \in Nat
    /\ \A x \in T : Rank(x, T, R) \in Nat /\ Rank(x, T, R) + 1 <= Cardinality(T)
    /\ \A x, y \in T : <<x, y>> \in R => Rank(x, T, R) < Rank(y, T, R)

\* q is all of T, in the order R.
ListedBy(q, T, R) ==
    /\ q \in Seq(T)
    /\ \A x \in T : \E i \in DOMAIN q : q[i] = x
    /\ \A i, j \in DOMAIN q : i < j => <<q[i], q[j]>> \in R

\* p is what is left of q, which is a list of S, without the elements of T.
LeftOf(p, q, S, T) ==
    /\ p \in Seq(S \ T)
    /\ \A i \in DOMAIN q : q[i] \notin T => \E k \in DOMAIN p : p[k] = q[i]
    /\ \A k, l \in DOMAIN p : k < l =>
         \E i, j \in DOMAIN q : i < j /\ q[i] = p[k] /\ q[j] = p[l]

\* An order ranks a finite set and sorting lists it; VecDeque::retain keeps the
\* other entries, and their order; a list of a set is a list of a larger one.
RanksSets == \A T, R : Orders(R, T) => Ranked(T, R)
SortsSets == \A T, R : Orders(R, T) => ListedBy(Ordered(T, R), T, R)
FiltersLists == \A S, T, q : q \in Seq(S) => LeftOf(WithoutEntries(q, T), q, S, T)
WidensLists == \A S, T, q : S \subseteq T /\ q \in Seq(S) => q \in Seq(T)

ListLaws == /\ CountsSubsets /\ CountsSmall /\ RanksSets
            /\ SortsSets /\ FiltersLists /\ WidensLists
=============================================================================
