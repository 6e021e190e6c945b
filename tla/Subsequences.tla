----------------------------- MODULE Subsequences -----------------------------
(* Of a sequence what is at some of its positions, in order: a filter.       *)
EXTENDS Naturals, FiniteSets

Rank(S, i) == Cardinality({j \in S : j <= i})

(* A set of numbers from the least to the greatest.                          *)
Ascending(S) ==
  [k \in 1 .. Cardinality(S) |-> CHOOSE i \in S : Rank(S, i) = k]

At(s, S) == [k \in 1 .. Cardinality(S) |-> s[Ascending(S)[k]]]
===============================================================================
