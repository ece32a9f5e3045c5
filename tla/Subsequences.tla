----------------------------- MODULE Subsequences -----------------------------
(* What `retain` leaves of a list.  It is not written with SelectSeq, which *)
(* is defined by recursion, so that it can be reasoned about.              *)
EXTENDS Integers, Sequences, FiniteSets

(* The entries of s at the positions of K, in their order.                 *)
Rank(K, i) == Cardinality({j \in K : j <= i})
EntriesAt(s, K) == [k \in 1 .. Cardinality(K) |-> s[CHOOSE i \in K : Rank(K, i) = k]]
=============================================================================
