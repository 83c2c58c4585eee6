---------------------------- MODULE Permutation -----------------------------
(***************************************************************************)
(* The order in which the fuzzers go through their ranges and agents.      *)
(***************************************************************************)
EXTENDS Integers, Functions

Less(s, t) == \E i \in DOMAIN s : s[i] < t[i] /\ \A j \in DOMAIN s : j < i => s[j] = t[j]

\* std::next_permutation: the next in lexicographical order, or the first.
next_permutation(s) ==
  LET all   == Bijection(DOMAIN s, Range(s))
      later == {t \in all : Less(s, t)}
      from  == IF later = {} THEN all ELSE later
  IN  CHOOSE t \in from : \A u \in from : u = t \/ Less(t, u)
=============================================================================
