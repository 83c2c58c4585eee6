--------------------------- MODULE MCUnifiedFuzzer ---------------------------
EXTENDS UnifiedFuzzer

\* Bound: one agent may have two requests in flight, such as an acquire and a release.
TwoAndOne == <<2, 1>>

\* The agents change places as std::next_permutation has it.
ASSUME Rotation ==
  /\ next_permutation(<<1, 2>>) = <<2, 1>> /\ next_permutation(<<2, 1>>) = <<1, 2>>
  /\ next_permutation(<<1, 3, 2>>) = <<2, 1, 3>>
=============================================================================
