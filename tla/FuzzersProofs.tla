--------------------------- MODULE FuzzersProofs ----------------------------
(***************************************************************************)
(* Proofs about the modes of the fuzzers: the round of ranges keeps time,  *)
(* and the profile of the bandwidth profiler adds up, for any fuzzers,     *)
(* interval, target, start-up, clock, stride and range of addresses.       *)
(***************************************************************************)
EXTENDS Fuzzers, FiniteSetTheorems, WellFoundedInduction, TLAPS

-----------------------------------------------------------------------------
(* The order of the ranges *)

\* The orders of the three ranges.
Order == {s \in [1 .. 3 -> Range3] : \A i, j \in 1 .. 3 : s[i] = s[j] => i = j}

\* Every set of naturals that is not empty has a least member: the order of finite
\* sets by inclusion is well founded.
LEMMA LeastOf ==
  ASSUME NEW T \in SUBSET Nat, T # {}
  PROVE  \E x \in T : \A y \in T : x <= y
<1> DEFINE R == StrictSubsetOrdering(Nat)
           Tops == {0 .. n : n \in T}
<1>1. IsWellFoundedOn(R, FiniteSubsetsOf(Nat))
  BY FS_StrictSubsetOrderingWellFounded
<1>2. Tops \subseteq FiniteSubsetsOf(Nat) /\ Tops # {}
  <2>1. ASSUME NEW n \in T PROVE 0 .. n \in FiniteSubsetsOf(Nat)
    BY FS_Interval DEF FiniteSubsetsOf
  <2> QED BY <2>1
<1>3. PICK X \in Tops : \A Y \in Tops : ~(<<Y, X>> \in R)
  <2> HIDE DEF R, Tops
  <2> QED BY <1>1, <1>2, WFMin
<1>4. PICK x \in T : X = 0 .. x
  BY <1>3
<1>5. ASSUME NEW y \in T, ~(x <= y) PROVE FALSE
  <2>1. 0 .. y \in Tops /\ 0 .. y \subseteq Nat /\ 0 .. x \subseteq Nat
    OBVIOUS
  <2>2. x \in 0 .. x /\ x \notin 0 .. y /\ 0 .. y \subseteq 0 .. x
    BY <1>5
  <2>3. <<0 .. y, 0 .. x>> \in R
    BY <2>1, <2>2 DEF StrictSubsetOrdering
  <2> QED BY <1>3, <1>4, <2>1, <2>3
<1> QED BY <1>5

\* The place of an order in the lexicographical order.
Weight(s) == 9 * s[1] + 3 * s[2] + s[3]

\* The order next_permutation goes through is that of the weights.
LEMMA LessIsWeight ==
  ASSUME NEW s \in Order, NEW t \in Order
  PROVE  /\ Weight(s) \in Nat
         /\ Weight(s) = Weight(t) => s = t
         /\ Less(s, t) <=> Weight(s) < Weight(t)
<1>1. /\ s \in [1 .. 3 -> Range3] /\ t \in [1 .. 3 -> Range3]
      /\ s[1] \in 0 .. 2 /\ s[2] \in 0 .. 2 /\ s[3] \in 0 .. 2
      /\ t[1] \in 0 .. 2 /\ t[2] \in 0 .. 2 /\ t[3] \in 0 .. 2
  BY DEF Order, Range3
<1>2. Weight(s) \in Nat
  BY <1>1 DEF Weight
<1>3. ASSUME Weight(s) = Weight(t) PROVE s = t
  <2>1. s[1] = t[1] /\ s[2] = t[2] /\ s[3] = t[3]
    BY <1>1, <1>3 DEF Weight
  <2>2. \A i \in 1 .. 3 : s[i] = t[i]
    BY <2>1
  <2> QED BY <1>1, <2>2
<1>4. Less(s, t) <=> \/ s[1] < t[1]
                     \/ s[2] < t[2] /\ s[1] = t[1]
                     \/ s[3] < t[3] /\ s[1] = t[1] /\ s[2] = t[2]
  <2>1. DOMAIN s = 1 .. 3
    BY <1>1
  <2>2. Less(s, t) <=> \E i \in 1 .. 3 : s[i] < t[i] /\ \A j \in 1 .. 3 : j < i => s[j] = t[j]
    BY <2>1 DEF Less
  <2>3. \A i \in 1 .. 3 : i = 1 \/ i = 2 \/ i = 3
    OBVIOUS
  <2> QED BY <2>2, <2>3
<1> QED BY <1>1, <1>2, <1>3, <1>4 DEF Weight

\* The next order of the ranges is an order of the ranges.
LEMMA NextPermutation ==
  ASSUME NEW s \in Order
  PROVE  next_permutation(s) \in Order
<1> DEFINE all   == Bijection(DOMAIN s, Range(s))
           later == {t \in all : Less(s, t)}
           from  == IF later = {} THEN all ELSE later
           W     == {Weight(t) : t \in from}
<1>1. s \in [1 .. 3 -> Range3] /\ DOMAIN s = 1 .. 3
  BY DEF Order
<1>2. all \subseteq Order
  <2>1. Range(s) \subseteq Range3
    BY <1>1 DEF Range
  <2> QED BY <1>1, <2>1 DEF Bijection, Injection, IsInjective, Order
<1>3. s \in all
  <2>1. s \in [1 .. 3 -> Range(s)]
    BY <1>1 DEF Range
  <2>2. \A a, b \in 1 .. 3 : s[a] = s[b] => a = b
    BY DEF Order
  <2>3. s \in Injection(1 .. 3, Range(s))
    BY <1>1, <2>1, <2>2 DEF Injection, IsInjective
  <2>4. s \in Surjection(1 .. 3, Range(s))
    BY <1>1, <2>1 DEF Surjection, Range
  <2> QED BY <1>1, <2>3, <2>4 DEF Bijection
<1>4. from \subseteq Order /\ from # {}
  BY <1>2, <1>3
<1>5. next_permutation(s) = CHOOSE t \in from : \A u \in from : u = t \/ Less(t, u)
  BY DEF next_permutation
<1> HIDE DEF from
<1>6. W \subseteq Nat /\ W # {}
  BY <1>4, LessIsWeight
<1>7. PICK w \in W : \A y \in W : w <= y
  <2> HIDE DEF W
  <2> QED BY <1>6, LeastOf
<1>8. PICK t \in from : Weight(t) = w
  BY <1>7
<1>9. ASSUME NEW u \in from PROVE u = t \/ Less(t, u)
  <2>1. Weight(t) <= Weight(u) /\ t \in Order /\ u \in Order
    BY <1>4, <1>7, <1>8
  <2>2. Weight(t) \in Nat /\ Weight(u) \in Nat
    BY <2>1, LessIsWeight
  <2>3. Weight(t) = Weight(u) \/ Weight(t) < Weight(u)
    BY <2>1, <2>2
  <2> QED BY <2>1, <2>3, LessIsWeight
<1>10. next_permutation(s) \in from
  BY <1>5, <1>8, <1>9
<1> QED BY <1>4, <1>10

-----------------------------------------------------------------------------
(* The turns of the ranges *)

\* A range is due after each interval; what a range may be late or early by.
Due(n)   == n * fuzzARIInterval
Slack(n) == timeStep * (n + startupCycle)

\* What one more turn adds to them.
LEMMA Products ==
  ASSUME NEW n \in Nat
  PROVE  /\ Due(n) \in Nat /\ Due(n + 1) = Due(n) + fuzzARIInterval
         /\ Slack(n) \in Nat /\ Slack(n + 1) = Slack(n) + timeStep
         /\ Due(0) = 0 /\ Slack(0) <= Slack(n)
<1>1. fuzzARIInterval \in Nat \ {0} /\ timeStep \in Nat \ {0} /\ startupCycle \in Nat
  BY ConfigAssumption
<1>2. Due(n) \in Nat /\ Due(n + 1) = Due(n) + fuzzARIInterval /\ Due(0) = 0
  BY <1>1 DEF Due
<1>3. timeStep * (n + startupCycle) = timeStep * n + timeStep * startupCycle
  BY <1>1
<1>4. /\ timeStep * n \in Nat /\ timeStep * startupCycle \in Nat
      /\ timeStep * (n + 1) = timeStep * n + timeStep
  BY <1>1
<1>5. timeStep * ((n + 1) + startupCycle) = timeStep * (n + 1) + timeStep * startupCycle
  BY <1>1
<1>6. timeStep * (0 + startupCycle) = timeStep * startupCycle
  BY <1>1
<1> QED BY <1>1, <1>2, <1>3, <1>4, <1>5, <1>6 DEF Slack

\* What a fuzzer keeps of its round.
ARI == [index : Range3, time : Nat, count : Nat, ordinal : Order]

\* The turns that have ended, of all ranges and of the i-th of the order.
Turns(a) == 3 * a.count + a.index
TurnsOf(a, i) == IF i <= a.index THEN a.count + 1 ELSE a.count

\* One more turn has ended; after the third the round is counted.
LEMMA NextRangeIs ==
  ASSUME NEW a \in ARI
  PROVE  LET b == NextRange(a) IN
         /\ b \in ARI /\ b.time = a.time + fuzzARIInterval /\ Turns(b) = Turns(a) + 1
         /\ IF a.index = 2
            THEN b.index = 0 /\ b.count = a.count + 1
            ELSE b.index = a.index + 1 /\ b.count = a.count /\ b.ordinal = a.ordinal
<1> DEFINE i == (a.index + 1) % 3
           c == IF i = 0 THEN a.count + 1 ELSE a.count
           o == IF i = 0 THEN next_permutation(a.ordinal) ELSE a.ordinal
<1>1. a.index \in 0 .. 2 /\ a.count \in Nat /\ a.time \in Nat /\ a.ordinal \in Order
  BY DEF ARI, Range3
<1>2. IF a.index = 2 THEN i = 0 ELSE i = a.index + 1
  BY <1>1
<1>3. i \in Range3 /\ c \in Nat /\ o \in Order /\ a.time + fuzzARIInterval \in Nat
  BY <1>1, <1>2, ConfigAssumption, NextPermutation DEF Range3
<1>4. NextRange(a) = [index |-> i, time |-> a.time + fuzzARIInterval, count |-> c, ordinal |-> o]
  BY DEF NextRange
<1> HIDE DEF i, c, o
<1>5. NextRange(a) \in ARI
  BY <1>3, <1>4 DEF ARI
<1>6. /\ NextRange(a).index = i /\ NextRange(a).time = a.time + fuzzARIInterval
      /\ NextRange(a).count = c /\ NextRange(a).ordinal = o
  BY <1>4
<1>7. CASE a.index = 2
  <2>1. i = 0 /\ c = a.count + 1
    BY <1>2, <1>7 DEF c
  <2>2. Turns(NextRange(a)) = Turns(a) + 1
    BY <1>1, <1>6, <1>7, <2>1 DEF Turns
  <2> QED BY <1>5, <1>6, <1>7, <2>1, <2>2
<1>8. CASE a.index # 2
  <2>1. i = a.index + 1 /\ i # 0 /\ c = a.count /\ o = a.ordinal
    BY <1>1, <1>2, <1>8 DEF c, o
  <2>2. Turns(NextRange(a)) = Turns(a) + 1
    BY <1>1, <1>6, <1>8, <2>1 DEF Turns
  <2> QED BY <1>5, <1>6, <1>8, <2>1, <2>2
<1> QED BY <1>7, <1>8

-----------------------------------------------------------------------------
(* The invariant of a fuzzer that goes through the ranges *)

\* The time at which f ticks next.
Now(f) == IF pos <= f THEN time ELSE time + timeStep

\* A range has had its share of n turns.
Fair(u, n) == u - Due(n) \in (-Slack(n)) .. Slack(n)

\* The run is over: by the end of the last round.
RoundsDone(f) ==
  /\ finished /\ pos > f
  /\ time - Due(3 * fuzzARITarget) \in 0 .. timeStep - 1
  /\ \A r \in Range3 : Fair(used[f][r], fuzzARITarget)

\* Ranges change when they are due, at the first tick that is late enough; a range
\* whose turn is over had its share, and the one in use, with what it has had of
\* this turn taken off, as well; nothing is used during the start-up.
RoundInv(f) ==
  LET a == ari[f]
      i == a.index + 1
  IN  /\ a.time = Due(Turns(a) + 1)
      /\ Now(f) < a.time + timeStep
      /\ \A j \in 1 .. 3 \ {i} : Fair(used[f][a.ordinal[j]], TurnsOf(a, j))
      /\ used[f][a.ordinal[i]] - (Now(f) - timeStep) + Due(Turns(a)) - Due(TurnsOf(a, i))
           \in -(Slack(TurnsOf(a, i)) + timeStep) .. Slack(TurnsOf(a, i)) + 1
      /\ startupInterval[f] < startupCycle =>
           /\ a.index = 0 /\ a.count = 0 /\ used[f] = [r \in Range3 |-> 0]
           /\ \E t \in Times : Now(f) = t + timeStep * startupInterval[f]
      /\ a.count = fuzzARITarget => RoundsDone(f)

\* Types.
ARITypes ==
  /\ pos \in 1 .. Len(Kind) + 2 /\ time \in Nat /\ finished \in BOOLEAN
  /\ startupInterval \in [Fuzzer -> 0 .. startupCycle]
  /\ ari \in [Fuzzer -> ARI]
  /\ used \in [Fuzzer -> [Range3 -> Nat]]

\* The fuzzers that end the run by a number of rounds.
GoesRound(f) == Kind[f] = "C" /\ mode[f] = "FUZZ_ARI"

\* The inductive strengthening of RangesInTime.
ARIInv == ARITypes /\ \A f \in Fuzzer : GoesRound(f) => RoundInv(f)

\* The clock is finer than the interval, and the start-up is over in time for the
\* first change of ranges.
StartsInTime ==
  /\ timeStep <= fuzzARIInterval /\ fuzzARITarget > 0
  /\ \A t \in Times : /\ t \in timeStep - 1 .. 2 * timeStep
                      /\ t + timeStep * startupCycle < fuzzARIInterval + timeStep

\* The assumptions on the constants, one by one.
LEMMA Constants ==
  /\ Fuzzer = 1 .. Len(Kind) /\ Len(Kind) \in Nat
  /\ timeStep \in Nat \ {0} /\ fuzzARIInterval \in Nat \ {0} /\ startupCycle \in Nat
  /\ fuzzARITarget \in Nat /\ Times \subseteq Nat
  BY KindAssumption, ConfigAssumption DEF Fuzzer

\* The constructors.
LEMMA ARIInit ==
  ASSUME StartsInTime, Init
  PROVE  ARIInv
<1>1. PICK seed \in {s \in [1 .. 3 -> Range3] : \A i, j \in 1 .. 3 : s[i] = s[j] => i = j} :
         ari = [f \in Fuzzer |->
                  [index |-> 0, time |-> fuzzARIInterval, count |-> 0, ordinal |-> seed]]
  BY DEF Init
<1>2. seed \in Order
  BY <1>1 DEF Order
<1>3. /\ pos = 1 /\ time \in Times /\ finished = FALSE
      /\ startupInterval \in [Fuzzer -> {0, startupCycle}]
      /\ \A f \in Fuzzer : Kind[f] = "C" => startupInterval[f] = 0
      /\ used = [f \in Fuzzer |-> [r \in Range3 |-> 0]]
  BY DEF Init
<1>4. ari \in [Fuzzer -> ARI]
  BY <1>1, <1>2, Constants DEF ARI, Range3
<1>5. ARITypes
  <2>1. pos \in 1 .. Len(Kind) + 2 /\ time \in Nat /\ finished \in BOOLEAN
    <3>1. pos = 1 /\ Len(Kind) \in Nat
      BY <1>3, Constants
    <3>2. pos \in 1 .. Len(Kind) + 2
      BY <3>1
    <3>3. time \in Nat
      BY <1>3, Constants
    <3>4. finished \in BOOLEAN
      BY <1>3
    <3> QED BY <3>2, <3>3, <3>4
  <2>2. startupInterval \in [Fuzzer -> 0 .. startupCycle]
    BY <1>3, Constants
  <2>3. used \in [Fuzzer -> [Range3 -> Nat]]
    BY <1>3
  <2> QED BY <1>4, <2>1, <2>2, <2>3 DEF ARITypes
<1>6. ASSUME NEW f \in Fuzzer, GoesRound(f) PROVE RoundInv(f)
  <2>1. /\ ari[f].index = 0 /\ ari[f].time = fuzzARIInterval /\ ari[f].count = 0
        /\ ari[f].ordinal = seed
    BY <1>1
  <2>2. Turns(ari[f]) = 0 /\ \A j \in 1 .. 3 : TurnsOf(ari[f], j) = 0
    BY <2>1 DEF Turns, TurnsOf
  <2>3. Now(f) = time /\ time \in timeStep - 1 .. 2 * timeStep /\ time \in Nat
    BY <1>3, Constants DEF Now, StartsInTime
  <2>4. /\ Due(0) = 0 /\ Due(0 + 1) = fuzzARIInterval /\ Slack(0) \in Nat
        /\ Slack(0) = timeStep * startupCycle
    BY Products, Constants DEF Slack
  <2>5. \A r \in Range3 : used[f][r] = 0
    BY <1>3
  <2>6. \A j \in 1 .. 3 : seed[j] \in Range3
    BY <1>2 DEF Order
  <2>7. time + Slack(0) < fuzzARIInterval + timeStep
    BY <1>3, <2>4 DEF StartsInTime
  <2>8. ari[f].time = Due(Turns(ari[f]) + 1) /\ Now(f) < ari[f].time + timeStep
    BY <2>1, <2>2, <2>3, <2>4, <2>7, Constants
  <2>9. ASSUME NEW j \in 1 .. 3
        PROVE  Fair(used[f][ari[f].ordinal[j]], TurnsOf(ari[f], j))
    BY <2>1, <2>2, <2>4, <2>5, <2>6 DEF Fair
  <2>10. 0 - (Now(f) - timeStep) + 0 - 0 \in -(Slack(0) + timeStep) .. Slack(0) + 1
    BY <2>3, <2>4, Constants
  <2>11. used[f][ari[f].ordinal[1]] - (Now(f) - timeStep)
             + Due(Turns(ari[f])) - Due(TurnsOf(ari[f], 1))
           \in -(Slack(TurnsOf(ari[f], 1)) + timeStep) .. Slack(TurnsOf(ari[f], 1)) + 1
    <3>1. used[f][ari[f].ordinal[1]] = 0 /\ TurnsOf(ari[f], 1) = 0
      BY <2>1, <2>2, <2>5, <2>6
    <3> QED BY <2>2, <2>4, <2>10, <3>1
  <2>12. /\ used[f] = [r \in Range3 |-> 0]
         /\ \E t \in Times : Now(f) = t + timeStep * startupInterval[f]
    <3>1. startupInterval[f] = 0 /\ Now(f) = time + timeStep * 0
      BY <1>3, <1>6, <2>3, Constants DEF GoesRound
    <3> QED BY <1>3, <3>1
  <2>13. ari[f].count # fuzzARITarget
    BY <2>1 DEF StartsInTime
  <2>14. ari[f].index + 1 = 1
    BY <2>1
  <2> QED BY <2>1, <2>8, <2>9, <2>11, <2>12, <2>13, <2>14 DEF RoundInv
<1> QED BY <1>5, <1>6 DEF ARIInv

\* What happens elsewhere leaves f's round as it is.
LEMMA RoundElsewhere ==
  ASSUME NEW f \in Fuzzer, RoundInv(f),
         UNCHANGED <<ari[f], used[f], startupInterval[f], Now(f)>>,
         ari[f].count = fuzzARITarget => finished' /\ pos' > f /\ time' = time
  PROVE  RoundInv(f)'
<1>1. RoundsDone(f) /\ finished' /\ pos' > f /\ time' = time => RoundsDone(f)'
  BY DEF RoundsDone, Fair, Due, Slack
<1> QED BY <1>1 DEF RoundInv, Fair, Due, Slack, Turns, TurnsOf

\* Now of a fuzzer while another one ticks, and when its own turn comes and goes.
LEMMA NowMoves ==
  ASSUME ARITypes, NEW f \in Fuzzer
  PROVE  /\ Now(f) \in Nat
         /\ \A g \in Fuzzer \ {f} :
              pos = g /\ pos' = g + 1 /\ time' = time =>
                Now(f)' = Now(f) /\ (pos > f => pos' > f)
         /\ pos = f => Now(f) = time
         /\ pos = f /\ pos' = f + 1 /\ time' = time => Now(f)' = Now(f) + timeStep
         /\ pos = Len(Kind) + 1 /\ pos' = 1 /\ time' = time + timeStep => Now(f)' = Now(f)
         /\ pos = Len(Kind) + 1 /\ pos' = pos + 1 /\ time' = time => Now(f)' = Now(f)
<1>1. f \in 1 .. Len(Kind) /\ Len(Kind) \in Nat /\ Fuzzer = 1 .. Len(Kind) /\ timeStep \in Nat
  BY Constants
<1>2. pos \in 1 .. Len(Kind) + 2 /\ time \in Nat
  BY DEF ARITypes
<1> HIDE DEF Fuzzer
<1>3. Now(f) \in Nat
  BY <1>1, <1>2 DEF Now
<1>4. ASSUME NEW g \in Fuzzer \ {f}, pos = g, pos' = g + 1, time' = time
      PROVE  Now(f)' = Now(f) /\ (pos > f => pos' > f)
  BY <1>1, <1>2, <1>4 DEF Now
<1>5. ASSUME pos = f PROVE Now(f) = time
  BY <1>1, <1>2, <1>5 DEF Now
<1>6. ASSUME pos = f, pos' = f + 1, time' = time PROVE Now(f)' = Now(f) + timeStep
  BY <1>1, <1>2, <1>6 DEF Now
<1>7. ASSUME pos = Len(Kind) + 1, pos' = 1, time' = time + timeStep PROVE Now(f)' = Now(f)
  BY <1>1, <1>2, <1>7 DEF Now
<1>8. ASSUME pos = Len(Kind) + 1, pos' = pos + 1, time' = time PROVE Now(f)' = Now(f)
  BY <1>1, <1>2, <1>8 DEF Now
<1> QED BY <1>3, <1>4, <1>5, <1>6, <1>7, <1>8

\* What Step leaves of the variables of the ranges.
LEMMA StepRanges ==
  ASSUME NEW g \in Fuzzer, Step(g), ARITypes
  PROVE  \/ /\ mode[g] # "FUZZ_ARI"
            /\ UNCHANGED <<ari, used>>
         \/ /\ mode[g] = "FUZZ_ARI"
            /\ used' = [used EXCEPT ![g][InUse(g)] = @ + timeStep]
            /\ ari' = IF time >= ari[g].time THEN [ari EXCEPT ![g] = NextRange(@)] ELSE ari
  BY DEF Step, TickARI, TickStream, TickProfile

\* The types.
LEMMA ARITypesKept ==
  ASSUME ARITypes, [Next]_vars
  PROVE  ARITypes'
<1>0. Fuzzer = 1 .. Len(Kind) /\ Len(Kind) \in Nat /\ timeStep \in Nat /\ startupCycle \in Nat
  BY Constants
<1>1. ASSUME NEW f \in Fuzzer, Tick(f) PROVE ARITypes'
  <2>1. f \in 1 .. Len(Kind) /\ pos' = f + 1 /\ time' = time
    BY <1>0, <1>1 DEF Tick
  <2>2. pos' \in 1 .. Len(Kind) + 2 /\ time' \in Nat
    BY <1>0, <2>1 DEF ARITypes
  <2>3. CASE startupInterval[f] < startupCycle
    <3>1. /\ startupInterval' = [startupInterval EXCEPT ![f] = @ + 1]
          /\ UNCHANGED <<finished, ari, used>>
      BY <1>1, <2>3 DEF Tick
    <3>2. startupInterval[f] + 1 \in 0 .. startupCycle
      BY <1>0, <2>3 DEF ARITypes
    <3> QED BY <2>2, <3>1, <3>2 DEF ARITypes
  <2>4. CASE ~(startupInterval[f] < startupCycle)
    <3>1. Step(f) /\ finished' = (finished \/ Fires(f)) /\ UNCHANGED startupInterval
      BY <1>1, <2>4 DEF Tick
    <3>2. finished' \in BOOLEAN
      BY <3>1
    <3>3. CASE UNCHANGED <<ari, used>>
      BY <2>2, <3>1, <3>2, <3>3 DEF ARITypes
    <3>4. CASE /\ used' = [used EXCEPT ![f][InUse(f)] = @ + timeStep]
               /\ ari' = IF time >= ari[f].time THEN [ari EXCEPT ![f] = NextRange(@)] ELSE ari
      <4>1. ari[f] \in ARI /\ ari[f].index + 1 \in 1 .. 3 /\ ari[f].ordinal \in Order
        BY DEF ARITypes, ARI, Range3
      <4>2. InUse(f) \in Range3
        BY <4>1 DEF InUse, Order
      <4>3. NextRange(ari[f]) \in ARI
        BY <4>1, NextRangeIs
      <4>4. ari' \in [Fuzzer -> ARI]
        <5>1. ari \in [Fuzzer -> ARI]
          BY DEF ARITypes
        <5> QED BY <3>4, <4>3, <5>1
      <4>5. used' \in [Fuzzer -> [Range3 -> Nat]]
        <5>1. used \in [Fuzzer -> [Range3 -> Nat]]
          BY DEF ARITypes
        <5>2. used[f][InUse(f)] + timeStep \in Nat
          BY <1>0, <4>2, <5>1
        <5> QED BY <3>4, <4>2, <5>1, <5>2
      <4> QED BY <2>2, <3>1, <3>2, <4>4, <4>5 DEF ARITypes
    <3> QED BY <3>1, <3>3, <3>4, StepRanges
  <2> QED BY <2>3, <2>4
<1>2. ASSUME Cycle PROVE ARITypes'
  <2>1. /\ pos' = 1 /\ time' = time + timeStep
        /\ UNCHANGED <<finished, startupInterval, ari, used>>
    BY <1>2 DEF Cycle, seqVars
  <2>2. pos' \in 1 .. Len(Kind) + 2 /\ time' \in Nat
    BY <1>0, <2>1 DEF ARITypes
  <2> QED BY <2>1, <2>2 DEF ARITypes
<1>3. ASSUME Finished PROVE ARITypes'
  <2>1. /\ pos' = Len(Kind) + 2
        /\ UNCHANGED <<time, finished, startupInterval, ari, used>>
    BY <1>0, <1>3 DEF Finished
  <2>2. pos' \in 1 .. Len(Kind) + 2
    BY <1>0, <2>1
  <2> QED BY <2>1, <2>2 DEF ARITypes
<1>4. ASSUME UNCHANGED vars PROVE ARITypes'
  BY <1>4 DEF vars, seqVars, ARITypes
<1> QED BY <1>1, <1>2, <1>3, <1>4 DEF Next

\* A tick of the start-up.
LEMMA RoundStarts ==
  ASSUME StartsInTime, ARITypes, NEW f \in Fuzzer, RoundInv(f), Tick(f),
         startupInterval[f] < startupCycle
  PROVE  RoundInv(f)'
<1>1. /\ startupInterval' = [startupInterval EXCEPT ![f] = @ + 1] /\ pos = f /\ pos' = f + 1
      /\ UNCHANGED <<time, finished, ari, used>>
  BY DEF Tick
<1>2. /\ ari[f].index = 0 /\ ari[f].count = 0 /\ used[f] = [r \in Range3 |-> 0]
      /\ ari[f].time = Due(Turns(ari[f]) + 1)
  BY DEF RoundInv
<1>3. PICK t \in Times : Now(f) = t + timeStep * startupInterval[f]
  BY DEF RoundInv
<1> DEFINE s == startupInterval[f]
<1>4. s \in 0 .. startupCycle /\ startupInterval'[f] = s + 1 /\ s < startupCycle
  BY <1>1 DEF ARITypes
<1>5. Now(f)' = Now(f) + timeStep /\ Now(f) \in Nat
  BY <1>1, NowMoves
<1>6. /\ timeStep \in Nat \ {0} /\ fuzzARIInterval \in Nat \ {0}
      /\ startupCycle \in Nat /\ t \in Nat
      /\ timeStep * s \in Nat /\ timeStep * startupCycle \in Nat
  <2>1. timeStep \in Nat \ {0} /\ fuzzARIInterval \in Nat \ {0} /\ startupCycle \in Nat /\ t \in Nat
    BY Constants
  <2> QED BY <1>4, <2>1
<1>7. timeStep * (s + 1) = timeStep * s + timeStep
  BY <1>4, <1>6
<1>8. timeStep * (s + 1) <= timeStep * startupCycle
  <2>1. \E k \in Nat : startupCycle = (s + 1) + k
    <3>1. startupCycle - (s + 1) \in Nat /\ startupCycle = (s + 1) + (startupCycle - (s + 1))
      BY <1>4, <1>6
    <3> QED BY <3>1
  <2>2. PICK k \in Nat : startupCycle = (s + 1) + k
    BY <2>1
  <2>3. timeStep * startupCycle = timeStep * (s + 1) + timeStep * k /\ timeStep * k \in Nat
    BY <1>4, <1>6, <2>2
  <2> QED BY <1>4, <1>6, <1>7, <2>3
<1>9. Now(f)' = t + timeStep * startupInterval'[f]
  BY <1>3, <1>4, <1>5, <1>6, <1>7
<1>10. Turns(ari[f]) = 0 /\ \A j \in 1 .. 3 : TurnsOf(ari[f], j) = 0
  BY <1>2 DEF Turns, TurnsOf
<1>11. /\ Due(0) = 0 /\ Due(0 + 1) = fuzzARIInterval /\ Slack(0) \in Nat
       /\ Slack(0) = timeStep * startupCycle
  BY Products, Constants DEF Slack
<1>12. t \in timeStep - 1 .. 2 * timeStep /\ t + Slack(0) < fuzzARIInterval + timeStep
  BY <1>11 DEF StartsInTime
<1> HIDE DEF s
<1>13. Now(f)' < ari[f].time + timeStep
  BY <1>2, <1>4, <1>6, <1>8, <1>9, <1>10, <1>11, <1>12
<1>14. 0 - (Now(f)' - timeStep) + 0 - 0 \in -(Slack(0) + timeStep) .. Slack(0) + 1
  BY <1>4, <1>6, <1>7, <1>8, <1>9, <1>11, <1>12
<1>15. used[f][ari[f].ordinal[1]] = 0
  BY DEF RoundInv, ARITypes, ARI, Order
<1>16. ari[f].count # fuzzARITarget
  BY <1>2 DEF StartsInTime
<1>17. /\ ari'[f] = ari[f] /\ used'[f] = used[f]
       /\ Turns(ari'[f]) = 0 /\ \A j \in 1 .. 3 : TurnsOf(ari'[f], j) = 0
  BY <1>1, <1>10
<1>18. ari'[f].time = Due(Turns(ari'[f]) + 1) /\ Now(f)' < ari'[f].time + timeStep
  BY <1>2, <1>13, <1>17
<1>19. \A j \in 1 .. 3 \ {ari'[f].index + 1} :
         Fair(used'[f][ari'[f].ordinal[j]], TurnsOf(ari'[f], j))
  BY <1>17 DEF RoundInv
<1>20. used'[f][ari'[f].ordinal[ari'[f].index + 1]] - (Now(f)' - timeStep)
           + Due(Turns(ari'[f])) - Due(TurnsOf(ari'[f], ari'[f].index + 1))
         \in -(Slack(TurnsOf(ari'[f], ari'[f].index + 1)) + timeStep) ..
             Slack(TurnsOf(ari'[f], ari'[f].index + 1)) + 1
  <2>1. /\ ari'[f].index + 1 = 1 /\ TurnsOf(ari'[f], 1) = 0 /\ Turns(ari'[f]) = 0
        /\ used'[f][ari'[f].ordinal[1]] = 0
    BY <1>2, <1>15, <1>17
  <2> QED BY <1>11, <1>14, <2>1
<1> QED BY <1>2, <1>9, <1>16, <1>17, <1>18, <1>19, <1>20
        DEF RoundInv, Fair, Due, Slack, Turns, TurnsOf

\* A tick within a turn.
LEMMA RoundGoesOn ==
  ASSUME ARITypes, NEW f \in Fuzzer, RoundInv(f), pos = f, pos' = f + 1, time' = time,
         ~(startupInterval[f] < startupCycle), UNCHANGED <<startupInterval, ari>>,
         used' = [used EXCEPT ![f][InUse(f)] = @ + timeStep], time < ari[f].time
  PROVE  RoundInv(f)'
<1> DEFINE a == ari[f]
           i == a.index + 1
<1>1. /\ a \in ARI /\ i \in 1 .. 3 /\ a.index \in 0 .. 2 /\ a.count \in Nat
      /\ a.time \in Nat /\ a.ordinal \in Order
  BY DEF ARITypes, ARI, Range3
<1>2. \A j \in 1 .. 3 : a.ordinal[j] \in Range3 /\ (j # i => a.ordinal[j] # a.ordinal[i])
  BY <1>1 DEF Order
<1>3. InUse(f) = a.ordinal[i]
  BY DEF InUse
<1> HIDE DEF a, i
<1>4. /\ used'[f][a.ordinal[i]] = used[f][a.ordinal[i]] + timeStep
      /\ \A j \in 1 .. 3 : j # i => used'[f][a.ordinal[j]] = used[f][a.ordinal[j]]
  BY <1>1, <1>2, <1>3 DEF ARITypes
<1>5. /\ Now(f)' = Now(f) + timeStep /\ Now(f) = time /\ Now(f) \in Nat
      /\ timeStep \in Nat /\ used[f][a.ordinal[i]] \in Nat
  BY <1>1, <1>2, NowMoves, Constants DEF ARITypes
<1>6. ari'[f] = a /\ TurnsOf(a, i) \in Nat /\ Turns(a) \in Nat
  BY <1>1 DEF a, i, TurnsOf, Turns
<1>7. /\ Due(Turns(a)) \in Nat /\ Due(TurnsOf(a, i)) \in Nat /\ Slack(TurnsOf(a, i)) \in Nat
  BY <1>6, Products
<1>8. /\ a.time = Due(Turns(a) + 1)
      /\ \A j \in 1 .. 3 \ {i} : Fair(used[f][a.ordinal[j]], TurnsOf(a, j))
      /\ used[f][a.ordinal[i]] - (Now(f) - timeStep) + Due(Turns(a)) - Due(TurnsOf(a, i))
           \in -(Slack(TurnsOf(a, i)) + timeStep) .. Slack(TurnsOf(a, i)) + 1
      /\ a.count = fuzzARITarget => RoundsDone(f)
  BY DEF RoundInv, a, i
<1>9. used'[f][a.ordinal[i]] - (Now(f)' - timeStep) + Due(Turns(a)) - Due(TurnsOf(a, i))
           \in -(Slack(TurnsOf(a, i)) + timeStep) .. Slack(TurnsOf(a, i)) + 1
  <2>1. used'[f][a.ordinal[i]] - (Now(f)' - timeStep) + Due(Turns(a)) - Due(TurnsOf(a, i))
          = used[f][a.ordinal[i]] - (Now(f) - timeStep) + Due(Turns(a)) - Due(TurnsOf(a, i))
    BY <1>4, <1>5, <1>7
  <2> QED BY <1>8, <2>1
<1>10. Now(f)' < a.time + timeStep
  BY <1>1, <1>5 DEF a
<1>11. \A j \in 1 .. 3 \ {i} : Fair(used'[f][a.ordinal[j]], TurnsOf(a, j))
  BY <1>4, <1>8
<1>12. a.count # fuzzARITarget
  <2>1. ~RoundsDone(f)
    <3>1. f \in Nat
      BY Constants DEF Fuzzer
    <3> QED BY <3>1 DEF RoundsDone
  <2> QED BY <1>8, <2>1
<1>13. ari'[f] = ari[f] /\ startupInterval'[f] = startupInterval[f]
  OBVIOUS
<1> QED BY <1>6, <1>8, <1>9, <1>10, <1>11, <1>12, <1>13
        DEF RoundInv, Fair, Due, Slack, Turns, TurnsOf, a, i

\* The tick that ends a turn: the range has had its share.
LEMMA TurnEnds ==
  ASSUME StartsInTime, ARITypes, NEW f \in Fuzzer, RoundInv(f), pos = f,
         used' = [used EXCEPT ![f][InUse(f)] = @ + timeStep], time >= ari[f].time
  PROVE  /\ time - Due(Turns(ari[f]) + 1) \in 0 .. timeStep - 1
         /\ \A j \in 1 .. 3 :
              Fair(used'[f][ari[f].ordinal[j]],
                   IF j <= ari[f].index + 1 THEN ari[f].count + 1 ELSE ari[f].count)
<1> DEFINE a == ari[f]
           i == a.index + 1
<1>1. /\ a \in ARI /\ i \in 1 .. 3 /\ a.index \in 0 .. 2 /\ a.count \in Nat
      /\ a.time \in Nat /\ a.ordinal \in Order
  BY DEF ARITypes, ARI, Range3
<1>2. \A j \in 1 .. 3 : a.ordinal[j] \in Range3 /\ (j # i => a.ordinal[j] # a.ordinal[i])
  BY <1>1 DEF Order
<1>3. InUse(f) = a.ordinal[i] /\ TurnsOf(a, i) = a.count
  BY <1>1 DEF InUse, TurnsOf
<1>4. a.time = Due(Turns(a) + 1)
  BY DEF RoundInv, a
<1>5. \A j \in 1 .. 3 \ {i} : Fair(used[f][a.ordinal[j]], TurnsOf(a, j))
  BY DEF RoundInv, a, i
<1>6. used[f][a.ordinal[i]] - (Now(f) - timeStep) + Due(Turns(a)) - Due(a.count)
           \in -(Slack(a.count) + timeStep) .. Slack(a.count) + 1
  BY <1>3 DEF RoundInv
<1>7. Now(f) < a.time + timeStep /\ Now(f) = time /\ time \in Nat /\ timeStep \in Nat \ {0}
  BY NowMoves, Constants DEF RoundInv, ARITypes
<1>8. time >= a.time
  OBVIOUS
<1>9. Turns(a) \in Nat
  BY <1>1 DEF Turns
<1> HIDE DEF a
<1>10. /\ i \in 1 .. 3
       /\ \A j \in 1 .. 3 :
            j # i => (TurnsOf(a, j) = IF j <= i THEN a.count + 1 ELSE a.count)
  BY <1>1 DEF TurnsOf
<1> HIDE DEF i
<1>11. /\ used'[f][a.ordinal[i]] = used[f][a.ordinal[i]] + timeStep
       /\ \A j \in 1 .. 3 : j # i => used'[f][a.ordinal[j]] = used[f][a.ordinal[j]]
       /\ used[f][a.ordinal[i]] \in Nat
  BY <1>1, <1>2, <1>3 DEF ARITypes
<1>12. time - Due(Turns(a) + 1) \in 0 .. timeStep - 1
  BY <1>1, <1>4, <1>7, <1>8
<1>13. /\ Due(Turns(a)) \in Nat /\ Due(Turns(a) + 1) = Due(Turns(a)) + fuzzARIInterval
       /\ Due(a.count) \in Nat /\ Due(a.count + 1) = Due(a.count) + fuzzARIInterval
       /\ Slack(a.count) \in Nat /\ Slack(a.count + 1) = Slack(a.count) + timeStep
       /\ fuzzARIInterval \in Nat
  BY <1>1, <1>9, Products, Constants
<1>14. Fair(used'[f][a.ordinal[i]], a.count + 1)
  <2> DEFINE u == used[f][a.ordinal[i]]
             k == Due(Turns(a))
             n == Due(a.count)
             s == Slack(a.count)
  <2>1. u \in Nat /\ k \in Nat /\ n \in Nat /\ s \in Nat /\ fuzzARIInterval \in Nat
    BY <1>11, <1>13
  <2>2. u - (time - timeStep) + k - n \in -(s + timeStep) .. s + 1
    BY <1>6, <1>7
  <2>3. time - (k + fuzzARIInterval) \in 0 .. timeStep - 1
    BY <1>12, <1>13
  <2>4. used'[f][a.ordinal[i]] = u + timeStep
    BY <1>11
  <2> HIDE DEF u, k, n, s
  <2>5. (u + timeStep) - (n + fuzzARIInterval) \in -(s + timeStep) .. s + timeStep
    BY <1>7, <2>1, <2>2, <2>3
  <2> QED BY <1>13, <2>4, <2>5 DEF Fair, n, s
<1>15. ASSUME NEW j \in 1 .. 3
       PROVE  Fair(used'[f][a.ordinal[j]], IF j <= i THEN a.count + 1 ELSE a.count)
  <2>1. CASE j = i
    <3>1. (IF j <= i THEN a.count + 1 ELSE a.count) = a.count + 1
      BY <1>1, <1>10, <2>1
    <3> QED BY <1>14, <2>1, <3>1
  <2>2. CASE j # i
    <3>1. Fair(used[f][a.ordinal[j]], TurnsOf(a, j))
      BY <1>5, <2>2
    <3> QED BY <1>10, <1>11, <2>2, <3>1
  <2> QED BY <2>1, <2>2
<1> QED BY <1>12, <1>15 DEF a, i

\* Every range is in the order.
LEMMA OrderHasAll ==
  ASSUME NEW s \in Order, NEW r \in Range3
  PROVE  \E j \in 1 .. 3 : s[j] = r
<1>1. s[1] \in 0 .. 2 /\ s[2] \in 0 .. 2 /\ s[3] \in 0 .. 2 /\ r \in 0 .. 2
  BY DEF Order, Range3
<1>2. s[1] # s[2] /\ s[1] # s[3] /\ s[2] # s[3]
  BY DEF Order
<1>3. s[1] = r \/ s[2] = r \/ s[3] = r
  BY <1>1, <1>2
<1> QED BY <1>3

\* The tick that ends a turn, and what it begins.
LEMMA RoundTurns ==
  ASSUME StartsInTime, ARITypes, NEW f \in Fuzzer, RoundInv(f), Tick(f), GoesRound(f),
         ~(startupInterval[f] < startupCycle), time >= ari[f].time
  PROVE  RoundInv(f)'
<1> DEFINE a == ari[f]
           b == NextRange(a)
<1>1. /\ pos = f /\ pos' = f + 1 /\ time' = time /\ Step(f)
      /\ finished' = (finished \/ Fires(f)) /\ startupInterval' = startupInterval
  BY DEF Tick
<1>2. /\ used' = [used EXCEPT ![f][InUse(f)] = @ + timeStep]
      /\ ari' = [ari EXCEPT ![f] = NextRange(@)]
  BY <1>1, StepRanges DEF GoesRound
<1>3. /\ time - Due(Turns(a) + 1) \in 0 .. timeStep - 1
      /\ \A j \in 1 .. 3 :
           Fair(used'[f][a.ordinal[j]], IF j <= a.index + 1 THEN a.count + 1 ELSE a.count)
  BY <1>1, <1>2, TurnEnds
<1>4. /\ a \in ARI /\ a.index \in 0 .. 2 /\ a.count \in Nat /\ a.time \in Nat
      /\ a.ordinal \in Order
  BY DEF ARITypes, ARI, Range3
<1>5. ari'[f] = b
  BY <1>2 DEF ARITypes
<1>6. /\ b \in ARI /\ b.time = a.time + fuzzARIInterval /\ Turns(b) = Turns(a) + 1
      /\ IF a.index = 2
         THEN b.index = 0 /\ b.count = a.count + 1
         ELSE b.index = a.index + 1 /\ b.count = a.count /\ b.ordinal = a.ordinal
  BY <1>4, NextRangeIs
<1>7. a.time = Due(Turns(a) + 1)
  BY DEF RoundInv
<1>8. a.count # fuzzARITarget
  <2>1. ~RoundsDone(f)
    <3>1. f \in Nat
      BY Constants DEF Fuzzer
    <3> QED BY <1>1, <3>1 DEF RoundsDone
  <2> QED BY <2>1 DEF RoundInv
<1>9. Now(f)' = time + timeStep /\ time < a.time + timeStep /\ time \in Nat
  BY <1>1, NowMoves DEF RoundInv, ARITypes
<1> HIDE DEF a, b
<1>10. b.index \in 0 .. 2 /\ b.count \in Nat /\ b.ordinal \in Order
  BY <1>6 DEF ARI, Range3
<1>11. /\ timeStep \in Nat \ {0} /\ timeStep <= fuzzARIInterval /\ fuzzARIInterval \in Nat
       /\ Turns(a) \in Nat /\ Turns(b) \in Nat
  <2>1. timeStep \in Nat \ {0} /\ fuzzARIInterval \in Nat
    BY Constants
  <2>2. timeStep <= fuzzARIInterval
    BY DEF StartsInTime
  <2>3. Turns(a) \in Nat /\ Turns(b) \in Nat
    BY <1>4, <1>10 DEF Turns
  <2> QED BY <2>1, <2>2, <2>3
<1>12. Due(Turns(b) + 1) = Due(Turns(a) + 1) + fuzzARIInterval
  BY <1>6, <1>11, Products
<1>13. b.time = Due(Turns(b) + 1) /\ Now(f)' < b.time + timeStep
  BY <1>4, <1>6, <1>7, <1>9, <1>11, <1>12
<1>14. ASSUME a.index = 2, NEW r \in Range3 PROVE Fair(used'[f][r], a.count + 1)
  <2>1. PICK j \in 1 .. 3 : a.ordinal[j] = r
    BY <1>4, OrderHasAll
  <2>2. (IF j <= a.index + 1 THEN a.count + 1 ELSE a.count) = a.count + 1
    BY <1>14
  <2> QED BY <1>3, <2>1, <2>2
<1>15. ASSUME NEW j \in 1 .. 3 PROVE Fair(used'[f][b.ordinal[j]], TurnsOf(b, j))
  <2>1. CASE a.index = 2
    <3>1. TurnsOf(b, j) = a.count + 1 /\ b.ordinal[j] \in Range3
      BY <1>6, <1>10, <2>1 DEF TurnsOf, Order
    <3> QED BY <1>14, <2>1, <3>1
  <2>2. CASE a.index # 2
    <3>1. TurnsOf(b, j) = (IF j <= a.index + 1 THEN a.count + 1 ELSE a.count)
      BY <1>6, <2>2 DEF TurnsOf
    <3> QED BY <1>3, <1>6, <2>2, <3>1
  <2> QED BY <2>1, <2>2
<1> DEFINE i == b.index + 1
           n == TurnsOf(b, i)
           u == used'[f][b.ordinal[i]]
<1>16. i \in 1 .. 3 /\ n \in Nat
  BY <1>10 DEF TurnsOf
<1>17. u \in Nat
  <2>1. used' \in [Fuzzer -> [Range3 -> Nat]]
    BY ARITypesKept DEF ARITypes, Next
  <2> QED BY <1>10, <1>16, <2>1 DEF Order
<1>18. u - Due(n) \in (-Slack(n)) .. Slack(n)
  BY <1>15, <1>16 DEF Fair
<1>19. Due(n) \in Nat /\ Slack(n) \in Nat /\ Due(Turns(b)) \in Nat
  BY <1>11, <1>16, Products
<1> HIDE DEF i, n, u
<1>20. u - (Now(f)' - timeStep) + Due(Turns(b)) - Due(n) \in -(Slack(n) + timeStep) .. Slack(n) + 1
  <2>1. time - Due(Turns(b)) \in 0 .. timeStep - 1
    BY <1>3, <1>6
  <2>2. Now(f)' - timeStep = time
    BY <1>9, <1>11
  <2> QED BY <1>9, <1>11, <1>17, <1>18, <1>19, <2>1, <2>2
<1>21. ASSUME b.count = fuzzARITarget PROVE RoundsDone(f)'
  <2>1. a.index = 2 /\ a.count + 1 = fuzzARITarget
    BY <1>6, <1>8, <1>21
  <2>2. Fires(f)
    BY <1>5, <1>21 DEF Fires, GoesRound
  <2>3. finished' /\ pos' > f
    <3>1. f \in Nat
      BY Constants DEF Fuzzer
    <3>2. finished'
      BY <1>1, <2>2
    <3>3. pos' > f
      BY <1>1, <3>1
    <3> QED BY <3>2, <3>3
  <2>4. Turns(b) = 3 * fuzzARITarget
    BY <1>6, <1>10, <1>21, <2>1 DEF Turns
  <2>5. time' - Due(3 * fuzzARITarget) \in 0 .. timeStep - 1
    BY <1>1, <1>3, <1>6, <2>4
  <2>6. \A r \in Range3 : Fair(used'[f][r], fuzzARITarget)
    BY <1>14, <2>1
  <2> QED BY <2>3, <2>5, <2>6 DEF RoundsDone, Fair, Due, Slack
<1>22. startupInterval'[f] = startupInterval[f]
  BY <1>1
<1> QED BY <1>5, <1>13, <1>15, <1>20, <1>21, <1>22
        DEF RoundInv, Fair, Due, Slack, Turns, TurnsOf, i, n, u

\* Each fuzzer's round is kept by its own tick, by those of others and by the clock.
LEMMA ARIStep ==
  ASSUME StartsInTime, ARIInv, [Next]_vars
  PROVE  ARIInv'
<1>1. ARITypes'
  BY ARITypesKept DEF ARIInv
<1>2. ASSUME NEW f \in Fuzzer, GoesRound(f) PROVE RoundInv(f)'
  <2>1. RoundInv(f) /\ ARITypes
    BY <1>2 DEF ARIInv
  <2>2. f \in Nat
    BY Constants DEF Fuzzer
  <2>3. CASE Tick(f)
    <3>1. CASE startupInterval[f] < startupCycle
      BY <2>1, <2>3, <3>1, RoundStarts
    <3>2. CASE ~(startupInterval[f] < startupCycle)
      <4>1. /\ pos = f /\ pos' = f + 1 /\ time' = time /\ Step(f)
            /\ startupInterval' = startupInterval
        BY <2>3, <3>2 DEF Tick
      <4>2. CASE time >= ari[f].time
        BY <1>2, <2>1, <2>3, <3>2, <4>2, RoundTurns
      <4>3. CASE ~(time >= ari[f].time)
        <5>1. used' = [used EXCEPT ![f][InUse(f)] = @ + timeStep] /\ ari' = ari
          BY <1>2, <2>1, <4>1, <4>3, StepRanges DEF GoesRound
        <5>2. time < ari[f].time
          BY <2>1, <4>3 DEF ARITypes, ARI
        <5> QED BY <2>1, <3>2, <4>1, <5>1, <5>2, RoundGoesOn
      <4> QED BY <4>2, <4>3
    <3> QED BY <3>1, <3>2
  <2>4. ASSUME NEW g \in Fuzzer \ {f}, Tick(g) PROVE RoundInv(f)'
    <3>1. pos = g /\ pos' = g + 1 /\ time' = time /\ (finished => finished')
      BY <2>4 DEF Tick
    <3>2. startupInterval'[f] = startupInterval[f] /\ ari'[f] = ari[f] /\ used'[f] = used[f]
      <4>1. CASE startupInterval[g] < startupCycle
        BY <2>1, <2>4, <4>1 DEF Tick, ARITypes
      <4>2. CASE ~(startupInterval[g] < startupCycle)
        <5>1. Step(g) /\ UNCHANGED startupInterval
          BY <2>4, <4>2 DEF Tick
        <5> QED BY <2>1, <2>4, <5>1, StepRanges DEF ARITypes
      <4> QED BY <4>1, <4>2
    <3>3. Now(f)' = Now(f) /\ (pos > f => pos' > f)
      BY <2>1, <2>4, <3>1, NowMoves
    <3>4. ari[f].count = fuzzARITarget => finished' /\ pos' > f /\ time' = time
      BY <2>1, <3>1, <3>3 DEF RoundInv, RoundsDone
    <3> QED BY <2>1, <3>2, <3>3, <3>4, RoundElsewhere
  <2>5. CASE Cycle
    <3>1. /\ pos = Len(Kind) + 1 /\ pos' = 1 /\ time' = time + timeStep /\ ~finished
          /\ UNCHANGED <<startupInterval, ari, used>>
      BY <2>5 DEF Cycle, seqVars
    <3>2. Now(f)' = Now(f)
      BY <2>1, <3>1, NowMoves
    <3>3. ari[f].count # fuzzARITarget
      BY <2>1, <3>1 DEF RoundInv, RoundsDone
    <3> QED BY <2>1, <3>1, <3>2, <3>3, RoundElsewhere
  <2>6. CASE Finished
    <3>1. /\ pos = Len(Kind) + 1 /\ pos' = pos + 1 /\ time' = time
          /\ UNCHANGED <<finished, startupInterval, ari, used>>
      BY <2>6 DEF Finished
    <3>2. Now(f)' = Now(f)
      BY <2>1, <3>1, NowMoves
    <3>3. ari[f].count = fuzzARITarget => finished' /\ pos' > f /\ time' = time
      BY <2>1, <2>2, <3>1, Constants DEF RoundInv, RoundsDone
    <3> QED BY <2>1, <3>1, <3>2, <3>3, RoundElsewhere
  <2>7. CASE UNCHANGED vars
    <3>1. UNCHANGED <<pos, time, finished, startupInterval, ari, used>>
      BY <2>7 DEF vars, seqVars
    <3>2. ari[f].count = fuzzARITarget => finished' /\ pos' > f /\ time' = time
      BY <2>1, <3>1 DEF RoundInv, RoundsDone
    <3>3. Now(f)' = Now(f)
      BY <3>1 DEF Now
    <3> QED BY <2>1, <3>1, <3>2, <3>3, RoundElsewhere
  <2> QED BY <2>3, <2>4, <2>5, <2>6, <2>7 DEF Next
<1>3. UNCHANGED mode
  BY DEF Next, Tick, Cycle, Finished, vars
<1> QED BY <1>1, <1>2, <1>3 DEF ARIInv, GoesRound

\* A run that ends by FUZZ_ARI ends at the documented time, with every range used
\* for its share (CFuzzer.cpp:329, ULFuzzer.cpp), for any fuzzers, interval, target,
\* start-up, clock and seed, if the start-up is over before the first change is due.
THEOREM RangesOnTime == ASSUME StartsInTime PROVE Spec => []RangesInTime
<1>1. Init => ARIInv
  BY ARIInit
<1>2. ARIInv /\ [Next]_vars => ARIInv'
  BY ARIStep
<1>3. ARIInv => RangesInTime
  <2> SUFFICES ASSUME ARIInv, NEW f \in Fuzzer, ByARI(f)
               PROVE  /\ time - 3 * fuzzARIInterval * fuzzARITarget \in 0 .. timeStep - 1
                      /\ \A r \in Range3 :
                           Abs(used[f][r] - fuzzARIInterval * fuzzARITarget)
                             <= timeStep * (fuzzARITarget + startupCycle)
    BY DEF RangesInTime
  <2>1. RoundsDone(f)
    BY DEF ARIInv, GoesRound, ByARI, RoundInv
  <2>2. fuzzARIInterval \in Nat /\ fuzzARITarget \in Nat
    BY Constants
  <2>3. /\ Due(3 * fuzzARITarget) = 3 * fuzzARIInterval * fuzzARITarget
        /\ Due(fuzzARITarget) = fuzzARIInterval * fuzzARITarget
    BY <2>2 DEF Due
  <2>4. Slack(fuzzARITarget) \in Nat /\ Due(fuzzARITarget) \in Nat
    BY <2>2, Products
  <2>5. ASSUME NEW r \in Range3
        PROVE  Abs(used[f][r] - Due(fuzzARITarget)) <= Slack(fuzzARITarget)
    <3>1. used[f][r] \in Nat
      BY DEF ARIInv, ARITypes
    <3>2. used[f][r] - Due(fuzzARITarget) \in (-Slack(fuzzARITarget)) .. Slack(fuzzARITarget)
      BY <2>1 DEF RoundsDone, Fair
    <3> QED BY <2>4, <3>1, <3>2 DEF Abs
  <2> QED BY <2>1, <2>3, <2>5 DEF RoundsDone, Slack
<1> QED BY <1>1, <1>2, <1>3, PTL DEF Spec

-----------------------------------------------------------------------------
(* Sums over a sequence *)

\* Induction over the naturals for sets: the library's takes an operator.
LEMMA SetInduction ==
  ASSUME NEW T, 0 \in T, \A n \in Nat : n \in T => n + 1 \in T
  PROVE  Nat \subseteq T
<1> SUFFICES ASSUME Nat \ T # {} PROVE FALSE
  OBVIOUS
<1>1. PICK x \in Nat \ T : \A y \in Nat \ T : x <= y
  BY LeastOf
<1>2. x # 0 /\ x - 1 \in Nat /\ (x - 1) + 1 = x
  BY <1>1
<1>3. x - 1 \in T
  BY <1>1, <1>2
<1> QED BY <1>1, <1>2, <1>3

\* A distribution: cycles and blocks.
Pairs == Nat \X Nat

\* The partial sums of the i-th components of the first m members of s.
Partial(g, s, i, m) ==
  /\ g = [n \in 0 .. m |-> g[n]] /\ g[0] = 0
  /\ \A n \in 1 .. m : g[n] = g[n - 1] + s[n][i]

\* The recursive function of Sum exists.
LEMMA PartialExists ==
  ASSUME NEW s \in Seq(Pairs), NEW i \in 1 .. 2
  PROVE  \E g : Partial(g, s, i, Len(s))
<1> DEFINE T == {m \in Nat : \E g : Partial(g, s, i, m)}
<1>1. 0 \in T
  <2>1. Partial([n \in 0 .. 0 |-> 0], s, i, 0)
    BY DEF Partial
  <2> QED BY <2>1
<1>2. ASSUME NEW m \in Nat, m \in T PROVE m + 1 \in T
  <2>1. PICK g : Partial(g, s, i, m)
    BY <1>2
  <2> DEFINE v == g[m] + s[m + 1][i]
             h == [n \in 0 .. m + 1 |-> IF n = m + 1 THEN v ELSE g[n]]
  <2>2. h[m + 1] = v /\ \A n \in 0 .. m : h[n] = g[n]
    OBVIOUS
  <2>3. h = [n \in 0 .. m + 1 |-> h[n]]
    OBVIOUS
  <2> HIDE DEF h, v
  <2>4. h[0] = 0
    BY <2>1, <2>2 DEF Partial
  <2>5. ASSUME NEW n \in 1 .. m + 1 PROVE h[n] = h[n - 1] + s[n][i]
    <3>1. CASE n = m + 1
      <4>1. n - 1 = m /\ m \in 0 .. m
        BY <3>1
      <4> QED BY <2>2, <3>1, <4>1 DEF v
    <3>2. CASE n # m + 1
      <4>1. n \in 1 .. m /\ n \in 0 .. m /\ n - 1 \in 0 .. m
        BY <3>2
      <4> QED BY <2>1, <2>2, <4>1 DEF Partial
    <3> QED BY <3>1, <3>2
  <2>6. Partial(h, s, i, m + 1)
    BY <2>3, <2>4, <2>5 DEF Partial
  <2> QED BY <2>6
<1> HIDE DEF T
<1>3. Nat \subseteq T
  BY <1>1, <1>2, SetInduction
<1>4. Len(s) \in T
  BY <1>3
<1> QED BY <1>4 DEF T

\* Sum(s, i) is the last of the partial sums.
LEMMA SumIsLast ==
  ASSUME NEW s \in Seq(Pairs), NEW i \in 1 .. 2
  PROVE  \E g : Partial(g, s, i, Len(s)) /\ Sum(s, i) = g[Len(s)]
<1> DEFINE Eq(g) == g = [n \in 0 .. Len(s) |-> IF n = 0 THEN 0 ELSE g[n - 1] + s[n][i]]
<1>1. \E g : Eq(g)
  <2>1. PICK g : Partial(g, s, i, Len(s))
    BY PartialExists
  <2>2. ASSUME NEW n \in 0 .. Len(s) PROVE g[n] = IF n = 0 THEN 0 ELSE g[n - 1] + s[n][i]
    <3>1. n = 0 \/ n \in 1 .. Len(s)
      OBVIOUS
    <3>2. g[0] = 0 /\ \A m \in 1 .. Len(s) : g[m] = g[m - 1] + s[m][i]
      BY <2>1 DEF Partial
    <3> HIDE DEF Eq
    <3> QED BY <3>1, <3>2
  <2>3. g = [n \in 0 .. Len(s) |-> g[n]]
    BY <2>1 DEF Partial
  <2>4. Eq(g)
    BY <2>2, <2>3
  <2> QED BY <2>4
<1>2. Sum(s, i) = (CHOOSE g : Eq(g))[Len(s)]
  BY DEF Sum
<1>3. PICK g : g = CHOOSE h : Eq(h)
  OBVIOUS
<1> HIDE DEF Eq
<1>4. Eq(g)
  BY <1>1, <1>3
<1>5. g = [n \in 0 .. Len(s) |-> g[n]] /\ g[0] = 0
  BY <1>4 DEF Eq
<1>6. \A n \in 1 .. Len(s) : g[n] = g[n - 1] + s[n][i]
  BY <1>4 DEF Eq
<1> QED BY <1>2, <1>3, <1>5, <1>6 DEF Partial

\* Partial sums of sequences that begin alike are alike.
LEMMA PartialAgree ==
  ASSUME NEW s \in Seq(Pairs), NEW i \in 1 .. 2, NEW t \in Seq(Pairs), NEW g, NEW h,
         Len(s) <= Len(t), \A n \in 1 .. Len(s) : t[n] = s[n],
         Partial(g, s, i, Len(s)), Partial(h, t, i, Len(t))
  PROVE  \A n \in 0 .. Len(s) : g[n] \in Nat /\ h[n] = g[n]
<1> DEFINE T == {m \in Nat : m <= Len(s) => g[m] \in Nat /\ h[m] = g[m]}
<1>1. 0 \in T
  BY DEF Partial
<1>2. ASSUME NEW m \in Nat, m \in T PROVE m + 1 \in T
  <2> SUFFICES ASSUME m + 1 <= Len(s) PROVE g[m + 1] \in Nat /\ h[m + 1] = g[m + 1]
    OBVIOUS
  <2>1. m + 1 \in 1 .. Len(s) /\ m + 1 \in 1 .. Len(t) /\ (m + 1) - 1 = m
    OBVIOUS
  <2>2. g[m] \in Nat /\ h[m] = g[m]
    BY <1>2, <2>1
  <2>3. g[m + 1] = g[m] + s[m + 1][i] /\ h[m + 1] = h[m] + t[m + 1][i]
    BY <2>1 DEF Partial
  <2>4. s[m + 1][i] \in Nat
    <3>1. s[m + 1] \in Pairs
      BY <2>1
    <3>2. \A e \in Pairs : e[1] \in Nat /\ e[2] \in Nat
      BY DEF Pairs
    <3>3. i = 1 \/ i = 2
      OBVIOUS
    <3> QED BY <3>1, <3>2, <3>3
  <2>5. t[m + 1] = s[m + 1]
    BY <2>1
  <2> DEFINE v == s[m + 1][i]
  <2>6. v \in Nat /\ g[m + 1] = g[m] + v /\ h[m + 1] = h[m] + v
    BY <2>3, <2>4, <2>5
  <2> HIDE DEF v, T
  <2> QED BY <2>2, <2>6
<1> HIDE DEF T
<1>3. Nat \subseteq T
  BY <1>1, <1>2, SetInduction
<1> QED BY <1>3 DEF T

\* What another member adds.
LEMMA SumAppend ==
  ASSUME NEW s \in Seq(Pairs), NEW i \in 1 .. 2, NEW e \in Pairs
  PROVE  /\ Sum(s, i) \in Nat /\ e[i] \in Nat
         /\ Sum(Append(s, e), i) = Sum(s, i) + e[i]
<1> DEFINE t == Append(s, e)
           n == Len(s)
<1>1. t \in Seq(Pairs) /\ Len(t) = n + 1 /\ n \in Nat /\ t[n + 1] = e
      /\ \A k \in 1 .. n : t[k] = s[k]
  OBVIOUS
<1>2. e[i] \in Nat
  BY DEF Pairs
<1> HIDE DEF t
<1>3. PICK g : Partial(g, s, i, Len(s)) /\ Sum(s, i) = g[Len(s)]
  BY SumIsLast
<1>4. PICK h : Partial(h, t, i, Len(t)) /\ Sum(t, i) = h[Len(t)]
  BY <1>1, SumIsLast
<1>5. g[n] \in Nat /\ h[n] = g[n]
  <2>1. \A k \in 0 .. Len(s) : g[k] \in Nat /\ h[k] = g[k]
    BY <1>1, <1>3, <1>4, PartialAgree
  <2> QED BY <1>1, <2>1
<1>6. h[n + 1] = h[n] + t[n + 1][i]
  <2>1. n + 1 \in 1 .. Len(t) /\ (n + 1) - 1 = n
    BY <1>1
  <2> QED BY <1>4, <2>1 DEF Partial
<1> QED BY <1>1, <1>2, <1>3, <1>4, <1>5, <1>6 DEF t

\* Nothing adds up to nothing.
LEMMA SumEmpty ==
  ASSUME NEW i \in 1 .. 2
  PROVE  Sum(<<>>, i) = 0
<1>1. <<>> \in Seq(Pairs) /\ Len(<<>>) = 0
  OBVIOUS
<1>2. PICK g : Partial(g, <<>>, i, 0) /\ Sum(<<>>, i) = g[0]
  BY <1>1, SumIsLast
<1> QED BY <1>2 DEF Partial

-----------------------------------------------------------------------------
(* The profiler *)

\* Types of a profile.
Profile ==
  [addr : Nat, cycle : Nat, count : Nat, split : Nat, dCycle : Nat, dCount : Nat,
   distributions : Seq(Pairs)]

\* Each distribution but the first is as long as all before it.
Doubled(d, n) == \A i \in 2 .. n : d[i][2] = Sum(SubSeq(d, 1, i - 1), 2)

\* A profile, with the distribution in progress (dCycle, dCount).
ProfileInv(p) ==
  /\ p \in Profile
  /\ Sum(p.distributions, 1) + p.dCycle = p.cycle
  /\ Sum(p.distributions, 2) + p.dCount = p.count
  /\ p.addr = fuzzStreamStart + p.count * Stride
  /\ p.distributions # <<>> => p.split = 2 * Sum(p.distributions, 2)
  /\ Doubled(p.distributions, Len(p.distributions))

\* The profile reported.
ProfileDone(p) ==
  /\ Sum(p.distributions, 1) = p.cycle
  /\ Sum(p.distributions, 2) = p.count
  /\ p.addr = fuzzStreamStart + p.count * Stride
  /\ Doubled(p.distributions, Len(p.distributions) - 1)

\* A profiler moves on.
LEMMA StrideIsPositive == Stride \in Nat \ {0}
<1>1. /\ fuzzStreamStep \in Nat \ {0} /\ BWPROF_STRIDE_ELEMENT \in Nat \ {0}
  BY ConfigAssumption
<1>2. fuzzStreamStep \div BWPROF_STRIDE_ELEMENT \in Nat
  BY <1>1
<1> DEFINE k == IF fuzzStreamStep \div BWPROF_STRIDE_ELEMENT = 0 THEN 1
                ELSE fuzzStreamStep \div BWPROF_STRIDE_ELEMENT
<1>3. k \in Nat \ {0}
  BY <1>2
<1>4. Stride = BWPROF_STRIDE_ELEMENT * k
  BY DEF Stride
<1> HIDE DEF k
<1> QED BY <1>1, <1>3, <1>4

\* Another distribution leaves the lengths of those before as they are.
LEMMA DoubledAppend ==
  ASSUME NEW d \in Seq(Pairs), NEW e \in Pairs, Doubled(d, Len(d))
  PROVE  /\ Doubled(Append(d, e), Len(d))
         /\ d = <<>> \/ e[2] = Sum(d, 2) => Doubled(Append(d, e), Len(d) + 1)
<1>1. ASSUME NEW i \in 2 .. Len(d) + 1
      PROVE  SubSeq(Append(d, e), 1, i - 1) = SubSeq(d, 1, i - 1)
  OBVIOUS
<1>2. SubSeq(d, 1, Len(d)) = d
  OBVIOUS
<1>3. /\ \A i \in 2 .. Len(d) : Append(d, e)[i] = d[i]
      /\ Append(d, e)[Len(d) + 1] = e
  OBVIOUS
<1>4. ASSUME NEW i \in 2 .. Len(d)
      PROVE  Append(d, e)[i][2] = Sum(SubSeq(Append(d, e), 1, i - 1), 2)
  <2>1. i \in 2 .. Len(d) + 1
    OBVIOUS
  <2> QED BY <1>1, <1>3, <2>1 DEF Doubled
<1>5. ASSUME d # <<>>, e[2] = Sum(d, 2)
      PROVE  Append(d, e)[Len(d) + 1][2]
               = Sum(SubSeq(Append(d, e), 1, (Len(d) + 1) - 1), 2)
  <2>1. Len(d) + 1 \in 2 .. Len(d) + 1 /\ (Len(d) + 1) - 1 = Len(d)
    BY <1>5
  <2> QED BY <1>1, <1>2, <1>3, <1>5, <2>1
<1>6. ASSUME d = <<>> \/ e[2] = Sum(d, 2), NEW i \in 2 .. Len(d) + 1
      PROVE  Append(d, e)[i][2] = Sum(SubSeq(Append(d, e), 1, i - 1), 2)
  <2>1. CASE i \in 2 .. Len(d)
    BY <1>4, <2>1
  <2>2. CASE i \notin 2 .. Len(d)
    <3>1. i = Len(d) + 1 /\ d # <<>>
      BY <2>2
    <3> QED BY <1>5, <1>6, <3>1
  <2> QED BY <2>1, <2>2
<1> QED BY <1>4, <1>6 DEF Doubled

\* A cycle of the profiler, before the distribution is looked at.
Counted(p, n) ==
  [p EXCEPT !.cycle = @ + 1, !.dCycle = @ + 1,
            !.addr = @ + n * Stride, !.count = @ + n, !.dCount = @ + n]

\* A counted cycle is in the distribution in progress.
LEMMA CountedKeeps ==
  ASSUME NEW p, ProfileInv(p), NEW n \in 0 .. 1
  PROVE  ProfileInv(Counted(p, n))
<1> DEFINE q == Counted(p, n)
<1>1. p \in Profile
  BY DEF ProfileInv
<1>2. /\ q.cycle = p.cycle + 1 /\ q.dCycle = p.dCycle + 1 /\ q.addr = p.addr + n * Stride
      /\ q.count = p.count + n /\ q.dCount = p.dCount + n
      /\ q.split = p.split /\ q.distributions = p.distributions
  BY <1>1 DEF Counted, Profile
<1>3. n * Stride \in Nat /\ Stride \in Nat
  BY StrideIsPositive
<1>4. q \in Profile
  <2>1. /\ p.addr + n * Stride \in Nat /\ p.cycle + 1 \in Nat /\ p.dCycle + 1 \in Nat
        /\ p.count + n \in Nat /\ p.dCount + n \in Nat
    <3>1. /\ p.addr \in Nat /\ p.cycle \in Nat /\ p.dCycle \in Nat /\ p.count \in Nat
          /\ p.dCount \in Nat
      BY <1>1 DEF Profile
    <3> QED BY <1>3, <3>1
  <2> DEFINE x == p.addr + n * Stride
  <2> HIDE DEF x
  <2>2. q = [p EXCEPT !.cycle = @ + 1, !.dCycle = @ + 1,
                      !.addr = x, !.count = @ + n, !.dCount = @ + n]
    BY DEF Counted, x
  <2>3. x \in Nat
    BY <2>1 DEF x
  <2> HIDE DEF q
  <2> QED BY <1>1, <2>1, <2>2, <2>3 DEF Profile
<1>5. /\ p.cycle \in Nat /\ p.dCycle \in Nat /\ p.addr \in Nat /\ p.count \in Nat
      /\ p.dCount \in Nat /\ p.distributions \in Seq(Pairs) /\ fuzzStreamStart \in Nat
  BY <1>1, ConfigAssumption DEF Profile
<1>6. Sum(p.distributions, 1) \in Nat /\ Sum(p.distributions, 2) \in Nat
  <2>1. <<0, 0>> \in Pairs
    BY DEF Pairs
  <2> QED BY <1>5, <2>1, SumAppend
<1>7. (p.count + n) * Stride = p.count * Stride + n * Stride
  BY <1>3, <1>5
<1>8. p.count * Stride \in Nat
  BY <1>3, <1>5
<1> HIDE DEF q
<1>9. /\ Sum(q.distributions, 1) + q.dCycle = q.cycle
      /\ Sum(q.distributions, 2) + q.dCount = q.count
  <2> DEFINE c == Sum(p.distributions, 1)
             b == Sum(p.distributions, 2)
  <2>1. c + p.dCycle = p.cycle /\ b + p.dCount = p.count
    BY DEF ProfileInv
  <2>2. Sum(q.distributions, 1) = c /\ Sum(q.distributions, 2) = b
    BY <1>2
  <2>3. c \in Nat /\ b \in Nat
    BY <1>6
  <2> HIDE DEF c, b
  <2>4. c + (p.dCycle + 1) = p.cycle + 1
    BY <1>5, <2>1, <2>3
  <2>5. b + (p.dCount + n) = p.count + n
    BY <1>5, <2>1, <2>3
  <2> QED BY <1>2, <2>2, <2>4, <2>5
<1>10. q.addr = fuzzStreamStart + q.count * Stride
  <2>1. p.addr = fuzzStreamStart + p.count * Stride
    BY DEF ProfileInv
  <2> QED BY <1>2, <1>3, <1>5, <1>7, <1>8, <2>1
<1>11. ProfileInv(q)
  BY <1>2, <1>4, <1>9, <1>10 DEF ProfileInv
<1> QED BY <1>11 DEF q

\* The distribution closed is as long as those before it, since its end is twice
\* the last one's.
LEMMA SplitKeeps ==
  ASSUME NEW p, ProfileInv(p), p.count = p.split
  PROVE  ProfileInv(Split(p))
<1> DEFINE q == Split(p)
           e == <<p.dCycle, p.dCount>>
           d == p.distributions
<1>1. p \in Profile
  BY DEF ProfileInv
<1>2. /\ p.cycle \in Nat /\ p.dCycle \in Nat /\ p.addr \in Nat /\ p.count \in Nat
      /\ p.split \in Nat /\ p.dCount \in Nat /\ d \in Seq(Pairs)
  BY <1>1 DEF Profile
<1>3. e \in Pairs /\ e[1] = p.dCycle /\ e[2] = p.dCount
  BY <1>2 DEF Pairs
<1>4. /\ q.cycle = p.cycle /\ q.count = p.count /\ q.addr = p.addr
      /\ q.dCycle = 0 /\ q.dCount = 0 /\ q.split = p.split * 2
      /\ q.distributions = Append(d, e)
  BY <1>1 DEF Split, Profile
<1>5. q \in Profile
  <2>1. Append(d, e) \in Seq(Pairs) /\ p.split * 2 \in Nat
    BY <1>2, <1>3
  <2> QED BY <1>1, <2>1 DEF Split, Profile
<1>6. /\ Sum(d, 1) + p.dCycle = p.cycle /\ Sum(d, 2) + p.dCount = p.count
      /\ p.addr = fuzzStreamStart + p.count * Stride
      /\ d # <<>> => p.split = 2 * Sum(d, 2)
      /\ Doubled(d, Len(d))
  BY DEF ProfileInv
<1> HIDE DEF q, e, d
<1>7. /\ Sum(d, 1) \in Nat /\ Sum(d, 2) \in Nat
      /\ Sum(Append(d, e), 1) = Sum(d, 1) + p.dCycle
      /\ Sum(Append(d, e), 2) = Sum(d, 2) + p.dCount
  <2>1. Sum(d, 1) \in Nat /\ Sum(Append(d, e), 1) = Sum(d, 1) + e[1]
    BY <1>2, <1>3, SumAppend
  <2>2. Sum(d, 2) \in Nat /\ Sum(Append(d, e), 2) = Sum(d, 2) + e[2]
    BY <1>2, <1>3, SumAppend
  <2> QED BY <1>3, <2>1, <2>2
<1>8. /\ Sum(q.distributions, 1) + q.dCycle = q.cycle
      /\ Sum(q.distributions, 2) + q.dCount = q.count
  BY <1>2, <1>4, <1>6, <1>7
<1>9. q.split = 2 * Sum(q.distributions, 2)
  BY <1>2, <1>4, <1>6, <1>7
<1>10. Doubled(q.distributions, Len(q.distributions))
  <2>1. d = <<>> \/ e[2] = Sum(d, 2)
    BY <1>2, <1>3, <1>6, <1>7
  <2>2. Len(Append(d, e)) = Len(d) + 1
    BY <1>2
  <2> QED BY <1>2, <1>3, <1>4, <1>6, <2>1, <2>2, DoubledAppend
<1>11. q.addr = fuzzStreamStart + q.count * Stride
  BY <1>4, <1>6
<1>12. ProfileInv(q)
  BY <1>5, <1>8, <1>9, <1>10, <1>11 DEF ProfileInv
<1> QED BY <1>12 DEF q

\* The report closes the distribution in progress.
LEMMA ReportAddsUp ==
  ASSUME NEW p, ProfileInv(p)
  PROVE  ProfileDone([p EXCEPT !.distributions = Append(@, <<p.dCycle, p.dCount>>)])
<1> DEFINE q == [p EXCEPT !.distributions = Append(@, <<p.dCycle, p.dCount>>)]
           e == <<p.dCycle, p.dCount>>
           d == p.distributions
<1>1. p \in Profile
  BY DEF ProfileInv
<1>2. p.dCycle \in Nat /\ p.dCount \in Nat /\ d \in Seq(Pairs)
  BY <1>1 DEF Profile
<1>3. e \in Pairs /\ e[1] = p.dCycle /\ e[2] = p.dCount
  BY <1>2 DEF Pairs
<1>4. /\ q.cycle = p.cycle /\ q.count = p.count /\ q.addr = p.addr
      /\ q.distributions = Append(d, e)
  BY <1>1 DEF Profile
<1>5. /\ Sum(d, 1) + p.dCycle = p.cycle /\ Sum(d, 2) + p.dCount = p.count
      /\ p.addr = fuzzStreamStart + p.count * Stride
      /\ Doubled(d, Len(d))
  BY DEF ProfileInv
<1> HIDE DEF q, e, d
<1>6. Sum(Append(d, e), 1) = p.cycle
  BY <1>2, <1>3, <1>5, SumAppend
<1>7. Sum(Append(d, e), 2) = p.count
  BY <1>2, <1>3, <1>5, SumAppend
<1>8. Doubled(Append(d, e), Len(Append(d, e)) - 1)
  <2>1. Len(Append(d, e)) - 1 = Len(d)
    BY <1>2
  <2> QED BY <1>2, <1>3, <1>5, <2>1, DoubledAppend
<1>9. ProfileDone(q)
  BY <1>4, <1>5, <1>6, <1>7, <1>8 DEF ProfileDone
<1> QED BY <1>9 DEF q

\* What TickProfile does to a profile.
LEMMA TickProfileIs ==
  ASSUME NEW f \in Fuzzer, TickProfile(f)
  PROVE  \E n \in 0 .. 1 :
           LET p == Counted(bwprof[f], n) IN
           bwprof' = [bwprof EXCEPT ![f] = IF p.count = p.split THEN Split(p) ELSE p]
<1>1. PICK accepted \in BOOLEAN :
        LET n == IF accepted THEN 1 ELSE 0
            p == Counted(bwprof[f], n)
        IN  bwprof' = [bwprof EXCEPT ![f] = IF p.count = p.split THEN Split(p) ELSE p]
  BY DEF TickProfile, Counted
<1> DEFINE n == IF accepted THEN 1 ELSE 0
<1>2. n \in 0 .. 1
  OBVIOUS
<1> QED BY <1>1, <1>2

\* The profilers.
Profiles(f) == mode[f] = "BWPROF_STREAM_STRIDE_READ"

\* Until the run has ended every profile is in progress, and then the profilers'
\* are closed.
ProfilesInv ==
  /\ pos \in 1 .. Len(Kind) + 2
  /\ DOMAIN bwprof = Fuzzer
  /\ pos < Len(Kind) + 2 => \A f \in Fuzzer : ProfileInv(bwprof[f])
  /\ pos = Len(Kind) + 2 => \A f \in Fuzzer : Profiles(f) => ProfileDone(bwprof[f])

\* The constructors.
LEMMA ProfilesInit == Init => ProfilesInv
<1> SUFFICES ASSUME Init PROVE ProfilesInv
  OBVIOUS
<1>1. Len(Kind) \in Nat /\ fuzzStreamStart \in Nat /\ ProfileBytes \in Nat
  BY KindAssumption, ConfigAssumption
<1>2. pos = 1
  BY DEF Init
<1>3. ASSUME NEW f \in Fuzzer PROVE ProfileInv(bwprof[f])
  <2> DEFINE p == [addr |-> fuzzStreamStart, cycle |-> 0, count |-> 0,
                   split |-> ProfileBytes \div Stride, dCycle |-> 0, dCount |-> 0,
                   distributions |-> <<>>]
  <2>1. bwprof[f] = p
    BY DEF Init
  <2>2. ProfileBytes \div Stride \in Nat
    <3>1. Stride \in Nat \ {0}
      BY StrideIsPositive
    <3> QED BY <1>1, <3>1
  <2>3. p \in Profile
    BY <1>1, <2>2 DEF Profile
  <2>4. /\ p.addr = fuzzStreamStart /\ p.cycle = 0 /\ p.count = 0 /\ p.dCycle = 0 /\ p.dCount = 0
        /\ p.distributions = <<>>
    OBVIOUS
  <2> HIDE DEF p
  <2>5. Sum(p.distributions, 1) = 0 /\ Sum(p.distributions, 2) = 0
    BY <2>4, SumEmpty
  <2>6. p.addr = fuzzStreamStart + p.count * Stride
    BY <1>1, <2>4, StrideIsPositive
  <2>7. Doubled(p.distributions, Len(p.distributions))
    BY <2>4 DEF Doubled
  <2> QED BY <2>1, <2>3, <2>4, <2>5, <2>6, <2>7 DEF ProfileInv
<1>4. DOMAIN bwprof = Fuzzer
  BY DEF Init
<1> QED BY <1>1, <1>2, <1>3, <1>4 DEF ProfilesInv

\* Ticks, the clock and the report.
LEMMA ProfilesStep ==
  ASSUME ProfilesInv, [Next]_vars
  PROVE  ProfilesInv'
<1>0. Fuzzer = 1 .. Len(Kind) /\ Len(Kind) \in Nat
  BY KindAssumption DEF Fuzzer
<1>1. ASSUME NEW f \in Fuzzer, Tick(f) PROVE ProfilesInv'
  <2>1. f \in 1 .. Len(Kind) /\ pos = f /\ pos' = f + 1
    BY <1>0, <1>1 DEF Tick
  <2>2. pos' \in 1 .. Len(Kind) + 2 /\ pos' < Len(Kind) + 2 /\ pos < Len(Kind) + 2
    BY <1>0, <2>1
  <2>3. \A g \in Fuzzer : ProfileInv(bwprof[g])
    BY <2>2 DEF ProfilesInv
  <2>4. UNCHANGED bwprof \/ TickProfile(f)
    BY <1>1 DEF Tick, Step, TickARI, TickStream
  <2>5. DOMAIN bwprof' = Fuzzer /\ \A g \in Fuzzer : ProfileInv(bwprof'[g])
    <3>1. CASE UNCHANGED bwprof
      BY <2>3, <3>1 DEF ProfilesInv
    <3>2. CASE TickProfile(f)
      <4>1. PICK n \in 0 .. 1 :
              LET p == Counted(bwprof[f], n) IN
              bwprof' = [bwprof EXCEPT ![f] = IF p.count = p.split THEN Split(p) ELSE p]
        BY <3>2, TickProfileIs
      <4> DEFINE p == Counted(bwprof[f], n)
                 q == IF p.count = p.split THEN Split(p) ELSE p
      <4>2. bwprof' = [bwprof EXCEPT ![f] = q]
        BY <4>1
      <4>3. ProfileInv(p)
        BY <2>3, CountedKeeps
      <4> HIDE DEF p
      <4>4. ProfileInv(q)
        BY <4>3, SplitKeeps
      <4> HIDE DEF q
      <4> QED BY <2>3, <4>2, <4>4 DEF ProfilesInv
    <3> QED BY <2>4, <3>1, <3>2
  <2> QED BY <2>2, <2>5 DEF ProfilesInv
<1>2. ASSUME Cycle PROVE ProfilesInv'
  <2>1. pos = Len(Kind) + 1 /\ pos' = 1 /\ UNCHANGED bwprof
    BY <1>2 DEF Cycle, seqVars
  <2> QED BY <1>0, <2>1 DEF ProfilesInv
<1>3. ASSUME Finished PROVE ProfilesInv'
  <2>1. pos = Len(Kind) + 1 /\ pos' = Len(Kind) + 2 /\ UNCHANGED mode
    BY <1>0, <1>3 DEF Finished
  <2>2. bwprof' = [f \in Fuzzer |->
          IF mode[f] # "BWPROF_STREAM_STRIDE_READ" THEN bwprof[f]
          ELSE [bwprof[f] EXCEPT !.distributions =
                  Append(@, <<bwprof[f].dCycle, bwprof[f].dCount>>)]]
    BY <1>3 DEF Finished
  <2>3. \A f \in Fuzzer : ProfileInv(bwprof[f])
    BY <1>0, <2>1 DEF ProfilesInv
  <2>4. ASSUME NEW f \in Fuzzer, Profiles(f) PROVE ProfileDone(bwprof'[f])
    <3>1. bwprof'[f] = [bwprof[f] EXCEPT !.distributions =
                          Append(@, <<bwprof[f].dCycle, bwprof[f].dCount>>)]
      BY <2>2, <2>4 DEF Profiles
    <3> QED BY <2>3, <3>1, ReportAddsUp
  <2>5. DOMAIN bwprof' = Fuzzer
    BY <2>2
  <2>6. \A f \in Fuzzer : Profiles(f)' => ProfileDone(bwprof'[f])
    BY <2>1, <2>4 DEF Profiles
  <2> QED BY <1>0, <2>1, <2>5, <2>6 DEF ProfilesInv, ProfileDone
<1>4. ASSUME UNCHANGED vars PROVE ProfilesInv'
  <2>1. UNCHANGED <<pos, bwprof, mode>>
    BY <1>4 DEF vars, seqVars
  <2> QED BY <2>1 DEF ProfilesInv, Profiles
<1> QED BY <1>1, <1>2, <1>3, <1>4 DEF Next

\* The profile of the bandwidth profiler (CFuzzer.cpp:385) accounts for every cycle
\* and every block, once, for any stride, range of addresses and first split,
\* however often the agent has to wait.
THEOREM ProfilesAddUp == Spec => []ProfileAddsUp
<1>1. Init => ProfilesInv
  BY ProfilesInit
<1>2. ProfilesInv /\ [Next]_vars => ProfilesInv'
  BY ProfilesStep
<1>3. ProfilesInv => ProfileAddsUp
  <2> SUFFICES ASSUME ProfilesInv, pos = Len(Kind) + 2, NEW f \in Fuzzer, Profiles(f)
               PROVE  LET p == bwprof[f] IN
                      /\ Sum(p.distributions, 1) = p.cycle
                      /\ Sum(p.distributions, 2) = p.count
                      /\ p.addr = fuzzStreamStart + p.count * Stride
                      /\ \A i \in 2 .. Len(p.distributions) - 1 :
                           p.distributions[i][2] = Sum(SubSeq(p.distributions, 1, i - 1), 2)
    BY DEF ProfileAddsUp, Profiles
  <2>1. ProfileDone(bwprof[f])
    BY DEF ProfilesInv
  <2> QED BY <2>1 DEF ProfileDone, Doubled
<1> QED BY <1>1, <1>2, <1>3, PTL DEF Spec
=============================================================================
