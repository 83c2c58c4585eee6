------------------------------- MODULE Fuzzers -------------------------------
(***************************************************************************)
(* What the fuzzers of the TL-C and TL-UL agents (CFuzzer.cpp,             *)
(* ULFuzzer.cpp) keep between cycles, in each of their modes: the round of *)
(* address ranges (FUZZ_ARI), the address that moves on with time          *)
(* (FUZZ_STREAM) and the bandwidth profiler; and when they end the run.    *)
(* The requests themselves are in the modules of the agents.  `pos' is the *)
(* fuzzer that ticks next in this cycle.                                   *)
(***************************************************************************)
EXTENDS Permutation, Sequences, FiniteSets

CONSTANTS
  Kind,            \* Seq of "C", "UL": the fuzzers, in the order of Tock
  Modes,           \* config, sequenceModes: [DOMAIN Kind -> mode]
  startupCycle, maximumCycles, fuzzARIInterval, fuzzARITarget,        \* config
  fuzzStreamStep, fuzzStreamInterval, fuzzStreamStart, fuzzStreamEnd,
  BWPROF_STRIDE_ELEMENT, ProfileBytes,   \* 64 and 4 * 1024 in the code
  Times,           \* times of the first cycle
  timeStep,        \* time from one cycle to the next: 2 in v3_main.cpp
  Draws,           \* offsets in the window of a stream that are drawn
  MaxDenied,       \* bound: acquires of a profiler that are denied
  MaxTime          \* bound of time, which a run does not reach (FuzzEnds)

Fuzzer == DOMAIN Kind
Range3 == 0 .. 2        \* FUZZ_ARI_RANGES

ASSUME KindAssumption == Kind \in Seq({"C", "UL"})
ASSUME ConfigAssumption ==
  /\ Times \cup maximumCycles \cup {startupCycle, fuzzARITarget, fuzzStreamStart, MaxDenied, MaxTime}
       \cup Draws \subseteq Nat
  /\ {fuzzARIInterval, fuzzStreamStep, fuzzStreamInterval, fuzzStreamEnd,
      BWPROF_STRIDE_ELEMENT, ProfileBytes, timeStep} \subseteq Nat \ {0}

VARIABLES
  pos, time, finished,   \* finished: the finish event has been fired
  mode, maximumCycle,    \* config of this run
  startupInterval,
  ari,             \* of each fuzzer: [index, time, count, ordinal]
  stream,          \* of each fuzzer: [offset, time, ended]
  bwprof,          \* [addr, cycle, count, split, dCycle, dCount, distributions]
  used             \* history: the time each range was in use

seqVars == <<startupInterval, ari, stream, bwprof, used>>
vars == <<pos, time, finished, mode, maximumCycle, seqVars>>

Stride ==
  LET step == fuzzStreamStep \div BWPROF_STRIDE_ELEMENT
  IN  BWPROF_STRIDE_ELEMENT * (IF step = 0 THEN 1 ELSE step)

\* The constructors.  ULFuzzer's leaves startupInterval as it finds it, and the
\* first step of a stream is due at a time that is the length of a step.
Init ==
  /\ pos = 1 /\ time \in Times /\ finished = FALSE
  /\ mode \in Modes /\ maximumCycle \in maximumCycles
  /\ startupInterval \in [Fuzzer -> {0, startupCycle}]
  /\ \A f \in Fuzzer : Kind[f] = "C" => startupInterval[f] = 0
  /\ \E seed \in {s \in [1 .. 3 -> Range3] : \A i, j \in 1 .. 3 : s[i] = s[j] => i = j} :
       ari = [f \in Fuzzer |->
                [index |-> 0, time |-> fuzzARIInterval, count |-> 0, ordinal |-> seed]]
  /\ stream = [f \in Fuzzer |-> [offset |-> 0, time |-> fuzzStreamStep, ended |-> FALSE]]
  /\ bwprof = [f \in Fuzzer |->
       [addr |-> fuzzStreamStart, cycle |-> 0, count |-> 0,
        split |-> ProfileBytes \div Stride, dCycle |-> 0, dCount |-> 0,
        distributions |-> <<>>]]
  /\ used = [f \in Fuzzer |-> [r \in Range3 |-> 0]]

-----------------------------------------------------------------------------
\* The range addresses are drawn from.
InUse(f) == ari[f].ordinal[ari[f].index + 1]

\* Mutant: the round is not counted until the next one begins.
NextRangeLate(a) ==
  LET i == (a.index + 1) % 3
  IN  [index |-> i, time |-> a.time + fuzzARIInterval,
       count |-> IF i = 1 THEN a.count + 1 ELSE a.count,
       ordinal |-> IF i = 0 THEN next_permutation(a.ordinal) ELSE a.ordinal]

\* The next range; after the last one the next order.
NextRange(a) ==
  LET i == (a.index + 1) % 3
  IN  [index |-> i, time |-> a.time + fuzzARIInterval,
       count |-> IF i = 0 THEN a.count + 1 ELSE a.count,
       ordinal |-> IF i = 0 THEN next_permutation(a.ordinal) ELSE a.ordinal]

TickARI(f) ==
  /\ used' = [used EXCEPT ![f][InUse(f)] = @ + timeStep]
  /\ ari' = IF time >= ari[f].time THEN [ari EXCEPT ![f] = NextRange(@)] ELSE ari
  /\ UNCHANGED <<stream, bwprof>>

\* Mutant: the address does not move on.
MovedNever(s) == [s EXCEPT !.time = @ + fuzzStreamInterval]
Moved(s) ==
  [s EXCEPT !.time = @ + fuzzStreamInterval, !.offset = @ + fuzzStreamStep]

\* An address beyond the end is not used: it ends the stream of a TL-C agent.
\* The TL-UL agent's has no end.
TickStream(f) ==
  /\ \E d \in Draws :
       LET s == [stream[f] EXCEPT !.ended =
                   \/ @
                   \/ Kind[f] = "C" /\ fuzzStreamStart + stream[f].offset + d >= fuzzStreamEnd]
       IN  stream' = [stream EXCEPT ![f] = IF time >= s.time THEN Moved(s) ELSE s]
  /\ UNCHANGED <<ari, bwprof, used>>

\* Mutant: the cycles of a distribution go on counting.
SplitDone(p) ==
  [p EXCEPT !.distributions = Append(@, <<p.dCycle, p.dCount>>), !.split = @ * 2,
            !.dCount = 0]
\* A distribution is full: the next one is twice as long.
Split(p) ==
  [p EXCEPT !.distributions = Append(@, <<p.dCycle, p.dCount>>), !.split = @ * 2,
            !.dCycle = 0, !.dCount = 0]

\* The profiler asks for the next block until the agent accepts.
TickProfile(f) ==
  /\ \E accepted \in BOOLEAN :
       LET n == IF accepted THEN 1 ELSE 0
           p == [bwprof[f] EXCEPT !.cycle = @ + 1, !.dCycle = @ + 1,
                                  !.addr = @ + n * Stride, !.count = @ + n, !.dCount = @ + n]
       IN  /\ accepted \/ p.cycle - p.count <= MaxDenied
           /\ bwprof' = [bwprof EXCEPT ![f] = IF p.count = p.split THEN Split(p) ELSE p]
  /\ UNCHANGED <<ari, stream, used>>

Step(f) ==
  \/ mode[f] = "FUZZ_ARI" /\ TickARI(f)
  \/ mode[f] = "FUZZ_STREAM" /\ TickStream(f)
  \/ mode[f] = "BWPROF_STREAM_STRIDE_READ" /\ Kind[f] = "C" /\ TickProfile(f)
  \/ mode[f] = "PASSIVE" /\ UNCHANGED <<ari, stream, bwprof, used>>

\* Only a TL-C agent's fuzzer ends the run.
Fires(f) ==
  /\ Kind[f] = "C"
  /\ \/ mode[f] = "FUZZ_ARI" /\ ari'[f].count = fuzzARITarget
     \/ mode[f] = "FUZZ_STREAM" /\ stream'[f].ended
     \/ mode[f] = "BWPROF_STREAM_STRIDE_READ" /\ bwprof'[f].addr >= fuzzStreamEnd
     \/ maximumCycle > 0 /\ time > maximumCycle

\* tick, of CFuzzer and ULFuzzer
Tick(f) ==
  /\ pos = f /\ pos' = f + 1
  /\ IF startupInterval[f] < startupCycle
     THEN /\ startupInterval' = [startupInterval EXCEPT ![f] = @ + 1]
          /\ UNCHANGED <<finished, ari, stream, bwprof, used>>
     ELSE /\ Step(f)
          /\ finished' = (finished \/ Fires(f))
          /\ UNCHANGED startupInterval
  /\ UNCHANGED <<time, mode, maximumCycle>>

\* The next cycle, while the sequencer is alive.
Cycle ==
  /\ pos = Len(Kind) + 1 /\ ~finished /\ time < MaxTime
  /\ pos' = 1 /\ time' = time + timeStep
  /\ UNCHANGED <<finished, mode, maximumCycle, seqVars>>

\* TLSystemFinishedEvent: the distribution in progress is the last.
Finished ==
  /\ pos = Len(Kind) + 1 /\ finished
  /\ pos' = pos + 1
  /\ bwprof' = [f \in Fuzzer |->
       IF mode[f] # "BWPROF_STREAM_STRIDE_READ" THEN bwprof[f]
       ELSE [bwprof[f] EXCEPT !.distributions =
               Append(@, <<bwprof[f].dCycle, bwprof[f].dCount>>)]]
  /\ UNCHANGED <<time, finished, mode, maximumCycle, startupInterval, ari, stream, used>>

Next == (\E f \in Fuzzer : Tick(f)) \/ Cycle \/ Finished

Spec == Init /\ [][Next]_vars

\* The host runs.
FairSpec == Spec /\ WF_vars(Next)

-----------------------------------------------------------------------------
(* Properties *)

ByARI(f) == Kind[f] = "C" /\ mode[f] = "FUZZ_ARI" /\ ari[f].count = fuzzARITarget
Abs(n) == IF n < 0 THEN -n ELSE n

\* A run ends by FUZZ_ARI at the time README.md promises ("total_time =
\* ARI::element_count * ari.interval * ari.target"), and until then every range
\* was in use for its share of it, whatever the seed made the first order: up to
\* a cycle a turn, and the start-up, which the first turn lacks.
RangesInTime ==
  \A f \in Fuzzer : ByARI(f) =>
    /\ time - 3 * fuzzARIInterval * fuzzARITarget \in 0 .. timeStep - 1
    /\ \A r \in Range3 :
         Abs(used[f][r] - fuzzARIInterval * fuzzARITarget)
           <= timeStep * (fuzzARITarget + startupCycle)

\* The profile reported in the end leaves out no cycle and no block of the
\* stream and counts none twice, and after the first distribution each but the
\* last is as long as all before it together.
Sum(s, i) ==
  LET sum[n \in 0 .. Len(s)] == IF n = 0 THEN 0 ELSE sum[n - 1] + s[n][i] IN sum[Len(s)]
ProfileAddsUp ==
  pos = Len(Kind) + 2 =>
    \A f \in Fuzzer :
      LET p == bwprof[f] IN
      mode[f] = "BWPROF_STREAM_STRIDE_READ" =>
        /\ Sum(p.distributions, 1) = p.cycle
        /\ Sum(p.distributions, 2) = p.count
        /\ p.addr = fuzzStreamStart + p.count * Stride
        /\ \A i \in 2 .. Len(p.distributions) - 1 :
             p.distributions[i][2] = Sum(SubSeq(p.distributions, 1, i - 1), 2)

\* The run of a TL-C agent that is not passive ends, whatever addresses it draws
\* and however often the agent has to wait.
FuzzEnds == <>finished
=============================================================================
