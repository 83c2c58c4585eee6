---------------------------- MODULE UnifiedFuzzer ----------------------------
(***************************************************************************)
(* The Anvil sequence of UnifiedFuzzer.cpp.  In an epoch one agent, the    *)
(* first of `ordinal', acquires a row of blocks (stage U) and releases     *)
(* them again (stage R), and others read them (stage B), each stage with a *)
(* counter that runs after the one before it.  Then the agents change      *)
(* places.  A request an agent cannot take now is tried again next cycle,  *)
(* one it can never take is skipped.                                       *)
(*                                                                         *)
(* An agent is what its do_* functions look at: the blocks it owns with    *)
(* privilege T, and what it has in flight; whether it has a read-only copy *)
(* of a block it does not own is left open.  `pos' is the place in the     *)
(* cycle: channels E and D of each agent, then the stages.  The device     *)
(* (external) probes other copies and waits for each GrantAck.             *)
(***************************************************************************)
EXTENDS Permutation, FiniteSets, Sequences

CONSTANTS
  cAgentCount,
  size, thresholdR, thresholdB, widthB,    \* config, unified.anvil.*
  epochs,          \* cfgAnvil.epoch: the epoch that fires the finish event
  ulAgents,        \* each core has a TL-UL agent, which may get in place of an acquire
  Ids              \* [Agent -> Nat]: size of idpool, 16 in the code

Agent == 1 .. cAgentCount
Block == 0 .. size - 1

ASSUME CountAssumption ==
  {size, cAgentCount, widthB, epochs} \subseteq Nat \ {0} /\ Ids \in [Agent -> Nat \ {0}]
\* InitAnvil asserts these,
ASSUME ConfigAssumption == size >= 8 /\ cAgentCount >= 1 + widthB
\* but not these: with a higher threshold its stage never starts.
ASSUME ThresholdAssumption == thresholdR \in 1 .. size /\ thresholdB \in 1 .. size

VARIABLES
  pos, finished,
  counterU, counterR, counterB, epoch, ordinal,   \* contextAnvil
  complete,        \* the stages that found themselves complete in this tick
  monitoredGrant,  \* blocks of stage U not yet granted, for each agent
  owned,           \* the blocks each agent has with privilege T
  flight           \* what is in flight: "acquireT", "acquireB", "ack", "release"

contextAnvil == <<counterU, counterR, counterB, epoch, ordinal>>
agentVars == <<owned, flight>>
vars == <<pos, finished, contextAnvil, complete, monitoredGrant, agentVars>>

Init ==
  /\ pos = 0 /\ finished = FALSE
  /\ counterU = 0 /\ counterR = 0 /\ counterB = 0 /\ epoch = 0
  /\ ordinal = [i \in Agent |-> i]
  /\ complete = {}
  /\ monitoredGrant = [c \in Agent |-> {}]
  /\ owned = [c \in Agent |-> {}]
  /\ flight = [c \in Agent |-> [a \in Block |-> "none"]]

PlaceU == 2 * cAgentCount + 1
PlaceR == PlaceU + 1
PlaceB(i) == PlaceR + i                  \* i-th iteration, from 1
PlaceEnd == PlaceB(widthB) + 1

\* The handlers of the agents are skipped when nothing fires, a stage never is.
AtAgent(p) == ~finished /\ pos < p /\ p < PlaceU /\ pos' = p
AtStage(p) == ~finished /\ (IF p = PlaceU THEN pos < p ELSE pos = p - 1) /\ pos' = p

-----------------------------------------------------------------------------
(* The agents *)

\* An acknowledgement gives its id back at once, a GrantAck needs none.
HasId(c) == Cardinality({a \in Block : flight[c][a] \notin {"none", "ack"}}) < Ids[c]

\* do_acquirePerm NtoT, do_acquireBlock NtoB: a request that is of no use is
\* rejected, as is one for a block in flight.
MayAcquire(c, a) == flight[c][a] = "none" /\ a \notin owned[c]
MayReject(c, a, kind) ==
  flight[c][a] # "none" \/ a \in owned[c] \/ kind = "acquireB"

\* do_releaseDataAuto: as is a release of nothing.
MayRelease(c, a) == flight[c][a] = "none"
MayNotRelease(c, a) == flight[c][a] # "none" \/ a \notin owned[c]

\* fire_e
GrantAck(c) ==
  /\ AtAgent(2 * c - 1)
  /\ \E a \in Block :
       /\ flight[c][a] = "ack"
       /\ flight' = [flight EXCEPT ![c][a] = "none"]
  /\ UNCHANGED <<finished, contextAnvil, complete, monitoredGrant, owned>>

\* UnifiedFuzzer::OnGrant
OnGrant(c, a) == monitoredGrant' = [monitoredGrant EXCEPT ![c] = @ \ {a}]

\* fire_d: the privilege is the agent's, and GrantEvent is fired, before the
\* GrantAck is sent.  The copies of others were probed.
Grant(c, a) ==
  /\ AtAgent(2 * c)
  /\ flight[c][a] \in {"acquireT", "acquireB"}
  /\ \A o \in Agent, x \in Block : o = c \/ x = a => flight[o][x] # "ack"
  /\ flight' = [flight EXCEPT ![c][a] = "ack"]
  /\ owned' = [o \in Agent |->
                IF o = c /\ flight[c][a] = "acquireT" THEN owned[o] \cup {a}
                ELSE owned[o] \ {a}]
  /\ OnGrant(c, a)
  /\ UNCHANGED <<finished, contextAnvil, complete>>

\* fire_d
ReleaseAck(c, a) ==
  /\ AtAgent(2 * c)
  /\ flight[c][a] = "release"
  /\ flight' = [flight EXCEPT ![c][a] = "none"]
  /\ UNCHANGED <<finished, contextAnvil, complete, monitoredGrant, owned>>

-----------------------------------------------------------------------------
(* TickAnvil *)

\* A stage tries again: a channel is congested, the ids are used up, or a probe
\* is pending.
Retry == UNCHANGED <<contextAnvil, monitoredGrant, agentVars>>

AcquireU ==
  LET c == ordinal[1]
      a == counterU
  IN  /\ counterU < size /\ HasId(c)
      /\ counterU' = counterU + 1
      /\ \/ /\ MayAcquire(c, a)
            /\ flight' = [flight EXCEPT ![c][a] = "acquireT"]
            /\ monitoredGrant' = [monitoredGrant EXCEPT ![c] = @ \cup {a}]
         \/ MayReject(c, a, "acquireT") /\ UNCHANGED <<monitoredGrant, flight>>
      /\ UNCHANGED <<owned, counterR, counterB, epoch, ordinal>>

StageU ==
  /\ AtStage(PlaceU)
  /\ complete' = IF counterU < size THEN {} ELSE {"U"}
  /\ AcquireU \/ Retry
  /\ UNCHANGED finished

\* Mutant: the release does not wait for the grant.
ReleasableSoon == counterR < counterU /\ counterU >= thresholdR
\* Mutant: R waits for its threshold to be passed, not reached.
ReleasableLate ==
  /\ counterR < counterU /\ counterU > thresholdR + size \div 4
  /\ counterR \notin monitoredGrant[ordinal[1]]
\* Stage R has a block that stage U has passed and the device has granted.
Releasable ==
  /\ counterR < counterU /\ counterU >= thresholdR
  /\ counterR \notin monitoredGrant[ordinal[1]]

ReleaseR ==
  LET c == ordinal[1]
      a == counterR
  IN  /\ counterR < size /\ Releasable /\ HasId(c)
      /\ counterR' = counterR + 1
      /\ \/ /\ MayRelease(c, a)
            /\ flight' = [flight EXCEPT ![c][a] = "release"]
            /\ owned' = [owned EXCEPT ![c] = @ \ {a}]
         \/ MayNotRelease(c, a) /\ UNCHANGED agentVars
      /\ UNCHANGED <<counterU, counterB, epoch, ordinal, monitoredGrant>>

StageR ==
  /\ AtStage(PlaceR)
  /\ complete' = IF counterR < size THEN complete ELSE complete \cup {"R"}
  /\ ReleaseR \/ Retry
  /\ UNCHANGED finished

Readable == counterR >= thresholdB /\ counterB < size /\ counterB < counterR

AcquireB(i) ==
  LET c == ordinal[1 + i]
      a == counterB
  IN  /\ Readable /\ HasId(c)
      /\ counterB' = counterB + 1
      /\ \/ MayAcquire(c, a) /\ flight' = [flight EXCEPT ![c][a] = "acquireB"]
         \/ MayReject(c, a, "acquireB") /\ UNCHANGED flight
      /\ UNCHANGED <<counterU, counterR, epoch, ordinal, monitoredGrant, owned>>

\* The acquire must wait: a Get of the core's TL-UL agent is as good.
GetB ==
  /\ ulAgents /\ Readable
  /\ counterB' = counterB + 1
  /\ UNCHANGED <<counterU, counterR, epoch, ordinal, monitoredGrant, agentVars>>

StageB(i) ==
  /\ AtStage(PlaceB(i))
  /\ complete' = IF i = 1 /\ counterB = size THEN complete \cup {"B"} ELSE complete
  /\ AcquireB(i) \/ GetB \/ Retry
  /\ UNCHANGED finished

\* The end of TickAnvil, and of the cycle.
EndTick ==
  /\ ~finished /\ pos = PlaceEnd - 1 /\ pos' = 0
  /\ IF complete = {"U", "R", "B"}
     THEN /\ epoch' = epoch + 1
          /\ finished' = (epoch + 1 >= epochs)
          /\ counterU' = 0 /\ counterR' = 0 /\ counterB' = 0
          /\ ordinal' = next_permutation(ordinal)
     ELSE UNCHANGED <<finished, contextAnvil>>
  /\ complete' = {}
  /\ UNCHANGED <<monitoredGrant, agentVars>>

Agents ==
  \E c \in Agent : GrantAck(c) \/ \E a \in Block : Grant(c, a) \/ ReleaseAck(c, a)

Stages == StageU \/ StageR \/ (\E i \in 1 .. widthB : StageB(i)) \/ EndTick

Next == Agents \/ Stages

Spec == Init /\ [][Next]_vars

\* The clock runs; the device answers something as long as anything is in flight;
\* not everything that could be accepted is refused for ever (run settle: an
\* agent's channels and ids come free again).
Fairness ==
  /\ WF_vars(Stages)
  /\ SF_vars(Agents)
  /\ SF_vars(Stages /\ contextAnvil' # contextAnvil)

FairSpec == Spec /\ Fairness

-----------------------------------------------------------------------------
(* Properties *)

\* No stage overtakes the one before it, and stage R (UnifiedFuzzer.cpp:150-199)
\* passes no block whose acquire of stage U is still to be granted, although
\* grants come in any order and the monitor is cleared by an event. It speaks
\* of the acquires of stage U only: stage R does pass a block, without releasing
\* it, while its GrantAck is still to be sent or while an acquire that stage B of
\* the epoch before made is to be granted (lines 168-176; MayNotRelease).
StagesInOrder ==
  /\ counterB <= counterR /\ counterR <= counterU /\ counterU <= size
  /\ \A c \in Agent, a \in Block :
       flight[c][a] = "acquireT" => c = ordinal[1] /\ a \in counterR .. counterU - 1

\* Every epoch ends, whatever is in flight from the one before, and the last
\* one fires the finish event.
EpochsEnd == <>finished

\* Stage R waits for a block instead of skipping it ("don't skip and retry on
\* running ahead"): what the first agent has acquired in stage U it no longer
\* owns when stage R has passed it.
NothingSkipped == owned[ordinal[1]] \cap (0 .. counterR - 1) = {}
=============================================================================
