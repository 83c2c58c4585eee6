------------------------ MODULE UnifiedFuzzerProofs ------------------------
(***************************************************************************)
(* Proofs about the Anvil sequence, for every number of agents and ids,    *)
(* every size, width and threshold.                                        *)
(***************************************************************************)
EXTENDS UnifiedFuzzer, TLAPS

\* The kinds of the variables the argument is about.
Kinds ==
  /\ counterU \in 0 .. size /\ counterR \in 0 .. size /\ counterB \in 0 .. size
  /\ flight \in [Agent -> [Block -> {"none", "acquireT", "acquireB", "ack", "release"}]]
  /\ monitoredGrant \in [Agent -> SUBSET Block]

\* What is acquired in stage U and not yet granted is monitored.
Monitored ==
  \A c \in Agent, a \in Block : flight[c][a] = "acquireT" => a \in monitoredGrant[c]

\* A stage that was complete in this tick still is.
StillComplete ==
  /\ "U" \in complete => counterU = size
  /\ "R" \in complete => counterR = size

\* The inductive strengthening of StagesInOrder.
AnvilInv == Kinds /\ Monitored /\ StillComplete /\ StagesInOrder

LEMMA AnvilInit == Init => AnvilInv
<1> SUFFICES ASSUME Init PROVE AnvilInv
  OBVIOUS
<1>1. /\ counterU = 0 /\ counterR = 0 /\ counterB = 0 /\ complete = {}
      /\ monitoredGrant = [c \in Agent |-> {}]
      /\ flight = [c \in Agent |-> [a \in Block |-> "none"]]
  BY DEF Init
<1>2. Kinds
  BY <1>1, CountAssumption DEF Kinds
<1> QED BY <1>1, <1>2, CountAssumption
        DEF AnvilInv, Monitored, StillComplete, StagesInOrder

LEMMA AnvilGrantAck ==
  ASSUME AnvilInv, NEW c \in Agent, GrantAck(c)
  PROVE  AnvilInv'
<1>1. PICK a \in Block : flight' = [flight EXCEPT ![c][a] = "none"]
  BY DEF GrantAck
<1>2. UNCHANGED <<counterU, counterR, counterB, ordinal, complete, monitoredGrant>>
  BY DEF GrantAck, contextAnvil
<1> QED BY <1>1, <1>2 DEF AnvilInv, Kinds, Monitored, StillComplete, StagesInOrder

LEMMA AnvilGrant ==
  ASSUME AnvilInv, NEW c \in Agent, NEW a \in Block, Grant(c, a)
  PROVE  AnvilInv'
<1>1. /\ flight' = [flight EXCEPT ![c][a] = "ack"]
      /\ monitoredGrant' = [monitoredGrant EXCEPT ![c] = @ \ {a}]
      /\ UNCHANGED <<counterU, counterR, counterB, ordinal, complete>>
  BY DEF Grant, OnGrant, contextAnvil
<1>2. \A d \in Agent, x \in Block :
        flight'[d][x] = "acquireT" =>
          /\ flight[d][x] = "acquireT"
          /\ x \in monitoredGrant[d] => x \in monitoredGrant'[d]
  BY <1>1 DEF AnvilInv, Kinds
<1> QED BY <1>1, <1>2 DEF AnvilInv, Kinds, Monitored, StillComplete, StagesInOrder

LEMMA AnvilReleaseAck ==
  ASSUME AnvilInv, NEW c \in Agent, NEW a \in Block, ReleaseAck(c, a)
  PROVE  AnvilInv'
<1>1. /\ flight' = [flight EXCEPT ![c][a] = "none"]
      /\ UNCHANGED <<counterU, counterR, counterB, ordinal, complete, monitoredGrant>>
  BY DEF ReleaseAck, contextAnvil
<1> QED BY <1>1 DEF AnvilInv, Kinds, Monitored, StillComplete, StagesInOrder

\* A stage that tries again, or asks only what StagesInOrder does not speak of,
\* leaves it as it is.
LEMMA AnvilSilent ==
  ASSUME AnvilInv, UNCHANGED <<counterU, counterR, counterB, ordinal, monitoredGrant, flight>>,
         StillComplete'
  PROVE  AnvilInv'
  BY DEF AnvilInv, Kinds, Monitored, StagesInOrder

LEMMA AnvilStageU ==
  ASSUME AnvilInv, StageU
  PROVE  AnvilInv'
<1> DEFINE c == ordinal[1]
           a == counterU
<1>1. AcquireU \/ Retry
  BY DEF StageU
<1>4. "R" \notin complete' /\ ("U" \in complete' => ~(counterU < size))
  BY DEF StageU
<1>2. CASE Retry
  <2>1. UNCHANGED <<counterU, counterR, counterB, ordinal, monitoredGrant, flight>>
    BY <1>2 DEF Retry, contextAnvil, agentVars
  <2>2. counterU \in 0 .. size /\ size \in Nat
    BY CountAssumption DEF AnvilInv, Kinds
  <2>3. ~(counterU < size) => counterU' = size
    BY <2>1, <2>2
  <2>4. StillComplete'
    BY <1>4, <2>3 DEF StillComplete
  <2> QED BY <2>1, <2>4, AnvilSilent
<1>3. CASE AcquireU
  <2>1. /\ counterU < size /\ counterU' = counterU + 1
        /\ UNCHANGED <<counterR, counterB, ordinal>>
        /\ \/ /\ flight' = [flight EXCEPT ![c][a] = "acquireT"]
              /\ monitoredGrant' = [monitoredGrant EXCEPT ![c] = @ \cup {a}]
           \/ UNCHANGED <<monitoredGrant, flight>>
    BY <1>3 DEF AcquireU
  <2>2. StillComplete'
    BY <1>4, <2>1 DEF StillComplete
  <2>3. a \in Block /\ counterU' \in 0 .. size
    BY <2>1, CountAssumption DEF Block, AnvilInv, Kinds
  <2>4. Kinds'
    BY <2>1, <2>3 DEF AnvilInv, Kinds
  \* A new request is the first agent's, for the block the counter passes.
  <2>5. \A d \in Agent, x \in Block :
          /\ flight'[d][x] = "acquireT" => flight[d][x] = "acquireT" \/ (d = c /\ x = a)
          /\ flight'[d][x] = "acquireT" => x \in monitoredGrant'[d]
    BY <2>1, <2>3 DEF AnvilInv, Kinds, Monitored
  <2>6. Monitored'
    BY <2>5 DEF Monitored
  <2>7. StagesInOrder'
    BY <2>1, <2>3, <2>5, CountAssumption DEF AnvilInv, Kinds, StagesInOrder
  <2> QED BY <2>2, <2>4, <2>6, <2>7 DEF AnvilInv
<1> QED BY <1>1, <1>2, <1>3

LEMMA AnvilStageR ==
  ASSUME AnvilInv, StageR
  PROVE  AnvilInv'
<1> DEFINE c == ordinal[1]
           a == counterR
<1>1. ReleaseR \/ Retry
  BY DEF StageR
<1>4. /\ "U" \in complete' => "U" \in complete
      /\ "R" \in complete' => "R" \in complete \/ ~(counterR < size)
  BY DEF StageR
<1>2. CASE Retry
  <2>1. UNCHANGED <<counterU, counterR, counterB, ordinal, monitoredGrant, flight>>
    BY <1>2 DEF Retry, contextAnvil, agentVars
  <2>2. StillComplete'
    BY <1>4, <2>1, CountAssumption DEF StillComplete, AnvilInv, Kinds
  <2> QED BY <2>1, <2>2, AnvilSilent
<1>3. CASE ReleaseR
  <2>1. /\ counterR < size /\ counterR < counterU /\ a \notin monitoredGrant[c]
        /\ counterR' = counterR + 1
        /\ UNCHANGED <<counterU, counterB, ordinal, monitoredGrant>>
        /\ \/ flight' = [flight EXCEPT ![c][a] = "release"]
           \/ UNCHANGED flight
    BY <1>3 DEF ReleaseR, Releasable, agentVars
  <2>2. StillComplete'
    BY <1>4, <2>1 DEF StillComplete, AnvilInv, Kinds
  <2>3. a \in Block /\ counterR' \in 0 .. size
    BY <2>1, CountAssumption DEF Block, AnvilInv, Kinds
  <2>4. Kinds'
    BY <2>1, <2>3 DEF AnvilInv, Kinds
  \* No acquire is in flight for the block the counter passes: it was granted.
  <2>5. \A d \in Agent, x \in Block :
          flight'[d][x] = "acquireT" => flight[d][x] = "acquireT" /\ x # a
    BY <2>1, <2>3 DEF AnvilInv, Kinds, Monitored, StagesInOrder
  <2>6. Monitored'
    BY <2>1, <2>5 DEF AnvilInv, Monitored
  <2>7. StagesInOrder'
    BY <2>1, <2>3, <2>5, CountAssumption DEF AnvilInv, Kinds, StagesInOrder
  <2> QED BY <2>2, <2>4, <2>6, <2>7 DEF AnvilInv
<1> QED BY <1>1, <1>2, <1>3

LEMMA AnvilStageB ==
  ASSUME AnvilInv, NEW i \in 1 .. widthB, StageB(i)
  PROVE  AnvilInv'
<1> DEFINE c == ordinal[1 + i]
           a == counterB
<1>1. /\ complete' = IF i = 1 /\ counterB = size THEN complete \cup {"B"} ELSE complete
      /\ AcquireB(i) \/ GetB \/ Retry
  BY DEF StageB
<1>2. /\ UNCHANGED <<counterU, counterR, ordinal, monitoredGrant>>
      /\ \/ counterB' = counterB
         \/ Readable /\ counterB' = counterB + 1
      /\ flight' = flight \/ flight' = [flight EXCEPT ![c][a] = "acquireB"]
  BY <1>1 DEF AcquireB, GetB, Retry, contextAnvil, agentVars
<1>3. StillComplete'
  BY <1>1, <1>2 DEF StillComplete, AnvilInv
<1>4. counterB' \in 0 .. size /\ counterB' <= counterR
  BY <1>2, CountAssumption DEF Readable, AnvilInv, Kinds, StagesInOrder
<1>5. Kinds'
  BY <1>2, <1>4 DEF AnvilInv, Kinds
<1>6. \A d \in Agent, x \in Block : flight'[d][x] = "acquireT" => flight[d][x] = "acquireT"
  BY <1>2 DEF AnvilInv, Kinds
<1>7. Monitored' /\ StagesInOrder'
  BY <1>2, <1>4, <1>6 DEF AnvilInv, Monitored, StagesInOrder
<1> QED BY <1>3, <1>5, <1>7 DEF AnvilInv

\* When an epoch ends, every acquire of stage U has been granted: the next one
\* may give its blocks to another agent.
LEMMA AnvilEndTick ==
  ASSUME AnvilInv, EndTick
  PROVE  AnvilInv'
<1>1. complete' = {} /\ UNCHANGED <<monitoredGrant, flight>>
  BY DEF EndTick, agentVars
<1>2. CASE complete = {"U", "R", "B"}
  <2>1. counterU' = 0 /\ counterR' = 0 /\ counterB' = 0
    BY <1>2 DEF EndTick
  <2>2. counterU = size /\ counterR = size
    BY <1>2 DEF AnvilInv, StillComplete
  <2>3. \A d \in Agent, x \in Block : flight[d][x] # "acquireT"
    BY <2>2, CountAssumption DEF AnvilInv, StagesInOrder
  <2> QED BY <1>1, <2>1, <2>3, CountAssumption
          DEF AnvilInv, Kinds, Monitored, StillComplete, StagesInOrder
<1>3. CASE complete # {"U", "R", "B"}
  <2>1. UNCHANGED <<counterU, counterR, counterB, ordinal>>
    BY <1>3 DEF EndTick, contextAnvil
  <2> QED BY <1>1, <2>1, AnvilSilent DEF StillComplete
<1> QED BY <1>2, <1>3

LEMMA AnvilStep == AnvilInv /\ [Next]_vars => AnvilInv'
<1> SUFFICES ASSUME AnvilInv, [Next]_vars PROVE AnvilInv'
  OBVIOUS
<1>1. CASE Agents
  BY <1>1, AnvilGrantAck, AnvilGrant, AnvilReleaseAck DEF Agents
<1>2. CASE Stages
  BY <1>2, AnvilStageU, AnvilStageR, AnvilStageB, AnvilEndTick DEF Stages
<1>3. CASE UNCHANGED vars
  BY <1>3 DEF vars, contextAnvil, agentVars, AnvilInv, Kinds, Monitored, StillComplete,
     StagesInOrder
<1> QED BY <1>1, <1>2, <1>3 DEF Next

\* In every run of the Anvil sequence no stage overtakes the one before it and
\* stage R passes no block whose acquire by stage U is still to be granted, in
\* whatever order grants come and however many requests an agent may have in
\* flight. Nothing is said of the GrantAck that follows, nor of the acquires of
\* stage B: stage R passes blocks that wait for either without releasing them.
THEOREM StagesOrdered == Spec => []StagesInOrder
<1>1. AnvilInv => StagesInOrder
  BY DEF AnvilInv
<1> QED BY <1>1, AnvilInit, AnvilStep, PTL DEF Spec
=============================================================================
