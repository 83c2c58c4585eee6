--------------------------- MODULE TestBenchProofs ---------------------------
(***************************************************************************)
(* Both hosts move beats whole, and main's report is true, for any depths  *)
(* of the memory's queues and any choice of channels.                      *)
(***************************************************************************)
EXTENDS TestBench, TLAPS

Early == {"B", "D"}              \* handled by the TileLink agents,
Late == {"AW", "W", "AR"}        \* and by the memory, from the device
LateOut == {"AXI_B", "R"}        \* by the memory, to the device

PortValues == [Channel -> [valid : BOOLEAN, ready : BOOLEAN]]

BenchType ==
  /\ host \in Hosts /\ live \in Groups
  /\ pc \in {"initialize", "push", "handle", "fuzz", "update", "memory", "settle",
             "edge", "finalize", "exit"}
  /\ state \in {"NOT_INITIALIZED", "ALIVE", "FINISHED", "FAILED"}
  /\ port \in PortValues
  /\ top \in [Channel -> BOOLEAN]
  /\ offer \in [In -> BOOLEAN] /\ accept \in [Out -> BOOLEAN]
  /\ pendingB \in BOOLEAN /\ pendingOut \subseteq TLOut
  /\ {activeWrites, finishedWrites, activeReads, pendingReadResponses, wOwed} \subseteq Int
  /\ ahead \in [In -> Int] /\ owed \in [Out -> Int]

\* The agents of a channel have had their turn in this Tock, and have set ready or
\* valid anew.
Handled(ch) ==
  \/ pc \in {"settle", "edge"}
  \/ pc \in {"fuzz", "update", "memory"} /\ ch \in Early \cup TLOut
Renewed(ch) ==
  \/ pc \in {"settle", "edge"}
  \/ pc = "memory" /\ ch \in Early \cup TLOut

\* The agent of ch will be ready if the device has offered it nothing.
Room(ch) ==
  CASE ch = "B" -> ~pendingB
    [] ch = "D" -> TRUE
    [] ch = "AW" -> WriteRoom(activeWrites + finishedWrites)
    [] ch = "W" -> WriteRoom(activeWrites + finishedWrites) \/ activeWrites > 0
    [] ch = "AR" -> ReadRoom(activeReads, pendingReadResponses - Beats(port["R"].valid))

\* A write is active between its address and its data, which follow in this order.
WritesActive ==
  /\ activeWrites = wOwed + ahead["AW"] - ahead["W"]
  /\ wOwed >= 0
  /\ offer["W"] => wOwed > 0

\* The pins of a run that is still alive.
Pins ==
  /\ pc \notin {"initialize", "push"} => \A ch \in In : ~Renewed(ch) => port[ch].valid = offer[ch]
  /\ \A ch \in In \ live : ~offer[ch]

\* v3: what the device offers the agent has taken before it looks; it is gone with
\* the edge at which the agent is ready, and an agent that is not ready has it.
V3In(ch) ==
  /\ ahead[ch] = IF ~Handled(ch) /\ port[ch].ready THEN 0 ELSE Beats(offer[ch])
  /\ ~Renewed(ch) /\ ~offer[ch] => Room(ch)
  /\ Renewed(ch) => IF port[ch].ready THEN Room(ch) ELSE offer[ch]
  /\ pc = "edge" => top[ch] = port[ch].ready

V3Out(ch) ==
  /\ owed[ch] = IF Handled(ch) THEN 0 ELSE Beats(Fire(ch))
  /\ pc = "edge" => top[ch] = port[ch].valid /\ accept[ch] = port[ch].ready

V3 ==
  /\ \A ch \in In : IF ch \in live THEN V3In(ch) ELSE ahead[ch] = 0
  /\ \A ch \in Out : V3Out(ch)
  /\ "AR" \in live /\ port["R"].valid /\ pc # "settle" => port["R"].ready

\* dpi: agents and device look at the same pins.
DPIIn(ch) ==
  /\ ahead[ch] = IF Handled(ch) THEN Beats(offer[ch] /\ top[ch]) ELSE 0
  /\ ~Renewed(ch) => port[ch].ready = top[ch]

DPIOut(ch) ==
  /\ owed[ch] = IF Handled(ch) THEN 0 - Beats(top[ch] /\ accept[ch]) ELSE 0
  /\ ~Handled(ch) => port[ch].valid = top[ch]
  /\ pc \notin {"initialize", "push"} /\ ~Handled(ch) => port[ch].ready = accept[ch]

DPI ==
  /\ \A ch \in In : DPIIn(ch)
  /\ \A ch \in Out : DPIOut(ch)
  /\ pc # "settle"

\* No assertion has failed and the loop has not been left.
Running ==
  state \in {"NOT_INITIALIZED", "ALIVE", "FINISHED"} /\ pc \notin {"finalize", "exit"}

BeatInv ==
  Running =>
    /\ WritesActive /\ Pins
    /\ host = "v3" => V3
    /\ host = "dpi" => DPI

-----------------------------------------------------------------------------
LEMMA BenchTypeInit == Init => BenchType
<1> SUFFICES ASSUME Init PROVE BenchType
  OBVIOUS
<1>1. port \in PortValues /\ top \in [Channel -> BOOLEAN]
  BY DEF Init, PortValues
<1>2. offer \in [In -> BOOLEAN] /\ accept \in [Out -> BOOLEAN]
  BY DEF Init
<1>3. ahead \in [In -> Int] /\ owed \in [Out -> Int]
  BY DEF Init
<1>4. host \in Hosts
  BY DEF Init
<1>5. {activeWrites, finishedWrites, activeReads, pendingReadResponses, wOwed} \subseteq Int
  BY DEF Init
<1>6. /\ live \in Groups /\ pc = "initialize" /\ state = "NOT_INITIALIZED"
      /\ pendingB = FALSE /\ pendingOut = {}
  BY DEF Init
<1> QED BY <1>1, <1>2, <1>3, <1>4, <1>5, <1>6 DEF BenchType

LEMMA PortShapes ==
  ASSUME port \in PortValues, offer \in [In -> BOOLEAN]
  PROVE  /\ \A fired : Withdrawn(fired) \in PortValues
         /\ PushValid \in PortValues
         /\ Pulled \in [Channel -> BOOLEAN]
  BY DEF PortValues, Withdrawn, PushValid, Pulled

LEMMA PushReadyShape ==
  ASSUME NEW p \in PortValues, NEW acc \in [Out -> BOOLEAN]
  PROVE  PushReady(p, acc) \in PortValues
  BY DEF PortValues, PushReady

LEMMA SetReady ==
  ASSUME NEW p \in PortValues, NEW c \in Channel, NEW v \in BOOLEAN
  PROVE  LET q == [p EXCEPT ![c].ready = v]
         IN  /\ q \in PortValues
             /\ \A ch \in Channel : ch # c => q[ch] = p[ch]
             /\ q[c].ready = v /\ q[c].valid = p[c].valid
  BY DEF PortValues

LEMMA SetValid ==
  ASSUME NEW p \in PortValues, NEW c \in Channel, NEW v \in BOOLEAN
  PROVE  LET q == [p EXCEPT ![c].valid = v]
         IN  /\ q \in PortValues
             /\ \A ch \in Channel : ch # c => q[ch] = p[ch]
             /\ q[c].valid = v /\ q[c].ready = p[c].ready
  BY DEF PortValues

\* What the memory does to its ports.
LEMMA MemoryPorts ==
  ASSUME port \in PortValues, Memory
  PROVE  LET responses == pendingReadResponses - Beats(Fire("R"))
             stuckR == port["R"].valid /\ ~Fire("R")
         IN  /\ port' \in PortValues
             /\ \A ch \in Channel \ (Late \cup LateOut) : port'[ch] = port[ch]
             /\ \A ch \in Late : port'[ch].valid = port[ch].valid
             /\ \A ch \in LateOut : port'[ch].ready = port[ch].ready
             /\ port'["AW"].ready = WriteRoom(activeWrites' + finishedWrites')
             /\ port'["W"].ready = (WriteRoom(activeWrites' + finishedWrites') \/ activeWrites' > 0)
             /\ port'["AR"].ready = ReadRoom(activeReads', responses)
             /\ pendingReadResponses' = responses + Beats(port'["R"].valid /\ ~stuckR)
             /\ stuckR => port'["R"].valid
             /\ port'["R"].valid /\ ~stuckR => activeReads' > responses
<1> DEFINE fired == {ch \in {"AW", "W", "AR", "AXI_B", "R"} : Fire(ch)}
           responses == pendingReadResponses - Beats("R" \in fired)
           stuckR == port["R"].valid /\ "R" \notin fired
           awReady == WriteRoom(activeWrites' + finishedWrites')
           wReady == awReady \/ activeWrites' > 0
           arReady == ReadRoom(activeReads', responses)
<1>1. PICK b \in BOOLEAN, r \in BOOLEAN :
        /\ stuckR => r
        /\ r /\ ~stuckR => activeReads' > responses
        /\ pendingReadResponses' = responses + Beats(r /\ ~stuckR)
        /\ port' = [port EXCEPT
             !["AW"].ready = awReady,
             !["W"].ready = wReady,
             !["AR"].ready = arReady,
             !["AXI_B"].valid = b,
             !["R"].valid = r]
  BY DEF Memory
<1>2. "R" \in fired <=> Fire("R")
  BY DEF Fire
<1>3. awReady \in BOOLEAN /\ wReady \in BOOLEAN /\ arReady \in BOOLEAN
  BY DEF WriteRoom, ReadRoom
<1> HIDE DEF awReady, wReady, arReady, fired
<1> DEFINE p1 == [port EXCEPT !["AW"].ready = awReady]
           p2 == [p1 EXCEPT !["W"].ready = wReady]
           p3 == [p2 EXCEPT !["AR"].ready = arReady]
           p4 == [p3 EXCEPT !["AXI_B"].valid = b]
           p5 == [p4 EXCEPT !["R"].valid = r]
<1>4. port' = p5
  BY <1>1
<1>5. {"AW", "W", "AR", "AXI_B", "R"} \subseteq Channel
  BY DEF Channel, In, Out
<1>6. /\ p1 \in PortValues /\ \A ch \in Channel : ch # "AW" => p1[ch] = port[ch]
      /\ p1["AW"].ready = awReady /\ p1["AW"].valid = port["AW"].valid
  BY <1>3, <1>5, SetReady
<1>7. /\ p2 \in PortValues /\ \A ch \in Channel : ch # "W" => p2[ch] = p1[ch]
      /\ p2["W"].ready = wReady /\ p2["W"].valid = p1["W"].valid
  <2> HIDE DEF p1
  <2> QED BY <1>3, <1>5, <1>6, SetReady
<1>8. /\ p3 \in PortValues /\ \A ch \in Channel : ch # "AR" => p3[ch] = p2[ch]
      /\ p3["AR"].ready = arReady /\ p3["AR"].valid = p2["AR"].valid
  <2> HIDE DEF p2
  <2> QED BY <1>3, <1>5, <1>7, SetReady
<1>9. /\ p4 \in PortValues /\ \A ch \in Channel : ch # "AXI_B" => p4[ch] = p3[ch]
      /\ p4["AXI_B"].valid = b /\ p4["AXI_B"].ready = p3["AXI_B"].ready
  <2> HIDE DEF p3
  <2> QED BY <1>5, <1>8, SetValid
<1>10. /\ p5 \in PortValues /\ \A ch \in Channel : ch # "R" => p5[ch] = p4[ch]
       /\ p5["R"].valid = r /\ p5["R"].ready = p4["R"].ready
  <2> HIDE DEF p4
  <2> QED BY <1>5, <1>9, SetValid
<1> HIDE DEF p1, p2, p3, p4, p5
<1>11. /\ port' \in PortValues
       /\ \A ch \in Channel \ (Late \cup LateOut) : port'[ch] = port[ch]
       /\ \A ch \in Late : port'[ch].valid = port[ch].valid
       /\ \A ch \in LateOut : port'[ch].ready = port[ch].ready
  BY <1>4, <1>5, <1>6, <1>7, <1>8, <1>9, <1>10 DEF Late, LateOut
<1>12. /\ port'["AW"].ready = awReady /\ port'["W"].ready = wReady
       /\ port'["AR"].ready = arReady /\ port'["R"].valid = r
  BY <1>4, <1>5, <1>6, <1>7, <1>8, <1>9, <1>10
<1>13. stuckR <=> port["R"].valid /\ ~Fire("R")
  BY <1>2
<1>14. responses = pendingReadResponses - Beats(Fire("R"))
  BY <1>2 DEF Beats
<1>15. Beats(r /\ ~stuckR) = Beats(port'["R"].valid /\ ~(port["R"].valid /\ ~Fire("R")))
  BY <1>12, <1>13 DEF Beats
<1> HIDE DEF stuckR, responses
<1> QED BY <1>1, <1>11, <1>12, <1>13, <1>14, <1>15 DEF awReady, wReady, arReady

LEMMA BenchTypeStep == BenchType /\ [Next]_vars => BenchType'
<1> SUFFICES ASSUME BenchType, [Next]_vars PROVE BenchType'
  OBVIOUS
<1> USE DEF BenchType, agentVars, deviceVars, runVars
<1>1. CASE Initialize
  BY <1>1 DEF Initialize
<1>2. CASE Push
  <2>1. \/ port' = PushValid /\ accept' = accept
        \/ accept' \in [Out -> BOOLEAN] /\ port' = PushReady(PushValid, accept')
    BY <1>2 DEF Push, Acceptance
  <2>2. port' \in PortValues
    BY <2>1, PortShapes, PushReadyShape
  <2>3. accept' \in [Out -> BOOLEAN]
    BY <2>1
  <2> QED BY <1>2, <2>2, <2>3 DEF Push
<1>3. CASE HandleChannel
  <2>1. port' \in PortValues
    BY <1>3, PortShapes DEF HandleChannel
  <2>2. ahead' \in [In -> Int] /\ owed' \in [Out -> Int]
    BY <1>3 DEF HandleChannel, Beats
  <2>3. pendingB' \in BOOLEAN /\ pendingOut' \subseteq TLOut
    BY <1>3 DEF HandleChannel
  <2> QED BY <1>3, <2>1, <2>2, <2>3 DEF HandleChannel
<1>4. CASE Tick
  BY <1>4 DEF Tick, OnFinish
<1>5. CASE UpdateSignal
  <2>1. port' \in PortValues
    BY <1>5 DEF UpdateSignal, ProbeReady, PortValues
  <2> QED BY <1>5, <2>1 DEF UpdateSignal
<1>6. CASE Memory
  <2>1. port' \in PortValues
    BY <1>6, MemoryPorts
  <2>2. ahead' \in [In -> Int] /\ owed' \in [Out -> Int]
    BY <1>6 DEF Memory, Beats
  <2>3. {activeWrites', finishedWrites', activeReads', pendingReadResponses'} \subseteq Int
    BY <1>6 DEF Memory, Beats
  <2> QED BY <1>6, <2>1, <2>2, <2>3 DEF Memory, AfterTock
<1>7. CASE Fail
  BY <1>7 DEF Fail, AfterTock, Caught
<1>8. CASE Settle
  <2>1. port' \in PortValues /\ top' \in [Channel -> BOOLEAN]
    BY <1>8, PortShapes, PushReadyShape DEF Settle, Acceptance
  <2> QED BY <1>8, <2>1 DEF Settle, Acceptance
<1>9. CASE Edge
  <2>1. top' \in [Channel -> BOOLEAN]
    BY <1>9, PortShapes DEF Edge
  <2>2. ahead' \in [In -> Int] /\ owed' \in [Out -> Int] /\ wOwed' \in Int
    BY <1>9 DEF Edge, Beats
  <2> QED BY <1>9, <2>1, <2>2 DEF Edge, Offers
<1>10. CASE Report
  BY <1>10 DEF Report
<1>11. CASE Finalize
  BY <1>11 DEF Finalize
<1>12. CASE UNCHANGED vars
  BY <1>12 DEF vars
<1> QED BY <1>1, <1>2, <1>3, <1>4, <1>5, <1>6, <1>7, <1>8, <1>9, <1>10, <1>11, <1>12 DEF Next

-----------------------------------------------------------------------------
\* In v3 the device takes what the memory offers on channel R at once, and a run with
\* read requests has their responses.
ReadsTaken ==
  /\ RStall => "v3" \notin Hosts
  /\ \A g \in Groups : "AR" \in g => "R" \in g

LEMMA ChannelParts ==
  /\ In = Early \cup Late /\ Out = TLOut \cup LateOut
  /\ \A ch \in In : ch \notin Out /\ ch \in Channel
  /\ \A ch \in Out : ch \notin In /\ ch \in Channel
  /\ \A ch \in Early : ch \notin Late /\ \A c \in TLOut : c \notin LateOut
  BY DEF In, Out, TLOut, Early, Late, LateOut, Channel

LEMMA BeatsOps ==
  /\ \A x : Beats(x) \in 0 .. 1
  /\ Beats(TRUE) = 1 /\ Beats(FALSE) = 0
  BY DEF Beats

LEMMA BeatInit == Init => BeatInv
<1> SUFFICES ASSUME Init PROVE BeatInv
  OBVIOUS
<1>1. \A ch \in Channel : port[ch].valid = FALSE /\ port[ch].ready = FALSE /\ top[ch] = FALSE
  BY DEF Init
<1>2. /\ \A ch \in In : ahead[ch] = 0 /\ offer[ch] = FALSE
      /\ \A ch \in Out : owed[ch] = 0
  BY DEF Init
<1>3. /\ pc = "initialize" /\ pendingB = FALSE /\ wOwed = 0
      /\ activeWrites = 0 /\ finishedWrites = 0 /\ activeReads = 0 /\ pendingReadResponses = 0
  BY DEF Init
<1>4. WritesActive /\ Pins
  BY <1>2, <1>3 DEF WritesActive, Pins, In
<1>5. \A ch \in In : Room(ch)
  <2>1. WriteRoom(activeWrites + finishedWrites)
    BY <1>3, DepthAssumption DEF WriteRoom
  <2>2. Beats(port["R"].valid) = 0
    BY <1>1 DEF Beats, Channel, Out
  <2>3. ReadRoom(activeReads, pendingReadResponses - Beats(port["R"].valid))
    BY <1>3, <2>2, DepthAssumption DEF ReadRoom
  <2> QED BY <1>3, <2>1, <2>3 DEF Room, In
<1>6. V3
  <2>1. ASSUME NEW ch \in In
        PROVE  V3In(ch)
    BY <1>1, <1>2, <1>3, <1>5, ChannelParts DEF V3In, Handled, Renewed, Beats
  <2>2. ASSUME NEW ch \in Out
        PROVE  V3Out(ch)
    BY <1>1, <1>2, <1>3, ChannelParts DEF V3Out, Handled, Beats, Fire
  <2>3. ~port["R"].valid
    BY <1>1 DEF Channel, Out
  <2> QED BY <1>2, <2>1, <2>2, <2>3 DEF V3
<1>7. DPI
  BY <1>1, <1>2, <1>3, ChannelParts DEF DPI, DPIIn, DPIOut, Handled, Renewed, Beats
<1> QED BY <1>4, <1>6, <1>7 DEF BeatInv

\* handle_channel takes and sends what is on the pins of the TileLink channels.
LEMMA BeatHandle ==
  ASSUME BenchType, BeatInv, HandleChannel, Running
  PROVE  BeatInv'
<1>1. /\ pc = "handle" /\ pc' = "fuzz"
      /\ UNCHANGED <<host, live, activeWrites, finishedWrites, activeReads,
                     pendingReadResponses, offer, accept, top, wOwed>>
  BY DEF HandleChannel, deviceVars
<1>2. \A ch \in In : port'[ch] = port[ch]
  BY ChannelParts DEF HandleChannel, Withdrawn
<1>3. \A ch \in LateOut : port'[ch] = port[ch]
  <2>1. \A ch \in LateOut : ch \in Channel /\ ch \notin TLOut
    BY DEF LateOut, Channel, Out, TLOut
  <2> QED BY <2>1 DEF HandleChannel, Withdrawn
<1>4. /\ \A ch \in Early : ahead'[ch] = ahead[ch] + Beats(Fire(ch))
      /\ \A ch \in Late : ahead'[ch] = ahead[ch]
  <2>1. \A ch \in Early : ch \in {"B", "D"} /\ ch \in In
    BY ChannelParts DEF Early
  <2>2. \A ch \in Late : ch \notin {"B", "D"} /\ ch \in In
    BY ChannelParts DEF Early
  <2> QED BY <2>1, <2>2 DEF HandleChannel, Beats, BenchType
<1>5. /\ \A ch \in TLOut : owed'[ch] = owed[ch] - Beats(Fire(ch))
      /\ \A ch \in LateOut : owed'[ch] = owed[ch]
  <2>1. \A ch \in LateOut : ch \notin TLOut /\ ch \in Out
    BY ChannelParts DEF TLOut, LateOut
  <2>2. \A ch \in TLOut : ch \in Out
    BY ChannelParts
  <2> QED BY <2>1, <2>2 DEF HandleChannel, Beats, BenchType
<1>6. pendingB' = (pendingB \/ Fire("B"))
  BY DEF HandleChannel
<1>7. WritesActive /\ Pins /\ (host = "v3" => V3) /\ (host = "dpi" => DPI)
  BY DEF BeatInv
<1>8. WritesActive'
  BY <1>1, <1>4, <1>7 DEF WritesActive, Late
<1>9. \A ch \in In : port[ch].valid = offer[ch]
  BY <1>1, <1>7 DEF Pins, Renewed
<1>10. Pins'
  BY <1>1, <1>2, <1>7, <1>9 DEF Pins
<1>11. ASSUME host = "v3"
       PROVE  V3'
  <2>1. ASSUME NEW ch \in Early, ch \in live
        PROVE  V3In(ch)'
    <3>1. V3In(ch) /\ ch \in In
      BY <1>7, <1>11, <2>1, ChannelParts DEF V3
    <3>2. ahead'[ch] = Beats(offer[ch])
      BY <1>1, <1>4, <1>9, <3>1 DEF V3In, Handled, Fire, Beats, BenchType, Early
    <3>3. ~offer[ch] => Room(ch)'
      BY <1>1, <1>6, <1>9, <3>1 DEF V3In, Renewed, Room, Early, Fire
    <3> QED BY <1>1, <3>2, <3>3 DEF V3In, Handled, Renewed
  <2>2. ASSUME NEW ch \in Late, ch \in live
        PROVE  V3In(ch)'
    <3>1. V3In(ch) /\ ch \in In /\ ch \notin Early /\ ch \notin TLOut
      BY <1>7, <1>11, <2>2, ChannelParts DEF V3, Late, Early, TLOut
    <3>2. ~offer[ch] => Room(ch)'
      BY <1>1, <1>3, <3>1 DEF V3In, Renewed, Room, Late, LateOut
    <3> QED BY <1>1, <1>2, <1>4, <3>1, <3>2 DEF V3In, Handled, Renewed
  <2>3. ASSUME NEW ch \in In, ch \notin live
        PROVE  ahead'[ch] = 0
    <3>1. ahead[ch] = 0 /\ ~offer[ch]
      BY <1>7, <1>11, <2>3 DEF V3, Pins
    <3>2. ~Fire(ch)
      BY <1>9, <3>1 DEF Fire
    <3> QED BY <1>4, <3>1, <3>2, ChannelParts DEF Beats
  <2>4. ASSUME NEW ch \in Out
        PROVE  V3Out(ch)'
    <3>1. V3Out(ch)
      BY <1>7, <1>11 DEF V3
    <3>2. CASE ch \in TLOut
      BY <1>1, <1>5, <3>1, <3>2, ChannelParts DEF V3Out, Handled, Early, TLOut, Beats
    <3>3. CASE ch \in LateOut
      BY <1>1, <1>3, <1>5, <3>1, <3>3 DEF V3Out, Handled, Early, TLOut, LateOut, Fire
    <3> QED BY <3>2, <3>3, ChannelParts
  <2>5. ("AR" \in live /\ port["R"].valid /\ pc # "settle" => port["R"].ready)'
    BY <1>1, <1>3, <1>7, <1>11 DEF V3, LateOut
  <2> QED BY <1>1, <2>1, <2>2, <2>3, <2>4, <2>5, ChannelParts DEF V3
<1>12. ASSUME host = "dpi"
       PROVE  DPI'
  <2>1. ASSUME NEW ch \in In
        PROVE  DPIIn(ch)'
    <3>1. DPIIn(ch)
      BY <1>7, <1>12 DEF DPI
    <3>2. CASE ch \in Early
      BY <1>1, <1>2, <1>4, <1>9, <3>1, <3>2
         DEF DPIIn, Handled, Renewed, Fire, Beats
    <3>3. CASE ch \in Late
      BY <1>1, <1>2, <1>4, <3>1, <3>3 DEF DPIIn, Handled, Renewed, Early, TLOut, Late
    <3> QED BY <3>2, <3>3, ChannelParts
  <2>2. ASSUME NEW ch \in Out
        PROVE  DPIOut(ch)'
    <3>1. DPIOut(ch)
      BY <1>7, <1>12 DEF DPI
    <3>2. CASE ch \in TLOut
      BY <1>1, <1>5, <3>1, <3>2 DEF DPIOut, Handled, Fire, Beats
    <3>3. CASE ch \in LateOut
      BY <1>1, <1>3, <1>5, <3>1, <3>3 DEF DPIOut, Handled, Early, TLOut, LateOut
    <3> QED BY <3>2, <3>3, ChannelParts
  <2> QED BY <1>1, <2>1, <2>2 DEF DPI
<1> QED BY <1>1, <1>8, <1>10, <1>11, <1>12 DEF BeatInv

\* Steps that change nothing of what Handled, Renewed and the pins speak of.
LEMMA BeatFrame ==
  ASSUME BeatInv,
         UNCHANGED <<host, live, port, top, offer, accept, pendingB, activeWrites,
                     finishedWrites, activeReads, pendingReadResponses, wOwed, ahead, owed>>,
         \/ pc' = pc
         \/ pc = "fuzz" /\ pc' = "update"
         \/ pc = "initialize" /\ pc' = "push",
         Running
  PROVE  BeatInv'
<1>1. WritesActive /\ Pins /\ (host = "v3" => V3) /\ (host = "dpi" => DPI)
  BY DEF BeatInv
<1>2. \A ch : Handled(ch)' = Handled(ch) /\ Renewed(ch)' = Renewed(ch)
  BY DEF Handled, Renewed
<1>3. \A ch : Room(ch)' = Room(ch)
  BY DEF Room
<1>4. WritesActive' /\ Pins'
  BY <1>1, <1>2 DEF WritesActive, Pins
<1>5. V3 => V3'
  <2>1. \A ch \in In : V3In(ch) => V3In(ch)'
    BY <1>2, <1>3 DEF V3In
  <2>2. \A ch \in Out : V3Out(ch) => V3Out(ch)'
    BY <1>2 DEF V3Out, Fire
  <2> QED BY <2>1, <2>2 DEF V3
<1>6. DPI => DPI'
  <2>1. \A ch \in In : DPIIn(ch) => DPIIn(ch)'
    BY <1>2 DEF DPIIn
  <2>2. \A ch \in Out : DPIOut(ch) => DPIOut(ch)'
    BY <1>2 DEF DPIOut
  <2> QED BY <2>1, <2>2 DEF DPI
<1> QED BY <1>1, <1>4, <1>5, <1>6 DEF BeatInv

\* update_signal: the agent of channel B is ready if it was idle.
LEMMA BeatUpdate ==
  ASSUME BenchType, BeatInv, UpdateSignal, Running
  PROVE  BeatInv'
<1>1. /\ pc = "update" /\ pc' = "memory"
      /\ UNCHANGED <<host, live, activeWrites, finishedWrites, activeReads,
                     pendingReadResponses, offer, accept, top, wOwed, ahead, owed>>
  BY DEF UpdateSignal, deviceVars
<1>2. /\ \A ch \in In : port'[ch].valid = port[ch].valid
      /\ \A ch \in Late \cup LateOut : port'[ch] = port[ch]
      /\ port'["B"].ready = ~pendingB /\ port'["D"].ready = TRUE
  <2>1. \A ch \in Late \cup LateOut : ch \in Channel /\ ch \notin {"B", "D"} \cup TLOut
    BY DEF Late, LateOut, Channel, In, Out, TLOut
  <2>2. \A ch \in In : ch \in Channel /\ ch \notin TLOut
    BY DEF Channel, In, TLOut
  <2>3. pendingOut \subseteq TLOut /\ "B" \notin TLOut /\ "D" \notin TLOut
    BY DEF BenchType, TLOut
  <2>4. "B" \in Channel /\ "D" \in Channel
    BY DEF Channel, In
  <2>5. port \in PortValues /\ pendingB \in BOOLEAN
    BY DEF BenchType
  <2> DEFINE p(ch) == CASE ch = "B" -> [port[ch] EXCEPT !.ready = ProbeReady]
                        [] ch = "D" -> [port[ch] EXCEPT !.ready = TRUE]
                        [] ch \in pendingOut -> [port[ch] EXCEPT !.valid = TRUE]
                        [] OTHER -> port[ch]
  <2>6. \A ch \in Channel : port'[ch] = p(ch)
    BY DEF UpdateSignal
  <2>7. /\ \A ch \in Late \cup LateOut : p(ch) = port[ch]
        /\ \A ch \in In : p(ch).valid = port[ch].valid
        /\ p("B").ready = ~pendingB /\ p("D").ready = TRUE
    BY <2>1, <2>2, <2>3, <2>4, <2>5 DEF PortValues, ProbeReady
  <2> HIDE DEF p
  <2> QED BY <2>1, <2>2, <2>4, <2>6, <2>7
<1>3. pendingB' => pendingB
  BY DEF UpdateSignal
<1>4. WritesActive /\ Pins /\ (host = "v3" => V3) /\ (host = "dpi" => DPI)
  BY DEF BeatInv
<1>5. WritesActive'
  BY <1>1, <1>4 DEF WritesActive
<1>6. Pins'
  <2>1. \A ch \in In : port[ch].valid = offer[ch]
    BY <1>1, <1>4 DEF Pins, Renewed
  <2> QED BY <1>1, <1>2, <1>4, <2>1 DEF Pins
<1>7. ASSUME host = "v3"
      PROVE  V3'
  <2>1. ASSUME NEW ch \in Early, ch \in live
        PROVE  V3In(ch)'
    <3>1. V3In(ch) /\ ch \in In
      BY <1>4, <1>7, <2>1, ChannelParts DEF V3
    <3>2. ahead'[ch] = Beats(offer[ch])
      BY <1>1, <3>1 DEF V3In, Handled
    <3>3. ~offer[ch] => Room(ch)
      BY <1>1, <3>1 DEF V3In, Renewed
    <3>4. IF port'[ch].ready THEN Room(ch)' ELSE offer[ch]
      BY <1>1, <1>2, <1>3, <3>3 DEF Room, Early
    <3> QED BY <1>1, <3>2, <3>4 DEF V3In, Handled, Renewed
  <2>2. ASSUME NEW ch \in Late, ch \in live
        PROVE  V3In(ch)'
    <3>1. V3In(ch) /\ ch \in In /\ ch \notin Early /\ ch \notin TLOut
      BY <1>4, <1>7, <2>2, ChannelParts DEF V3, Late, Early, TLOut
    <3>2. ~offer[ch] => Room(ch)'
      BY <1>1, <1>2, <3>1 DEF V3In, Renewed, Room, Late, LateOut
    <3> QED BY <1>1, <1>2, <3>1, <3>2 DEF V3In, Handled, Renewed
  <2>3. \A ch \in In : ch \notin live => ahead'[ch] = 0
    BY <1>1, <1>4, <1>7 DEF V3
  <2>4. ASSUME NEW ch \in Out
        PROVE  V3Out(ch)'
    <3>1. V3Out(ch)
      BY <1>4, <1>7 DEF V3
    <3>2. CASE ch \in TLOut
      BY <1>1, <3>1, <3>2 DEF V3Out, Handled
    <3>3. CASE ch \in LateOut
      BY <1>1, <1>2, <3>1, <3>3 DEF V3Out, Handled, Early, TLOut, LateOut, Fire
    <3> QED BY <3>2, <3>3, ChannelParts
  <2>5. ("AR" \in live /\ port["R"].valid /\ pc # "settle" => port["R"].ready)'
    BY <1>1, <1>2, <1>4, <1>7 DEF V3, LateOut
  <2> QED BY <1>1, <2>1, <2>2, <2>3, <2>4, <2>5, ChannelParts DEF V3
<1>8. ASSUME host = "dpi"
      PROVE  DPI'
  <2>1. ASSUME NEW ch \in In
        PROVE  DPIIn(ch)'
    <3>1. DPIIn(ch)
      BY <1>4, <1>8 DEF DPI
    <3>2. CASE ch \in Early
      BY <1>1, <3>1, <3>2 DEF DPIIn, Handled, Renewed
    <3>3. CASE ch \in Late
      BY <1>1, <1>2, <3>1, <3>3 DEF DPIIn, Handled, Renewed, Early, TLOut, Late
    <3> QED BY <3>2, <3>3, ChannelParts
  <2>2. ASSUME NEW ch \in Out
        PROVE  DPIOut(ch)'
    <3>1. DPIOut(ch)
      BY <1>4, <1>8 DEF DPI
    <3>2. CASE ch \in TLOut
      BY <1>1, <3>1, <3>2 DEF DPIOut, Handled
    <3>3. CASE ch \in LateOut
      BY <1>1, <1>2, <3>1, <3>3 DEF DPIOut, Handled, Early, TLOut, LateOut
    <3> QED BY <3>2, <3>3, ChannelParts
  <2> QED BY <1>1, <2>1, <2>2 DEF DPI
<1> QED BY <1>1, <1>5, <1>6, <1>7, <1>8 DEF BeatInv

\* The memory's part of Tock.  A queue that had room and took nothing has room, and
\* what the memory is not ready for has been offered and taken.
LEMMA BeatMemory ==
  ASSUME BenchType, BeatInv, Memory, Running
  PROVE  BeatInv'
<1>1. /\ pc = "memory" /\ pc' = AfterTock
      /\ UNCHANGED <<host, live, pendingB, offer, accept, top, wOwed>>
  BY DEF Memory, deviceVars
<1>2. /\ \A ch \in Late : ahead'[ch] = ahead[ch] + Beats(Fire(ch))
      /\ \A ch \in Early : ahead'[ch] = ahead[ch]
      /\ \A ch \in LateOut : owed'[ch] = owed[ch] - Beats(Fire(ch))
      /\ \A ch \in TLOut : owed'[ch] = owed[ch]
  <2> DEFINE fired == {ch \in {"AW", "W", "AR", "AXI_B", "R"} : Fire(ch)}
  <2>1. /\ ahead' = [ch \in In |-> ahead[ch] + Beats(ch \in fired)]
        /\ owed' = [ch \in Out |-> owed[ch] - Beats(ch \in fired)]
    BY DEF Memory
  <2>2. /\ \A ch \in Late \cup LateOut : Beats(ch \in fired) = Beats(Fire(ch))
        /\ \A ch \in Early \cup TLOut : Beats(ch \in fired) = 0
    BY DEF Late, LateOut, Early, TLOut, Beats
  <2>3. ahead \in [In -> Int] /\ owed \in [Out -> Int]
    BY DEF BenchType
  <2> HIDE DEF fired
  <2> QED BY <2>1, <2>2, <2>3, ChannelParts
<1>3. /\ activeWrites' = activeWrites + Beats(Fire("AW")) - Beats(Fire("W"))
      /\ finishedWrites' = finishedWrites + Beats(Fire("W")) - Beats(Fire("AXI_B"))
      /\ activeReads' = activeReads + Beats(Fire("AR")) - Beats(Fire("R"))
  BY DEF Memory, Beats
<1>4. {activeWrites, finishedWrites, activeReads, pendingReadResponses, wOwed} \subseteq Int
  BY DEF BenchType
<1>5. WritesActive /\ Pins /\ (host = "v3" => V3) /\ (host = "dpi" => DPI)
  BY DEF BeatInv
<1>6. WritesActive'
  <2>1. ahead["AW"] \in Int /\ ahead["W"] \in Int
    BY DEF BenchType, In
  <2>2. /\ ahead'["AW"] = ahead["AW"] + Beats(Fire("AW"))
        /\ ahead'["W"] = ahead["W"] + Beats(Fire("W"))
    BY <1>2 DEF Late
  <2> QED BY <1>1, <1>3, <1>4, <1>5, <2>1, <2>2, BeatsOps DEF WritesActive
<1>7. port \in PortValues
  BY DEF BenchType
<1>8. /\ \A ch \in Early \cup TLOut : port'[ch] = port[ch]
      /\ \A ch \in Late : port'[ch].valid = port[ch].valid
      /\ \A ch \in LateOut : port'[ch].ready = port[ch].ready
  <2>1. \A ch \in Early \cup TLOut : ch \in Channel \ (Late \cup LateOut)
    BY DEF Early, TLOut, Late, LateOut, Channel, In, Out
  <2> QED BY <1>7, <2>1, MemoryPorts
<1>9. \A ch \in Late : port[ch].valid = offer[ch]
  BY <1>1, <1>5, ChannelParts DEF Pins, Renewed, Early, Late, TLOut
<1>10. Pins'
  BY <1>1, <1>5 DEF Pins, Renewed, AfterTock
<1>11. ASSUME host = "v3"
       PROVE  V3'
  <2>1. pc' = "settle" /\ pc' # "edge"
    BY <1>1, <1>11 DEF AfterTock
  <2>2. ASSUME NEW ch \in Early, ch \in live
        PROVE  V3In(ch)'
    <3>1. V3In(ch) /\ ch \in In
      BY <1>5, <1>11, <2>2, ChannelParts DEF V3
    <3>2. Room(ch)' = Room(ch)
      BY <1>1 DEF Room, Early
    <3> QED BY <1>1, <1>2, <1>8, <2>1, <3>1, <3>2 DEF V3In, Handled, Renewed
  <2>3. ASSUME NEW ch \in Late, ch \in live
        PROVE  V3In(ch)'
    <3>1. V3In(ch) /\ ch \in In /\ ch \notin Early /\ ch \notin TLOut
      BY <1>5, <1>11, <2>3, ChannelParts DEF V3, Late, Early, TLOut
    <3>2. ahead'[ch] = Beats(offer[ch])
      BY <1>1, <1>2, <1>9, <3>1 DEF V3In, Handled, Fire, Beats, BenchType
    <3>3. /\ ahead[ch] = IF port[ch].ready THEN 0 ELSE Beats(offer[ch])
          /\ ~offer[ch] => Room(ch) /\ ~Fire(ch)
      BY <1>1, <1>9, <3>1 DEF V3In, Handled, Renewed, Fire
    <3>4. IF port'[ch].ready THEN Room(ch)' ELSE offer[ch]
      <4>1. CASE ch = "AW"
        <5>1. port'["AW"].ready = WriteRoom(activeWrites' + finishedWrites')
          BY <1>7, MemoryPorts
        <5>2. ~offer["AW"] => WriteRoom(activeWrites + finishedWrites) /\ Beats(Fire("AW")) = 0
          BY <3>3, <4>1 DEF Room, Beats
        <5>3. ~offer["AW"] => WriteRoom(activeWrites' + finishedWrites')
          BY <1>3, <1>4, <5>2, BeatsOps, DepthAssumption DEF WriteRoom
        <5> QED BY <4>1, <5>1, <5>3 DEF Room
      <4>2. CASE ch = "W"
        <5>1. port'["W"].ready =
                (WriteRoom(activeWrites' + finishedWrites') \/ activeWrites' > 0)
          BY <1>7, MemoryPorts
        <5>2. ~offer["W"] => /\ WriteRoom(activeWrites + finishedWrites) \/ activeWrites > 0
                             /\ Beats(Fire("W")) = 0 /\ ahead["W"] = 0
          BY <3>3, <4>2 DEF Room, Beats
        <5>3. ~offer["W"] => activeWrites >= 0
          <6>1. ahead["AW"] \in Int /\ ahead["AW"] >= 0
            <7>1. ahead["AW"] = 0 \/ \E b : ahead["AW"] = Beats(b)
              BY <1>5, <1>11, ChannelParts DEF V3, V3In, Late
            <7> QED BY <7>1, BeatsOps
          <6> QED BY <1>4, <1>5, <5>2, <6>1 DEF WritesActive
        <5>4. ~offer["W"] => WriteRoom(activeWrites' + finishedWrites') \/ activeWrites' > 0
          BY <1>3, <1>4, <5>2, <5>3, BeatsOps, DepthAssumption DEF WriteRoom
        <5> QED BY <4>2, <5>1, <5>4 DEF Room
      <4>3. CASE ch = "AR"
        <5> DEFINE responses == pendingReadResponses - Beats(Fire("R"))
        <5>1. /\ port'["AR"].ready = ReadRoom(activeReads', responses)
              /\ pendingReadResponses' =
                   responses + Beats(port'["R"].valid /\ ~(port["R"].valid /\ ~Fire("R")))
          BY <1>7, MemoryPorts
        <5>2. Fire("R") <=> port["R"].valid
          BY <1>1, <1>5, <1>11, <2>3, <4>3 DEF V3, Fire
        <5>3. /\ Beats(Fire("R")) = Beats(port["R"].valid)
              /\ Beats(port'["R"].valid /\ ~(port["R"].valid /\ ~Fire("R"))) = Beats(port'["R"].valid)
          BY <5>2 DEF Beats
        <5>4. responses = pendingReadResponses' - Beats(port'["R"].valid)
          BY <1>4, <5>1, <5>3, BeatsOps
        <5>5. ~offer["AR"] => /\ ReadRoom(activeReads, responses)
                              /\ Beats(Fire("AR")) = 0
          BY <3>3, <4>3, <5>3 DEF Room, Beats
        <5>6. ~offer["AR"] => ReadRoom(activeReads', responses)
          BY <1>3, <1>4, <5>5, BeatsOps, DepthAssumption DEF ReadRoom
        <5>7. Room("AR")' = ReadRoom(activeReads', responses)
          BY <5>4 DEF Room
        <5> QED BY <4>3, <5>1, <5>6, <5>7
      <4> QED BY <4>1, <4>2, <4>3 DEF Late
    <3> QED BY <1>1, <2>1, <3>2, <3>4 DEF V3In, Handled, Renewed
  <2>4. ASSUME NEW ch \in In, ch \notin live
        PROVE  ahead'[ch] = 0
    <3>1. ahead[ch] = 0 /\ ~offer[ch]
      BY <1>5, <1>11, <2>4 DEF V3, Pins
    <3>2. ch \in Late => ~Fire(ch)
      BY <1>9, <3>1 DEF Fire
    <3> QED BY <1>2, <3>1, <3>2, ChannelParts DEF Beats
  <2>5. ASSUME NEW ch \in Out
        PROVE  V3Out(ch)'
    <3>1. V3Out(ch)
      BY <1>5, <1>11 DEF V3
    <3>2. CASE ch \in TLOut
      BY <1>1, <1>2, <2>1, <3>1, <3>2 DEF V3Out, Handled
    <3>3. CASE ch \in LateOut
      <4>1. ~Handled(ch)
        BY <1>1, <3>3 DEF Handled, LateOut, Early, TLOut
      <4>2. owed'[ch] = 0
        BY <1>2, <3>1, <3>3, <4>1, BeatsOps DEF V3Out
      <4> QED BY <2>1, <4>2 DEF V3Out, Handled
    <3> QED BY <3>2, <3>3, ChannelParts
  <2> QED BY <1>1, <2>1, <2>2, <2>3, <2>4, <2>5, ChannelParts DEF V3
<1>12. ASSUME host = "dpi"
       PROVE  DPI'
  <2>1. pc' = "edge"
    BY <1>1, <1>12 DEF AfterTock
  <2>2. ASSUME NEW ch \in In
        PROVE  DPIIn(ch)'
    <3>1. DPIIn(ch)
      BY <1>5, <1>12 DEF DPI
    <3>2. CASE ch \in Early
      BY <1>1, <1>2, <1>8, <2>1, <3>1, <3>2 DEF DPIIn, Handled, Renewed
    <3>3. CASE ch \in Late
      <4>1. ~Handled(ch) /\ ~Renewed(ch)
        BY <1>1, <3>3 DEF Handled, Renewed, Early, TLOut, Late
      <4>2. ahead'[ch] = Beats(offer[ch] /\ top[ch])
        BY <1>2, <1>9, <3>1, <3>3, <4>1, BeatsOps DEF DPIIn, Fire, Beats
      <4> QED BY <1>1, <2>1, <4>2 DEF DPIIn, Handled, Renewed
    <3> QED BY <3>2, <3>3, ChannelParts
  <2>3. ASSUME NEW ch \in Out
        PROVE  DPIOut(ch)'
    <3>1. DPIOut(ch)
      BY <1>5, <1>12 DEF DPI
    <3>2. CASE ch \in TLOut
      BY <1>1, <1>2, <2>1, <3>1, <3>2 DEF DPIOut, Handled
    <3>3. CASE ch \in LateOut
      <4>1. ~Handled(ch)
        BY <1>1, <3>3 DEF Handled, LateOut, Early, TLOut
      <4>2. owed'[ch] = 0 - Beats(top[ch] /\ accept[ch])
        BY <1>1, <1>2, <3>1, <3>3, <4>1 DEF DPIOut, Fire, Beats
      <4> QED BY <1>1, <2>1, <4>2 DEF DPIOut, Handled
    <3> QED BY <3>2, <3>3, ChannelParts
  <2> QED BY <2>1, <2>2, <2>3 DEF DPI
<1> QED BY <1>1, <1>6, <1>10, <1>11, <1>12 DEF BeatInv

\* What Push* and the readys of the device do to a port.
LEMMA PushedPorts ==
  ASSUME port \in PortValues, offer \in [In -> BOOLEAN],
         NEW acc \in [Out -> BOOLEAN]
  PROVE  /\ \A ch \in In : /\ PushValid[ch].valid = offer[ch]
                           /\ PushValid[ch].ready = port[ch].ready
                           /\ PushReady(PushValid, acc)[ch] = PushValid[ch]
                           /\ PushReady(port, acc)[ch] = port[ch]
                           /\ Pulled[ch] = port[ch].ready
         /\ \A ch \in Out : /\ PushValid[ch] = port[ch]
                            /\ PushReady(PushValid, acc)[ch].valid = port[ch].valid
                            /\ PushReady(PushValid, acc)[ch].ready = acc[ch]
                            /\ PushReady(port, acc)[ch].valid = port[ch].valid
                            /\ PushReady(port, acc)[ch].ready = acc[ch]
                            /\ Pulled[ch] = port[ch].valid
<1>1. \A ch \in In : ch \in Channel /\ ch \notin Out
  BY ChannelParts
<1>2. \A ch \in Out : ch \in Channel /\ ch \notin In
  BY ChannelParts
<1>3. /\ \A ch \in In : PushValid[ch] = [port[ch] EXCEPT !.valid = offer[ch]]
      /\ \A ch \in Out : PushValid[ch] = port[ch]
  BY <1>1, <1>2 DEF PushValid
<1>4. PushValid \in PortValues
  BY PortShapes
<1>5. ASSUME NEW p \in PortValues
      PROVE  /\ \A ch \in In : PushReady(p, acc)[ch] = p[ch]
             /\ \A ch \in Out : /\ PushReady(p, acc)[ch].valid = p[ch].valid
                                /\ PushReady(p, acc)[ch].ready = acc[ch]
  <2>1. \A ch \in Channel : PushReady(p, acc)[ch] =
          IF ch \in Out THEN [p[ch] EXCEPT !.ready = acc[ch]] ELSE p[ch]
    BY DEF PushReady
  <2> QED BY <1>1, <1>2, <2>1 DEF PortValues
<1>6. \A ch \in In : /\ PushValid[ch].valid = offer[ch]
                     /\ PushValid[ch].ready = port[ch].ready
  BY <1>1, <1>3 DEF PortValues
<1>7. /\ \A ch \in In : Pulled[ch] = port[ch].ready
      /\ \A ch \in Out : Pulled[ch] = port[ch].valid
  BY <1>1, <1>2 DEF Pulled
<1> QED BY <1>3, <1>4, <1>5, <1>6, <1>7

\* Push* brings what the device offers to the ports, and below the DPI its readys.
LEMMA BeatPush ==
  ASSUME BenchType, BeatInv, Push, Running
  PROVE  BeatInv'
<1>1. /\ pc = "push" /\ pc' = "handle"
      /\ UNCHANGED <<host, live, pendingB, activeWrites, finishedWrites, activeReads,
                     pendingReadResponses, offer, top, wOwed, ahead, owed>>
  BY DEF Push, agentVars
<1>2. /\ host = "v3" => port' = PushValid /\ accept' = accept
      /\ host = "dpi" => accept' \in [Out -> BOOLEAN] /\ port' = PushReady(PushValid, accept')
  BY DEF Push, Acceptance
<1>3. host \in {"v3", "dpi"}
  BY HostAssumption DEF BenchType
<1>4. /\ \A ch \in In : port'[ch].valid = offer[ch] /\ port'[ch].ready = port[ch].ready
      /\ \A ch \in Out : port'[ch].valid = port[ch].valid
  BY <1>2, <1>3, PushedPorts DEF BenchType
<1>5. WritesActive /\ Pins /\ (host = "v3" => V3) /\ (host = "dpi" => DPI)
  BY DEF BeatInv
<1>6. WritesActive' /\ Pins'
  BY <1>1, <1>4, <1>5 DEF WritesActive, Pins
<1>7. ASSUME host = "v3"
      PROVE  V3'
  <2>1. \A ch \in Out : port'[ch] = port[ch]
    BY <1>2, <1>7, PushedPorts DEF BenchType
  <2>2. \A ch \in In : Room(ch)' = Room(ch)
    BY <1>1, <2>1 DEF Room, Out
  <2>3. ASSUME NEW ch \in In
        PROVE  IF ch \in live THEN V3In(ch)' ELSE ahead'[ch] = 0
    BY <1>1, <1>4, <1>5, <1>7, <2>2 DEF V3, V3In, Handled, Renewed
  <2>4. ASSUME NEW ch \in Out
        PROVE  V3Out(ch)'
    BY <1>1, <1>5, <1>7, <2>1 DEF V3, V3Out, Handled, Fire
  <2>5. ("AR" \in live /\ port["R"].valid /\ pc # "settle" => port["R"].ready)'
    BY <1>1, <1>5, <1>7, <2>1 DEF V3, Out
  <2> QED BY <1>1, <2>3, <2>4, <2>5 DEF V3
<1>8. ASSUME host = "dpi"
      PROVE  DPI'
  <2>1. \A ch \in Out : port'[ch].ready = accept'[ch]
    BY <1>2, <1>8, PushedPorts DEF BenchType
  <2>2. ASSUME NEW ch \in In
        PROVE  DPIIn(ch)'
    BY <1>1, <1>4, <1>5, <1>8 DEF DPI, DPIIn, Handled, Renewed
  <2>3. ASSUME NEW ch \in Out
        PROVE  DPIOut(ch)'
    BY <1>1, <1>4, <1>5, <1>8, <2>1 DEF DPI, DPIOut, Handled
  <2> QED BY <1>1, <2>2, <2>3 DEF DPI
<1> QED BY <1>1, <1>6, <1>7, <1>8 DEF BeatInv

\* Before the edge, device and agents see each other's readys.
LEMMA BeatSettle ==
  ASSUME ReadsTaken, BenchType, BeatInv, Settle, Running
  PROVE  BeatInv'
<1>1. /\ pc = "settle" /\ pc' = "edge"
      /\ UNCHANGED <<host, live, pendingB, activeWrites, finishedWrites, activeReads,
                     pendingReadResponses, offer, wOwed, ahead, owed>>
      /\ top' = Pulled /\ accept' \in Acceptance /\ port' = PushReady(port, accept')
  BY DEF Settle, agentVars
<1>2. accept' \in [Out -> BOOLEAN]
  BY <1>1 DEF Acceptance
<1>3. /\ \A ch \in In : port'[ch] = port[ch] /\ top'[ch] = port[ch].ready
      /\ \A ch \in Out : /\ port'[ch].valid = port[ch].valid /\ port'[ch].ready = accept'[ch]
                         /\ top'[ch] = port[ch].valid
  BY <1>1, <1>2, PushedPorts DEF BenchType
<1>4. WritesActive /\ Pins /\ (host = "v3" => V3) /\ (host = "dpi" => DPI)
  BY DEF BeatInv
<1>5. WritesActive' /\ Pins'
  BY <1>1, <1>4 DEF WritesActive, Pins, Renewed
<1>6. host # "dpi"
  BY <1>1, <1>4 DEF DPI
<1>7. ASSUME host = "v3"
      PROVE  V3'
  <2>1. \A ch \in In : Room(ch)' = Room(ch)
    BY <1>1, <1>3 DEF Room, Out
  <2>2. ASSUME NEW ch \in In
        PROVE  IF ch \in live THEN V3In(ch)' ELSE ahead'[ch] = 0
    BY <1>1, <1>3, <1>4, <1>7, <2>1 DEF V3, V3In, Handled, Renewed
  <2>3. ASSUME NEW ch \in Out
        PROVE  V3Out(ch)'
    BY <1>1, <1>3, <1>4, <1>7 DEF V3, V3Out, Handled
  <2>4. ASSUME "AR" \in live
        PROVE  port'["R"].ready
    <3>1. ~RStall /\ "R" \in live
      BY <1>7, <2>4 DEF ReadsTaken, BenchType
    <3>2. accept'["R"]
      BY <1>1, <1>7, <3>1 DEF Acceptance
    <3> QED BY <1>3, <3>2 DEF Out
  <2> QED BY <1>1, <2>2, <2>3, <2>4 DEF V3
<1> QED BY <1>1, <1>5, <1>6, <1>7 DEF BeatInv

\* The clock edge.
LEMMA BeatEdge ==
  ASSUME BenchType, BeatInv, Edge, Running
  PROVE  BeatInv'
<1>1. /\ pc = "edge" /\ pc' = "push"
      /\ UNCHANGED <<host, live, port, pendingB, activeWrites, finishedWrites, activeReads,
                     pendingReadResponses, accept>>
      /\ top' = IF host = "dpi" THEN Pulled ELSE top
  BY DEF Edge, agentVars
<1>2. /\ \A ch \in In : ahead'[ch] = ahead[ch] - Beats(offer[ch] /\ top[ch])
      /\ \A ch \in Out : owed'[ch] = owed[ch] + Beats(top[ch] /\ accept[ch])
      /\ wOwed' = wOwed + Beats(offer["AW"] /\ top["AW"]) - Beats(offer["W"] /\ top["W"])
  <2> DEFINE sent == {ch \in In : offer[ch] /\ top[ch]}
             taken == {ch \in Out : top[ch] /\ accept[ch]}
  <2>1. /\ ahead' = [ch \in In |-> ahead[ch] - Beats(ch \in sent)]
        /\ owed' = [ch \in Out |-> owed[ch] + Beats(ch \in taken)]
        /\ wOwed' = wOwed + Beats("AW" \in sent) - Beats("W" \in sent)
    BY DEF Edge
  <2>2. /\ \A ch \in In : Beats(ch \in sent) = Beats(offer[ch] /\ top[ch])
        /\ \A ch \in Out : Beats(ch \in taken) = Beats(top[ch] /\ accept[ch])
    BY DEF Beats
  <2>3. "AW" \in In /\ "W" \in In
    BY DEF In
  <2> HIDE DEF sent, taken
  <2> QED BY <2>1, <2>2, <2>3
<1>3. /\ \A ch \in In : offer[ch] /\ ~top[ch] => offer'[ch]
      /\ \A ch \in In \ live : ~offer'[ch]
      /\ offer'["W"] => wOwed' > 0
  BY DEF Edge, Offers
<1>4. offer' \in [In -> BOOLEAN]
  BY DEF Edge, Offers
<1>5. WritesActive /\ Pins /\ (host = "v3" => V3) /\ (host = "dpi" => DPI)
  BY DEF BeatInv
<1>6. wOwed \in Int /\ ahead["AW"] \in Int /\ ahead["W"] \in Int /\ "AW" \in In /\ "W" \in In
  BY DEF BenchType, In
<1>7. WritesActive'
  <2>1. wOwed' \in Int /\ wOwed' >= 0
    <3>1. Beats(offer["W"] /\ top["W"]) = 1 => wOwed > 0
      BY <1>5, BeatsOps DEF WritesActive, Beats
    <3> QED BY <1>2, <1>5, <1>6, <3>1, BeatsOps DEF WritesActive
  <2>2. activeWrites' = wOwed' + ahead'["AW"] - ahead'["W"]
    BY <1>1, <1>2, <1>5, <1>6, BeatsOps DEF WritesActive
  <2> QED BY <1>3, <2>1, <2>2 DEF WritesActive
<1>8. Pins'
  BY <1>1, <1>3 DEF Pins
<1>9. ASSUME host = "v3"
      PROVE  V3'
  <2>1. ASSUME NEW ch \in In, ch \in live
        PROVE  V3In(ch)'
    <3>1. /\ ahead[ch] = Beats(offer[ch])
          /\ IF port[ch].ready THEN Room(ch) ELSE offer[ch]
          /\ top[ch] = port[ch].ready
      BY <1>1, <1>5, <1>9, <2>1 DEF V3, V3In, Handled, Renewed
    <3>2. Room(ch)' = Room(ch)
      BY <1>1 DEF Room
    <3>3. ahead'[ch] = IF port[ch].ready THEN 0 ELSE Beats(offer'[ch])
      BY <1>2, <1>3, <3>1 DEF Beats
    <3>4. ~offer'[ch] => Room(ch)'
      BY <1>3, <3>1, <3>2
    <3> QED BY <1>1, <3>3, <3>4 DEF V3In, Handled, Renewed
  <2>2. ASSUME NEW ch \in In, ch \notin live
        PROVE  ahead'[ch] = 0
    <3>1. ahead[ch] = 0 /\ ~offer[ch]
      BY <1>5, <1>9, <2>2 DEF V3, Pins
    <3> QED BY <1>2, <3>1 DEF Beats
  <2>3. ASSUME NEW ch \in Out
        PROVE  V3Out(ch)'
    <3>1. owed[ch] = 0 /\ top[ch] = port[ch].valid /\ accept[ch] = port[ch].ready
      BY <1>1, <1>5, <1>9 DEF V3, V3Out, Handled
    <3>2. owed'[ch] = Beats(port'[ch].valid /\ port'[ch].ready)
      BY <1>1, <1>2, <3>1, BeatsOps
    <3> QED BY <1>1, <3>2 DEF V3Out, Handled, Fire
  <2>4. ("AR" \in live /\ port["R"].valid /\ pc # "settle" => port["R"].ready)'
    BY <1>1, <1>5, <1>9 DEF V3
  <2> QED BY <1>1, <2>1, <2>2, <2>3, <2>4 DEF V3
<1>10. ASSUME host = "dpi"
       PROVE  DPI'
  <2>1. /\ \A ch \in In : top'[ch] = port[ch].ready
        /\ \A ch \in Out : top'[ch] = port[ch].valid
    BY <1>1, <1>10, ChannelParts DEF Pulled
  <2>2. ASSUME NEW ch \in In
        PROVE  DPIIn(ch)'
    <3>1. ahead[ch] = Beats(offer[ch] /\ top[ch])
      BY <1>1, <1>5, <1>10 DEF DPI, DPIIn, Handled
    <3>2. ahead'[ch] = 0
      BY <1>2, <3>1, BeatsOps
    <3> QED BY <1>1, <2>1, <3>2 DEF DPIIn, Handled, Renewed
  <2>3. ASSUME NEW ch \in Out
        PROVE  DPIOut(ch)'
    <3>1. owed[ch] = 0 - Beats(top[ch] /\ accept[ch])
      BY <1>1, <1>5, <1>10 DEF DPI, DPIOut, Handled
    <3>2. owed'[ch] = 0
      BY <1>2, <3>1, BeatsOps
    <3> QED BY <1>1, <2>1, <3>2 DEF DPIOut, Handled
  <2> QED BY <1>1, <2>2, <2>3 DEF DPI
<1> QED BY <1>1, <1>7, <1>8, <1>9, <1>10 DEF BeatInv

-----------------------------------------------------------------------------
(* main's report *)

\* As long as the loop runs, the state tells what has happened in the run, and a finish
\* that main's listener has seen reaches the device before the loop is left.
RunInv ==
  /\ reported = "nothing"
  /\ (state = "NOT_INITIALIZED") <=> (pc = "initialize")
  /\ (state = "FAILED") <=> asserted
  /\ ~asserted => (finishFired <=> state = "FINISHED")
  /\ log_dump => finishFired
  /\ state = "FINISHED" /\ host = "v3" => log_dump
  /\ log_dump /\ pc \in {"push", "handle", "fuzz"} => dumped

ReportInv ==
  IF pc \in {"finalize", "exit"} THEN ReportTruthful ELSE RunInv

LEMMA ReportInit == Init => ReportInv
  BY DEF Init, ReportInv, RunInv

LEMMA ReportStep == BenchType /\ ReportInv /\ [Next]_vars => ReportInv'
<1> SUFFICES ASSUME BenchType, ReportInv, [Next]_vars PROVE ReportInv'
  OBVIOUS
<1> USE DEF ReportInv, RunInv, agentVars, deviceVars, runVars
<1>1. CASE Initialize
  BY <1>1 DEF Initialize
<1>2. CASE Push
  BY <1>2 DEF Push
<1>3. CASE HandleChannel
  BY <1>3 DEF HandleChannel
<1>4. CASE Tick
  <2>1. CASE OnFinish
    BY <1>4, <2>1 DEF Tick, OnFinish, IsAlive, BenchType
  <2>2. CASE UNCHANGED <<state, log_dump, finishFired>>
    BY <1>4, <2>2 DEF Tick
  <2> QED BY <1>4, <2>1, <2>2 DEF Tick
<1>5. CASE UpdateSignal
  BY <1>5 DEF UpdateSignal
<1>6. CASE Memory
  BY <1>6 DEF Memory, AfterTock
<1>7. CASE Fail
  BY <1>7 DEF Fail, AfterTock, Caught
<1>8. CASE Settle
  BY <1>8 DEF Settle
<1>9. CASE Edge
  BY <1>9 DEF Edge
<1>10. CASE Report
  BY <1>10 DEF Report, InLoop, IsAlive, ReportTruthful, BenchType
<1>11. CASE Finalize
  BY <1>11 DEF Finalize, ReportTruthful
<1>12. CASE UNCHANGED vars
  BY <1>12 DEF vars, ReportTruthful
<1> QED BY <1>1, <1>2, <1>3, <1>4, <1>5, <1>6, <1>7, <1>8, <1>9, <1>10, <1>11, <1>12 DEF Next

LEMMA ReportHolds == Spec => [](BenchType /\ ReportInv)
<1>1. Init => BenchType /\ ReportInv
  BY BenchTypeInit, ReportInit
<1>2. BenchType /\ ReportInv /\ [Next]_vars => (BenchType /\ ReportInv)'
  BY BenchTypeStep, ReportStep
<1> QED BY <1>1, <1>2, PTL DEF Spec

\* v3_main.cpp reports FINISHED exactly if a fuzzer finished and no assertion failed,
\* whatever fails after the finish in the same Tock, and the device has then seen
\* log_dump.
THEOREM ReportIsTrue == Spec => []ReportTruthful
<1>1. ReportInv => ReportTruthful
  BY DEF ReportInv, RunInv, ReportTruthful
<1> QED BY <1>1, ReportHolds, PTL

-----------------------------------------------------------------------------
(* Beats *)

LEMMA BeatStep ==
  ASSUME ReadsTaken, BenchType, ReportInv, BeatInv, [Next]_vars
  PROVE  BeatInv'
<1> SUFFICES ASSUME Running'
             PROVE  BeatInv'
  BY DEF BeatInv
<1> USE DEF Running, agentVars, deviceVars, runVars
<1>1. CASE Initialize
  <2>1. Running
    BY <1>1 DEF Initialize, ReportInv, RunInv
  <2> QED BY <1>1, <2>1, BeatFrame DEF Initialize
<1>2. CASE Push
  BY <1>2, BeatPush DEF Push
<1>3. CASE HandleChannel
  BY <1>3, BeatHandle DEF HandleChannel
<1>4. CASE Tick
  <2>1. Running
    BY <1>4 DEF Tick, OnFinish, IsAlive, BenchType
  <2> QED BY <1>4, <2>1, BeatFrame DEF Tick
<1>5. CASE UpdateSignal
  BY <1>5, BeatUpdate DEF UpdateSignal
<1>6. CASE Memory
  BY <1>6, BeatMemory DEF Memory
<1>7. CASE Fail
  BY <1>7 DEF Fail, Caught
<1>8. CASE Settle
  BY <1>8, BeatSettle DEF Settle
<1>9. CASE Edge
  BY <1>9, BeatEdge DEF Edge
<1>10. CASE Report
  BY <1>10 DEF Report
<1>11. CASE Finalize
  BY <1>11 DEF Finalize
<1>12. CASE UNCHANGED vars
  BY <1>12, BeatFrame DEF vars
<1> QED BY <1>1, <1>2, <1>3, <1>4, <1>5, <1>6, <1>7, <1>8, <1>9, <1>10, <1>11, <1>12 DEF Next

LEMMA BeatInvAgrees ==
  ASSUME BenchType, BeatInv
  PROVE  BeatsAgree
<1> SUFFICES ASSUME pc = "push", IsAlive
             PROVE  /\ \A ch \in In :
                         IF host = "dpi" THEN ahead[ch] = 0
                         ELSE \/ ahead[ch] = 0
                              \/ ahead[ch] = 1 /\ offer[ch] /\ ~port[ch].ready
                    /\ \A ch \in Out : owed[ch] = Beats(host = "v3" /\ Fire(ch))
  BY DEF BeatsAgree
<1>1. (host = "v3" => V3) /\ (host = "dpi" => DPI)
  BY DEF BeatInv, Running, IsAlive
<1>2. host \in {"v3", "dpi"}
  BY HostAssumption DEF BenchType
<1>3. ASSUME host = "v3"
      PROVE  /\ \A ch \in In : \/ ahead[ch] = 0
                               \/ ahead[ch] = 1 /\ offer[ch] /\ ~port[ch].ready
             /\ \A ch \in Out : owed[ch] = Beats(Fire(ch))
  BY <1>1, <1>3 DEF V3, V3In, V3Out, Handled, Beats
<1>4. ASSUME host = "dpi"
      PROVE  /\ \A ch \in In : ahead[ch] = 0
             /\ \A ch \in Out : owed[ch] = 0
  BY <1>1, <1>4 DEF DPI, DPIIn, DPIOut, Handled
<1>5. /\ host = "v3" => \A ch \in Out : Beats(host = "v3" /\ Fire(ch)) = Beats(Fire(ch))
      /\ host = "dpi" => \A ch \in Out : Beats(host = "v3" /\ Fire(ch)) = 0
  BY DEF Beats
<1> QED BY <1>2, <1>3, <1>4, <1>5

\* Agents and device agree on the beats transferred: below the DPI always, and in
\* v3_main.cpp if the device takes read data at once.  If it does not, a read whose beat
\* starts to wait on channel R counts twice in ReadRoom, the memory withdraws its ready
\* in a cycle in which it took no request, and the one offered then is lost: the run
\* bug_read_lost.
THEOREM BeatsMovedWhole ==
  ASSUME ReadsTaken
  PROVE  Spec => []BeatsAgree
<1>1. Init => BenchType /\ ReportInv /\ BeatInv
  BY BenchTypeInit, ReportInit, BeatInit
<1>2. BenchType /\ ReportInv /\ BeatInv /\ [Next]_vars => (BenchType /\ ReportInv /\ BeatInv)'
  BY BenchTypeStep, ReportStep, BeatStep, ReadsTaken
<1>3. BenchType /\ BeatInv => BeatsAgree
  BY BeatInvAgrees
<1> QED BY <1>1, <1>2, <1>3, PTL DEF Spec
=============================================================================
