------------------------------ MODULE TestBench ------------------------------
(***************************************************************************)
(* The host of the tester: its main loop, the life cycle of TLSequencer    *)
(* and the copying of valid and ready signals between the ports of the     *)
(* agents and the pins of the device.  Two hosts call the same sequencer:  *)
(*   "v3"   v3_main.cpp, which drives a verilated device, and              *)
(*   "dpi"  a simulator that calls tilelink_dpi.cpp once per clock edge in *)
(*          the order its comment asks for: Tick, Push*, Tock, Pull*.      *)
(* Agents are reduced to when they raise ready and valid.  Bursts have one *)
(* beat here; the agents' own modules know the rest.                       *)
(*                                                                         *)
(* The device (external) changes what it offers at a clock edge only, and  *)
(* holds it until it sees it taken; its ready signals are free.            *)
(***************************************************************************)
EXTENDS Integers, FiniteSets

CONSTANTS
  Hosts,           \* the hosts to consider, "v3" and "dpi"
  Groups,          \* sets of channels; a run uses the channels of one set
  memoryWriteDepth, memoryReadDepth,   \* config
  RStall           \* below v3, the device may keep channel R waiting

In == {"B", "D", "AW", "W", "AR"}      \* from the device
TLOut == {"A", "C", "E"}               \* TileLink, to the device
Out == TLOut \cup {"AXI_B", "R"}       \* to the device
Channel == In \cup Out

ASSUME HostAssumption == Hosts \subseteq {"v3", "dpi"} /\ RStall \in BOOLEAN
ASSUME GroupAssumption == Groups \subseteq SUBSET Channel
ASSUME DepthAssumption == {memoryWriteDepth, memoryReadDepth} \subseteq Nat \ {0}

VARIABLES
  host, live,      \* the host and the channels of this run
  pc,              \* the host's next step
  state,           \* TLSequencer::state
  reported,        \* what main says of the run
  port,            \* [valid, ready] of each channel, on the agents' side
  top,             \* inputs of the device: ready of In, valid of Out
  offer, accept,   \* outputs of the device: valid of In, ready of Out
  pendingB,        \* a probe waits in the agent
  pendingOut,      \* TileLink channels on which an agent has a request
  activeWrites, finishedWrites, activeReads, pendingReadResponses,  \* numbers
  wOwed,           \* writes the device has sent the address of, not the data
  ahead,           \* beats taken by the agents, less those the device sent
  owed,            \* beats taken by the device, less those the agents sent
  log_dump, dumped,     \* the device's log_dump input; it was seen at an edge
  finishFired, asserted \* what has happened in this run

agentVars == <<pendingB, pendingOut, activeWrites, finishedWrites, activeReads,
               pendingReadResponses>>
deviceVars == <<offer, accept, top, wOwed>>
runVars == <<state, reported, log_dump, finishFired, asserted>>
vars == <<host, live, pc, port, ahead, owed, dumped, agentVars, deviceVars, runVars>>

Fire(ch) == port[ch].valid /\ port[ch].ready
Beats(cond) == IF cond THEN 1 ELSE 0
\* A request that is taken is no longer presented.
Withdrawn(fired) ==
  [ch \in Channel |-> IF ch \in fired THEN [port[ch] EXCEPT !.valid = FALSE] ELSE port[ch]]

Init ==
  /\ host \in Hosts /\ live \in Groups
  /\ pc = "initialize" /\ state = "NOT_INITIALIZED" /\ reported = "nothing"
  /\ port = [ch \in Channel |-> [valid |-> FALSE, ready |-> FALSE]]
  /\ top = [ch \in Channel |-> FALSE]
  /\ offer = [ch \in In |-> FALSE] /\ accept = [ch \in Out |-> FALSE]
  /\ pendingB = FALSE /\ pendingOut = {}
  /\ activeWrites = 0 /\ finishedWrites = 0
  /\ activeReads = 0 /\ pendingReadResponses = 0
  /\ wOwed = 0
  /\ ahead = [ch \in In |-> 0] /\ owed = [ch \in Out |-> 0]
  /\ log_dump = FALSE /\ dumped = FALSE /\ finishFired = FALSE /\ asserted = FALSE

-----------------------------------------------------------------------------
(* TLSequencer *)

\* A failed assertion in Initialize (InitAnvil checks the configuration)
\* leaves the sequencer FAILED.
Initialize ==
  /\ pc = "initialize"
  /\ state' \in {"ALIVE", "FAILED"}
  /\ asserted' = (state' = "FAILED")
  /\ pc' = "push"
  /\ UNCHANGED <<host, live, port, ahead, owed, dumped, agentVars, deviceVars,
                 reported, log_dump, finishFired>>

IsAlive == state = "ALIVE"

\* The finish listeners, in the order of their priorities: main's asks the
\* device for its performance log, the sequencer's leaves ALIVE.
OnFinish ==
  /\ finishFired' = TRUE
  /\ log_dump' = (log_dump \/ host = "v3")
  /\ state' = IF IsAlive THEN "FINISHED" ELSE state

\* Mutant: only a run that is still alive can fail.
CaughtIfAlive == IF IsAlive THEN "FAILED" ELSE state
\* Tock's catch.
Caught == "FAILED"

AfterTock == IF host = "v3" THEN "settle" ELSE "edge"

\* An assertion fails in any part of Tock; the rest of it is skipped.
Fail ==
  /\ pc \in {"handle", "fuzz", "update", "memory"}
  /\ state' = Caught
  /\ asserted' = TRUE
  /\ pc' = AfterTock
  /\ UNCHANGED <<host, live, port, ahead, owed, dumped, agentVars, deviceVars,
                 reported, log_dump, finishFired>>

-----------------------------------------------------------------------------
(* Tock *)

\* handle_channel of the TileLink agents.
HandleChannel ==
  /\ pc = "handle" /\ pc' = "fuzz"
  /\ LET taken == {ch \in {"B", "D"} : Fire(ch)}
         sent == {ch \in TLOut : Fire(ch)}
     IN  /\ ahead' = [ch \in In |-> ahead[ch] + Beats(ch \in taken)]
         /\ owed' = [ch \in Out |-> owed[ch] - Beats(ch \in sent)]
         /\ pendingB' = (pendingB \/ "B" \in taken)
         /\ pendingOut' = pendingOut \ sent
         /\ port' = Withdrawn(sent)
  /\ UNCHANGED <<host, live, dumped, activeWrites, finishedWrites, activeReads,
                 pendingReadResponses, deviceVars, runVars>>

\* The fuzzers issue a request, or fire the finish event, or do neither.
Tick ==
  /\ pc = "fuzz" /\ pc' = "update"
  /\ \E new \in SUBSET (TLOut \cap live) : pendingOut' = pendingOut \cup new
  /\ \/ OnFinish
     \/ UNCHANGED <<state, log_dump, finishFired>>
  /\ UNCHANGED <<host, live, port, ahead, owed, dumped, pendingB, activeWrites,
                 finishedWrites, activeReads, pendingReadResponses, deviceVars,
                 reported, asserted>>

\* Mutant: a probe is not accepted while a request waits on channel C.
ProbeReadyIfIdle == ~pendingB /\ "C" \notin pendingOut
\* ready of channel B.
ProbeReady == ~pendingB

\* update_signal of the TileLink agents: the ready of channel B is set before
\* handle_b has had its chance to answer the probe.
UpdateSignal ==
  /\ pc = "update" /\ pc' = "memory"
  /\ port' = [ch \in Channel |->
       CASE ch = "B" -> [port[ch] EXCEPT !.ready = ProbeReady]
         [] ch = "D" -> [port[ch] EXCEPT !.ready = TRUE]
         [] ch \in pendingOut -> [port[ch] EXCEPT !.valid = TRUE]
         [] OTHER -> port[ch]]
  /\ pendingB' \in {pendingB, FALSE}
  /\ UNCHANGED <<host, live, ahead, owed, dumped, pendingOut, activeWrites,
                 finishedWrites, activeReads, pendingReadResponses, deviceVars,
                 runVars>>

WriteRoom(writes) == writes < memoryWriteDepth
\* A read whose beat waits on channel R is in both queues and counts twice.
ReadRoom(reads, responses) == reads + responses < memoryReadDepth

\* handle_channel and update_signal of the memory: a response may be offered
\* as soon as its latency has passed.
Memory ==
  /\ pc = "memory" /\ pc' = AfterTock
  /\ LET fired == {ch \in {"AW", "W", "AR", "AXI_B", "R"} : Fire(ch)}
         n(ch) == Beats(ch \in fired)
         responses == pendingReadResponses - n("R")
         stuckR == port["R"].valid /\ "R" \notin fired
     IN  /\ ahead' = [ch \in In |-> ahead[ch] + n(ch)]
         /\ owed' = [ch \in Out |-> owed[ch] - n(ch)]
         /\ activeWrites' = activeWrites + n("AW") - n("W")
         /\ finishedWrites' = finishedWrites + n("W") - n("AXI_B")
         /\ activeReads' = activeReads + n("AR") - n("R")
         /\ \E b \in BOOLEAN, r \in BOOLEAN :
              /\ b => finishedWrites' > 0
              /\ port["AXI_B"].valid /\ "AXI_B" \notin fired => b
              /\ stuckR => r
              /\ r /\ ~stuckR => activeReads' > responses
              /\ pendingReadResponses' = responses + Beats(r /\ ~stuckR)
              /\ LET awReady == WriteRoom(activeWrites' + finishedWrites')
                 IN  port' = [port EXCEPT
                       !["AW"].ready = awReady,
                       !["W"].ready = awReady \/ activeWrites' > 0,
                       !["AR"].ready = ReadRoom(activeReads', responses),
                       !["AXI_B"].valid = b,
                       !["R"].valid = r]
  /\ UNCHANGED <<host, live, dumped, pendingB, pendingOut, deviceVars, runVars>>

-----------------------------------------------------------------------------
(* Pins *)

\* What the device may answer to the requests presented to it.
Acceptance ==
  {acc \in [Out -> BOOLEAN] :
     /\ \A ch \in Out \ live : ~acc[ch]
     /\ host = "v3" /\ ~RStall /\ "R" \in live => acc["R"]}

\* Push*: the device's valids; its readys too below the DPI.
PushValid == [ch \in Channel |->
  IF ch \in In THEN [port[ch] EXCEPT !.valid = offer[ch]] ELSE port[ch]]
PushReady(ports, acc) == [ch \in Channel |->
  IF ch \in Out THEN [ports[ch] EXCEPT !.ready = acc[ch]] ELSE ports[ch]]
\* Pull*: the agents' valids and readys.
Pulled == [ch \in Channel |-> IF ch \in In THEN port[ch].ready ELSE port[ch].valid]

\* Mutant: the loop goes on after the finish.
InLoopUnlessFailed == state \in {"ALIVE", "FINISHED"}
InLoop == IsAlive

\* Start of a cycle: Tick and Push*.
Push ==
  /\ pc = "push" /\ InLoop /\ pc' = "handle"
  /\ IF host = "v3"
     THEN port' = PushValid /\ UNCHANGED accept
     ELSE accept' \in Acceptance /\ port' = PushReady(PushValid, accept')
  /\ UNCHANGED <<host, live, ahead, owed, dumped, agentVars, offer, top, wOwed, runVars>>

\* v3 after Tock: valids are pulled, the device settles (V3EvalNegedge), then
\* the readys of both sides are exchanged.
Settle ==
  /\ pc = "settle" /\ pc' = "edge"
  /\ top' = Pulled
  /\ accept' \in Acceptance
  /\ port' = PushReady(port, accept')
  /\ UNCHANGED <<host, live, ahead, owed, dumped, agentVars, offer, wOwed, runVars>>

\* What the device may offer after the edge, if it saw `sent' taken.
Offers(sent, writes) ==
  {o \in [In -> BOOLEAN] :
     /\ \A ch \in In : offer[ch] /\ ch \notin sent => o[ch]
     /\ \A ch \in In \ live : ~o[ch]
     /\ o["W"] => writes > 0}

\* The clock edge.  Below the DPI what was pulled reaches the device after it.
Edge ==
  /\ pc = "edge" /\ pc' = "push"
  /\ LET sent == {ch \in In : offer[ch] /\ top[ch]}
         taken == {ch \in Out : top[ch] /\ accept[ch]}
     IN  /\ ahead' = [ch \in In |-> ahead[ch] - Beats(ch \in sent)]
         /\ owed' = [ch \in Out |-> owed[ch] + Beats(ch \in taken)]
         /\ wOwed' = wOwed + Beats("AW" \in sent) - Beats("W" \in sent)
         /\ offer' \in Offers(sent, wOwed')
  /\ top' = IF host = "dpi" THEN Pulled ELSE top
  /\ dumped' = (dumped \/ log_dump)
  /\ UNCHANGED <<host, live, port, agentVars, accept, runVars>>

-----------------------------------------------------------------------------
(* End of the run *)

\* The loop is left, and main reports the state.
Report ==
  /\ pc = "push" /\ ~InLoop /\ pc' = "finalize"
  /\ reported' = state
  /\ UNCHANGED <<host, live, port, ahead, owed, dumped, agentVars, deviceVars,
                 state, log_dump, finishFired, asserted>>

\* TLFinalize: plugins are disabled and the sequencer is taken down.
Finalize ==
  /\ pc = "finalize" /\ pc' = "exit"
  /\ state' = "NOT_INITIALIZED"
  /\ UNCHANGED <<host, live, port, ahead, owed, dumped, agentVars, deviceVars,
                 reported, log_dump, finishFired, asserted>>

Next ==
  \/ Initialize \/ Push \/ HandleChannel \/ Tick \/ UpdateSignal \/ Memory
  \/ Fail \/ Settle \/ Edge \/ Report \/ Finalize

Spec == Init /\ [][Next]_vars

\* The process runs, and a fuzzer finishes in the end only if it wants to.
FairSpec == Spec /\ WF_vars(Next)

-----------------------------------------------------------------------------
(* Properties *)

\* Agents and device agree on which beats were transferred, that is, on fire()
\* of Bundle.h and Memory/Bundle.hpp, although in v3_main.cpp an agent looks at
\* a valid with the ready of the cycle before and the device with that of this
\* cycle.  So a beat may be taken before the device counts it as sent, but it is
\* then still on the pins, and no beat is lost or taken twice.
BeatsAgree ==
  pc = "push" /\ IsAlive =>
    /\ \A ch \in In :
         IF host = "dpi" THEN ahead[ch] = 0
         ELSE \/ ahead[ch] = 0
              \/ ahead[ch] = 1 /\ offer[ch] /\ ~port[ch].ready
    /\ \A ch \in Out : owed[ch] = Beats(host = "v3" /\ Fire(ch))

\* v3_main.cpp reports FINISHED, and returns no error, exactly if a fuzzer fired
\* the finish event and no assertion failed, before it or in the same Tock after
\* it; and the device has then seen log_dump at a clock edge.
ReportTruthful ==
  reported # "nothing" =>
    /\ (reported = "FINISHED") = (finishFired /\ ~asserted)
    /\ reported = "FINISHED" /\ host = "v3" => dumped

\* Once a fuzzer fires the finish event or an assertion fails, the run ends.
RunEnds == finishFired \/ asserted ~> pc = "exit"
=============================================================================
