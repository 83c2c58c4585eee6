# tl-test-new in TLA+

tl-test-new is a stand-in for the L1 caches and bus masters of a processor: it
drives the TileLink ports of an L2 cache (the device under test, DUT) with
random traffic, keeps a scoreboard of what every block should hold, and stops at
the first assertion that fails. These modules are about the *tester*: does it keep
the protocol itself, does it lose anything, does it report mistakes of the DUT and
only those.

Paths below are relative to `src/main/`.

## 1. Inventory

| Component | State | Operations | Interacts with | What makes it correct |
|---|---|---|---|---|
| `TLAgent/CAgent` (an L1 data cache) | local board (status, privilege, dirty per alias of a block, cmoProbed), pending A/B/C/D/E, idMap, CMO status, AcquirePerm board, time stamps | `fire_a..fire_e`, `send_a`, `handle_b`, `send_c`, `send_e`, `update_signal`, `onGrant`; `do_acquireBlock/Perm`, `do_releaseData(Auto)`, `do_cbo_*` | DUT by the five channels; GlobalBoard; other CAgents by `GrantEvent` | statuses and messages agree; no assertion fails on a correct DUT; reports are true; permissions coherent; every probe and operation ends |
| `TLAgent/BaseAgent` (`IDPool`, `PendingTrans`) | idle and used ids, `pending_freeid`; a request and its beats | `getid`, `freeid`, `update`, `full`; `init`, `update` | its agent | no id leaks, none is used twice |
| `Utils/ScoreBoard` (`GlobalBoard`) | per block: status, data, pending data; memory alternatives with a life | `verify`, `update`, `unpending`, `grant/touch/reclaim_memory_alt` | all agents, memory backend | accepts the block's value; accepts nothing else once all is quiet |
| `TLAgent/ULAgent`, `Utils/ULScoreBoard` | Gets and Puts in flight, with time stamps; for each Get the values it may return | `fire_a`, `fire_d`, `do_getAuto`, `do_get`, `do_put*`; `allocate`, `append(All)`, `finish`, `verify` | GlobalBoard, writes of all agents | a Get's set of values contains every value it may legally see; entries and ids end together; only a Get that is late is reported as late |
| `TLAgent/MMIOAgent` | addresses in flight (shared), data, transactions by source | `send_a`, `fire_a`, `fire_d`, `do_get`, `do_put*` | the MMIO agents of the other cores | an address is freed by who took it; a checked Get is not raced by a Put of its address |
| `Memory/MemoryAgent` (AXI responder) | active and finished writes, active reads, memory | `fire_aw/w/b/ar/r`, `send_b/r`, `handle_aw/w/ar` | DUT, GlobalBoard's `mem` | it is a memory: writes whole and in order, reads one state of it; depths kept; everything answered |
| `Sequencer/TLSequencer` | NOT_INITIALIZED, ALIVE, FAILED, FINISHED | `Initialize`, `Finalize`, `Tick`, `Tock`, finish listener | everything | handler order; nothing runs unless ALIVE; a failure is not hidden by a finish |
| `Fuzzer/CFuzzer`, `ULFuzzer`, `MMIOFuzzer` | range in use, order of ranges, stream address, bandwidth profile | `tick`, `randomTest`, `caseTest` | one agent each | ranges change on time; the profile adds up; the run ends |
| `Fuzzer/UnifiedFuzzer` (Anvil) | counters U, R, B, epoch, monitored grants | `tick`, `TickAnvil`, `OnGrant` | all agents | an epoch ends; no counter overtakes its source |
| `System`, `Base`, `Events` | configuration, event listeners | ini parsing, event bus | | |
| `V3`, `DPI` (the hosts) | port signals, exit code | main loop; `TileLinkSystem*`, `Push*`, `Pull*` | simulator or verilated DUT, sequencer | no beat lost or doubled between ports and pins; the report is true |
| `PortGen` | generated text | `Generate` | V3, sequencer's numbering | every port is connected to the pins of its agent |
| `Plugins`, `CHIron` | logs | | | observe only |
| `Utils` otherwise | vendored queue, ini and event-bus libraries | | | |

Interaction. Each clock of the simulation runs `Tick`, the push of the DUT's
signals, `Tock` and the pull of the agents' signals. `Tock`
(`Sequencer/TLSequencer.cpp:562-612`) is sequential: every agent's
`handle_channel` (what *fired* on A, B, C, E, D, in that order), every MMIO agent's,
every fuzzer's `tick` (which may start an operation), every agent's
`update_signal` (what is *presented* on the ports next, the answer to a pending
probe, the recycling of ids), the memories. Agents share the GlobalBoard and see
each other's grants at once through `GrantEvent`. There are no threads: the hard
behaviour is the interleaving of the messages of many transactions, which the
DUT chooses, with the presentation of a request over many cycles.

Hard behaviour, in one line each (`PROJECT.json`, "hazards", has the lines of code):
nested transactions of one block (sixteen statuses); requests presented again until
they fire; probes that must wait for a ReleaseAck; answers looked up through tables
keyed by id (`idMap`) or by address only (time stamps); one-slot `pending_freeid`;
a scoreboard that must accept two values while a write is pending, and memory's too
while a cbo.inval is in flight; read-before-write of uninitialised or null data;
liveness nobody monitors (CAgent's `timeout_check` returns at once) and a time-out that must hit late
Gets only (ULAgent's); addresses kept apart in a table although they share a word; the board of uncached reads,
extended by every write while a Get is in flight; a memory that answers out of order from
snapshots; valids and readys that cross at different points of a cycle; a finish
event and a failed assertion in one `Tock`; stages and counters that wait for each other.

## 2. Modules

| Module | What it models |
|---|---|
| `TLMessages` | Opcodes, permissions, the sixteen statuses of `BaseAgent.h:51-69`, and one operator per status transition of `send_a`, `fire_a`, `send_c`, `fire_c`, `fire_d`, each beside the set of statuses its handler accepts |
| `GlobalBoard` | One scoreboard entry and one memory alternative as values; `Released`, `ProbeWritten`, `Unpending`, `Synced`, the three life operations, and `Accepted`, the set of values `verify` lets pass |
| `CoherentMemory` | Abstract: one writer or any readers of a block, which changes only by the hand of its writer |
| `CAgent` | NCore agents, their fuzzers, the shared scoreboard and memory, and an external DUT; implements CoherentMemory |
| `MCCAgent` | CAgent for TLC: sets of operations, and single assertions as properties |
| `CAgentProofs` | Types; conservation of ids; `idMap` names the block of every answer; permissions coherent, memory alternatives counted, the scoreboard right, proved |
| `CAgentAssertionProofs` | Statuses tell of the messages in flight, answers find their stamps, reports are true; hence no assertion fails; the agents implement CoherentMemory, proved |
| `MemoryAgentProofs` | Types, depths and assertions of the memory; it implements AXIMemory, proved |
| `UnifiedFuzzerProofs` | The order of the Anvil stages, proved |
| `MMIOAgent` | NCore MMIO agents and their fuzzers over the shared table of addresses in flight and the shared copy of the words, and an external device |
| `MCMMIOAgent` | MMIOAgent for TLC |
| `MMIOAgentProofs` | Type correctness; a mark in flight has one owner; the copy follows the device, and a mismatch is false only where operations at two addresses of a word have crossed, proved |
| `ULAgent` | Uncached agents that read, beside one CAgent on the same scoreboard and block, with the board of what each Get may return |
| `ULAgentProofs` | Board, local board and ids tell of the same Gets; no answer is reported falsely, and of all assertions of either kind of agent only the time-out of a late Get fails, proved |
| `AXIMemory` | Abstract: what a memory behind an AXI port promises |
| `MemoryAgent` | The AXI responder: bursts, queues, depths, latencies, out-of-order reads; implements AXIMemory |
| `TestBench` | The hosts (v3_main and DPI), the life cycle of the sequencer and the exchange of valid and ready |
| `TestBenchProofs` | No beat lost or doubled; the report is true, proved |
| `PortLayout`, `PinLayout` | Pure: which port is connected to which pins by the generated code, which agent is behind it; which fields and bytes the DPI functions and `v3_memaxi.hpp` copy |
| `UnifiedFuzzer` | The Anvil sequence: three stages, monitored grants, epochs |
| `Fuzzers` | The modes of CFuzzer and ULFuzzer, and the end of a run |
| `FuzzersProofs` | The ranges keep time, the profile adds up, proved |
| `Permutation` | `std::next_permutation` |
| `MCULAgent`, `MCMemoryAgent`, `MCTestBench`, `MCUnifiedFuzzer`, `MCFuzzers` | The same for TLC |

`CAgent` EXTENDS `TLMessages` and `GlobalBoard`; `MCCAgent` and `CAgentProofs`
EXTEND `CAgent`; `CAgentAssertionProofs` EXTENDS `CAgentProofs`, and `ULAgentProofs` EXTENDS `ULAgent`
and `CAgentAssertionProofs`, since the steps of the TL-C agent are CAgent's; `MCMMIOAgent` and
`MMIOAgentProofs` EXTEND `MMIOAgent`. The MMIO agents share no state with the cached
ones, so the two models are separate. `ULAgent` EXTENDS `CAgent`: its actions are those
of CAgent, with the uncached board beside them, and those of the uncached agents.
`MemoryAgent` holds an INSTANCE of `AXIMemory`, and `CAgent` one of `CoherentMemory`, under refinement mappings.
`PinLayout` EXTENDS `PortLayout`; `UnifiedFuzzer` and `Fuzzers` EXTEND `Permutation`. `TestBench`,
`UnifiedFuzzer` and `Fuzzers` reduce the agents to what those parts look at: when they
raise valid and ready, which blocks they own and have in flight, whether they accept a request.

### State and actions of CAgent

`pos` is the place in the current `Tock`. A handler with nothing to do is skipped:
`At(p)` moves from any earlier place to p. Hence a cycle may fire any
subset of the channels, as the DUT chooses, always in the order of the code, and
`update_signal` of every agent ends it.

| Action | Code |
|---|---|
| `FireA(c)` | `fire_a`: the DUT takes the request; statuses to waiting, time stamp, CMO fired, memory alternative granted |
| `FireB(c)` | `fire_b`: a probe is latched |
| `FireC(c)` | `fire_c`: a beat of a Release or ProbeAck leaves; after the last, status, privilege, dirty, scoreboard, probe id |
| `FireE(c)` | `fire_e`: GrantAck leaves, the block is valid |
| `FireD(c)` | `fire_d`: ReleaseAck, first and last beat of GrantData, Grant, CBOAck; `verify`, `unpending`, `map_latency`, `onGrant` of the others, `idMap.erase`, `freeid` |
| `Fuzz(c)` | an operation of the fuzzer that is accepted: `do_acquireBlock`, `do_acquirePerm`, `do_releaseDataAuto`, `do_cbo` |
| `Update(c)` | `update_signal`: `send_a`, `handle_b`, `send_c`, both `IDPool::update`, as one step |
| `WriteBack(a)` | external: the DUT writes the block's value to memory |

The entry's fields are variables (`status`, `privilege`, `dirty`, ...), indexed by
agent, block, alias. A pending request is a set of at most one record. A
`shared_ptr` to data is a set of at most one value, `{}` for `nullptr`. A failed
`tlc_assert` puts its name into `failed`; nothing happens after, as the
sequencer leaves ALIVE.

`dirty[4]` is not initialised by the code. For a TIP block that is not known dirty
`handle_b` chooses at random between ProbeAck and ProbeAckData anyway, so both
are offered and the garbage adds no outcome.

### The device under test (external)

The DUT is any manager that keeps an exact directory, serialises probes and grants
of a block, answers every request, and never grants against another copy. All the
rest is left open: when it probes and with which parameter, what it
grants, in which order it answers, when it writes back. Five constants widen it:

| Constant | The DUT may |
|---|---|
| `CStall`, `EStall` | keep C, E waiting for a cycle |
| `Unfiltered` | probe a block the agent does not hold (the code calls this inevitable, `CAgent.cpp:443`) |
| `CleanToT` | finish a cbo.clean with the block left TIP after a Probe toT (accepted at `CAgent.cpp:1310`) |
| `Overtake` | answer a request of the block before an earlier ReleaseAck of it: of the same agent ("own"), of another ("others") |

### MMIOAgent

`pos`, `failed`, pending requests and ids are as in `CAgent`. `localStatus` holds the
operation of each id, `inflightAddress` the marked addresses, `data` the tester's
copy. An address is a word and a byte in it, because the table is keyed by exact
address while `updateData` and the device work on words.

| Action | Code |
|---|---|
| `FireA(c)` | `fire_a`: the device takes the request, the operation waits for its answer |
| `FireD(c)` | `fire_d`: `verifyData` or `updateData`, `freeInflight` by the owner of the mark, `erase`, `freeid` |
| `Fuzz(c)` | an accepted `do_get`, `do_putfulldata`, `do_putpartialdata` of `randomTest` |
| `Update(c)` | `update_signal`: `send_a`, which marks the address on every presentation, and `IDPool::update` |
| `Perform(q)` | external: a request takes effect in the device, some time between its A and its D |

`AStall` lets the device keep channel A waiting, `PutOffset` says at which bytes of a
word a partial Put may start.

`crossed` is a history variable, which no action reads. The table knows addresses, and a Get or Put of
the whole word and a partial Put into its middle have different ones; so they go out together, and the
answers may reach the copy in another order than the device performed them. A byte is crossed
from the presentation at which two such operations, at least one of them a Put, meet at it, until a
Put of the byte is presented that meets no other there (`Meeting`, `Crossed`).

### ULAgent

`upos` is the place among the uncached agents' handlers, which in `Tock` follow the cached agents'
handlers of the same kind. `gets` and `answers` are the device's: a Get is read at
one moment (`Perform`) and answered later. The device reads a block only while no other
agent can be writing it.
`InvalRace` lets it grant a block a cbo.inval has changed before it has
answered a Get it read earlier. It may keep a Get for any time.

Time matters to `timeout_check` only, which runs in the cycles whose number is a multiple of
TIMEOUT_INTERVAL (50000, `Utils/Common.h:34`). Any `update_signal` may be in such a cycle, and the
age of an entry counts them: 0 in the cycle of the time stamp, 1 after it, one more in each such
cycle. At the second of them after the stamp, and not before, the entry is older than TIMEOUT_INTERVAL
(`TooOld`). So the model has every timing of the 50000 cycles without counting them. `waited` is a history
variable: the age of the Get the device has under each id, whatever the entry says.

| Action | Code |
|---|---|
| `FireGet(u)` | `fire_a`: an entry of the uncached board with the value of the global board, pending or valid, or zero, and the memory's while an alternative lives |
| `FireAccessAckData(u)` | `fire_d`: the first beat; at the last the value is checked, entry, local entry and id are freed |
| `DoGetAuto(u)` | `do_getAuto`, accepted |
| `ULUpdate` | `update_signal` of the uncached agents: `send_a`, which makes the entry and its stamp anew at every presentation, `timeout_check`, `IDPool::update` |
| `CFireC(c)` | `fire_c` of the cached agent, with `appendAll` for what its last beat writes |
| `Perform(g)` | external: the device reads the block |

### MemoryAgent and AXIMemory

One action per handler of `handle_channel`, in its order, and `Update` for
`update_signal` and the next `Tick`. Ages replace time stamps. A transaction removed
from a list of `shared_ptr` is removed from a sequence. The refinement hides positions, ages, readys,
collected beats and counters: `writes` is the requests of `activeWrites` (`AcceptedWrites`),
`written` the ids of `finishedWrites` (`WrittenIds`), `reads` the beats of each active read not
offered yet (`ReadsLeft`); a read is forgotten when its last beat is taken. A beat is
a data value per lane, so the model knows which byte goes where.

### TestBench

`pc` is the host's place in a cycle. The v3 host pushes valids, runs `Tock`, pulls valids,
lets the device settle and then exchanges readys, before the clock edge; the DPI host
follows the rule of `tilelink_dpi.cpp:21-22`. `ahead` and `owed` count the beats on which
the two sides differ.

| Action | Code |
|---|---|
| `Push`, `Settle`, `Edge` | the main loop, `v3_main.cpp:321-383`; or a caller of the DPI |
| `HandleChannel`, `Tick`, `UpdateSignal`, `Memory`, `Fail` | the parts of `Tock`; an assertion in any of them |
| `Initialize`, `Report`, `Finalize` | start and end of `main`, `TLInitialize`, `TLFinalize` |

### UnifiedFuzzer and Fuzzers

`UnifiedFuzzer`: one action per stage (`StageU`, `StageR`, `StageB(i)`, `EndTick`), each an
accepted request, a skipped one or a retry, and the three answers of the device. `Fuzzers`:
`Tick(f)` is `tick` of one fuzzer in its mode, `Cycle` the next cycle, `Finished` the listener that
closes the profile. What the constructor of `ULFuzzer` does not initialise (`startupInterval`)
is a choice of the first state.

## 3. Runs

| Run | Instance | Question |
|---|---|---|
| `one_block` | 1 agent, 1 block, 2 aliases, 2 ids, all operations, Unfiltered | Do statuses, messages, ids, idMap, stamps and reports stay consistent under every interleaving of a block's transactions, with no assertion failing? |
| `stalled` | 1 agent, 2 blocks, 1 alias, 2 ids, Release, Acquire, cbo.flush, CMO depth 1, CStall, EStall | The same when C and E may wait: which assertions go, what survives? Is the depth kept and no CMO counted after its end? |
| `coherence` | 2 agents, 1 block, 1 id each, 2 values, Acquire, Release, all CBOs | Are permissions coherent, are the agents caches of one memory, does the scoreboard accept the present value and, once quiet, nothing else? |
| `settle` | 1 agent, 1 block, 2 ids, 2 values, all operations, memorySyncStrict, fair | Is every probe answered, does every operation end, does strict mode resynchronise the board, also for answers to probes of a block given up? |
| `mmio` | 3 MMIO agents, 1 word of 2 bytes, 1 id each, 2 values, fair, no stall of A, partial Puts of byte 1 | Do marks and owners agree; where does the copy differ from the device, and a Get from the copy, and does any other assertion fail; is every request taken? |
| `memory` | 2 bus words of 2 bytes, 2 write and 2 read bursts, depths 2, latencies, out of order, fair | Is MemoryAgent an AXIMemory, are depths kept, is everything answered? |
| `uncached` | 1 cached agent, 1 uncached agent with 2 ids, 1 block, 2 values; Acquire, Release, cbo.inval | Does the uncached board accept what a correct device may return; do entries and ids agree; does the time-out hit late Gets and no others? |
| `bench` | both hosts; the TileLink channels, or the AXI channels with depths 2 | Do agents and device agree on every beat, is the report true, does the run end? |
| `anvil` | 2 agents, 8 blocks, 2 epochs, fair | Do the stages keep their order, do the epochs end? |
| `fuzz` | a TL-C and a TL-UL fuzzer, all pairs of modes, interval 9, target 6 | Are ranges changed on time, does the profile add up, does the run end? |
| `bug_read_lost`, `bug_wrap` | the smallest instance for each | Section 5 |

Bounds and why they are enough. The code keeps no count over blocks but the CMO
depth, so one block shows every nesting and two show the depth and the sharing of
channels and ids. Two aliases stand for four: every loop over aliases treats "this"
and "the others". Two ids let an Acquire or a CBO and a Release of one agent
overlap, which is as many as `CAGENT_NO_ALIAS_ACQUIRE` lets one block have; in
`coherence`, one id each still lets the agents' transactions overlap. Two values tell
"the present one" from "another"; a line has 2 beats, as in the code
(DATASIZE/BEATSIZE). No run bounds the number of cycles. `stalled` sets
`CHECK_DEADLOCK FALSE` because the sequencer really stops at a failed assertion.

In `memory`, one burst is narrow and crosses a bus word, one is wide; two reads in
progress show every order of beats; depth 2 is reached. Read ids are kept apart and data
follow addresses, as the assertions of the code ask. In `uncached`, two ids let a Get be
presented while another is answered. In `bench` bursts have one beat: a beat lost or
doubled is seen in the counters at once, and the counters stay small because the sides
differ by at most one beat. `anvil` takes the smallest size InitAnvil accepts, 8, and two
agents, the smallest number with a reader; two epochs show what the first leaves in flight. One
agent may have two requests in flight, so that stage R meets an acquire of stage U; thresholds
7 and 8 make the stages overlap and not.
`fuzz` takes intervals that are no multiple of the time step, and six rounds, one for each
order of three ranges; `MaxTime` bounds time at 200, beyond the end of every run. `bench` and the counterexample runs set `CHECK_DEADLOCK FALSE` where the
program stops.

In `mmio`, three agents show an owner, a Get that found the mark, and a
Put that waits, all at one address. One id each suffices, since nothing in the table tells
one agent's two operations from those of two agents; a word of 2 bytes tells "in the mask" from
"outside". The partial Puts are those of byte 1: they share the word with a Get or Put of all of it and
not its address, while a partial Put of byte 0 has the address of the whole word and is kept apart from it
as a full one is. A mismatch stops the tester, hence `CHECK_DEADLOCK FALSE`; so does the time-out in
`uncached`.

Properties (in `CAgent` and `MMIOAgent`, each with a comment):

- `StatusTracksMessages`: a waiting status has its answer on its way and no answer
  is on its way to a block that does not wait; a CMO is counted exactly while it is on the port or
  unanswered, and never more than `cmoParallelDepth`.
- `AnswersFindTheirBlock`, `AnswersStamped`, `IdsConserved`: tables keyed by id and by
  address serve every answer still to come.
- `ReportsTruthful`, `SingleWriter`: what C reports equals the directory although it
  was computed cycles ago; believed permissions are coherent.
- `OracleSound`, `OracleExact`, `AltCountsInvals`: no false mismatch, no missed one.
- `IsCoherentMemory`: every step of the agents is a step of CoherentMemory or none, for what an
  agent has of a block under whichever alias (`Copies`), the block's value and memory's.
- `ProbeAnswered`, `BlockSettles`: liveness.
- `NoAssertion`, `OnlyStallsFail`: the asserts of the code.
- `MarkHasOwner`, `CopyCurrent`: of the MMIO agents, every mark has one owner, who frees
  it; the tester's copy is right wherever no Put is under way and nothing has crossed.
- `OnlyCrossedMismatch`: no assertion of the MMIO agents fails but `verifyData`'s, and a verified Get and
  the copy differ at crossed bytes only.
- `OnlyLateGetsFail`: beside a TL-C agent the one assertion that fails is the time-out of a Get, exactly
  when the device has had it for longer than TIMEOUT_INTERVAL.
- `RequestTaken`: liveness of the MMIO agents.
- `IsAXIMemory`: every step of MemoryAgent is a step of AXIMemory or none. `DepthsKept`:
  although a ready is seen a cycle late. `RequestsAnswered`: no draw starves a read.
- `GetMayReturn`: what a Get may still return, now or after any writes, is in its set.
  `GetsAccounted`: board, local board and ids tell of the same Gets.
- `BeatsAgree`, `ReportTruthful`, `RunEnds`: of the hosts.
- `StagesInOrder`, `EpochsEnd`; `RangesInTime`, `ProfileAddsUp`, `FuzzEnds`: of the fuzzers.
- The assumptions `BurstsAsAXI` (burst addresses that do not wrap in the middle are the AXI
  protocol's), `PortsConnected` and `HostsAgree` (ports and pins) and `Rotation`
  (`next_permutation`) are evaluated by TLC with their runs: pure functions over bounded inputs.

Fairness (`Fairness`). Weak on `Update`: the clock runs. Weak on `FireC` and `FireE`:
in `settle` the DUT may not stall them. Strong on `FireA` (the DUT takes a request
in the end), on ReleaseAck, on the other answers, on the first beat of a GrantData
and on probes of copies that stand in the way of a request: the DUT does each when
it is possible again and again. Nothing is assumed of the fuzzer: it may
stop, or issue Releases for ever. The agent's own steps are part of `Update`, so
that `handle_b` and `send_c` run once a cycle, as they do in the code.

`MMIOAgent`: weak on the cycle, in which a request that may not be stalled is taken; strong on
`Perform` and on each agent's `FireD`. A Put that waits for an address has no queue:
an agent earlier in `Tock` may take the address in the cycle it is freed. So
`RequestTaken` promises the first agent its turn, and the others only if no agent
keeps issuing requests; a mismatch ends the run before.

`MemoryAgent`: weak on the cycle, strong on the master's W, B and R (it does not
leave an answer for ever), and the random draw of `send_r` picks every read in the end.
`TestBench`: weak on the next step; whether a fuzzer finishes is its own choice.
`UnifiedFuzzer`: weak on the clock; strong on the device's answers; and requests are not
refused for ever, which `BlockSettles` and `ProbeAnswered` say of the agents. `Fuzzers`: weak on
the clock only.

## 4. Theorems

Each theorem holds for every value of the constants that satisfies the ASSUMEs of the
modules it is about: any number of agents, any sets of blocks, aliases, ids and values, any
choice of the constants that widen the device, any requests, depths and latencies. A theorem
that needs more says so in its statement, and a configuration shows what happens without.

| Theorem | Module | Property | Needs |
|---|---|---|---|
| `TypeCorrect` | `CAgentProofs` | `TypeOK` | |
| `IdsCorrect` | `CAgentProofs` | `IdsConserved` | |
| `AnswersReachBlocks` | `CAgentProofs` | `AnswersFindTheirBlock` | |
| `CopiesCoherent` | `CAgentProofs` | `SingleWriter` | |
| `AlternativesCounted` | `CAgentProofs` | `AltCountsInvals` | |
| `OracleNeverWrong`, `OracleMissesNothing` | `CAgentProofs` | `OracleSound`, `OracleExact` | `InvalsWait` (`bug_inval_overtakes`) |
| `StatusesTrack` | `CAgentAssertionProofs` | `StatusTracksMessages` | |
| `AnswersTimed` | `CAgentAssertionProofs` | `AnswersStamped` | `"own" \notin Overtake` (`bug_two_releases`) |
| `ReportsTrue` | `CAgentAssertionProofs` | `ReportsTruthful` | `~CleanToT` (`bug_clean_to_t`) |
| `OnlyStalls` | `CAgentAssertionProofs` | `OnlyStallsFail` | `Overtake = {}`, `~CleanToT`, `DataProbed` (`bug_null_data`, `bug_null_unfiltered`) |
| `AssertionsHold` | `CAgentAssertionProofs` | `NoAssertion` | the same, `~CStall` (`bug_c_stall`), `~EStall` |
| `ImplementsCoherentMemory` | `CAgentAssertionProofs` | `IsCoherentMemory` | `Overtake = {}`, `~CleanToT`, `BoardFollows` (`bug_stale_probe`) |
| `MMIOTypeCorrect` | `MMIOAgentProofs` | `TypeOK` | |
| `MarksOwned` | `MMIOAgentProofs` | `MarkHasOwner` | `~AStall` (`bug_mmio_stall`) |
| `NoFalseMismatch`, `CopyFollowsDevice` | `MMIOAgentProofs` | `OnlyCrossedMismatch`, `CopyCurrent` | `~AStall` (`bug_mmio_stall`) |
| `EveryGetAccounted` | `ULAgentProofs` | `GetsAccounted` | |
| `GetsReturnRight` | `ULAgentProofs` | `GetMayReturn` | `InvalsCareful` (`bug_get_inval`, `bug_get_strict`, `bug_inval_overtakes`) |
| `ULAssertionsHold` | `ULAgentProofs` | `OnlyLateGetsFail` | `InvalsCareful`, `Overtake = {}`, `~CleanToT`, `~CStall`, `~EStall` |
| `MemoryTypeCorrect` | `MemoryAgentProofs` | `TypeOK` | |
| `DepthsCorrect` | `MemoryAgentProofs` | `DepthsKept` | |
| `ProperMasterMeetsNoAssertion` | `MemoryAgentProofs` | `NoAssertion` | `ProperMaster` |
| `AddressesStraight`, `CommitIsWritten` | `MemoryAgentProofs` | | `Straight` (`bug_wrap`) |
| `ImplementsAXIMemory` | `MemoryAgentProofs` | `IsAXIMemory` | `RequestsInBounds`, `FullWidth`, `StraightBursts` (`bug_wrap`) |
| `ReportIsTrue` | `TestBenchProofs` | `ReportTruthful` | |
| `BeatsMovedWhole` | `TestBenchProofs` | `BeatsAgree` | `ReadsTaken` (`bug_read_lost`) |
| `StagesOrdered` | `UnifiedFuzzerProofs` | `StagesInOrder` | |
| `RangesOnTime` | `FuzzersProofs` | `RangesInTime` | `StartsInTime` |
| `ProfilesAddUp` | `FuzzersProofs` | `ProfileAddsUp` | |

The passing runs satisfy these hypotheses, so each of them is satisfiable. Every inductive
invariant was also checked by TLC on the instance of a run. The proof of a step has one lemma per action;
frame lemmas (`IdFrame`, `MapFrame`, `CopyFrame`, ...) carry the invariant of the agents an
action does not concern.

### CAgent

`TypeOK` is inductive, over lemmas on what the operators of `TLMessages` and `GlobalBoard`
return. The beats of a request are part of its type, so a last beat is never sent twice.

`IdsConserved` is not inductive: an answer parks its id in the one `pending_freeid` slot,
and a second answer before the slot is emptied would lose the first. `IdInv`
adds, per agent: *SlotWindow* (the slot is full only between the agent's place for D
in the cycle and its `update_signal`, so `fire_d`, which comes once a cycle, finds it
empty), *OnePending* (a channel presents one request, on A the agent's own), *GrantOwed*
(an Acquire whose GrantData is half received is still unanswered, so its id is freed
once).

`AnswersFindTheirBlock` speaks of what the device owes; `MapInv` adds what is still on the
ports: an id names the block of its request from the `update_signal` that presents it, and
between the fuzzer's turn and that `update_signal` it may name nothing (*Unpresented*). By
`IdInv` no other request has the id, so neither a presentation nor `idMap.erase` spoils it.

`AltCountsInvals` needs `CMOInv` (an address has one CMO of an agent in flight, and
`localCMOStatus` knows whether it has left the port): the life is then the cardinality of the
set of agents whose cbo.inval of the block is in flight.

`SingleWriter` follows from `CopyInv`: the agents' permissions *are* the
directory's, the directory is coherent, a block is probed or granted at one agent at a time,
and per agent, a half received grant still fits, a block whose GrantAck is to come is not
granted anew, a probe holds its block until its answer has left, and what waits on channel C
gives up no more than the directory has. It needs `MapInv`, since `fire_d` installs a Grant in the
block that `idMap` names.

The oracle: `BoardInv` says that an entry is absent only for a block nobody has
written; that a valid entry has the block's value, unless a cbo.inval has dropped it for
memory's and the alternative is alive; and that a pending entry has the value of a release
whose ReleaseAck is to come. `InvalsWait` says that no answer overtakes a ReleaseAck, or that no
cbo.inval is issued: otherwise the ReleaseAck makes the dropped value valid.

`StatusTracksMessages`: `SlotsInv` says that the CMOs counted are finitely many, within the depth, and
under way; `CMOInv` that those under way are counted. `StatusInv` says of each status what is in flight for its block (`Tells`), of each
message on A and C which status its block has (`TellsA`, `TellsC`), and that an agent has one message of
an address on each way (`OneEach`). It is proved action by action, for any device; the lemmas
`Elsewhere*` carry it for the other agents and blocks.

`AnswersStamped`: stamps are keyed by address only, so the answers of two transactions of one address
may take each other's. `StampInv` says why none is missing: while a ReleaseAck is to come the agent holds
nothing of the block and is granted nothing, and a request whose stamp was spent on
a ReleaseAck leaves the agent without the block, so no second Release can follow.

`ReportsTruthful`: `ReleaseInv` (a Release on the port gives up all that is recorded) and `PermInv` (a
status that is invalid has no permission, one that is valid has some, and no Acquire is out for a TIP).

`NoAssertion` puts all of them together; each assertion is one lemma (`FireAPasses`, ...). Three more
invariants: `WindowInv` (what the device may not stall is gone by the agent's next turn on its channel),
`NestInv` (a report nested in an Acquire has no data), and `NullInv` (a block with a pending entry is
held by nobody and granted to nobody, and if holders only are probed, the pending release is the
probed agent's own, so the data `handle_b` dereferences are there). `DataProbed` says that the device does not
probe agents without the block, or drives one agent, or agents that issue no CMO.

`ImplementsCoherentMemory`: a Grant maps to `Acquire`, what C reports to `Shrink` or, with new data, to
`Write`, a CBOAck to `Clean` or `Invalidate`; all else stutters. `CopyInv` and `PermInv` give the guards. What
is hard is the data of a ProbeAckData for a block the agent has given up since: they come from the
scoreboard, and the device takes them. `CarryInv` says that they are the block's value then: a probe that
asks for data was sent to a TIP holder and keeps other writers away until it is answered, so a pending
release of the block is the probed agent's own, whose ReleaseAck `handle_b` waits for; and a valid entry
has the block's value as long as no alternative is alive (`NoAltInv`). `BoardFollows` says that a
cbo.inval resynchronises the board (`memorySyncStrict`), or that none is issued. `coherence`, where
it does not, has one id per agent, too few for a CBO beside the Release.

### MMIOAgent

`MarkHasOwner` needs `MarkInv`: a request is on the port only outside the stretch from its
agent's `fire_a` to its `update_signal` (*PresentedWindow*: so `send_a` never presents one
twice), an operation is known exactly from its presentation to its answer
(*OnePending*, *OneEntry*), and the device owes one answer per id, to an operation that waits
(*OwedOnce*: so an answer frees the mark of its own operation).

`OnlyCrossedMismatch` and `CopyCurrent` are proved together by `DataInv`, on top of `MarkInv`, for
operations of any size at any offset. Every Put owns the mark of its address (*PutsMarked*), so two
operations that share a byte, one of them a Put, and are both known to the table have different addresses,
and the byte is crossed (*CrossedInv*). At a byte that is not crossed a Put that was performed and
not answered is therefore the last to have written the device's word, and a verified Get that was performed has
read what the copy still holds (*AnswerInv*). A presentation crosses what it meets and clears only bytes
where it is alone (`Alone`), which is why the next Put that is alone with a crossed byte mends the copy.

### ULAgent

`GetsInv` adds to `GetsAccounted` that the device has each Get once, performed or not, and
that an id waits in `pending_freeid` only from the last beat of its answer to the end of the
cycle. The writes of the cached agent add values to entries and take none away
(`AppendKeepsGets`), which is all the proof needs of them.

`GetMayReturn` and `OnlyLateGetsFail` need to know what the TL-C agent writes. `AgentInv` is the
conjunction of its invariants; a step of a TL-UL agent moves only `pos` of what they speak of (`AgentBeside`), so they
hold in the composed system too. `ReturnInv` says that a Get not yet performed has the block's
value on its entry, or memory's is the block's and an alternative is alive (`Backed`); and that the value
a performed Get will return is on its entry, or is memory's, which stays so as nobody can write the
block (`Unwritable`). The second case is why `InvalsCareful` is needed where a cbo.inval may be
issued: the alternative must outlive the Get. `SentInv` (a Get on the port has been presented) gives
the other assertions of the TL-UL agents; `GetsAccounted` says that an entry is as old as the device's Get, so
`timeout_check` fails exactly when a Get is late.

### MemoryAgent

`DepthsKept` needs nothing of the master; `ProperMaster` says that it sends addresses first,
reads with ids of its own and stays inside the memory. `MemoryInv` joins *WriteDepthInv* and
*ReadDepthInv* (a ready tells of room until its channel has had its turn in the cycle) with
*ReadsInv*: active reads have different ids, every beat offered has been sent but the one on
offer, and that one is of an active read. `ContentInv` says what is in the queues: writes in
progress lack a beat, reads have a beat to send and are no older than those before them, and what
is on offer is due.

The loops over the beats of a burst are recursive functions over `0 .. n`. What they compute
is shown by an induction over sets of numbers (`SetInduction`: a set that has 0 and with each number the next has all), which follows from the library's theorem that strict inclusion of finite sets
is well founded; no operator is passed to a theorem. `Recursion` then says that such a
function exists and satisfies its equations. So `AddressesStraight` (what TLC evaluates as
`BurstsAsAXI` on bounded bursts) and `CommitIsWritten` hold for bursts of any length.

`ImplementsAXIMemory` uses them: `FireAW` maps to `AcceptWrite`; the last beat of `FireW` to
`Commit`, which the abstract memory does at once; `FireAR` accepts a read with the beats as
they are then; `FireB` and `FireR` take what is on offer; `Update` offers the next
acknowledgement, the next beat, or both, or stutters. `Image*` are the lemmas on the queues seen through
the mapping. `FullWidth` is a hypothesis because for a narrower read the code
collects the bytes from the first byte of the word on, where AXI puts them in the lanes of their
addresses; `StraightBursts` because of finding 2.

### TestBench, UnifiedFuzzer

`ReportTruthful` follows from `RunInv`: as long as the loop runs, the state tells what has
happened, and a finish the listener has seen reaches the device before the loop is left.

`BeatsAgree` needs, channel by channel, whether its agent has had its turn in this `Tock`
(*Handled*, *Renewed*): before it the pins are those of the last edge, after it valid and ready
are new. In v3 a ready that has fallen means that something fired (`V3`); below the
DPI both sides look at the same pins (`DPI`). `ReadsTaken` excludes the device of finding 1.

`AnvilInv` adds to `StagesInOrder` that an acquire of stage
U in flight is monitored (so R, which waits for the monitor, passes none), and that a
stage found complete in this tick still is (so none of stage U's is in flight when an epoch ends and the
agents change places). It says nothing of GrantAcks still to be sent nor of the acquires of stage B, which
stage R does pass without releasing the block (`bug_anvil_skip`).

### Fuzzers

`ARIInv` says of each fuzzer that counts rounds: a change of ranges comes with the first tick that is
late enough, so less than a `timeStep` late (which the next change does not inherit, because due times
are multiples of the interval); each range whose turn is over has had `Due(n)` of its n turns up to
`Slack(n)`, and the range in use too, counted without the turn in progress. `StartsInTime` says that the
clock is finer than the interval and that the start-up ends before the first change is due: otherwise
the ranges change in every tick until they have caught up (section 5). That the next order is an order
(`NextPermutation`) needs `next_permutation`'s CHOOSE to find a least one; `Weight` maps orders to numbers.

`ProfilesInv`: the closed distributions and the one in progress are all cycles and blocks, and
a split lies at twice the blocks of the closed ones. `Sum` is a recursive function; `SumAppend`
says what one more member adds, by the induction over sets described under MemoryAgent.

### Only model-checked

- Liveness under fairness, which needs ENABLED, is out of the prover's reach: `ProbeAnswered`,
  `BlockSettles`, `RequestTaken`, `RequestsAnswered`, `RunEnds`, `EpochsEnd`, `FuzzEnds`.
- `PortLayout` and `PinLayout`, over bounded inputs, by the assumptions of `MCTestBench`.
- `BurstsAsAXI` over bounded bursts; the theorem `AddressesStraight` is the general statement.
- Theorems that take an operator as a parameter, hence the library's own induction theorems, and
  RECURSIVE operators are out of reach too; none is used here.

## 5. Findings

Each has a run that checks one property and finds it violated; `PROJECT.json`,
"findings", quotes the code.

1. `bug_read_lost`: `v3_main.cpp` shows the agents a new valid beside the ready of the
   cycle before. That is safe as long as a ready falls only when something fired. The
   memory's `ar.ready` falls otherwise too, when a read beat starts to wait on channel R and
   counts twice, and the read offered in that cycle is lost.
2. `bug_wrap`: a WRAP burst never wraps, because the address is compared with the
   boundaries of the block it has moved into.

Observations met on the way. Each has a configuration that TLC finds violated
(`tlc -config <name>.cfg <module>`); a passing run excludes just that.

| Configuration | Module | What it shows |
|---|---|---|
| `bug_c_stall` | `MCCAgent` | a ProbeAck for a waiting Acquire that the DUT does not take in its first cycle fails "unexpected ProbeAck" in `send_c` (`CAgent.cpp:736`) |
| `bug_clean_to_t` | `MCCAgent` | after a cbo.clean with a nested Probe toT the block is S_INVALID and still TIP (`CAgent.cpp:1321`); Acquire and probe then fail "Acquire happened on T block" |
| `bug_inval_overtakes` | `MCCAgent` | a cbo.inval answered before the ReleaseAck of the block: the ReleaseAck makes dropped data valid (`ScoreBoard.h:357`), a false data mismatch |
| `bug_two_releases` | `MCCAgent` | Releases of two aliases of a block share one time stamp (`CAgent.cpp:1023`); the second ReleaseAck fails "in-accurate inflight time count" |
| `bug_null_data` | `MCCAgent` | a probe that meets another agent's first, unacknowledged ReleaseData reads through a null pointer (`CAgent.cpp:569`) |
| `bug_null_unfiltered` | `MCCAgent` | the same with every answer in order, for a device that probes an agent without the block: the agent has a cbo on channel A, which keeps its entry alive, while another agent's first ReleaseData is unacknowledged |
| `bug_stale_probe` | `MCCAgent` | without `memorySyncStrict`, an agent that is probed for data, releases the block clean and has a cbo on channel A answers with the scoreboard's value (`CAgent.cpp:569`), which an earlier cbo.inval has dropped: the device and the board take it for the block's |
| `bug_mmio_stall` | `MCMMIOAgent` | a Get that waits on channel A for a cycle takes its own mark for another's (`MMIOAgent.cpp:249`): it is not verified and its address stays in flight for ever |
| `bug_mmio_partial` | `MCMMIOAgent` | a partial Put into the middle of a word is not kept apart from the Get of that word (`MMIOAgent.cpp:134`, `MMIOFuzzer.cpp:30-55`): a false data mismatch, which the run `mmio` has as its crossed bytes |
| `bug_get_inval` | `MCULAgent` | a Get read before a cbo.inval and answered after the block was granted anew returns a value the board has lost: a false mismatch |
| `bug_get_strict` | `MCULAgent` | with `memorySyncStrict` no alternative is granted, so a Get that the device performs between a cbo.inval and its CBOAck returns memory's value, which the uncached board has not got: a false mismatch |
| `bug_anvil_skip` | `MCUnifiedFuzzer` | stage R finds a block granted but its GrantAck not sent: the release is rejected and skipped, although the comment at `UnifiedFuzzer.cpp:157` says not to skip |

Seen in the code, and modelled as it is:
- `ULFuzzer`'s constructor leaves `startupInterval` uninitialised (`ULFuzzer.cpp:27-46`).
- A stream's first step is due after `fuzzStreamStep`, an address step, instead of the
  interval (`CFuzzer.cpp:54`, `ULFuzzer.cpp:41`).
- A start-up longer than the interval makes the ranges change every tick until they have
  caught up (`CFuzzer.cpp:329-331`); `fuzz` keeps it short.
- InitAnvil does not bound the thresholds by the size: above it their stage never starts.
- The finish listener is unregistered under another name than it was registered under
  (`TLSequencer.cpp:101, 452`).

Each counterexample needs a DUT that does something legal and foreseen in the code, but
which the DUTs in use may never do.

## 6. Not modelled

In `CAgent`: the hint port (`fire_l2ToL1Hint`; statistics only), `do_releaseData` (called
by `caseTest` only), `timeout_check` (returns at once, `CAgent.cpp:2395`), latency histograms, denied
operations (no effect), the random parts of addresses. In `MMIOAgent`: `timeout_check`
(no statement, `MMIOAgent.cpp:609`), the startup delay of the fuzzer. In `ULAgent`: Puts and `do_get`, which no
fuzzer issues; more than one cached agent. In `MemoryAgent`: several ports on one memory,
and the order of reads with `memoryOOOR` off (in the module, in no run). In
`UnifiedFuzzer`: the noise, whose requests `CAgent` covers. In `TestBench`: waveforms, the
reset sequence, the signal handler, and bursts of more than one beat.

Not modelled at all: reading the configuration (`System`, `Base`: values become
constants), compiling and loading generated code (`portgen_dynamic`), plugins and logs
(`Plugins`, `CHIron`: they observe only), vendored libraries in `Utils`.

## 7. Plan

Every safety invariant and action property that a run checks is stated by a theorem. Left:

1. An id pool as a set, implemented by `IDPool` (`IdInv`).
2. `ULAgent` with Puts, and with two cached agents; `AgentInv` and `AgentBeside` do not depend on
   what the TL-UL agents do.
3. `ImplementsAXIMemory` for narrow reads, once the lanes of `fire_ar` are decided.
