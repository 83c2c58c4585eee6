------------------------------- MODULE CAgent -------------------------------
(***************************************************************************)
(* The TL-C agents of the tester (CAgent.cpp, BaseAgent.h): NCore agents,  *)
(* each an L1 cache that drives one TileLink port, the scoreboard they     *)
(* share, and the memory subsystem under test behind the ports.            *)
(*                                                                         *)
(* One cycle is TLSequencer::Tock: every agent's handle_channel (fire_a,   *)
(* fire_b, fire_c, fire_e, fire_d, in that order), every fuzzer's tick,    *)
(* every agent's update_signal.  pos says how far the current cycle is; a  *)
(* step that has nothing to do is skipped rather than taken.               *)
(*                                                                         *)
(* The device under test is external.  It is any manager that keeps an     *)
(* exact directory, serialises probes and grants per block and answers     *)
(* every request; when a message crosses the port is up to it.             *)
(***************************************************************************)
EXTENDS TLMessages, GlobalBoard, FiniteSets

CONSTANTS
  NCore,            \* number of agents
  Addr, Alias,      \* cache blocks, virtual-index aliases of a block
  SourceID,         \* ids of idpool (NR_SOURCEID of them)
  Ops,              \* operations the fuzzers may issue
  cmoParallelDepth, \* config: CMOs in flight per agent, 0 for no limit
  memorySyncStrict, \* config: a cbo.inval resynchronises the board
  \* Assumptions on the device
  CStall, EStall,   \* may keep C, E waiting for a cycle
  Unfiltered,       \* may probe a block the agent does not hold
  CleanToT,         \* cbo.clean may leave the block TIP, by a Probe toT
  Overtake          \* whose answers for a block may overtake a ReleaseAck of it:
                    \* "own" (the releasing agent's), "others" (other agents')

ASSUME NCoreAssumption == NCore \in Nat \ {0}
ASSUME AliasAssumption == Alias # {}
ASSUME SourceAssumption == SourceID \subseteq Nat
ASSUME OpsAssumption ==
  Ops \subseteq AcquireOp \cup CBOOp \cup {"Release"}
ASSUME ConfigAssumption ==
  /\ cmoParallelDepth \in Nat
  /\ {memorySyncStrict, CStall, EStall, Unfiltered, CleanToT} \subseteq BOOLEAN
  /\ Overtake \subseteq {"own", "others"}

Core == 0 .. NCore - 1

Block == [addr : Addr, alias : Alias]
ReqA == [core : Core, op : AcquireOp \cup CBOOp, addr : Addr, alias : Alias,
         param : TLParamAcquire, source : SourceID]
ReqB == [addr : Addr, alias : Alias, param : TLParamProbe, needdata : BOOLEAN]
\* The source of a ProbeAck is the one id of probePool.
ReqC == [op : ReleaseOp, addr : Addr, alias : Alias, param : TLPermDemotion,
         beats : 1 .. 2, data : Data, source : {{i} : i \in SourceID}]
        \cup
        [op : ProbeAckOp, addr : Addr, alias : Alias, param : TLPermDemotion,
         beats : 1 .. 2, data : Data, source : {{}}]
ReleaseAck == [core : Core, addr : Addr, source : SourceID]
CMOStatus == [op : CBOOp \cup {"none"}, fired : BOOLEAN]

VARIABLES
  \* The cycle
  pos,          \* position in the current Tock
  failed,       \* assertions that have failed; the run stops at the first
  \* localBoard: one C_SBEntry per known block
  known,        \* [Core -> set of Addr]: keys
  status, privilege, dirty,   \* [Core -> [Addr -> [Alias -> ...]]]
  cmoProbed,    \* [Core -> set of Addr]
  acquirePerm,  \* [Core -> set of Block]: acquirePermBoard
  \* Pending transactions: sets of at most one
  pendingA, pendingB, pendingC,
  pendingD,     \* set of Source: a GrantData whose second beat is to come
  pendingE,     \* set of Block
  \* Identifiers
  idMap,        \* [Core -> [SourceID -> set of Block]]
  idle, freeSlot,   \* idpool: idle_ids, pending_freeid
  probePool,    \* the only id of probeIDpool
  cmo,          \* localCMOStatus: [Core -> [Addr -> [op, fired]]]
  stampA, stampC,   \* [Core -> set of Addr]: keys of inflightTimeStampsA/C
  \* Shared by the agents
  board, memAlt,    \* globalBoard and its memoryAlt
  mem,              \* the memory backend
  \* The device
  reqs,         \* A requests accepted and not answered
  relAcks,      \* ReleaseAcks owed
  probing,      \* <<core, addr>> probed and not answered
  granting,     \* <<core, addr>> granted and waiting for GrantAck
  cleaned,      \* <<core, addr>> probed toT by the cbo.clean in progress
  dir,          \* [Core -> [Addr -> [Alias -> TLPermission]]]
  line          \* [Addr -> Data]: current value

boardVars == <<board, memAlt>>
entryVars == <<known, status, privilege, dirty, cmoProbed, acquirePerm>>
pendVars == <<pendingA, pendingB, pendingC, pendingD, pendingE>>
idVars == <<idMap, idle, freeSlot, probePool>>
timeVars == <<cmo, stampA, stampC>>
dutVars == <<reqs, relAcks, probing, granting, cleaned, dir, line>>
vars == <<pos, failed, entryVars, pendVars, idVars, timeVars, boardVars, mem,
          dutVars>>

-----------------------------------------------------------------------------
(* The cycle *)

\* Positions of the handlers in a Tock of all agents.
PosA(c) == 5 * c + 1
PosB(c) == 5 * c + 2
PosC(c) == 5 * c + 3
PosE(c) == 5 * c + 4
PosD(c) == 5 * c + 5
PosFuzz(c) == 5 * NCore + c + 1
PosUpdate(c) == 6 * NCore + c + 1

\* A message the device must take this cycle is not skipped on the way to p.
Reach(p) ==
  /\ failed = {}
  /\ pos < p
  /\ \A c \in Core :
       /\ (~CStall /\ pendingC[c] # {}) => ~(pos < PosC(c) /\ PosC(c) < p)
       /\ (~EStall /\ pendingE[c] # {}) => ~(pos < PosE(c) /\ PosE(c) < p)

At(p) == Reach(p) /\ pos' = p

\* tlc_assert: the run fails with what when cond is false.
Check(cond, what) == IF cond THEN {} ELSE {what}

\* The one member of a set of at most one.
The(S) == CHOOSE x \in S : TRUE

-----------------------------------------------------------------------------
(* The device's side (external) *)

\* What the directory records when C reports a permission.
Reported(param) ==
  CASE param = "TtoT" -> "TIP"
    [] param \in {"TtoB", "BtoB"} -> "BRANCH"
    [] param \in {"TtoN", "BtoN", "NtoN"} -> "INVALID"

Held(a) == {h \in Core \X Alias : dir[h[1]][a][h[2]] # "INVALID"}
Quiet(a) == \A c \in Core : <<c, a>> \notin probing \cup granting

\* A block is probed on the device's own account or for a request of a master.
\* Data are asked of the holder of a TIP only.
MayProbe(c, b) ==
  /\ b.addr \in known[c]
  /\ Quiet(b.addr)
  /\ b.needdata => dir[c][b.addr][b.alias] = "TIP"
  /\ dir[c][b.addr][b.alias] = "INVALID" => Unfiltered
  /\ b.param = "toT" =>
       /\ CleanToT
       /\ \E r \in reqs : r.op = "CBOClean" /\ r.core = c /\ r.addr = b.addr

GrantPerm(r, perm) ==
  /\ perm = "BRANCH" => r.op = "AcquireBlock" /\ r.param = "NtoB"
  /\ perm # "INVALID"

MayOvertake(r) ==
  \A k \in relAcks :
    k.addr = r.addr => (IF k.core = r.core THEN "own" ELSE "others") \in Overtake

MayGrant(r, perm) ==
  /\ r.op \in AcquireOp
  /\ MayOvertake(r)
  /\ GrantPerm(r, perm)
  /\ Quiet(r.addr)
  /\ \A h \in Held(r.addr) :
       h # <<r.core, r.alias>> =>
         h[1] # r.core /\ perm = "BRANCH" /\ dir[h[1]][r.addr][h[2]] = "BRANCH"

MayAckCBO(r) ==
  /\ r.op \in CBOOp
  /\ Quiet(r.addr)
  /\ MayOvertake(r)
  /\ \A h \in Held(r.addr) :
       /\ r.op = "CBOClean"
       /\ \/ dir[h[1]][r.addr][h[2]] = "BRANCH"
          \/ h[1] = r.core /\ <<r.core, r.addr>> \in cleaned

\* The device may write a block back to memory at any time.
WriteBack(a) ==
  /\ failed = {} /\ pos = 0
  /\ mem' = [mem EXCEPT ![a] = line[a]]
  /\ UNCHANGED <<pos, failed, entryVars, pendVars, idVars, timeVars, boardVars,
                 dutVars>>

-----------------------------------------------------------------------------
(* handle_channel *)

FireA(c) ==
  /\ At(PosA(c))
  /\ \E r \in pendingA[c] :
       LET a == r.addr
           st == status[c][a]
           cbo == r.op \in CBOOp
       IN
       /\ pendingA' = [pendingA EXCEPT ![c] = {}]
       /\ reqs' = reqs \cup {r}
       /\ stampA' = [stampA EXCEPT ![c] = @ \cup {a}]
       /\ status' = IF cbo
            THEN [status EXCEPT ![c][a] = [x \in Alias |-> AfterFireCBO(st[x])]]
            ELSE [status EXCEPT ![c][a][r.alias] = AfterFireAcquire(@)]
       /\ cmo' = IF cbo
            THEN [cmo EXCEPT ![c][a] = [op |-> cmo[c][a].op, fired |-> TRUE]] ELSE cmo
       /\ memAlt' = IF r.op = "CBOInval" /\ ~memorySyncStrict
            THEN [memAlt EXCEPT ![a] = GrantMemoryAlt(@)]
            ELSE memAlt
       /\ failed' = IF cbo
            THEN Check(cmo[c][a].op # "none" /\ ~cmo[c][a].fired, "CMO fired")
                 \cup Check(\A x \in Alias : st[x] \in CBOSending, "CBO fire status")
            ELSE Check(st[r.alias] \in AcquireFirable, "A fire status")
  /\ UNCHANGED <<known, privilege, dirty, cmoProbed, acquirePerm, pendingB,
                 pendingC, pendingD, pendingE, idVars, stampC, board, mem,
                 relAcks, probing, granting, cleaned, dir, line>>

FireB(c) ==
  /\ At(PosB(c))
  /\ pendingB[c] = {}
  /\ \E b \in ReqB :
       /\ MayProbe(c, b)
       /\ pendingB' = [pendingB EXCEPT ![c] = {b}]
       /\ probing' = probing \cup {<<c, b.addr>>}
       /\ cleaned' = IF b.param = "toT" THEN cleaned \cup {<<c, b.addr>>} ELSE cleaned
  /\ UNCHANGED <<failed, entryVars, pendingA, pendingC, pendingD, pendingE,
                 idVars, timeVars, boardVars, mem, reqs, relAcks, granting,
                 dir, line>>

\* The request with one beat less to send.
LessABeat(r) ==
  [op |-> r.op, addr |-> r.addr, alias |-> r.alias, param |-> r.param,
   beats |-> r.beats - 1, data |-> r.data, source |-> r.source]

\* A beat of a Release or ProbeAck other than the last.
FireCBeat(c, r) ==
  /\ r.beats > 1
  /\ pendingC' = [pendingC EXCEPT ![c] = {LessABeat(r)}]
  /\ stampC' = IF r.op = "ReleaseData" THEN [stampC EXCEPT ![c] = @ \cup {r.addr}]
               ELSE stampC
  /\ UNCHANGED <<failed, status, privilege, dirty, probePool, boardVars, line,
                 dir, relAcks, probing>>

FireRelease(c, r) ==
  LET st == status[c][r.addr][r.alias] IN
  /\ r.beats = 1
  /\ r.op \in ReleaseOp
  /\ pendingC' = [pendingC EXCEPT ![c] = {}]
  /\ stampC' = [stampC EXCEPT ![c] = @ \cup {r.addr}]
  /\ failed' = Check(st \in ReleaseFirable, "C fire status")
  /\ status' = [status EXCEPT ![c][r.addr][r.alias] = AfterFireRelease(st)]
  /\ privilege' = [privilege EXCEPT ![c][r.addr][r.alias] = ShrinkGenPriv(r.param)]
  /\ dirty' = [dirty EXCEPT ![c][r.addr][r.alias] = FALSE]
  /\ IF r.op = "ReleaseData"
     THEN /\ board' = [board EXCEPT ![r.addr] = Released(@, r.data)]
          /\ memAlt' = [memAlt EXCEPT ![r.addr] = TouchMemoryAlt(@)]
          /\ line' = [line EXCEPT ![r.addr] = r.data]
     ELSE UNCHANGED <<boardVars, line>>
  /\ dir' = [dir EXCEPT ![c][r.addr][r.alias] = Reported(r.param)]
  /\ relAcks' = relAcks \cup
       {[core |-> c, addr |-> r.addr, source |-> The(r.source)]}
  /\ UNCHANGED <<probePool, probing>>

FireProbeAck(c, r) ==
  LET st == status[c][r.addr][r.alias] IN
  /\ r.beats = 1
  /\ r.op \in ProbeAckOp
  /\ pendingC' = [pendingC EXCEPT ![c] = {}]
  /\ failed' = Check(st \in ProbeAckFirable, "C fire status")
  /\ status' = [status EXCEPT ![c][r.addr][r.alias] = AfterFireProbeAck(st, r.param)]
  /\ privilege' = [privilege EXCEPT ![c][r.addr][r.alias] = ShrinkGenPriv(r.param)]
  /\ probePool' = [probePool EXCEPT ![c] = "freed"]
  /\ IF r.op = "ProbeAckData"
     THEN /\ board' = [board EXCEPT ![r.addr] = ProbeWritten(r.data)]
          /\ memAlt' = [memAlt EXCEPT ![r.addr] = TouchMemoryAlt(@)]
          /\ line' = [line EXCEPT ![r.addr] = r.data]
     ELSE UNCHANGED <<boardVars, line>>
  /\ dir' = [dir EXCEPT ![c][r.addr][r.alias] = Reported(r.param)]
  /\ probing' = probing \ {<<c, r.addr>>}
  /\ UNCHANGED <<stampC, dirty, relAcks>>

FireC(c) ==
  /\ At(PosC(c))
  /\ \E r \in pendingC[c] : FireCBeat(c, r) \/ FireRelease(c, r) \/ FireProbeAck(c, r)
  /\ UNCHANGED <<known, cmoProbed, acquirePerm, pendingA, pendingB, pendingD,
                 pendingE, idMap, idle, freeSlot, cmo, stampA, mem, reqs,
                 granting, cleaned>>

FireE(c) ==
  /\ At(PosE(c))
  /\ \E e \in pendingE[c] :
       /\ status' = [status EXCEPT ![c][e.addr][e.alias] = "S_VALID"]
       /\ pendingE' = [pendingE EXCEPT ![c] = {}]
       /\ granting' = granting \ {<<c, e.addr>>}
  /\ UNCHANGED <<failed, known, privilege, dirty, cmoProbed, acquirePerm,
                 pendingA, pendingB, pendingC, pendingD, idVars, timeVars,
                 boardVars, mem, reqs, relAcks, probing, cleaned, dir, line>>

\* Mutant: both stamps are erased.
MapLatencyBoth(c, a) ==
  /\ stampA' = [stampA EXCEPT ![c] = @ \ {a}]
  /\ stampC' = [stampC EXCEPT ![c] = @ \ {a}]

\* map_latency: the latency of an answer at a is charged to the stamp of an A
\* request if there is one, to that of a C request otherwise.
MapLatency(c, a) ==
  /\ stampA' = [stampA EXCEPT ![c] = @ \ {a}]
  /\ stampC' = IF a \in stampA[c] THEN stampC ELSE [stampC EXCEPT ![c] = @ \ {a}]

LatencyCheck(c, a) == Check(a \in stampA[c] \cup stampC[c], "inflight time count")

\* Mutant: the id is erased from idMap and never freed.
FreeSourceLeak(c, s) ==
  /\ idMap' = [idMap EXCEPT ![c][s] = {}]
  /\ UNCHANGED freeSlot

FreeSource(c, s) ==
  /\ idMap' = [idMap EXCEPT ![c][s] = {}]
  /\ freeSlot' = [freeSlot EXCEPT ![c] = {s}]

FireReleaseAck(c, k) ==
  /\ k.core = c
  /\ \E e \in idMap[c][k.source] :
       LET a == e.addr
           st == status[c][a][e.alias]
       IN
       /\ failed' = Check(st \in AwaitingReleaseAck, "D status") \cup LatencyCheck(c, a)
       /\ status' = [status EXCEPT ![c][a][e.alias] = AfterReleaseAck(st)]
       /\ board' = [board EXCEPT ![a] = Unpending(@)]
       /\ memAlt' = IF board[a].pending = {} THEN memAlt
                    ELSE [memAlt EXCEPT ![a] = TouchMemoryAlt(@)]
       /\ MapLatency(c, a)
  /\ FreeSource(c, k.source)
  /\ relAcks' = relAcks \ {k}
  /\ UNCHANGED <<privilege, dirty, cmo, mem, pendingD, pendingE, reqs,
                 granting, cleaned, dir, line>>

\* The first of the two beats of a GrantData.
FireGrantBeat(c, r, perm) ==
  LET st == status[c][r.addr][r.alias] IN
  /\ r.op = "AcquireBlock"
  /\ pendingD[c] = {}
  /\ pendingD' = [pendingD EXCEPT ![c] = {[req |-> r, perm |-> perm]}]
  /\ granting' = granting \cup {<<c, r.addr>>}
  /\ failed' = Check(st \in AwaitingReleaseAck \cup
                            {"S_A_WAITING_D", "S_A_WAITING_D_INTR", "S_INVALID"},
                     "D status")
  /\ UNCHANGED <<status, privilege, dirty, cmo, stampA, stampC, idMap, freeSlot,
                 boardVars, mem, pendingE, reqs, relAcks, cleaned, dir, line>>

\* onGrant of the other agents: nobody else may hold a block granted TIP.
GrantEventCheck(c, a, perm) ==
  Check(perm = "TIP" =>
          \A d \in Core \ {c} :
            a \in known[d] => \A x \in Alias : privilege[d][a][x] = "INVALID",
        "onGrant")

\* A Grant, or the last beat of a GrantData.
FireGrant(c, r, perm) ==
  \E e \in idMap[c][r.source] :
    LET a == e.addr
        st == status[c][a][e.alias]
    IN
    /\ r.op = "AcquireBlock" => pendingD[c] = {[req |-> r, perm |-> perm]}
    /\ pendingD' = [pendingD EXCEPT ![c] = {}]
    /\ failed' = Check(st \in {"S_A_WAITING_D", "S_A_WAITING_D_INTR"}, "D status")
         \cup Check(st # "S_A_WAITING_D_INTR", "ridiculous probe")
         \cup Check(pendingE[c] = {}, "E is pending")
         \cup Check(r.op = "AcquireBlock" => line[a] \in Accepted(board[a], memAlt[a], mem[a]),
                    "data mismatch")
         \cup LatencyCheck(c, a)
         \cup GrantEventCheck(c, a, perm)
    /\ status' = [status EXCEPT ![c][a][e.alias] = "S_SENDING_E"]
    /\ privilege' = [privilege EXCEPT ![c][a][e.alias] = perm]
    /\ dirty' = IF r.op = "AcquirePerm" THEN [dirty EXCEPT ![c][a][e.alias] = TRUE]
                ELSE dirty
    /\ pendingE' = [pendingE EXCEPT ![c] = {e}]
    /\ MapLatency(c, a)
    /\ FreeSource(c, r.source)
    /\ reqs' = reqs \ {r}
    /\ granting' = granting \cup {<<c, r.addr>>}
    /\ dir' = [dir EXCEPT ![c][r.addr][r.alias] = perm]
    /\ UNCHANGED <<cmo, boardVars, mem, relAcks, cleaned, line>>

\* The agent's state after the CBOAck; the device has written the block back,
\* or dropped its value for the one in memory.
CBOAckCheck(c, a, op) ==
  LET st == status[c][a]
      pr == privilege[c][a]
  IN  Check(\A x \in Alias : st[x] \in CBOAwaitingD, "CBOAck status")
      \cup Check(op = "CBOClean" =>
                   \A x \in Alias : pr[x] = "TIP" => a \in cmoProbed[c], "cbo.clean TIP")
      \cup Check(op # "CBOClean" => \A x \in Alias : pr[x] = "INVALID", "CBO permission")
      \cup Check(op = "CBOInval" =>
                   IF memorySyncStrict THEN board[a].status # "PENDING"
                   ELSE memAlt[a] # 0, "cbo.inval board")

FireCBOAck(c, r) ==
  LET a == r.addr
      op == cmo[c][a].op
  IN
  /\ failed' = Check(op # "none", "zero in-flight CMO")
       \cup CBOAckCheck(c, a, op) \cup LatencyCheck(c, a)
  /\ status' = [status EXCEPT ![c][a] =
       [x \in Alias |-> AfterCBOAck(op, @[x], privilege[c][a][x])]]
  /\ memAlt' = IF op = "CBOInval" /\ ~memorySyncStrict
       THEN [memAlt EXCEPT ![a] = ReclaimMemoryAlt(@)] ELSE memAlt
  /\ board' = IF op = "CBOInval" /\ memorySyncStrict
       THEN [board EXCEPT ![a] = Synced(@, mem[a])] ELSE board
  /\ mem' = IF op = "CBOInval" THEN mem ELSE [mem EXCEPT ![a] = line[a]]
  /\ line' = IF op = "CBOInval" THEN [line EXCEPT ![a] = mem[a]] ELSE line
  /\ MapLatency(c, a)
  /\ cmo' = [cmo EXCEPT ![c][a] = [op |-> "none", fired |-> FALSE]]
  /\ FreeSource(c, r.source)
  /\ reqs' = reqs \ {r}
  /\ cleaned' = cleaned \ {<<c, a>>}
  /\ UNCHANGED <<privilege, dirty, pendingD, pendingE, relAcks, granting, dir>>

FireD(c) ==
  /\ At(PosD(c))
  /\ \/ /\ pendingD[c] = {}
        /\ \E k \in relAcks : FireReleaseAck(c, k)
     \/ /\ pendingD[c] = {}
        /\ \E r \in reqs, perm \in TLPermission :
             /\ r.core = c
             /\ MayGrant(r, perm)
             /\ FireGrantBeat(c, r, perm) \/ (r.op = "AcquirePerm" /\ FireGrant(c, r, perm))
     \/ \E p \in pendingD[c] : FireGrant(c, p.req, p.perm)
     \/ /\ pendingD[c] = {}
        /\ \E r \in reqs : r.core = c /\ MayAckCBO(r) /\ FireCBOAck(c, r)
  /\ UNCHANGED <<known, cmoProbed, acquirePerm, pendingA, pendingB, pendingC,
                 idle, probePool, probing>>

-----------------------------------------------------------------------------
(* The fuzzer's operations.  A denied one changes nothing and is left out. *)

\* getid hands out the smallest idle id.
NextID(c, i) == \A j \in idle[c] : i <= j

\* REJECTED_BY_PENDING_B: a probe to answer goes first.
GivesWay(c) == pendingB[c] = {}

InFlight(c, a, waiting) ==
  a \in known[c] /\ \E x \in Alias : status[c][a][x] \in waiting

\* do_acquireBlock, do_acquirePerm, as the fuzzers call them (never BtoT).
DoAcquire(c, i, op, a, x, param) ==
  LET perm == privilege[c][a][x]
      valid == a \in known[c] /\ status[c][a][x] = "S_VALID"
      r == [core |-> c, op |-> op, addr |-> a, alias |-> x, source |-> i,
            param |-> IF valid /\ perm = "BRANCH" THEN "BtoT" ELSE param]
  IN
  /\ op \in Ops
  /\ param \in (IF op = "AcquireBlock" THEN {"NtoB", "NtoT"} ELSE {"NtoT"})
  /\ pendingA[c] = {} /\ GivesWay(c)
  /\ ~InFlight(c, a, Status \ Idle)
  /\ valid => perm \in (IF op = "AcquireBlock" THEN {"INVALID"} ELSE {"INVALID", "BRANCH"})
  /\ pendingA' = [pendingA EXCEPT ![c] = {r}]
  /\ UNCHANGED <<pendingC, cmo>>

DoReleaseDataAuto(c, i, a, x) ==
  LET perm == privilege[c][a][x]
      toN == IF perm = "TIP" THEN "TtoN" ELSE "BtoN"
      request(op, n, d) == [op |-> op, addr |-> a, alias |-> x, param |-> toN,
                            beats |-> n, data |-> d, source |-> {i}]
      forceDirty == [addr |-> a, alias |-> x] \in acquirePerm[c]
  IN
  /\ "Release" \in Ops
  /\ pendingC[c] = {} /\ GivesWay(c)
  /\ a \in known[c]
  /\ perm # "INVALID"
  /\ status[c][a][x] = "S_VALID"
  /\ ~InFlight(c, a, {"S_A_WAITING_D", "S_A_WAITING_D_INTR"})
  /\ \/ /\ perm = "TIP" => ~forceDirty
        /\ pendingC' = [pendingC EXCEPT ![c] = {request("Release", 1, Zero)}]
     \/ /\ perm = "TIP"
        /\ \E d \in Data :
             pendingC' = [pendingC EXCEPT ![c] = {request("ReleaseData", 2, d)}]
  /\ UNCHANGED <<pendingA, cmo>>

\* inflight of localCMOStatus
CMOInflight(c) == {a \in Addr : cmo[c][a].op # "none"}

\* Mutant: one CMO too many.
DepthAllowsOneMore(c) == cmoParallelDepth > 0 => Cardinality(CMOInflight(c)) <= cmoParallelDepth

\* cmoParallelDepth 0 is no limit.
DepthAllows(c) == cmoParallelDepth > 0 => Cardinality(CMOInflight(c)) < cmoParallelDepth

DoCBO(c, i, op, a) ==
  LET r == [core |-> c, op |-> op, addr |-> a, alias |-> CHOOSE x \in Alias : TRUE,
            param |-> "NtoB", source |-> i]   \* alias and param are 0
  IN
  /\ op \in Ops
  /\ cmo[c][a].op = "none"
  /\ DepthAllows(c)
  /\ pendingA[c] = {}
  /\ ~InFlight(c, a, Status \ (Idle \cup {"S_SENDING_C", "S_C_WAITING_D"}))
  /\ pendingA' = [pendingA EXCEPT ![c] = {r}]
  /\ cmo' = [cmo EXCEPT ![c][a] = [op |-> op, fired |-> FALSE]]
  /\ UNCHANGED pendingC

Fuzz(c) ==
  /\ At(PosFuzz(c))
  /\ \E i \in idle[c], a \in Addr :
       /\ NextID(c, i)
       /\ \/ \E op \in AcquireOp, x \in Alias, param \in TLParamAcquire :
               DoAcquire(c, i, op, a, x, param)
          \/ \E x \in Alias : DoReleaseDataAuto(c, i, a, x)
          \/ \E op \in CBOOp : DoCBO(c, i, op, a)
       /\ idle' = [idle EXCEPT ![c] = @ \ {i}]
  /\ UNCHANGED <<failed, entryVars, pendingB, pendingD, pendingE, idMap,
                 freeSlot, probePool, stampA, stampC, boardVars, mem, dutVars>>

-----------------------------------------------------------------------------
(* update_signal: present what is pending, answer the probe, recycle ids. *)

\* Statuses of the agent after send_a; an unknown block gets a fresh entry.
Presented(c) ==
  IF pendingA[c] = {} THEN status[c]
  ELSE LET r == The(pendingA[c])
           after(s) == IF r.op \in CBOOp THEN AfterSendCBO(s) ELSE AfterSendAcquire(s)
       IN  [status[c] EXCEPT ![r.addr] =
              [x \in Alias |-> IF r.op \in CBOOp \/ x = r.alias THEN after(@[x]) ELSE @[x]]]

SendACheck(c) ==
  UNION {LET st == status[c][r.addr] IN
         IF r.op \in CBOOp
         THEN Check(\A x \in Alias : st[x] \in CBOSendable, "send_a status")
         ELSE Check(st[r.alias] \in AcquireSendable, "send_a status")
         : r \in pendingA[c]}

\* acquirePermBoard after send_a.
AcquirePermMarks(c) ==
  LET block(op) == {[addr |-> r.addr, alias |-> r.alias] : r \in {q \in pendingA[c] : q.op = op}}
  IN  (acquirePerm[c] \ block("AcquireBlock")) \cup block("AcquirePerm")

\* Mutants: the ReleaseAck is not waited for; a Grant is waited for too.
AnswersProbeHasty(c, b, st) ==
  /\ pendingC[c] = {}
  /\ probePool[c] = "idle"
AnswersProbeLate(c, b, st) ==
  /\ pendingC[c] = {}
  /\ probePool[c] = "idle"
  /\ \A x \in Alias : st[b.addr][x] \notin AwaitingReleaseAck \cup {"S_A_WAITING_D"}

\* handle_b answers unless channel C or the probe id is taken, or a
\* ReleaseAck of the block is to come.
AnswersProbe(c, b, st) ==
  /\ pendingC[c] = {}
  /\ probePool[c] = "idle"
  /\ \A x \in Alias : st[b.addr][x] \notin AwaitingReleaseAck

\* What a probe of a block that is neither invalid nor being acquired may carry.
ProbedOp(c, b) ==
  LET perm == privilege[c][b.addr][b.alias] IN
  CASE b.needdata \/ (perm = "TIP" /\ dirty[c][b.addr][b.alias]) -> {"ProbeAckData"}
    [] perm = "TIP" -> {"ProbeAck", "ProbeAckData"}
    [] OTHER -> {"ProbeAck"}

\* Mutant: a ProbeAckData carries new data whatever is given up.
ProbedDataNew(op, param, e) ==
  CASE ~HasKey(e) -> {Zero}
    [] op = "ProbeAckData" -> Data
    [] OTHER -> {Zero}

\* New data for a TIP block, the board's otherwise: there is none when data is
\* nullptr, and what a ProbeAck without data copies is never looked at.
ProbedData(op, param, e) ==
  CASE ~HasKey(e) -> {Zero}
    [] op = "ProbeAckData" /\ param \in {"TtoT", "TtoB", "TtoN"} -> Data
    [] op = "ProbeAck" /\ e.data # {} -> {Zero}
    [] OTHER -> e.data

ProbeAnswers(c, b, st) ==
  LET s == st[b.addr][b.alias]
      perm == privilege[c][b.addr][b.alias]
      answer(op, param, d) ==
        [op |-> op, addr |-> b.addr, alias |-> b.alias, param |-> param, data |-> d,
         beats |-> IF op = "ProbeAckData" THEN 2 ELSE 1, source |-> {}]
  IN  CASE s \in {"S_SENDING_A", "S_A_WAITING_D"}
             -> {answer("ProbeAck", ProbeAckParam("toN", perm), Zero)}
        [] s = "S_INVALID" -> {answer("ProbeAck", "NtoN", Zero)}
        [] OTHER ->
             LET param == ProbeAckParam(b.param, perm) IN
             UNION {{answer(op, param, d) : d \in ProbedData(op, param, board[b.addr])}
                    : op \in ProbedOp(c, b)}

HandleBCheck(c, b, st) ==
  LET s == st[b.addr][b.alias] IN
  Check(b.addr \in known[c], "probe of a non-exist block")
  \cup Check(s \notin SendingC, "handle_b exclusive with pendingC")
  \cup Check(s \in {"S_SENDING_A", "S_A_WAITING_D"} =>
               privilege[c][b.addr][b.alias] # "TIP", "Acquire on T block")

\* Statuses after send_c has presented the requests C.
AfterSendC(st, C) ==
  IF C = {} THEN st
  ELSE LET r == The(C) IN
       [st EXCEPT ![r.addr][r.alias] =
          IF r.op \in ReleaseOp THEN AfterSendRelease(@) ELSE AfterSendProbeAck(r.op, @)]

SendCCheck(c, st, C) ==
  UNION {Check(r.addr \in known[c], "send_c key")
         \cup Check(r.op \in ProbeAckOp => st[r.addr][r.alias] \in ProbeAckSendable,
                    "send_c status")
         : r \in C}

\* Mutant: send_c does not map its id.
IdMappedOnA(c, C) ==
  [i \in SourceID |->
     LET named == {r \in pendingA[c] : r.source = i}
     IN  IF named = {} THEN idMap[c][i]
         ELSE {[addr |-> r.addr, alias |-> r.alias] : r \in named}]

\* The ids of the requests presented on A and on C name their blocks.
IdMapped(c, C) ==
  [i \in SourceID |->
     LET named == {r \in pendingA[c] : r.source = i} \cup {r \in C : i \in r.source}
     IN  IF named = {} THEN idMap[c][i]
         ELSE {[addr |-> r.addr, alias |-> r.alias] : r \in named}]

\* Mutant: the freed id is never idle again.
RecycledNever(slot) == slot

\* IDPool::update of probeIDpool.
Recycled(slot) == IF slot = "freed" THEN "idle" ELSE slot

\* handle_b and send_c, on the statuses st that send_a leaves.
SendC(c, st, C) ==
  /\ pendingC' = [pendingC EXCEPT ![c] = C]
  /\ status' = [status EXCEPT ![c] = AfterSendC(st, C)]
  /\ idMap' = [idMap EXCEPT ![c] = IdMapped(c, C)]

HandleB(c, b, st) ==
  /\ AnswersProbe(c, b, st)
  /\ LET marks == st[b.addr][b.alias] \notin {"S_SENDING_A", "S_A_WAITING_D", "S_INVALID"}
         answers == ProbeAnswers(c, b, st)
     IN
     /\ pendingB' = [pendingB EXCEPT ![c] = {}]
     /\ cmoProbed' = IF marks /\ cmo[c][b.addr].op # "none"
          THEN [cmoProbed EXCEPT ![c] = @ \cup {b.addr}] ELSE cmoProbed
     /\ probePool' = [probePool EXCEPT ![c] = "used"]
     /\ \/ \E r \in answers :
             /\ SendC(c, st, {r})
             /\ failed' = SendACheck(c) \cup HandleBCheck(c, b, st) \cup SendCCheck(c, st, {r})
        \/ /\ answers = {}
           /\ SendC(c, st, {})
           /\ failed' = {"null data of a pending block"}

NoHandleB(c, st) ==
  /\ \A b \in pendingB[c] : ~AnswersProbe(c, b, st)
  /\ SendC(c, st, pendingC[c])
  /\ probePool' = [probePool EXCEPT ![c] = Recycled(@)]
  /\ failed' = SendACheck(c) \cup SendCCheck(c, st, pendingC[c])
  /\ UNCHANGED <<pendingB, cmoProbed>>

\* The last core's update_signal ends the cycle.
Update(c) ==
  LET st == Presented(c) IN
  /\ failed = {}
  /\ IF c = 0 THEN Reach(PosUpdate(0)) ELSE pos = PosUpdate(c - 1)
  /\ pos' = IF c = NCore - 1 THEN 0 ELSE PosUpdate(c)
  /\ known' = [known EXCEPT ![c] = @ \cup {r.addr : r \in pendingA[c]}]
  /\ acquirePerm' = [acquirePerm EXCEPT ![c] = AcquirePermMarks(c)]
  /\ NoHandleB(c, st) \/ \E b \in pendingB[c] : HandleB(c, b, st)
  /\ idle' = [idle EXCEPT ![c] = @ \cup freeSlot[c]]
  /\ freeSlot' = [freeSlot EXCEPT ![c] = {}]
  /\ UNCHANGED <<privilege, dirty, pendingA, pendingD, pendingE, timeVars, boardVars,
                 mem, dutVars>>

-----------------------------------------------------------------------------
Init ==
  /\ pos = 0 /\ failed = {}
  /\ known = [c \in Core |-> {}]
  /\ status = [c \in Core |-> [a \in Addr |-> [x \in Alias |-> "S_INVALID"]]]
  /\ privilege = [c \in Core |-> [a \in Addr |-> [x \in Alias |-> "INVALID"]]]
  /\ dirty = [c \in Core |-> [a \in Addr |-> [x \in Alias |-> FALSE]]]
  /\ cmoProbed = [c \in Core |-> {}]
  /\ acquirePerm = [c \in Core |-> {}]
  /\ pendingA = [c \in Core |-> {}]
  /\ pendingB = [c \in Core |-> {}]
  /\ pendingC = [c \in Core |-> {}]
  /\ pendingD = [c \in Core |-> {}]
  /\ pendingE = [c \in Core |-> {}]
  /\ idMap = [c \in Core |-> [i \in SourceID |-> {}]]
  /\ idle = [c \in Core |-> SourceID]
  /\ freeSlot = [c \in Core |-> {}]
  /\ probePool = [c \in Core |-> "idle"]
  /\ cmo = [c \in Core |-> [a \in Addr |-> [op |-> "none", fired |-> FALSE]]]
  /\ stampA = [c \in Core |-> {}]
  /\ stampC = [c \in Core |-> {}]
  /\ board = [a \in Addr |-> NoEntry]
  /\ memAlt = [a \in Addr |-> NoAlt]
  /\ mem = [a \in Addr |-> Zero]
  /\ reqs = {} /\ relAcks = {} /\ probing = {} /\ granting = {} /\ cleaned = {}
  /\ dir = [c \in Core |-> [a \in Addr |-> [x \in Alias |-> "INVALID"]]]
  /\ line = [a \in Addr |-> Zero]

Next ==
  \/ \E a \in Addr : WriteBack(a)
  \/ \E c \in Core :
       FireA(c) \/ FireB(c) \/ FireC(c) \/ FireE(c) \/ FireD(c) \/ Fuzz(c) \/ Update(c)

Spec == Init /\ [][Next]_vars

\* The cycle goes on (the clock of the simulation); the device takes what it may
\* not stall, takes every request in the end, and answers it: a ReleaseAck, a
\* CBOAck, a Grant and a probe of a conflicting copy are each sent when they are
\* possible again and again.
Fairness ==
  \A c \in Core :
    /\ WF_vars(Update(c)) /\ WF_vars(FireC(c)) /\ WF_vars(FireE(c))
    /\ SF_vars(FireA(c))
    /\ SF_vars(FireD(c) /\ relAcks' # relAcks)
    /\ SF_vars(FireD(c) /\ reqs' # reqs)
    /\ SF_vars(FireD(c) /\ pendingD'[c] # {})
    /\ SF_vars(FireB(c) /\ \E b \in pendingB'[c] :
                  b.param = "toN" /\ dir[c][b.addr][b.alias] # "INVALID"
                  /\ \E r \in reqs : r.addr = b.addr)

FairSpec == Spec /\ Fairness

-----------------------------------------------------------------------------
(* Properties *)

PerBlock(S) == [Core -> [Addr -> [Alias -> S]]]
PerAddr(S) == [Core -> [Addr -> S]]

TypeEntries ==
  /\ known \in [Core -> SUBSET Addr]
  /\ status \in PerBlock(Status)
  /\ privilege \in PerBlock(TLPermission)
  /\ dirty \in PerBlock(BOOLEAN)
  /\ cmoProbed \in [Core -> SUBSET Addr]
  /\ acquirePerm \in [Core -> SUBSET Block]

TypePending ==
  /\ pendingA \in [Core -> SUBSET ReqA]
  /\ pendingB \in [Core -> SUBSET ReqB]
  /\ pendingC \in [Core -> SUBSET ReqC]
  /\ pendingD \in [Core -> SUBSET [req : ReqA, perm : TLPermission]]
  /\ pendingE \in [Core -> SUBSET Block]

TypeIds ==
  /\ idMap \in [Core -> [SourceID -> SUBSET Block]]
  /\ idle \in [Core -> SUBSET SourceID]
  /\ freeSlot \in [Core -> SUBSET SourceID]
  /\ probePool \in [Core -> {"idle", "used", "freed"}]
  /\ cmo \in PerAddr(CMOStatus)
  /\ stampA \in [Core -> SUBSET Addr]
  /\ stampC \in [Core -> SUBSET Addr]

TypeShared ==
  /\ board \in [Addr -> Entry]
  /\ memAlt \in [Addr -> MemoryAlt]
  /\ mem \in [Addr -> Data]

TypeDevice ==
  /\ reqs \subseteq ReqA
  /\ relAcks \subseteq ReleaseAck
  /\ probing \subseteq Core \X Addr
  /\ granting \subseteq Core \X Addr
  /\ cleaned \subseteq Core \X Addr
  /\ dir \in PerBlock(TLPermission)
  /\ line \in [Addr -> Data]

\* Every variable holds a value of its kind: a block is in one of the sixteen
\* statuses, no beat count runs out, no Release travels without an id.
TypeOK ==
  /\ pos \in 0 .. 7 * NCore
  /\ TypeEntries /\ TypePending /\ TypeIds /\ TypeShared /\ TypeDevice

\* No assertion of the agents (tlc_assert) fails on a device that keeps the
\* protocol: whatever the tester reports is the device's fault.
NoAssertion == failed = {}

\* A device that keeps C and E waiting trips no assertions but these two.
OnlyStallsFail == failed \subseteq {"send_c status", "E is pending"}

AcquireFor(c, a, x) ==
  {r \in reqs : r.op \in AcquireOp /\ r.core = c /\ r.addr = a /\ r.alias = x}
CBOFor(c, a) == {r \in reqs : r.op \in CBOOp /\ r.core = c /\ r.addr = a}
AcksFor(c, a) == {k \in relAcks : k.core = c /\ k.addr = a}
Presents(pending, a, x) == \E r \in pending : r.addr = a /\ r.alias = x

\* An agent counts as many CMOs as it has on the port and unanswered, and no more
\* than cmoParallelDepth.
CMOsTrackMessages(c) ==
  /\ cmoParallelDepth > 0 => Cardinality(CMOInflight(c)) <= cmoParallelDepth
  /\ \A a \in Addr :
       a \in CMOInflight(c) <=> CBOFor(c, a) # {} \/ \E r \in pendingA[c] : r.addr = a /\ r.op \in CBOOp

\* A block's status and the messages in flight tell the same story: a waiting
\* status has the answer that will end it on its way, a sending status its
\* request on the port, and no answer is on its way to a block that does not
\* wait for it (the status chains of fire_a .. fire_d, nested C included).  So does
\* localCMOStatus, which limits the CMOs an agent starts: none is counted that has
\* ended.  After a failed assertion the statuses say nothing.
StatusTracksMessages ==
  failed = {} =>
    /\ \A c \in Core : CMOsTrackMessages(c)
    /\ \A c \in Core, a \in Addr, x \in Alias :
         LET st == status[c][a][x] IN
         /\ st \in AwaitingReleaseAck <=>
              \E k \in AcksFor(c, a) : [addr |-> a, alias |-> x] \in idMap[c][k.source]
         /\ st \in {"S_A_WAITING_D", "S_A_WAITING_D_INTR", "S_A_WAITING_D_NESTED_SENDING_C"}
              <=> AcquireFor(c, a, x) # {}
         /\ st \in CBOAwaitingD <=> CBOFor(c, a) # {}
         /\ st = "S_SENDING_E" <=> Presents(pendingE[c], a, x)
         /\ st \in CBOSending => \E r \in pendingA[c] : r.addr = a /\ r.op \in CBOOp
         /\ st \in AcquireFirable =>
              \E r \in pendingA[c] : r.addr = a /\ r.alias = x /\ r.op \in AcquireOp
         /\ st \in SendingC => Presents(pendingC[c], a, x)

ReqsOf(c) == {r \in reqs : r.core = c}
AcksOf(c) == {k \in relAcks : k.core = c}

AIds(c) == {r.source : r \in pendingA[c]}
CIds(c) == UNION {r.source : r \in pendingC[c]}
ReqIds(c) == {r.source : r \in ReqsOf(c)}
AckIds(c) == {k.source : k \in AcksOf(c)}
UsedIds(c) == AIds(c) \cup CIds(c) \cup ReqIds(c) \cup AckIds(c)

IdsConservedBy(c) ==
  /\ idle[c] \cup freeSlot[c] \cup UsedIds(c) = SourceID
  /\ idle[c] \cap (freeSlot[c] \cup UsedIds(c)) = {}
  /\ freeSlot[c] \cap UsedIds(c) = {}
  /\ AIds(c) \cap (CIds(c) \cup ReqIds(c) \cup AckIds(c)) = {}
  /\ CIds(c) \cap (ReqIds(c) \cup AckIds(c)) = {}
  /\ ReqIds(c) \cap AckIds(c) = {}
  /\ \A q, r \in ReqsOf(c) : q.source = r.source => q = r
  /\ \A j, k \in AcksOf(c) : j.source = k.source => j = k

\* idpool neither leaks an id nor hands out one that is in use: every id is
\* idle, parked in the one pending_freeid slot, or owned by one transaction,
\* although the slot holds a single id and is emptied once a cycle.
IdsConserved == \A c \in Core : IdsConservedBy(c)

\* An answer on D finds through idMap the block its request was about, however
\* many requests were presented, recycled or answered in between.
AnswersFindTheirBlock ==
  /\ \A r \in reqs :
       idMap[r.core][r.source] = {[addr |-> r.addr, alias |-> r.alias]}
  /\ \A k \in relAcks :
       \E x \in Alias : idMap[k.core][k.source] = {[addr |-> k.addr, alias |-> x]}

\* The permissions the agents believe in are coherent: a TIP excludes every other
\* copy, and an agent holds a block under one alias only.
SingleWriter ==
  \A c, d \in Core, a \in Addr, x, y \in Alias :
    (<<c, x>> # <<d, y>> /\ privilege[c][a][x] # "INVALID" /\ privilege[d][a][y] # "INVALID")
      => c # d /\ privilege[c][a][x] = "BRANCH"

\* What C reports is what the directory has recorded for the agent, although it
\* was chosen cycles before it is taken.
ReportsTruthful ==
  \A c \in Core : \A r \in pendingC[c] :
    dir[c][r.addr][r.alias] =
      CASE r.param \in {"TtoT", "TtoB", "TtoN"} -> "TIP"
        [] r.param \in {"BtoB", "BtoN"} -> "BRANCH"
        [] OTHER -> "INVALID"

\* The scoreboard always accepts the block's present value: whenever a GrantData
\* may come, verify() raises no false mismatch.
OracleSound == \A a \in Addr : line[a] \in Accepted(board[a], memAlt[a], mem[a])

\* With no release owed an acknowledgement and no memory alternative, verify()
\* accepts nothing but the block's present value: no mismatch is missed.
OracleExact ==
  \A a \in Addr :
    (memAlt[a] = NoAlt /\ \A c \in Core : AcksFor(c, a) = {})
      => Accepted(board[a], memAlt[a], mem[a]) = {line[a]}

\* The life of a memory alternative counts the cbo.inval in flight, whatever the
\* writes of other agents touch meanwhile.
AltCountsInvals ==
  \A a \in Addr :
    LET n == Cardinality({c \in Core : cmo[c][a] = [op |-> "CBOInval", fired |-> TRUE]})
    IN  memAlt[a] = n \/ (n = 0 /\ memAlt[a] = NoAlt) \/ memorySyncStrict

\* Every answer still to come finds a time stamp at its address, although stamps
\* are keyed by address and several transactions may share one.
AnswersStamped ==
  \A c \in Core, a \in Addr :
    Cardinality({r \in reqs : r.core = c /\ r.addr = a}) + Cardinality(AcksFor(c, a))
      <= Cardinality({stamps \in {<<"A", stampA>>, <<"C", stampC>>} : a \in stamps[2][c]})

\* What an agent has of a block, under whichever alias.
Has(c, a) ==
  LET copies == {privilege[c][a][x] : x \in Alias}
  IN  CASE "TIP" \in copies -> "TIP"
        [] "BRANCH" \in copies -> "BRANCH"
        [] OTHER -> "INVALID"

Copies == [c \in Core |-> [a \in Addr |-> Has(c, a)]]

Caches == INSTANCE CoherentMemory WITH
  Cache <- Core, perm <- Copies, value <- line, memory <- mem

\* The agents are caches of one memory: a block changes only by the hand of the
\* one that has it TIP, who hands over what it wrote while it gives the TIP up, and
\* drops to memory's value only when nobody has it; no agent hands over data it
\* has no right to, however late it answers a probe.
IsCoherentMemory == Caches!Spec

\* A probe is answered: neither a Release of the agent's own, nor the wait for a
\* ReleaseAck, nor the single probe id can hold it back for ever.
ProbeAnswered ==
  \A c \in Core, a \in Addr : <<c, a>> \in probing ~> <<c, a>> \notin probing

\* Every operation comes to its end: no block stays for ever in a transient status.
BlockSettles ==
  \A c \in Core, a \in Addr, x \in Alias :
    status[c][a][x] \notin Idle ~> status[c][a][x] \in Idle
=============================================================================
