---------------------------- MODULE CAgentProofs ----------------------------
(***************************************************************************)
(* Proofs about CAgent for every number of agents, set of blocks, aliases, *)
(* ids and data, and every device the constants describe: types, idpool    *)
(* (an agent's transaction ids are never lost and never used twice), idMap *)
(* (the id of an answer names the block the request was about), the counts *)
(* of cbo.inval in flight, the permissions, and the scoreboard.            *)
(***************************************************************************)
EXTENDS CAgent, TLAPS, FiniteSetTheorems

-----------------------------------------------------------------------------
(* What the operators of TLMessages and GlobalBoard return *)

\* Every handler of send_a .. fire_c takes a status to one of the sixteen.
LEMMA StatusOps ==
  ASSUME NEW s \in Status
  PROVE  /\ AfterSendAcquire(s) \in Status
         /\ AfterSendCBO(s) \in Status
         /\ AfterFireAcquire(s) \in Status
         /\ AfterFireCBO(s) \in Status
         /\ AfterSendRelease(s) \in Status
         /\ \A op : AfterSendProbeAck(op, s) \in Status
         /\ AfterFireRelease(s) \in Status
         /\ \A param : AfterFireProbeAck(s, param) \in Status
         /\ AfterReleaseAck(s) \in Status
         /\ \A op, perm : AfterCBOAck(op, s, perm) \in Status
  BY DEF Status, AfterSendAcquire, AfterSendCBO, AfterFireAcquire, AfterFireCBO,
         AfterSendRelease, AfterSendProbeAck, AfterFireRelease, AfterFireProbeAck,
         AfterReleaseAck, AfterCBOAck

\* A probe is answered with a permission demotion, and a demotion leaves a permission.
LEMMA ParamOps ==
  /\ \A param \in TLPermDemotion :
       ShrinkGenPriv(param) \in TLPermission /\ Reported(param) \in TLPermission
  /\ \A probe, perm : ProbeAckParam(probe, perm) \in TLPermDemotion
  BY DEF TLPermDemotion, TLPermission, ShrinkGenPriv, Reported, ProbeAckParam

\* The scoreboard's writers return entries of the scoreboard.
LEMMA BoardOps ==
  ASSUME NEW e \in Entry, NEW d \in Data
  PROVE  /\ Released(e, d) \in Entry
         /\ ProbeWritten(d) \in Entry
         /\ Unpending(e) \in Entry
         /\ Synced(e, d) \in Entry
         /\ NoEntry \in Entry
  BY DEF Entry, Released, ProbeWritten, Unpending, Synced, NoEntry

\* A memory alternative has a life that is a number, or there is none.
LEMMA MemoryAltOps ==
  ASSUME NEW alt \in MemoryAlt
  PROVE  /\ GrantMemoryAlt(alt) \in MemoryAlt
         /\ TouchMemoryAlt(alt) \in MemoryAlt
         /\ ReclaimMemoryAlt(alt) \in MemoryAlt
  BY DEF MemoryAlt, NoAlt, GrantMemoryAlt, TouchMemoryAlt, ReclaimMemoryAlt

\* One entry of a per-block table is replaced.
LEMMA PerBlockExcept ==
  ASSUME NEW S, NEW f \in PerBlock(S), NEW c \in Core, NEW a \in Addr,
         NEW x \in Alias, NEW v \in S
  PROVE  /\ f[c][a][x] \in S
         /\ [f EXCEPT ![c][a][x] = v] \in PerBlock(S)
  BY DEF PerBlock

\* A write to one block of one agent keeps a per-block variable in its type.
LEMMA PerAddrExcept ==
  ASSUME NEW S, NEW f \in PerAddr(S), NEW c \in Core, NEW a \in Addr, NEW v \in S
  PROVE  /\ f[c][a] \in S
         /\ [f EXCEPT ![c][a] = v] \in PerAddr(S)
  BY DEF PerAddr

-----------------------------------------------------------------------------
(* Type correctness *)

\* Every handler of a Tock has its place in the cycle.
LEMMA PosRange ==
  ASSUME NEW c \in Core
  PROVE  /\ {PosA(c), PosB(c), PosC(c), PosE(c), PosD(c), PosFuzz(c), PosUpdate(c)}
              \subseteq 0 .. 7 * NCore
  BY NCoreAssumption DEF Core, PosA, PosB, PosC, PosE, PosD, PosFuzz, PosUpdate

\* The agents are constructed with values of the right type.
LEMMA TypeInit == Init => TypeOK
<1> SUFFICES ASSUME Init PROVE TypeOK
  OBVIOUS
<1>1. pos \in 0 .. 7 * NCore
  BY NCoreAssumption DEF Init
<1>2. TypeEntries
  BY DEF Init, TypeEntries, PerBlock, Status, TLPermission
<1>3. TypePending
  BY DEF Init, TypePending
<1>4. TypeIds
  BY DEF Init, TypeIds, PerAddr, CMOStatus
<1>5. TypeShared
  BY DataAssumption DEF Init, TypeShared, Entry, NoEntry, MemoryAlt
<1>6. TypeDevice
  BY DataAssumption DEF Init, TypeDevice, PerBlock, TLPermission
<1> QED BY <1>1, <1>2, <1>3, <1>4, <1>5, <1>6 DEF TypeOK

\* fire_a keeps the types.
LEMMA TypeFireA ==
  ASSUME TypeOK, NEW c \in Core, FireA(c)
  PROVE  TypeOK'
<1> USE DEF TypeOK
<1>1. PICK r \in pendingA[c] : FireA(c)!2!(r)
  BY DEF FireA
<1>2. UNCHANGED <<known, privilege, dirty, cmoProbed, acquirePerm, pendingB,
                  pendingC, pendingD, pendingE, idMap, idle, freeSlot, probePool,
                  stampC, board, mem, relAcks, probing, granting, cleaned, dir, line>>
  BY DEF FireA, idVars
<1>3. r \in ReqA /\ r.addr \in Addr /\ r.alias \in Alias
  BY DEF TypePending, ReqA
<1>4. pos' \in 0 .. 7 * NCore
  BY PosRange DEF FireA, At
<1>5. TypeEntries'
  <2>1. CASE r.op \in CBOOp
    <3> DEFINE after == [x \in Alias |-> AfterFireCBO(status[c][r.addr][x])]
    <3>1. after \in [Alias -> Status]
      BY <1>3, StatusOps DEF TypeEntries, PerBlock
    <3>2. status' = [status EXCEPT ![c][r.addr] = after]
      BY <1>1, <2>1
    <3> HIDE DEF after
    <3>3. status' \in PerBlock(Status)
      BY <1>3, <3>1, <3>2 DEF TypeEntries, PerBlock
    <3> QED BY <1>2, <3>3 DEF TypeEntries
  <2>2. CASE r.op \notin CBOOp
    <3>1. AfterFireAcquire(status[c][r.addr][r.alias]) \in Status
      BY <1>3, StatusOps DEF TypeEntries, PerBlock
    <3>2. status' \in PerBlock(Status)
      BY <1>1, <1>3, <2>2, <3>1 DEF TypeEntries, PerBlock
    <3> QED BY <1>2, <3>2 DEF TypeEntries
  <2> QED BY <2>1, <2>2
<1>6. TypePending'
  BY <1>1, <1>2 DEF TypePending
<1>7. TypeIds'
  <2>1. cmo' \in PerAddr(CMOStatus)
    <3> DEFINE new == [op |-> cmo[c][r.addr].op, fired |-> TRUE]
    <3>1. cmo[c][r.addr] \in CMOStatus
      BY <1>3 DEF TypeIds, PerAddr
    <3>2. new \in CMOStatus
      BY <3>1 DEF CMOStatus
    <3>3. cmo' = cmo \/ cmo' = [cmo EXCEPT ![c][r.addr] = new]
      BY <1>1
    <3> HIDE DEF new
    <3>4. [cmo EXCEPT ![c][r.addr] = new] \in PerAddr(CMOStatus)
      BY <1>3, <3>2 DEF TypeIds, PerAddr
    <3> QED BY <3>3, <3>4 DEF TypeIds
  <2>2. stampA' \in [Core -> SUBSET Addr]
    BY <1>1, <1>3 DEF TypeIds
  <2> QED BY <1>2, <2>1, <2>2 DEF TypeIds
<1>8. TypeShared'
  BY <1>1, <1>2, <1>3, MemoryAltOps DEF TypeShared
<1>9. TypeDevice'
  BY <1>1, <1>2, <1>3 DEF TypeDevice
<1> QED BY <1>4, <1>5, <1>6, <1>7, <1>8, <1>9

\* fire_b keeps the types.
LEMMA TypeFireB ==
  ASSUME TypeOK, NEW c \in Core, FireB(c)
  PROVE  TypeOK'
<1> USE DEF TypeOK
<1>1. PICK b \in ReqB : FireB(c)!3!(b)
  BY DEF FireB
<1>2. UNCHANGED <<entryVars, pendingA, pendingC, pendingD, pendingE,
                  idVars, timeVars, boardVars, mem, reqs, relAcks, granting,
                  dir, line>>
  BY DEF FireB
<1>3. pos' \in 0 .. 7 * NCore
  BY PosRange DEF FireB, At
<1>4. TypeEntries'
  BY <1>2 DEF TypeEntries, entryVars
<1>5. TypePending'
  BY <1>1, <1>2 DEF TypePending
<1>6. TypeIds'
  BY <1>2 DEF TypeIds, idVars, timeVars
<1>7. TypeShared'
  BY <1>2 DEF TypeShared, boardVars
<1>8. TypeDevice'
  BY <1>1, <1>2 DEF TypeDevice, ReqB
<1> QED BY <1>3, <1>4, <1>5, <1>6, <1>7, <1>8

\* fire_e keeps the types.
LEMMA TypeFireE ==
  ASSUME TypeOK, NEW c \in Core, FireE(c)
  PROVE  TypeOK'
<1> USE DEF TypeOK
<1>1. PICK e \in pendingE[c] : FireE(c)!2!(e)
  BY DEF FireE
<1>2. UNCHANGED <<known, privilege, dirty, cmoProbed, acquirePerm,
                  pendingA, pendingB, pendingC, pendingD, idVars, timeVars,
                  boardVars, mem, reqs, relAcks, probing, cleaned, dir, line>>
  BY DEF FireE
<1>3. pos' \in 0 .. 7 * NCore
  BY PosRange DEF FireE, At
<1>4. e.addr \in Addr /\ e.alias \in Alias
  BY DEF TypePending, Block
<1>5. TypeEntries'
  <2>1. status' \in PerBlock(Status)
    BY <1>1, <1>4 DEF TypeEntries, PerBlock, Status
  <2> QED BY <1>2, <2>1 DEF TypeEntries
<1>6. TypePending'
  BY <1>1, <1>2 DEF TypePending
<1>7. TypeIds'
  BY <1>2 DEF TypeIds, idVars, timeVars
<1>8. TypeShared'
  BY <1>2 DEF TypeShared, boardVars
<1>9. TypeDevice'
  BY <1>1, <1>2 DEF TypeDevice
<1> QED BY <1>3, <1>5, <1>6, <1>7, <1>8, <1>9

\* The fields of a request on C.
LEMMA ReqCFields ==
  ASSUME NEW r \in ReqC
  PROVE  /\ r.addr \in Addr /\ r.alias \in Alias /\ r.data \in Data
         /\ r.param \in TLPermDemotion /\ r.beats \in 1 .. 2
         /\ r.op \in ReleaseOp => The(r.source) \in SourceID
         /\ r.beats > 1 => LessABeat(r) \in ReqC
<1>1. CASE r \in [op : ReleaseOp, addr : Addr, alias : Alias, param : TLPermDemotion,
                  beats : 1 .. 2, data : Data, source : {{i} : i \in SourceID}]
  <2>1. The(r.source) \in SourceID
    BY <1>1 DEF The
  <2> QED BY <1>1, <2>1 DEF ReqC, LessABeat
<1>2. CASE r \in [op : ProbeAckOp, addr : Addr, alias : Alias, param : TLPermDemotion,
                  beats : 1 .. 2, data : Data, source : {{}}]
  BY <1>2 DEF ReqC, ProbeAckOp, ReleaseOp, LessABeat
<1> QED BY <1>1, <1>2 DEF ReqC

\* fire_c keeps the types, the beats left of a request included.
LEMMA TypeFireC ==
  ASSUME TypeOK, NEW c \in Core, FireC(c)
  PROVE  TypeOK'
<1> USE DEF TypeOK
<1>1. PICK r \in pendingC[c] : FireCBeat(c, r) \/ FireRelease(c, r) \/ FireProbeAck(c, r)
  BY DEF FireC
<1>2. UNCHANGED <<known, cmoProbed, acquirePerm, pendingA, pendingB, pendingD,
                  pendingE, idMap, idle, freeSlot, cmo, stampA, mem, reqs,
                  granting, cleaned>>
  BY DEF FireC
<1>3. pos' \in 0 .. 7 * NCore
  BY PosRange DEF FireC, At
<1>4. r \in ReqC
  BY DEF TypePending
<1>5. /\ r.addr \in Addr /\ r.alias \in Alias /\ r.data \in Data
      /\ r.param \in TLPermDemotion
      /\ r.op \in ReleaseOp => The(r.source) \in SourceID
  BY <1>4, ReqCFields
<1>6. /\ status[c][r.addr][r.alias] \in Status
      /\ ShrinkGenPriv(r.param) \in TLPermission /\ Reported(r.param) \in TLPermission
  BY <1>5, ParamOps DEF TypeEntries, PerBlock
<1>7. CASE FireCBeat(c, r)
  <2>1. pendingC' \in [Core -> SUBSET ReqC]
    <3>1. LessABeat(r) \in ReqC
      BY <1>4, <1>7, ReqCFields DEF FireCBeat
    <3> QED BY <1>7, <3>1 DEF FireCBeat, TypePending
  <2>2. stampC' \in [Core -> SUBSET Addr]
    BY <1>5, <1>7 DEF FireCBeat, TypeIds
  <2>3. UNCHANGED <<status, privilege, dirty, probePool, boardVars, line, dir,
                    relAcks, probing>>
    BY <1>7 DEF FireCBeat
  <2>4. TypeEntries'
    BY <1>2, <2>3 DEF TypeEntries
  <2>5. TypePending'
    BY <1>2, <2>1 DEF TypePending
  <2>6. TypeIds'
    BY <1>2, <2>2, <2>3 DEF TypeIds
  <2>7. TypeShared'
    BY <1>2, <2>3 DEF TypeShared, boardVars
  <2>8. TypeDevice'
    BY <1>2, <2>3 DEF TypeDevice
  <2> QED BY <1>3, <2>4, <2>5, <2>6, <2>7, <2>8
<1>8. CASE FireRelease(c, r)
  <2>1. status' \in PerBlock(Status)
    <3>1. AfterFireRelease(status[c][r.addr][r.alias]) \in Status
      BY <1>6, StatusOps
    <3> QED BY <1>5, <1>8, <3>1 DEF FireRelease, TypeEntries, PerBlock
  <2>2. privilege' \in PerBlock(TLPermission) /\ dirty' \in PerBlock(BOOLEAN)
    BY <1>5, <1>6, <1>8 DEF FireRelease, TypeEntries, PerBlock
  <2>3. TypeEntries'
    BY <1>2, <2>1, <2>2 DEF TypeEntries
  <2>4. TypePending'
    BY <1>2, <1>8 DEF TypePending, FireRelease
  <2>5. TypeIds'
    BY <1>2, <1>5, <1>8 DEF TypeIds, FireRelease
  <2>6. TypeShared' /\ line' \in [Addr -> Data]
    <3>1. CASE r.op = "ReleaseData"
      <4>1. /\ board[r.addr] \in Entry /\ memAlt[r.addr] \in MemoryAlt
        BY <1>5 DEF TypeShared
      <4>2. /\ Released(board[r.addr], r.data) \in Entry
            /\ TouchMemoryAlt(memAlt[r.addr]) \in MemoryAlt
        BY <1>5, <4>1, BoardOps, MemoryAltOps
      <4> QED BY <1>2, <1>5, <1>8, <3>1, <4>2 DEF FireRelease, TypeShared, TypeDevice
    <3>2. CASE r.op # "ReleaseData"
      BY <1>2, <1>8, <3>2 DEF FireRelease, TypeShared, TypeDevice, boardVars
    <3> QED BY <3>1, <3>2
  <2>7. relAcks' \subseteq ReleaseAck
    <3>1. [core |-> c, addr |-> r.addr, source |-> The(r.source)] \in ReleaseAck
      BY <1>5, <1>8 DEF FireRelease, ReleaseAck
    <3> QED BY <1>8, <3>1 DEF FireRelease, TypeDevice
  <2>8. dir' \in PerBlock(TLPermission)
    BY <1>5, <1>6, <1>8 DEF FireRelease, TypeDevice, PerBlock
  <2>9. TypeDevice'
    BY <1>2, <1>8, <2>6, <2>7, <2>8 DEF TypeDevice, FireRelease
  <2> QED BY <1>3, <2>3, <2>4, <2>5, <2>6, <2>9
<1>9. CASE FireProbeAck(c, r)
  <2>1. status' \in PerBlock(Status)
    <3>1. AfterFireProbeAck(status[c][r.addr][r.alias], r.param) \in Status
      BY <1>6, StatusOps
    <3> QED BY <1>5, <1>9, <3>1 DEF FireProbeAck, TypeEntries, PerBlock
  <2>2. privilege' \in PerBlock(TLPermission)
    BY <1>5, <1>6, <1>9 DEF FireProbeAck, TypeEntries, PerBlock
  <2>3. TypeEntries'
    BY <1>2, <1>9, <2>1, <2>2 DEF TypeEntries, FireProbeAck
  <2>4. TypePending'
    BY <1>2, <1>9 DEF TypePending, FireProbeAck
  <2>5. TypeIds'
    BY <1>2, <1>9 DEF TypeIds, FireProbeAck
  <2>6. TypeShared' /\ line' \in [Addr -> Data]
    <3>1. CASE r.op = "ProbeAckData"
      <4>1. board[r.addr] \in Entry /\ memAlt[r.addr] \in MemoryAlt
        BY <1>5 DEF TypeShared
      <4>2. /\ ProbeWritten(r.data) \in Entry
            /\ TouchMemoryAlt(memAlt[r.addr]) \in MemoryAlt
        BY <1>5, <4>1, BoardOps, MemoryAltOps
      <4> QED BY <1>2, <1>5, <1>9, <3>1, <4>2 DEF FireProbeAck, TypeShared, TypeDevice
    <3>2. CASE r.op # "ProbeAckData"
      BY <1>2, <1>9, <3>2 DEF FireProbeAck, TypeShared, TypeDevice, boardVars
    <3> QED BY <3>1, <3>2
  <2>7. dir' \in PerBlock(TLPermission)
    BY <1>5, <1>6, <1>9 DEF FireProbeAck, TypeDevice, PerBlock
  <2>8. TypeDevice'
    BY <1>2, <1>9, <2>6, <2>7 DEF TypeDevice, FireProbeAck
  <2> QED BY <1>3, <2>3, <2>4, <2>5, <2>6, <2>8
<1> QED BY <1>1, <1>7, <1>8, <1>9

\* map_latency keeps the time stamps in their type.
LEMMA MapLatencyType ==
  ASSUME TypeIds, NEW c \in Core, NEW a \in Addr, MapLatency(c, a)
  PROVE  stampA' \in [Core -> SUBSET Addr] /\ stampC' \in [Core -> SUBSET Addr]
  BY DEF TypeIds, MapLatency

\* freeid and idMap.erase keep the identifiers in their type.
LEMMA FreeSourceType ==
  ASSUME TypeIds, NEW c \in Core, NEW s \in SourceID, FreeSource(c, s)
  PROVE  /\ idMap' \in [Core -> [SourceID -> SUBSET Block]]
         /\ freeSlot' \in [Core -> SUBSET SourceID]
  BY DEF TypeIds, FreeSource

\* A message on D leaves the rest of the agent alone.
LEMMA TypeFireDRest ==
  ASSUME TypeOK, NEW c \in Core, FireD(c)
  PROVE  /\ pos' \in 0 .. 7 * NCore
         /\ UNCHANGED <<known, cmoProbed, acquirePerm, pendingA, pendingB,
                        pendingC, idle, probePool, probing>>
  BY PosRange DEF FireD, At

\* The ReleaseAck branch of fire_d keeps the types.
LEMMA TypeFireReleaseAck ==
  ASSUME TypeOK, NEW c \in Core, FireD(c), NEW k \in relAcks, FireReleaseAck(c, k)
  PROVE  TypeOK'
<1> USE DEF TypeOK
<1>1. PICK e \in idMap[c][k.source] : FireReleaseAck(c, k)!2!(e)
  BY DEF FireReleaseAck
<1>2. UNCHANGED <<privilege, dirty, cmo, mem, pendingD, pendingE, reqs,
                  granting, cleaned, dir, line>>
  BY DEF FireReleaseAck
<1>3. k.source \in SourceID
  BY DEF TypeDevice, ReleaseAck
<1>4. e.addr \in Addr /\ e.alias \in Alias
  BY <1>3 DEF TypeIds, Block
<1>5. TypeEntries'
  <2>1. AfterReleaseAck(status[c][e.addr][e.alias]) \in Status
    BY <1>4, StatusOps DEF TypeEntries, PerBlock
  <2>2. status' \in PerBlock(Status)
    BY <1>1, <1>4, <2>1 DEF TypeEntries, PerBlock
  <2> QED BY <1>2, <2>2, TypeFireDRest DEF TypeEntries
<1>6. TypePending'
  BY <1>2, TypeFireDRest DEF TypePending
<1>7. TypeIds'
  <2>1. stampA' \in [Core -> SUBSET Addr] /\ stampC' \in [Core -> SUBSET Addr]
    BY <1>1, <1>4, MapLatencyType
  <2>2. /\ idMap' \in [Core -> [SourceID -> SUBSET Block]]
        /\ freeSlot' \in [Core -> SUBSET SourceID]
    BY <1>3, FreeSourceType DEF FireReleaseAck
  <2> QED BY <1>2, <2>1, <2>2, TypeFireDRest DEF TypeIds
<1>8. TypeShared'
  <2>1. board[e.addr] \in Entry /\ memAlt[e.addr] \in MemoryAlt
    BY <1>4 DEF TypeShared
  <2>2. /\ Unpending(board[e.addr]) \in Entry
        /\ TouchMemoryAlt(memAlt[e.addr]) \in MemoryAlt
    BY <2>1, MemoryAltOps DEF Entry, Unpending
  <2> QED BY <1>1, <1>2, <1>4, <2>2 DEF TypeShared
<1>9. TypeDevice'
  BY <1>2, TypeFireDRest DEF TypeDevice, FireReleaseAck
<1> QED BY <1>5, <1>6, <1>7, <1>8, <1>9, TypeFireDRest

\* The first beat of a GrantData keeps the types.
LEMMA TypeFireGrantBeat ==
  ASSUME TypeOK, NEW c \in Core, FireD(c), NEW r \in reqs, NEW perm \in TLPermission,
         FireGrantBeat(c, r, perm)
  PROVE  TypeOK'
<1> USE DEF TypeOK
<1>1. UNCHANGED <<status, privilege, dirty, cmo, stampA, stampC, idMap, freeSlot,
                  boardVars, mem, pendingE, reqs, relAcks, cleaned, dir, line>>
  BY DEF FireGrantBeat
<1>2. r \in ReqA /\ r.addr \in Addr
  BY DEF TypeDevice, ReqA
<1>3. TypeEntries'
  BY <1>1, TypeFireDRest DEF TypeEntries
<1>4. TypePending'
  <2>1. pendingD' \in [Core -> SUBSET [req : ReqA, perm : TLPermission]]
    <3>1. [req |-> r, perm |-> perm] \in [req : ReqA, perm : TLPermission]
      BY <1>2
    <3>2. pendingD' = [pendingD EXCEPT ![c] = {[req |-> r, perm |-> perm]}]
      BY DEF FireGrantBeat
    <3> QED BY <3>1, <3>2 DEF TypePending
  <2> QED BY <1>1, <2>1, TypeFireDRest DEF TypePending
<1>5. TypeIds'
  BY <1>1, TypeFireDRest DEF TypeIds
<1>6. TypeShared'
  BY <1>1 DEF TypeShared, boardVars
<1>7. TypeDevice'
  <2>1. granting' \subseteq Core \X Addr
    <3>1. granting' = granting \cup {<<c, r.addr>>}
      BY DEF FireGrantBeat
    <3> QED BY <1>2, <3>1 DEF TypeDevice
  <2> QED BY <1>1, <2>1, TypeFireDRest DEF TypeDevice
<1> QED BY <1>3, <1>4, <1>5, <1>6, <1>7, TypeFireDRest

\* The Grant branch of fire_d keeps the types.
LEMMA TypeFireGrant ==
  ASSUME TypeOK, NEW c \in Core, FireD(c), NEW r \in ReqA, NEW perm \in TLPermission,
         FireGrant(c, r, perm)
  PROVE  TypeOK'
<1> USE DEF TypeOK
<1>1. PICK e \in idMap[c][r.source] : FireGrant(c, r, perm)!(e)
  BY DEF FireGrant
<1>2. UNCHANGED <<cmo, boardVars, mem, relAcks, cleaned, line>>
  BY <1>1
<1>3. r.source \in SourceID /\ r.addr \in Addr /\ r.alias \in Alias
  BY DEF ReqA
<1>4. e \in Block /\ e.addr \in Addr /\ e.alias \in Alias
  BY <1>3 DEF TypeIds, Block
<1>5. TypeEntries'
  <2>1. status' \in PerBlock(Status)
    BY <1>1, <1>4 DEF TypeEntries, PerBlock, Status
  <2>2. privilege' \in PerBlock(TLPermission)
    BY <1>1, <1>4 DEF TypeEntries, PerBlock
  <2>3. dirty' \in PerBlock(BOOLEAN)
    BY <1>1, <1>4 DEF TypeEntries, PerBlock
  <2> QED BY <2>1, <2>2, <2>3, TypeFireDRest DEF TypeEntries
<1>6. TypePending'
  BY <1>1, <1>4, TypeFireDRest DEF TypePending
<1>7. TypeIds'
  <2>1. stampA' \in [Core -> SUBSET Addr] /\ stampC' \in [Core -> SUBSET Addr]
    BY <1>1, <1>4, MapLatencyType
  <2>2. /\ idMap' \in [Core -> [SourceID -> SUBSET Block]]
        /\ freeSlot' \in [Core -> SUBSET SourceID]
    BY <1>1, <1>3, FreeSourceType
  <2> QED BY <1>2, <2>1, <2>2, TypeFireDRest DEF TypeIds
<1>8. TypeShared'
  BY <1>2 DEF TypeShared, boardVars
<1>9. TypeDevice'
  <2>1. dir' \in PerBlock(TLPermission)
    BY <1>1, <1>3 DEF TypeDevice, PerBlock
  <2>2. granting' \subseteq Core \X Addr /\ reqs' \subseteq reqs
    <3>1. granting' = granting \cup {<<c, r.addr>>} /\ reqs' = reqs \ {r}
      BY <1>1
    <3> QED BY <1>3, <3>1 DEF TypeDevice
  <2> QED BY <1>2, <2>1, <2>2, TypeFireDRest DEF TypeDevice
<1> QED BY <1>5, <1>6, <1>7, <1>8, <1>9, TypeFireDRest

\* The CBOAck branch of fire_d keeps the types.
LEMMA TypeFireCBOAck ==
  ASSUME TypeOK, NEW c \in Core, FireD(c), NEW r \in reqs, FireCBOAck(c, r)
  PROVE  TypeOK'
<1> USE DEF TypeOK
<1>1. UNCHANGED <<privilege, dirty, pendingD, pendingE, relAcks, granting, dir>>
  BY DEF FireCBOAck
<1>2. r.addr \in Addr /\ r.source \in SourceID
  BY DEF TypeDevice, ReqA
<1>3. TypeEntries'
  <2> DEFINE a == r.addr
             op == cmo[c][a].op
             after == [x \in Alias |-> AfterCBOAck(op, status[c][a][x], privilege[c][a][x])]
  <2>1. after \in [Alias -> Status]
    <3>1. \A x \in Alias : status[c][a][x] \in Status
      BY <1>2 DEF TypeEntries, PerBlock
    <3> QED BY <3>1, StatusOps
  <2>2. status' = [status EXCEPT ![c][a] = after]
    BY DEF FireCBOAck
  <2> HIDE DEF after
  <2>3. status' \in PerBlock(Status)
    BY <1>2, <2>1, <2>2 DEF TypeEntries, PerBlock
  <2> QED BY <1>1, <2>3, TypeFireDRest DEF TypeEntries
<1>4. TypePending'
  BY <1>1, TypeFireDRest DEF TypePending
<1>5. TypeIds'
  <2>1. stampA' \in [Core -> SUBSET Addr] /\ stampC' \in [Core -> SUBSET Addr]
    BY <1>2, MapLatencyType DEF FireCBOAck
  <2>2. /\ idMap' \in [Core -> [SourceID -> SUBSET Block]]
        /\ freeSlot' \in [Core -> SUBSET SourceID]
    BY <1>2, FreeSourceType DEF FireCBOAck
  <2>3. cmo' \in PerAddr(CMOStatus)
    <3>1. [op |-> "none", fired |-> FALSE] \in CMOStatus
      BY DEF CMOStatus
    <3>2. cmo' = [cmo EXCEPT ![c][r.addr] = [op |-> "none", fired |-> FALSE]]
      BY DEF FireCBOAck
    <3> QED BY <1>2, <3>1, <3>2 DEF TypeIds, PerAddr
  <2> QED BY <2>1, <2>2, <2>3, TypeFireDRest DEF TypeIds
<1>6. mem[r.addr] \in Data /\ line[r.addr] \in Data
  BY <1>2 DEF TypeShared, TypeDevice
<1>7. TypeShared'
  <2>1. board[r.addr] \in Entry /\ memAlt[r.addr] \in MemoryAlt
    BY <1>2 DEF TypeShared
  <2>2. /\ Synced(board[r.addr], mem[r.addr]) \in Entry
        /\ ReclaimMemoryAlt(memAlt[r.addr]) \in MemoryAlt
    BY <1>6, <2>1, BoardOps, MemoryAltOps
  <2>3. board' \in [Addr -> Entry]
    BY <1>2, <2>2 DEF TypeShared, FireCBOAck
  <2>4. memAlt' \in [Addr -> MemoryAlt]
    BY <1>2, <2>2 DEF TypeShared, FireCBOAck
  <2>5. mem' \in [Addr -> Data]
    BY <1>2, <1>6 DEF TypeShared, FireCBOAck
  <2> QED BY <2>3, <2>4, <2>5 DEF TypeShared
<1>8. TypeDevice'
  <2>1. line' \in [Addr -> Data]
    BY <1>2, <1>6 DEF TypeDevice, FireCBOAck
  <2>2. reqs' \subseteq reqs /\ cleaned' \subseteq cleaned
    BY DEF FireCBOAck
  <2> QED BY <1>1, <2>1, <2>2, TypeFireDRest DEF TypeDevice
<1> QED BY <1>3, <1>4, <1>5, <1>7, <1>8, TypeFireDRest

\* fire_d keeps the types.
LEMMA TypeFireD ==
  ASSUME TypeOK, NEW c \in Core, FireD(c)
  PROVE  TypeOK'
<1>1. CASE \E k \in relAcks : FireReleaseAck(c, k)
  BY <1>1, TypeFireReleaseAck
<1>2. CASE \E r \in reqs, perm \in TLPermission : FireGrantBeat(c, r, perm)
  BY <1>2, TypeFireGrantBeat
<1>3. CASE \E r \in reqs, perm \in TLPermission : FireGrant(c, r, perm)
  BY <1>3, TypeFireGrant DEF TypeOK, TypeDevice
<1>4. CASE \E p \in pendingD[c] : FireGrant(c, p.req, p.perm)
  <2>1. PICK p \in pendingD[c] : FireGrant(c, p.req, p.perm)
    BY <1>4
  <2>2. p.req \in ReqA /\ p.perm \in TLPermission
    BY DEF TypeOK, TypePending
  <2> QED BY <2>1, <2>2, TypeFireGrant
<1>5. CASE \E r \in reqs : FireCBOAck(c, r)
  BY <1>5, TypeFireCBOAck
<1> QED BY <1>1, <1>2, <1>3, <1>4, <1>5 DEF FireD

\* The operations of the fuzzers keep the types.
LEMMA TypeFuzz ==
  ASSUME TypeOK, NEW c \in Core, Fuzz(c)
  PROVE  TypeOK'
<1> USE DEF TypeOK
<1>1. PICK i \in idle[c], a \in Addr : Fuzz(c)!2!(i, a)
  BY DEF Fuzz
<1>2. UNCHANGED <<entryVars, pendingB, pendingD, pendingE, idMap, freeSlot,
                  probePool, stampA, stampC, boardVars, mem, dutVars>>
  BY DEF Fuzz
<1>3. pos' \in 0 .. 7 * NCore
  BY PosRange DEF Fuzz, At
<1>4. i \in SourceID
  BY DEF TypeIds
<1>5. /\ pendingA' \in [Core -> SUBSET ReqA]
      /\ pendingC' \in [Core -> SUBSET ReqC]
      /\ cmo' \in PerAddr(CMOStatus)
  <2>1. ASSUME NEW op \in AcquireOp, NEW x \in Alias, NEW param \in TLParamAcquire,
               DoAcquire(c, i, op, a, x, param)
        PROVE  <1>5
    <3> DEFINE p == IF (a \in known[c] /\ status[c][a][x] = "S_VALID")
                       /\ privilege[c][a][x] = "BRANCH" THEN "BtoT" ELSE param
               r == [core |-> c, op |-> op, addr |-> a, alias |-> x, source |-> i,
                     param |-> p]
    <3>1. p \in TLParamAcquire
      BY DEF TLParamAcquire
    <3>2. pendingA' = [pendingA EXCEPT ![c] = {r}]
      BY <2>1 DEF DoAcquire
    <3> HIDE DEF p
    <3>3. r \in ReqA
      BY <1>4, <3>1 DEF ReqA
    <3> QED BY <2>1, <3>2, <3>3 DEF DoAcquire, TypePending, TypeIds
  <2>2. ASSUME NEW x \in Alias, DoReleaseDataAuto(c, i, a, x)
        PROVE  <1>5
    <3> DEFINE toN == IF privilege[c][a][x] = "TIP" THEN "TtoN" ELSE "BtoN"
               request(op, n, d) ==
                 [op |-> op, addr |-> a, alias |-> x, param |-> toN,
                  beats |-> n, data |-> d, source |-> {i}]
    <3>1. toN \in TLPermDemotion
      BY DEF TLPermDemotion
    <3>2. \/ pendingC' = [pendingC EXCEPT ![c] = {request("Release", 1, Zero)}]
          \/ \E d \in Data :
               pendingC' = [pendingC EXCEPT ![c] = {request("ReleaseData", 2, d)}]
      BY <2>2 DEF DoReleaseDataAuto
    <3> HIDE DEF toN
    <3>3. \A op \in ReleaseOp, n \in 1 .. 2, d \in Data : request(op, n, d) \in ReqC
      BY <1>4, <3>1 DEF ReqC
    <3> HIDE DEF request
    <3>4. \A d \in Data : {request("Release", 1, Zero), request("ReleaseData", 2, d)} \subseteq ReqC
      BY <3>3, DataAssumption DEF ReleaseOp
    <3>5. pendingC' \in [Core -> SUBSET ReqC]
      BY <3>2, <3>4, DataAssumption DEF TypePending
    <3> QED BY <2>2, <3>5 DEF DoReleaseDataAuto, TypePending, TypeIds
  <2>3. ASSUME NEW op \in CBOOp, DoCBO(c, i, op, a)
        PROVE  <1>5
    <3> DEFINE r == [core |-> c, op |-> op, addr |-> a,
                     alias |-> CHOOSE x \in Alias : TRUE, param |-> "NtoB", source |-> i]
    <3>1. r \in ReqA
      BY <1>4, AliasAssumption DEF ReqA, TLParamAcquire
    <3>2. [op |-> op, fired |-> FALSE] \in CMOStatus
      BY DEF CMOStatus
    <3>3. /\ pendingA' = [pendingA EXCEPT ![c] = {r}]
          /\ cmo' = [cmo EXCEPT ![c][a] = [op |-> op, fired |-> FALSE]]
          /\ pendingC' = pendingC
      BY <2>3 DEF DoCBO
    <3> HIDE DEF r
    <3>4. cmo' \in PerAddr(CMOStatus)
      BY <3>2, <3>3 DEF TypeIds, PerAddr
    <3> QED BY <3>1, <3>3, <3>4 DEF TypePending
  <2> QED BY <1>1, <2>1, <2>2, <2>3
<1>6. TypeEntries'
  BY <1>2 DEF TypeEntries, entryVars
<1>7. TypePending'
  BY <1>2, <1>5 DEF TypePending
<1>8. TypeIds'
  <2>1. idle' \in [Core -> SUBSET SourceID]
    BY <1>1 DEF TypeIds
  <2> QED BY <1>2, <1>5, <2>1 DEF TypeIds
<1>9. TypeShared'
  BY <1>2 DEF TypeShared, boardVars
<1>10. TypeDevice'
  BY <1>2 DEF TypeDevice, dutVars
<1> QED BY <1>3, <1>6, <1>7, <1>8, <1>9, <1>10

\* What send_a leaves of an agent's statuses are statuses.
LEMMA PresentedType ==
  ASSUME TypeOK, NEW c \in Core
  PROVE  Presented(c) \in [Addr -> [Alias -> Status]]
<1>1. status[c] \in [Addr -> [Alias -> Status]]
  BY DEF TypeOK, TypeEntries, PerBlock
<1>2. CASE pendingA[c] # {}
  <2> DEFINE r == The(pendingA[c])
             after(s) == IF r.op \in CBOOp THEN AfterSendCBO(s) ELSE AfterSendAcquire(s)
             row == [x \in Alias |-> IF r.op \in CBOOp \/ x = r.alias
                                     THEN after(status[c][r.addr][x])
                                     ELSE status[c][r.addr][x]]
  <2>1. r \in pendingA[c]
    BY <1>2 DEF The
  <2>2. r.addr \in Addr
    BY <2>1 DEF TypeOK, TypePending, ReqA
  <2>3. \A s \in Status : after(s) \in Status
    BY StatusOps
  <2>4. Presented(c) = [status[c] EXCEPT ![r.addr] = row]
    BY <1>2 DEF Presented
  <2> HIDE DEF r, after
  <2>5. row \in [Alias -> Status]
    BY <1>1, <2>2, <2>3
  <2> QED BY <1>1, <2>2, <2>4, <2>5
<1> QED BY <1>1, <1>2 DEF Presented

\* send_c presents what is pending on C, and maps its ids.
LEMMA SendCType ==
  ASSUME TypeOK, NEW c \in Core, NEW C \in SUBSET ReqC,
         NEW st \in [Addr -> [Alias -> Status]], SendC(c, st, C)
  PROVE  /\ pendingC' \in [Core -> SUBSET ReqC]
         /\ status' \in PerBlock(Status)
         /\ idMap' \in [Core -> [SourceID -> SUBSET Block]]
<1>1. AfterSendC(st, C) \in [Addr -> [Alias -> Status]]
  <2>1. CASE C # {}
    <3> DEFINE r == The(C)
               s == st[r.addr][r.alias]
               new == IF r.op \in ReleaseOp THEN AfterSendRelease(s)
                      ELSE AfterSendProbeAck(r.op, s)
    <3>1. r \in C
      BY <2>1 DEF The
    <3>2. r.addr \in Addr /\ r.alias \in Alias
      BY <3>1, ReqCFields
    <3>3. new \in Status
      BY <3>2, StatusOps
    <3>4. AfterSendC(st, C) = [st EXCEPT ![r.addr][r.alias] = new]
      BY <2>1 DEF AfterSendC
    <3> HIDE DEF r, new
    <3> QED BY <3>2, <3>3, <3>4
  <2> QED BY <2>1 DEF AfterSendC
<1>2. IdMapped(c, C) \in [SourceID -> SUBSET Block]
  <2>1. \A r \in pendingA[c] \cup C : [addr |-> r.addr, alias |-> r.alias] \in Block
    <3>1. \A r \in pendingA[c] : [addr |-> r.addr, alias |-> r.alias] \in Block
      BY DEF TypeOK, TypePending, ReqA, Block
    <3>2. \A r \in C : [addr |-> r.addr, alias |-> r.alias] \in Block
      BY ReqCFields DEF Block
    <3> QED BY <3>1, <3>2
  <2>2. idMap[c] \in [SourceID -> SUBSET Block]
    BY DEF TypeOK, TypeIds
  <2>3. ASSUME NEW i \in SourceID
        PROVE  IdMapped(c, C)[i] \subseteq Block
    BY <2>1, <2>2, <2>3 DEF IdMapped
  <2> QED BY <2>3 DEF IdMapped
<1>3. pendingC' \in [Core -> SUBSET ReqC]
  BY DEF SendC, TypeOK, TypePending
<1>4. status' \in PerBlock(Status)
  BY <1>1 DEF SendC, TypeOK, TypeEntries, PerBlock
<1>5. idMap' \in [Core -> [SourceID -> SUBSET Block]]
  BY <1>2 DEF SendC, TypeOK, TypeIds
<1> QED BY <1>3, <1>4, <1>5

\* Every answer to a probe is a ProbeAck or ProbeAckData, which has no id of idpool.
LEMMA ProbeAnswersType ==
  ASSUME TypeOK, NEW c \in Core, NEW b \in ReqB, NEW st
  PROVE  ProbeAnswers(c, b, st) \subseteq {r \in ReqC : r.source = {}}
<1> DEFINE ProbeAcks == {r \in ReqC : r.source = {}}
<1> DEFINE answer(op, param, d) ==
      [op |-> op, addr |-> b.addr, alias |-> b.alias, param |-> param, data |-> d,
       beats |-> IF op = "ProbeAckData" THEN 2 ELSE 1, source |-> {}]
<1>1. b.addr \in Addr /\ b.alias \in Alias
  BY DEF ReqB
<1>2. \A op \in ProbeAckOp, param \in TLPermDemotion, d \in Data :
        answer(op, param, d) \in ProbeAcks
  BY <1>1 DEF ReqC
<1>3. ProbedOp(c, b) \subseteq ProbeAckOp
  BY DEF ProbedOp, ProbeAckOp
<1>4. \A op, param : ProbedData(op, param, board[b.addr]) \subseteq Data
  BY <1>1, DataAssumption DEF ProbedData, TypeOK, TypeShared, Entry
<1>5. \A probe, perm : ProbeAckParam(probe, perm) \in TLPermDemotion
  BY ParamOps
<1>6. "ProbeAck" \in ProbeAckOp /\ "NtoN" \in TLPermDemotion
  BY DEF ProbeAckOp, TLPermDemotion
<1> DEFINE param == ProbeAckParam(b.param, privilege[c][b.addr][b.alias])
<1>7. \/ ProbeAnswers(c, b, st) =
           {answer("ProbeAck", ProbeAckParam("toN", privilege[c][b.addr][b.alias]), Zero)}
      \/ ProbeAnswers(c, b, st) = {answer("ProbeAck", "NtoN", Zero)}
      \/ ProbeAnswers(c, b, st) =
           UNION {{answer(op, param, d) : d \in ProbedData(op, param, board[b.addr])}
                  : op \in ProbedOp(c, b)}
  BY DEF ProbeAnswers
<1> HIDE DEF answer, param, ProbeAcks
<1>8. param \in TLPermDemotion
  BY <1>5 DEF param
<1>9. UNION {{answer(op, param, d) : d \in ProbedData(op, param, board[b.addr])}
             : op \in ProbedOp(c, b)} \subseteq ProbeAcks
  BY <1>2, <1>3, <1>4, <1>8
<1>10. ProbeAnswers(c, b, st) \subseteq ProbeAcks
  BY <1>2, <1>5, <1>6, <1>7, <1>9, DataAssumption
<1> QED BY <1>10 DEF ProbeAcks

\* update_signal keeps the types: send_a, handle_b, send_c and both id pools.
LEMMA TypeUpdate ==
  ASSUME TypeOK, NEW c \in Core, Update(c)
  PROVE  TypeOK'
<1> USE DEF TypeOK
<1> DEFINE st == Presented(c)
<1>1. NoHandleB(c, st) \/ \E b \in pendingB[c] : HandleB(c, b, st)
  BY DEF Update
<1>2. UNCHANGED <<privilege, dirty, pendingA, pendingD, pendingE, timeVars, boardVars,
                  mem, dutVars>>
  BY DEF Update
<1>3. pos' \in 0 .. 7 * NCore
  <2>1. PosUpdate(c) \in 0 .. 7 * NCore
    BY PosRange
  <2>2. pos' = 0 \/ pos' = PosUpdate(c)
    BY DEF Update
  <2> QED BY <2>1, <2>2, NCoreAssumption
<1>4. known' \in [Core -> SUBSET Addr]
  <2>1. {r.addr : r \in pendingA[c]} \subseteq Addr
    BY DEF TypePending, ReqA
  <2>2. known' = [known EXCEPT ![c] = known[c] \cup {r.addr : r \in pendingA[c]}]
    BY DEF Update
  <2> QED BY <2>1, <2>2 DEF TypeEntries
<1>5. acquirePerm' \in [Core -> SUBSET Block]
  <2>1. AcquirePermMarks(c) \subseteq Block
    BY DEF TypePending, TypeEntries, ReqA, Block, AcquirePermMarks
  <2>2. acquirePerm' = [acquirePerm EXCEPT ![c] = AcquirePermMarks(c)]
    BY DEF Update
  <2> QED BY <2>1, <2>2 DEF TypeEntries
<1>6. idle' \in [Core -> SUBSET SourceID] /\ freeSlot' \in [Core -> SUBSET SourceID]
  <2>1. /\ idle' = [idle EXCEPT ![c] = idle[c] \cup freeSlot[c]]
        /\ freeSlot' = [freeSlot EXCEPT ![c] = {}]
    BY DEF Update
  <2> QED BY <2>1 DEF TypeIds
<1>7. st \in [Addr -> [Alias -> Status]]
  BY PresentedType
<1> HIDE DEF st
<1>8. /\ pendingB' \in [Core -> SUBSET ReqB]
      /\ cmoProbed' \in [Core -> SUBSET Addr]
      /\ probePool' \in [Core -> {"idle", "used", "freed"}]
      /\ \E C \in SUBSET ReqC : SendC(c, st, C)
  <2>1. CASE NoHandleB(c, st)
    <3>1. SendC(c, st, pendingC[c]) /\ pendingC[c] \in SUBSET ReqC
      BY <2>1 DEF NoHandleB, TypePending
    <3>2. probePool' \in [Core -> {"idle", "used", "freed"}]
      <4>1. Recycled(probePool[c]) \in {"idle", "used", "freed"}
        BY DEF TypeIds, Recycled
      <4> QED BY <2>1, <4>1 DEF NoHandleB, TypeIds
    <3> QED BY <2>1, <3>1, <3>2 DEF NoHandleB, TypePending, TypeEntries
  <2>2. ASSUME NEW b \in pendingB[c], HandleB(c, b, st)
        PROVE  <1>8
    <3>1. b \in ReqB /\ b.addr \in Addr
      BY DEF TypePending, ReqB
    <3>2. \E C \in SUBSET ReqC : SendC(c, st, C)
      <4>1. \/ \E r \in ProbeAnswers(c, b, st) : SendC(c, st, {r})
            \/ SendC(c, st, {})
        BY <2>2 DEF HandleB
      <4>2. \A r \in ProbeAnswers(c, b, st) : {r} \in SUBSET ReqC
        BY <3>1, ProbeAnswersType
      <4> QED BY <4>1, <4>2
    <3>3. pendingB' = [pendingB EXCEPT ![c] = {}]
      BY <2>2 DEF HandleB
    <3>4. probePool' = [probePool EXCEPT ![c] = "used"]
      BY <2>2 DEF HandleB
    <3>5. \/ cmoProbed' = cmoProbed
          \/ cmoProbed' = [cmoProbed EXCEPT ![c] = cmoProbed[c] \cup {b.addr}]
      BY <2>2 DEF HandleB
    <3> QED BY <3>1, <3>2, <3>3, <3>4, <3>5 DEF TypePending, TypeEntries, TypeIds
  <2> QED BY <1>1, <2>1, <2>2
<1>9. PICK C \in SUBSET ReqC : SendC(c, st, C)
  BY <1>8
<1>10. /\ pendingC' \in [Core -> SUBSET ReqC]
       /\ status' \in PerBlock(Status)
       /\ idMap' \in [Core -> [SourceID -> SUBSET Block]]
  BY <1>7, <1>9, SendCType
<1>11. TypeEntries'
  BY <1>2, <1>4, <1>5, <1>8, <1>10 DEF TypeEntries
<1>12. TypePending'
  BY <1>2, <1>8, <1>10 DEF TypePending
<1>13. TypeIds'
  BY <1>2, <1>6, <1>8, <1>10 DEF TypeIds, timeVars
<1>14. TypeShared'
  BY <1>2 DEF TypeShared, boardVars
<1>15. TypeDevice'
  BY <1>2 DEF TypeDevice, dutVars
<1> QED BY <1>3, <1>11, <1>12, <1>13, <1>14, <1>15

\* The device's write-back keeps the types.
LEMMA TypeWriteBack ==
  ASSUME TypeOK, NEW a \in Addr, WriteBack(a)
  PROVE  TypeOK'
<1> USE DEF TypeOK
<1>1. /\ mem' = [mem EXCEPT ![a] = line[a]]
      /\ UNCHANGED <<pos, failed, entryVars, pendVars, idVars, timeVars, boardVars,
                     dutVars>>
  BY DEF WriteBack
<1>2. TypeEntries'
  BY <1>1 DEF TypeEntries, entryVars
<1>3. TypePending'
  BY <1>1 DEF TypePending, pendVars
<1>4. TypeIds'
  BY <1>1 DEF TypeIds, idVars, timeVars
<1>5. TypeShared'
  BY <1>1 DEF TypeShared, TypeDevice, boardVars
<1>6. TypeDevice'
  BY <1>1 DEF TypeDevice, dutVars
<1> QED BY <1>1, <1>2, <1>3, <1>4, <1>5, <1>6

\* A step that changes nothing keeps the types.
LEMMA TypeStutter ==
  ASSUME TypeOK, UNCHANGED vars
  PROVE  TypeOK'
<1> USE DEF TypeOK
<1>1. UNCHANGED <<pos, entryVars, pendVars, idVars, timeVars, boardVars, mem, dutVars>>
  BY DEF vars
<1>2. TypeEntries'
  BY <1>1 DEF TypeEntries, entryVars
<1>3. TypePending'
  BY <1>1 DEF TypePending, pendVars
<1>4. TypeIds'
  BY <1>1 DEF TypeIds, idVars, timeVars
<1>5. TypeShared'
  BY <1>1 DEF TypeShared, boardVars
<1>6. TypeDevice'
  BY <1>1 DEF TypeDevice, dutVars
<1> QED BY <1>1, <1>2, <1>3, <1>4, <1>5, <1>6

\* Every step keeps the types.
LEMMA TypeStep == TypeOK /\ [Next]_vars => TypeOK'
<1> SUFFICES ASSUME TypeOK, [Next]_vars PROVE TypeOK'
  OBVIOUS
<1>1. CASE \E a \in Addr : WriteBack(a)
  BY <1>1, TypeWriteBack
<1>2. CASE \E c \in Core : FireA(c)
  BY <1>2, TypeFireA
<1>3. CASE \E c \in Core : FireB(c)
  BY <1>3, TypeFireB
<1>4. CASE \E c \in Core : FireC(c)
  BY <1>4, TypeFireC
<1>5. CASE \E c \in Core : FireE(c)
  BY <1>5, TypeFireE
<1>6. CASE \E c \in Core : FireD(c)
  BY <1>6, TypeFireD
<1>7. CASE \E c \in Core : Fuzz(c)
  BY <1>7, TypeFuzz
<1>8. CASE \E c \in Core : Update(c)
  BY <1>8, TypeUpdate
<1>9. CASE UNCHANGED vars
  BY <1>9, TypeStutter
<1> QED BY <1>1, <1>2, <1>3, <1>4, <1>5, <1>6, <1>7, <1>8, <1>9 DEF Next

\* Whatever the device does within its assumptions, for any number of agents,
\* aliases and ids, every variable keeps its type: in particular the agents'
\* status machine (fire_a .. fire_d, send_a, send_c, handle_b) stays within its
\* sixteen statuses, after a failed assertion too, and every answer to a probe is
\* a well-formed request on C.
THEOREM TypeCorrect == Spec => []TypeOK
<1>1. Init => TypeOK
  BY TypeInit
<1>2. TypeOK /\ [Next]_vars => TypeOK'
  BY TypeStep
<1> QED BY <1>1, <1>2, PTL DEF Spec

-----------------------------------------------------------------------------
(* Ids are conserved *)

\* The one pending_freeid slot is taken between an answer on D and the agent's
\* update_signal of the same cycle, so that a second answer never finds it full.
SlotWindow(c) == freeSlot[c] # {} => PosD(c) <= pos /\ pos < PosUpdate(c)

\* A channel presents one request, on A its own agent's.
OnePending(c) ==
  /\ \A r \in pendingA[c] : r.core = c
  /\ \A q, r \in pendingA[c] : q = r
  /\ \A q, r \in pendingC[c] : q = r

\* The Acquire whose GrantData is half received is still unanswered.
GrantOwed(c) == \A p \in pendingD[c] : p.req \in ReqsOf(c) /\ p.req.op = "AcquireBlock"

\* The inductive strengthening of IdsConserved, agent by agent.
IdInvBy(c) == SlotWindow(c) /\ OnePending(c) /\ GrantOwed(c) /\ IdsConservedBy(c)
IdInv == \A c \in Core : IdInvBy(c)

-----------------------------------------------------------------------------
(* Agents a step does not concern *)

\* A step that leaves an agent's ids and their owners alone keeps its part of IdInv.
LEMMA IdFrame ==
  ASSUME NEW d \in Core, IdInvBy(d), SlotWindow(d)',
         UNCHANGED <<idle[d], freeSlot[d], pendingA[d], pendingC[d], pendingD[d],
                     ReqsOf(d), AcksOf(d)>>
  PROVE  IdInvBy(d)'
<1>1. OnePending(d)'
  BY DEF IdInvBy, OnePending
<1>2. GrantOwed(d)'
  BY DEF IdInvBy, GrantOwed
<1>3. IdsConservedBy(d)'
  <2>1. UNCHANGED <<AIds(d), CIds(d)>>
    BY DEF AIds, CIds
  <2>2. UNCHANGED <<ReqIds(d), AckIds(d)>>
    BY DEF ReqIds, AckIds
  <2> QED BY <2>1, <2>2 DEF IdInvBy, IdsConservedBy, UsedIds
<1> QED BY <1>1, <1>2, <1>3 DEF IdInvBy

\* A cycle's positions follow each other, and every agent's window ends with its
\* own update_signal.
LEMMA SlotStays ==
  ASSUME TypeOK, NEW c \in Core, NEW d \in Core, SlotWindow(d),
         freeSlot'[d] = freeSlot[d],
         NEW p \in {PosA(c), PosB(c), PosC(c), PosE(c), PosD(c), PosFuzz(c)}, At(p)
  PROVE  SlotWindow(d)'
  BY NCoreAssumption
     DEF SlotWindow, At, Reach, TypeOK, Core, PosA, PosB, PosC, PosE, PosD,
         PosFuzz, PosUpdate

-----------------------------------------------------------------------------
(* The steps *)

\* At first every id is idle.
LEMMA IdInit == Init => IdInv
<1> SUFFICES ASSUME Init, NEW c \in Core PROVE IdInvBy(c)
  BY DEF IdInv
<1>1. /\ idle[c] = SourceID /\ freeSlot[c] = {} /\ pendingA[c] = {}
      /\ pendingC[c] = {} /\ pendingD[c] = {} /\ ReqsOf(c) = {} /\ AcksOf(c) = {}
  BY DEF Init, ReqsOf, AcksOf
<1>2. SlotWindow(c) /\ OnePending(c) /\ GrantOwed(c)
  BY <1>1 DEF SlotWindow, OnePending, GrantOwed
<1>3. IdsConservedBy(c)
  BY <1>1 DEF IdsConservedBy, UsedIds, AIds, CIds, ReqIds, AckIds
<1> QED BY <1>2, <1>3 DEF IdInvBy

\* fire_a hands the id of the request from the agent to the device.
LEMMA IdFireA ==
  ASSUME TypeOK, IdInv, NEW c \in Core, FireA(c), NEW d \in Core
  PROVE  IdInvBy(d)'
<1>1. PICK r \in pendingA[c] :
        /\ pendingA' = [pendingA EXCEPT ![c] = {}]
        /\ reqs' = reqs \cup {r}
  BY DEF FireA
<1>2. UNCHANGED <<pendingC, pendingD, idle, freeSlot, relAcks>>
  BY DEF FireA, idVars
<1>3. SlotWindow(d)'
  BY <1>2, SlotStays DEF FireA, IdInv, IdInvBy
<1>4. r.core = c /\ pendingA[c] = {r}
  BY <1>1 DEF IdInv, IdInvBy, OnePending
<1>5. AcksOf(d)' = AcksOf(d)
  BY <1>2 DEF AcksOf
<1>6. CASE d # c
  <2>1. UNCHANGED <<pendingA[d], ReqsOf(d)>>
    BY <1>1, <1>4, <1>6 DEF ReqsOf, TypeOK, TypePending
  <2> QED BY <1>2, <1>3, <1>5, <2>1, IdFrame DEF IdInv
<1>7. CASE d = c
  <2>1. pendingA'[c] = {} /\ ReqsOf(c)' = ReqsOf(c) \cup {r}
    BY <1>1, <1>4 DEF ReqsOf, TypeOK, TypePending
  <2>2. OnePending(c)' /\ GrantOwed(c)'
    BY <1>2, <2>1 DEF IdInv, IdInvBy, OnePending, GrantOwed
  <2>3. AIds(c) = {r.source} /\ AIds(c)' = {}
    BY <1>4, <2>1 DEF AIds
  <2>4. /\ CIds(c)' = CIds(c) /\ AckIds(c)' = AckIds(c)
        /\ ReqIds(c)' = ReqIds(c) \cup {r.source}
    BY <1>2, <1>5, <1>7, <2>1 DEF CIds, AckIds, ReqIds
  <2>5. \A q \in ReqsOf(c) : q.source # r.source
    BY <2>3 DEF IdInv, IdInvBy, IdsConservedBy, ReqIds
  <2>6. IdsConservedBy(c)
    BY DEF IdInv, IdInvBy
  <2>7. IdsConservedBy(c)'
    BY <1>2, <1>5, <1>7, <2>1, <2>3, <2>4, <2>5, <2>6 DEF IdsConservedBy, UsedIds
  <2> QED BY <1>3, <1>7, <2>2, <2>7 DEF IdInvBy
<1> QED BY <1>6, <1>7

\* fire_b moves no id.
LEMMA IdFireB ==
  ASSUME TypeOK, IdInv, NEW c \in Core, FireB(c), NEW d \in Core
  PROVE  IdInvBy(d)'
<1>1. UNCHANGED <<pendingA, pendingC, pendingD, idle, freeSlot, reqs, relAcks>>
  BY DEF FireB, idVars
<1>2. SlotWindow(d)'
  BY <1>1, SlotStays DEF FireB, IdInv, IdInvBy
<1>3. UNCHANGED <<ReqsOf(d), AcksOf(d)>>
  BY <1>1 DEF ReqsOf, AcksOf
<1> QED BY <1>1, <1>2, <1>3, IdFrame DEF IdInv

\* fire_e moves no id.
LEMMA IdFireE ==
  ASSUME TypeOK, IdInv, NEW c \in Core, FireE(c), NEW d \in Core
  PROVE  IdInvBy(d)'
<1>1. UNCHANGED <<pendingA, pendingC, pendingD, idle, freeSlot, reqs, relAcks>>
  BY DEF FireE, idVars
<1>2. SlotWindow(d)'
  BY <1>1, SlotStays DEF FireE, IdInv, IdInvBy
<1>3. UNCHANGED <<ReqsOf(d), AcksOf(d)>>
  BY <1>1 DEF ReqsOf, AcksOf
<1> QED BY <1>1, <1>2, <1>3, IdFrame DEF IdInv

\* fire_c hands the id of a Release to its ReleaseAck; a ProbeAck has none of idpool.
LEMMA IdFireC ==
  ASSUME TypeOK, IdInv, NEW c \in Core, FireC(c), NEW d \in Core
  PROVE  IdInvBy(d)'
<1>1. PICK r \in pendingC[c] : FireCBeat(c, r) \/ FireRelease(c, r) \/ FireProbeAck(c, r)
  BY DEF FireC
<1>2. UNCHANGED <<pendingA, pendingD, idle, freeSlot, reqs>>
  BY DEF FireC
<1>3. SlotWindow(d)'
  BY <1>2, SlotStays DEF FireC, IdInv, IdInvBy
<1>4. r \in ReqC
  BY DEF TypeOK, TypePending
<1>5. pendingC[c] = {r}
  BY <1>1 DEF IdInv, IdInvBy, OnePending
<1>6. ReqsOf(d)' = ReqsOf(d)
  BY <1>2 DEF ReqsOf
<1>7. UNCHANGED <<AIds(d), ReqIds(d)>>
  BY <1>2, <1>6 DEF AIds, ReqIds
<1>8. IdsConservedBy(d) /\ OnePending(d) /\ GrantOwed(d)
  BY DEF IdInv, IdInvBy
<1>9. GrantOwed(d)'
  BY <1>2, <1>6, <1>8 DEF GrantOwed
<1>10. CASE FireRelease(c, r)
  <2> DEFINE k == [core |-> c, addr |-> r.addr, source |-> The(r.source)]
  <2>1. pendingC' = [pendingC EXCEPT ![c] = {}] /\ relAcks' = relAcks \cup {k}
    BY <1>10 DEF FireRelease
  <2>2. k.core = c /\ k.source = The(r.source)
    OBVIOUS
  <2> HIDE DEF k
  <2>3. r.source = {The(r.source)}
    <3>1. r \in [op : ReleaseOp, addr : Addr, alias : Alias, param : TLPermDemotion,
                 beats : 1 .. 2, data : Data, source : {{i} : i \in SourceID}]
      BY <1>4, <1>10 DEF FireRelease, ReqC, ReleaseOp, ProbeAckOp
    <3>2. PICK i \in SourceID : r.source = {i}
      BY <3>1
    <3> QED BY <3>2 DEF The
  <2>4. CASE d # c
    <3>1. UNCHANGED <<pendingC[d], AcksOf(d)>>
      BY <2>1, <2>2, <2>4 DEF AcksOf, TypeOK, TypePending
    <3> QED BY <1>2, <1>3, <1>6, <3>1, IdFrame DEF IdInv
  <2>5. CASE d = c
    <3>1. pendingC'[c] = {} /\ AcksOf(c)' = AcksOf(c) \cup {k}
      BY <2>1, <2>2 DEF AcksOf, TypeOK, TypePending
    <3>2. OnePending(c)'
      BY <1>2, <1>8, <2>5, <3>1 DEF OnePending
    <3>3. CIds(c) = {The(r.source)} /\ CIds(c)' = {}
      BY <1>5, <2>3, <3>1 DEF CIds
    <3>4. AckIds(c)' = AckIds(c) \cup {The(r.source)}
      BY <2>2, <3>1 DEF AckIds
    <3>5. \A j \in AcksOf(c) : j.source # The(r.source)
      BY <1>8, <2>5, <3>3 DEF IdsConservedBy, AckIds
    <3>6. IdsConservedBy(c)'
      BY <1>2, <1>6, <1>7, <1>8, <2>2, <2>5, <3>1, <3>3, <3>4, <3>5
         DEF IdsConservedBy, UsedIds
    <3> QED BY <1>3, <1>9, <2>5, <3>2, <3>6 DEF IdInvBy
  <2> QED BY <2>4, <2>5
<1>11. CASE FireCBeat(c, r) \/ FireProbeAck(c, r)
  <2>1. relAcks' = relAcks
    BY <1>11 DEF FireCBeat, FireProbeAck
  <2>2. AcksOf(d)' = AcksOf(d)
    BY <2>1 DEF AcksOf
  <2>3. CASE d # c
    <3>1. pendingC'[d] = pendingC[d]
      BY <1>11, <2>3 DEF FireCBeat, FireProbeAck, TypeOK, TypePending
    <3> QED BY <1>2, <1>3, <1>6, <2>2, <3>1, IdFrame DEF IdInv
  <2>4. CASE d = c
    <3>1. /\ \A q, p \in pendingC'[c] : q = p
          /\ CIds(c)' = CIds(c)
      <4>1. CASE FireCBeat(c, r)
        <5>1. pendingC' = [pendingC EXCEPT ![c] = {LessABeat(r)}]
          BY <4>1 DEF FireCBeat
        <5>2. LessABeat(r).source = r.source
          BY DEF LessABeat
        <5>3. pendingC'[c] = {LessABeat(r)}
          BY <5>1 DEF TypeOK, TypePending
        <5> QED BY <1>5, <5>2, <5>3 DEF CIds
      <4>2. CASE FireProbeAck(c, r)
        <5>1. r.source = {}
          BY <1>4, <4>2 DEF FireProbeAck, ReqC, ReleaseOp, ProbeAckOp
        <5>2. pendingC'[c] = {}
          BY <4>2 DEF FireProbeAck, TypeOK, TypePending
        <5> QED BY <1>5, <5>1, <5>2 DEF CIds
      <4> QED BY <1>11, <4>1, <4>2
    <3>2. OnePending(c)'
      BY <1>2, <1>8, <2>4, <3>1 DEF OnePending
    <3>3. AckIds(c)' = AckIds(c)
      BY <2>2, <2>4 DEF AckIds
    <3>4. IdsConservedBy(c)'
      BY <1>2, <1>6, <1>7, <1>8, <2>2, <2>4, <3>1, <3>3 DEF IdsConservedBy, UsedIds
    <3> QED BY <1>3, <1>9, <2>4, <3>2, <3>4 DEF IdInvBy
  <2> QED BY <2>3, <2>4
<1> QED BY <1>1, <1>10, <1>11

\* An answer on D finds the slot empty, and fills it with the id it frees.
LEMMA IdFreed ==
  ASSUME TypeOK, IdInv, NEW c \in Core, FireD(c), NEW s \in SourceID, FreeSource(c, s)
  PROVE  /\ freeSlot[c] = {} /\ freeSlot'[c] = {s}
         /\ SlotWindow(c)'
         /\ \A d \in Core \ {c} : freeSlot'[d] = freeSlot[d] /\ SlotWindow(d)'
<1>1. pos < PosD(c) /\ pos' = PosD(c)
  BY DEF FireD, At, Reach
<1>2. freeSlot' = [freeSlot EXCEPT ![c] = {s}]
  BY DEF FreeSource
<1>3. freeSlot[c] = {}
  BY <1>1, NCoreAssumption DEF IdInv, IdInvBy, SlotWindow, TypeOK, Core, PosD
<1>4. freeSlot'[c] = {s} /\ \A d \in Core \ {c} : freeSlot'[d] = freeSlot[d]
  BY <1>2 DEF TypeOK, TypeIds
<1>5. SlotWindow(c)'
  BY <1>1, NCoreAssumption DEF SlotWindow, Core, PosD, PosUpdate
<1>6. ASSUME NEW d \in Core \ {c}
      PROVE  SlotWindow(d)'
  BY <1>4, SlotStays DEF FireD, IdInv, IdInvBy
<1> QED BY <1>3, <1>4, <1>5, <1>6

\* A ReleaseAck parks the id of its Release in the empty slot.
LEMMA IdFireReleaseAck ==
  ASSUME TypeOK, IdInv, NEW c \in Core, FireD(c),
         NEW k \in relAcks, FireReleaseAck(c, k), NEW d \in Core
  PROVE  IdInvBy(d)'
<1>1. UNCHANGED <<pendingA, pendingC, pendingD, idle, reqs>>
  BY DEF FireD, FireReleaseAck
<1>2. k.source \in SourceID /\ k.core = c /\ relAcks' = relAcks \ {k}
  BY DEF TypeOK, TypeDevice, ReleaseAck, FireReleaseAck
<1>3. /\ freeSlot[c] = {} /\ freeSlot'[c] = {k.source}
      /\ SlotWindow(c)'
      /\ \A e \in Core \ {c} : freeSlot'[e] = freeSlot[e] /\ SlotWindow(e)'
  BY <1>2, IdFreed DEF FireReleaseAck
<1>4. ReqsOf(d)' = ReqsOf(d)
  BY <1>1 DEF ReqsOf
<1>5. CASE d # c
  <2>1. AcksOf(d)' = AcksOf(d)
    BY <1>2, <1>5 DEF AcksOf
  <2> QED BY <1>1, <1>3, <1>4, <1>5, <2>1, IdFrame DEF IdInv
<1>6. CASE d = c
  <2>1. IdsConservedBy(c) /\ OnePending(c) /\ GrantOwed(c)
    BY DEF IdInv, IdInvBy
  <2>2. k \in AcksOf(c) /\ AcksOf(c)' = AcksOf(c) \ {k}
    BY <1>2 DEF AcksOf
  <2>3. \A j \in AcksOf(c) : j.source = k.source => j = k
    BY <2>1, <2>2 DEF IdsConservedBy
  <2>4. k.source \in AckIds(c) /\ AckIds(c)' = AckIds(c) \ {k.source}
    BY <2>2, <2>3 DEF AckIds
  <2>5. UNCHANGED <<AIds(c), CIds(c), ReqIds(c)>>
    BY <1>1, <1>4, <1>6 DEF AIds, CIds, ReqIds
  <2>6. OnePending(c)' /\ GrantOwed(c)'
    BY <1>1, <1>4, <1>6, <2>1 DEF OnePending, GrantOwed
  <2>7. IdsConservedBy(c)'
    BY <1>1, <1>3, <1>4, <1>6, <2>1, <2>2, <2>4, <2>5 DEF IdsConservedBy, UsedIds
  <2> QED BY <1>3, <1>6, <2>6, <2>7 DEF IdInvBy
<1> QED BY <1>5, <1>6

\* A Grant and a CBOAck both answer a request r of the agent, and free its id.
LEMMA IdAnswered ==
  ASSUME TypeOK, IdInv, NEW c \in Core, FireD(c), NEW r \in ReqsOf(c),
         FreeSource(c, r.source), reqs' = reqs \ {r},
         pendingD' = [pendingD EXCEPT ![c] = {}],
         UNCHANGED <<pendingA, pendingC, idle, relAcks>>,
         NEW d \in Core
  PROVE  IdInvBy(d)'
<1>1. r.source \in SourceID /\ r.core = c
  BY DEF ReqsOf, TypeOK, TypeDevice, ReqA
<1>2. /\ freeSlot[c] = {} /\ freeSlot'[c] = {r.source}
      /\ SlotWindow(c)'
      /\ \A e \in Core \ {c} : freeSlot'[e] = freeSlot[e] /\ SlotWindow(e)'
  BY <1>1, IdFreed
<1>3. AcksOf(d)' = AcksOf(d)
  BY DEF AcksOf
<1>4. CASE d # c
  <2>1. ReqsOf(d)' = ReqsOf(d)
    BY <1>1, <1>4 DEF ReqsOf
  <2>2. pendingD'[d] = pendingD[d]
    BY <1>4 DEF TypeOK, TypePending
  <2> QED BY <1>2, <1>3, <1>4, <2>1, <2>2, IdFrame DEF IdInv
<1>5. CASE d = c
  <2>1. IdsConservedBy(c) /\ OnePending(c)
    BY DEF IdInv, IdInvBy
  <2>2. ReqsOf(c)' = ReqsOf(c) \ {r}
    BY DEF ReqsOf
  <2>3. \A q \in ReqsOf(c) : q.source = r.source => q = r
    BY <2>1 DEF IdsConservedBy
  <2>4. r.source \in ReqIds(c) /\ ReqIds(c)' = ReqIds(c) \ {r.source}
    BY <2>2, <2>3 DEF ReqIds
  <2>5. UNCHANGED <<AIds(c), CIds(c), AckIds(c)>>
    BY <1>3, <1>5 DEF AIds, CIds, AckIds
  <2>6. GrantOwed(c)'
    BY DEF GrantOwed, TypeOK, TypePending
  <2>7. OnePending(c)'
    BY <2>1 DEF OnePending
  <2>8. IdsConservedBy(c)'
    BY <1>2, <1>3, <1>5, <2>1, <2>2, <2>4, <2>5 DEF IdsConservedBy, UsedIds
  <2> QED BY <1>2, <1>5, <2>6, <2>7, <2>8 DEF IdInvBy
<1> QED BY <1>4, <1>5

\* A Grant parks the id of its Acquire in the empty slot.
LEMMA IdFireGrant ==
  ASSUME TypeOK, IdInv, NEW c \in Core, FireD(c), NEW r \in ReqsOf(c), NEW perm,
         FireGrant(c, r, perm), NEW d \in Core
  PROVE  IdInvBy(d)'
<1>1. UNCHANGED <<pendingA, pendingC, idle>>
  BY DEF FireD
<1>2. /\ FreeSource(c, r.source) /\ reqs' = reqs \ {r}
      /\ pendingD' = [pendingD EXCEPT ![c] = {}] /\ relAcks' = relAcks
  BY DEF FireGrant
<1> QED BY <1>1, <1>2, IdAnswered

\* A CBOAck parks the id of its CBO in the empty slot.
LEMMA IdFireCBOAck ==
  ASSUME TypeOK, IdInv, NEW c \in Core, FireD(c), NEW r \in ReqsOf(c),
         pendingD[c] = {}, FireCBOAck(c, r), NEW d \in Core
  PROVE  IdInvBy(d)'
<1>1. UNCHANGED <<pendingA, pendingC, idle>>
  BY DEF FireD
<1>2. /\ FreeSource(c, r.source) /\ reqs' = reqs \ {r} /\ relAcks' = relAcks
      /\ pendingD' = pendingD
  BY DEF FireCBOAck
<1>3. pendingD' = [pendingD EXCEPT ![c] = {}]
  BY <1>2 DEF TypeOK, TypePending
<1> QED BY <1>1, <1>2, <1>3, IdAnswered

\* The first beat of a GrantData moves no id.
LEMMA IdFireGrantBeat ==
  ASSUME TypeOK, IdInv, NEW c \in Core, FireD(c), NEW r \in ReqsOf(c), NEW perm,
         FireGrantBeat(c, r, perm), NEW d \in Core
  PROVE  IdInvBy(d)'
<1>1. /\ UNCHANGED <<pendingA, pendingC, idle, freeSlot, reqs, relAcks>>
      /\ pendingD' = [pendingD EXCEPT ![c] = {[req |-> r, perm |-> perm]}]
      /\ r.op = "AcquireBlock"
  BY DEF FireD, FireGrantBeat
<1>2. UNCHANGED <<ReqsOf(d), AcksOf(d)>>
  BY <1>1 DEF ReqsOf, AcksOf
<1>3. SlotWindow(d)'
  BY <1>1, SlotStays DEF FireD, IdInv, IdInvBy
<1>4. GrantOwed(d)'
  <2>1. CASE d # c
    <3>1. pendingD'[d] = pendingD[d]
      BY <1>1, <2>1 DEF TypeOK, TypePending
    <3> QED BY <1>2, <3>1 DEF GrantOwed, IdInv, IdInvBy
  <2>2. CASE d = c
    <3>1. pendingD'[c] = {[req |-> r, perm |-> perm]}
      BY <1>1 DEF TypeOK, TypePending
    <3> QED BY <1>1, <1>2, <2>2, <3>1 DEF GrantOwed
  <2> QED BY <2>1, <2>2
<1>5. OnePending(d)'
  BY <1>1 DEF OnePending, IdInv, IdInvBy
<1>6. IdsConservedBy(d)'
  <2>1. UNCHANGED <<AIds(d), CIds(d), ReqIds(d), AckIds(d)>>
    BY <1>1, <1>2 DEF AIds, CIds, ReqIds, AckIds
  <2> QED BY <1>1, <1>2, <2>1 DEF IdsConservedBy, UsedIds, IdInv, IdInvBy
<1> QED BY <1>3, <1>4, <1>5, <1>6 DEF IdInvBy

\* fire_d parks one id at the most.
LEMMA IdFireD ==
  ASSUME TypeOK, IdInv, NEW c \in Core, FireD(c), NEW d \in Core
  PROVE  IdInvBy(d)'
<1>1. CASE \E k \in relAcks : FireReleaseAck(c, k)
  BY <1>1, IdFireReleaseAck
<1>2. CASE \E r \in reqs, perm \in TLPermission :
             r.core = c /\ (FireGrantBeat(c, r, perm) \/ FireGrant(c, r, perm))
  BY <1>2, IdFireGrantBeat, IdFireGrant DEF ReqsOf
<1>3. CASE \E p \in pendingD[c] : FireGrant(c, p.req, p.perm)
  <2>1. PICK p \in pendingD[c] : FireGrant(c, p.req, p.perm)
    BY <1>3
  <2>2. p.req \in ReqsOf(c)
    BY DEF IdInv, IdInvBy, GrantOwed
  <2> QED BY <2>1, <2>2, IdFireGrant
<1>4. CASE pendingD[c] = {} /\ \E r \in reqs : r.core = c /\ FireCBOAck(c, r)
  BY <1>4, IdFireCBOAck DEF ReqsOf
<1> QED BY <1>1, <1>2, <1>3, <1>4 DEF FireD

\* An operation takes the smallest idle id for the one request it makes.
LEMMA IdFuzz ==
  ASSUME TypeOK, IdInv, NEW c \in Core, Fuzz(c), NEW d \in Core
  PROVE  IdInvBy(d)'
<1>1. PICK i \in idle[c], a \in Addr : Fuzz(c)!2!(i, a)
  BY DEF Fuzz
<1>2. idle' = [idle EXCEPT ![c] = idle[c] \ {i}]
  BY <1>1
<1>3. UNCHANGED <<pendingD, freeSlot, reqs, relAcks>>
  BY DEF Fuzz, dutVars
<1>4. UNCHANGED <<ReqsOf(d), AcksOf(d)>>
  BY <1>3 DEF ReqsOf, AcksOf
<1>5. SlotWindow(d)'
  BY <1>3, SlotStays DEF Fuzz, IdInv, IdInvBy
<1>6. \/ /\ pendingA[c] = {} /\ pendingC' = pendingC
         /\ \E r : r.core = c /\ r.source = i /\ pendingA' = [pendingA EXCEPT ![c] = {r}]
      \/ /\ pendingC[c] = {} /\ pendingA' = pendingA
         /\ \E r : r.source = {i} /\ pendingC' = [pendingC EXCEPT ![c] = {r}]
  <2>1. ASSUME NEW op, NEW x, NEW param, DoAcquire(c, i, op, a, x, param)
        PROVE  <1>6
    <3> DEFINE p == IF (a \in known[c] /\ status[c][a][x] = "S_VALID")
                       /\ privilege[c][a][x] = "BRANCH" THEN "BtoT" ELSE param
               r == [core |-> c, op |-> op, addr |-> a, alias |-> x, source |-> i,
                     param |-> p]
    <3>1. /\ pendingA[c] = {} /\ pendingC' = pendingC
          /\ pendingA' = [pendingA EXCEPT ![c] = {r}]
      BY <2>1 DEF DoAcquire
    <3>2. r.core = c /\ r.source = i
      OBVIOUS
    <3> HIDE DEF r
    <3> QED BY <3>1, <3>2
  <2>2. ASSUME NEW x, DoReleaseDataAuto(c, i, a, x)
        PROVE  <1>6
    BY <2>2 DEF DoReleaseDataAuto
  <2>3. ASSUME NEW op, DoCBO(c, i, op, a)
        PROVE  <1>6
    BY <2>3 DEF DoCBO
  <2> QED BY <1>1, <2>1, <2>2, <2>3
<1>7. CASE d # c
  <2>1. UNCHANGED <<idle[d], pendingA[d], pendingC[d]>>
    BY <1>2, <1>6, <1>7 DEF TypeOK, TypeIds, TypePending
  <2> QED BY <1>3, <1>4, <1>5, <2>1, IdFrame DEF IdInv
<1>8. CASE d = c
  <2>1. IdsConservedBy(c) /\ OnePending(c) /\ GrantOwed(c)
    BY DEF IdInv, IdInvBy
  <2>2. idle'[c] = idle[c] \ {i} /\ i \in idle[c]
    BY <1>2 DEF TypeOK, TypeIds
  <2>3. UNCHANGED <<ReqIds(c), AckIds(c)>>
    BY <1>4, <1>8 DEF ReqIds, AckIds
  <2>4. GrantOwed(c)'
    BY <1>3, <1>4, <1>8, <2>1 DEF GrantOwed
  <2>5. /\ OnePending(c)'
        /\ \/ AIds(c) = {} /\ AIds(c)' = {i} /\ CIds(c)' = CIds(c)
           \/ CIds(c) = {} /\ CIds(c)' = {i} /\ AIds(c)' = AIds(c)
    <3>1. CASE pendingA[c] = {} /\ pendingC' = pendingC
      <4>1. PICK r : r.core = c /\ r.source = i /\ pendingA' = [pendingA EXCEPT ![c] = {r}]
        BY <1>6, <3>1, <2>2 DEF TypeOK, TypePending
      <4>2. pendingA'[c] = {r}
        BY <4>1 DEF TypeOK, TypePending
      <4> QED BY <2>1, <3>1, <4>1, <4>2 DEF OnePending, AIds, CIds
    <3>2. CASE pendingC[c] = {} /\ pendingA' = pendingA
      <4>1. PICK r : r.source = {i} /\ pendingC' = [pendingC EXCEPT ![c] = {r}]
        BY <1>6, <3>2 DEF TypeOK, TypePending
      <4>2. pendingC'[c] = {r}
        BY <4>1 DEF TypeOK, TypePending
      <4> QED BY <2>1, <3>2, <4>1, <4>2 DEF OnePending, AIds, CIds
    <3> QED BY <1>6, <3>1, <3>2
  <2>6. IdsConservedBy(c)'
    BY <1>3, <1>4, <1>8, <2>1, <2>2, <2>3, <2>5 DEF IdsConservedBy, UsedIds, TypeOK, TypeIds
  <2> QED BY <1>5, <1>8, <2>4, <2>5, <2>6 DEF IdInvBy
<1> QED BY <1>7, <1>8

\* update_signal closes the agent's own window, and passes no other's.
LEMMA SlotUpdate ==
  ASSUME TypeOK, IdInv, NEW c \in Core, Update(c), NEW d \in Core
  PROVE  SlotWindow(d)'
<1>1. freeSlot' = [freeSlot EXCEPT ![c] = {}]
  BY DEF Update
<1>2. CASE d = c
  BY <1>1, <1>2 DEF SlotWindow, TypeOK, TypeIds
<1>3. CASE d # c
  <2>1. freeSlot'[d] = freeSlot[d]
    BY <1>1, <1>3 DEF TypeOK, TypeIds
  <2> SUFFICES ASSUME freeSlot[d] # {}
               PROVE  PosD(d) <= pos' /\ pos' < PosUpdate(d)
    BY <2>1 DEF SlotWindow, PosD, PosUpdate
  <2>2. PosD(d) <= pos /\ pos < PosUpdate(d)
    BY DEF IdInv, IdInvBy, SlotWindow
  <2>3. /\ IF c = 0 THEN pos < PosUpdate(0) ELSE pos = PosUpdate(c - 1)
        /\ pos' = IF c = NCore - 1 THEN 0 ELSE PosUpdate(c)
    BY DEF Update, Reach
  <2>4. c < d
    BY <1>3, <2>2, <2>3, NCoreAssumption DEF Core, PosUpdate
  <2>5. pos' = PosUpdate(c)
    BY <2>3, <2>4, NCoreAssumption DEF Core
  <2>6. pos < PosUpdate(c) /\ pos \in Nat
    BY <2>3, NCoreAssumption DEF Core, PosUpdate, TypeOK
  <2> QED BY <2>2, <2>4, <2>5, <2>6, NCoreAssumption DEF Core, PosD, PosUpdate
<1> QED BY <1>2, <1>3

\* update_signal empties the slot into the idle ids before the next answer.
LEMMA IdUpdate ==
  ASSUME TypeOK, IdInv, NEW c \in Core, Update(c), NEW d \in Core
  PROVE  IdInvBy(d)'
<1>1. UNCHANGED <<pendingA, pendingD, reqs, relAcks>>
  BY DEF Update, dutVars
<1>2. UNCHANGED <<ReqsOf(d), AcksOf(d)>>
  BY <1>1 DEF ReqsOf, AcksOf
<1>3. /\ idle' = [idle EXCEPT ![c] = idle[c] \cup freeSlot[c]]
      /\ freeSlot' = [freeSlot EXCEPT ![c] = {}]
  BY DEF Update
<1>4. \/ pendingC' = [pendingC EXCEPT ![c] = pendingC[c]]
      \/ /\ pendingC[c] = {}
         /\ \/ pendingC' = [pendingC EXCEPT ![c] = {}]
            \/ \E r : r.source = {} /\ pendingC' = [pendingC EXCEPT ![c] = {r}]
  <2>1. CASE NoHandleB(c, Presented(c))
    BY <2>1 DEF NoHandleB, SendC
  <2>2. ASSUME NEW b \in pendingB[c], HandleB(c, b, Presented(c))
        PROVE  <1>4
    <3>1. pendingC[c] = {}
      BY <2>2 DEF HandleB, AnswersProbe
    <3>2. \A r \in ProbeAnswers(c, b, Presented(c)) : r.source = {}
      <4>1. b \in ReqB
        BY DEF TypeOK, TypePending
      <4> QED BY <4>1, ProbeAnswersType
    <3> QED BY <2>2, <3>1, <3>2 DEF HandleB, SendC
  <2> QED BY <2>1, <2>2 DEF Update
<1>5. SlotWindow(d)'
  BY SlotUpdate
<1>6. CASE d # c
  <2>1. UNCHANGED <<idle[d], freeSlot[d], pendingC[d]>>
    BY <1>3, <1>4, <1>6 DEF TypeOK, TypeIds, TypePending
  <2> QED BY <1>1, <1>2, <1>5, <2>1, IdFrame DEF IdInv
<1>7. CASE d = c
  <2>1. IdsConservedBy(c) /\ OnePending(c) /\ GrantOwed(c)
    BY DEF IdInv, IdInvBy
  <2>2. idle'[c] = idle[c] \cup freeSlot[c] /\ freeSlot'[c] = {}
    BY <1>3 DEF TypeOK, TypeIds
  <2>3. UNCHANGED <<AIds(c), ReqIds(c), AckIds(c)>>
    BY <1>1, <1>2, <1>7 DEF AIds, ReqIds, AckIds
  <2>4. CIds(c)' = CIds(c) /\ \A q, r \in pendingC'[c] : q = r
    <3>1. CASE pendingC'[c] = pendingC[c]
      BY <2>1, <3>1 DEF CIds, OnePending
    <3>2. CASE pendingC[c] = {} /\ \E r : r.source = {} /\ pendingC'[c] = {r}
      BY <3>2 DEF CIds
    <3> QED BY <1>4, <3>1, <3>2 DEF TypeOK, TypePending
  <2>5. OnePending(c)' /\ GrantOwed(c)'
    BY <1>1, <1>2, <1>7, <2>1, <2>4 DEF OnePending, GrantOwed
  <2>6. IdsConservedBy(c)'
    BY <1>2, <1>7, <2>1, <2>2, <2>3, <2>4 DEF IdsConservedBy, UsedIds
  <2> QED BY <1>5, <1>7, <2>5, <2>6 DEF IdInvBy
<1> QED BY <1>6, <1>7

\* Steps of the device alone, and stuttering, move no id.
LEMMA IdStill ==
  ASSUME IdInv, UNCHANGED <<pos, pendingA, pendingC, pendingD, idle, freeSlot, reqs, relAcks>>,
         NEW d \in Core
  PROVE  IdInvBy(d)'
<1>1. UNCHANGED <<ReqsOf(d), AcksOf(d)>>
  BY DEF ReqsOf, AcksOf
<1>2. SlotWindow(d)'
  BY DEF IdInv, IdInvBy, SlotWindow, PosD, PosUpdate
<1> QED BY <1>1, <1>2, IdFrame DEF IdInv

\* Every step preserves IdInv.
LEMMA IdStep == TypeOK /\ IdInv /\ [Next]_vars => IdInv'
<1> SUFFICES ASSUME TypeOK, IdInv, [Next]_vars, NEW d \in Core PROVE IdInvBy(d)'
  BY DEF IdInv
<1>1. CASE \E a \in Addr : WriteBack(a)
  BY <1>1, IdStill DEF WriteBack, pendVars, idVars, dutVars
<1>2. CASE \E c \in Core : FireA(c)
  BY <1>2, IdFireA
<1>3. CASE \E c \in Core : FireB(c)
  BY <1>3, IdFireB
<1>4. CASE \E c \in Core : FireC(c)
  BY <1>4, IdFireC
<1>5. CASE \E c \in Core : FireE(c)
  BY <1>5, IdFireE
<1>6. CASE \E c \in Core : FireD(c)
  BY <1>6, IdFireD
<1>7. CASE \E c \in Core : Fuzz(c)
  BY <1>7, IdFuzz
<1>8. CASE \E c \in Core : Update(c)
  BY <1>8, IdUpdate
<1>9. CASE UNCHANGED vars
  BY <1>9, IdStill DEF vars, pendVars, idVars, dutVars
<1> QED BY <1>1, <1>2, <1>3, <1>4, <1>5, <1>6, <1>7, <1>8, <1>9 DEF Next

\* IDPool hands out no id that is in use and loses none: at every moment of every
\* run, each id of an agent is idle, in pending_freeid, or owned by exactly one
\* request or unanswered Release, however answers, probes and operations interleave.
THEOREM IdsCorrect == Spec => []IdsConserved
<1>1. Init => IdInv
  BY IdInit
<1>2. TypeOK /\ IdInv /\ [Next]_vars => IdInv'
  BY IdStep
<1>3. IdInv => IdsConserved
  BY DEF IdInv, IdInvBy, IdsConserved
<1> QED BY <1>1, <1>2, <1>3, TypeCorrect, PTL DEF Spec

-----------------------------------------------------------------------------
(* Ids name blocks *)

\* An operation's request is presented by the next update_signal of its agent:
\* until then its id names nothing.
Unpresented(c) == PosFuzz(c) <= pos /\ pos < PosUpdate(c)

Names(c, i, r) == idMap[c][i] = {[addr |-> r.addr, alias |-> r.alias]}

\* The inductive strengthening of AnswersFindTheirBlock: an id names the block of
\* its request from the moment the request is presented.
MapInvBy(c) ==
  /\ \A r \in pendingA[c] : Unpresented(c) \/ Names(c, r.source, r)
  /\ \A r \in pendingC[c], i \in SourceID :
       i \in r.source => Unpresented(c) \/ Names(c, i, r)
  /\ \A r \in ReqsOf(c) : Names(c, r.source, r)
  /\ \A k \in AcksOf(c) :
       \E x \in Alias : idMap[c][k.source] = {[addr |-> k.addr, alias |-> x]}
MapInv == \A c \in Core : MapInvBy(c)

\* Requests that stay, and whose ids keep their block, keep an agent's part of MapInv.
LEMMA MapFrame ==
  ASSUME NEW d \in Core, MapInvBy(d), Unpresented(d) => Unpresented(d)',
         pendingA'[d] \subseteq pendingA[d], pendingC'[d] \subseteq pendingC[d],
         ReqsOf(d)' \subseteq ReqsOf(d), AcksOf(d)' \subseteq AcksOf(d),
         \A i \in UsedIds(d)' : idMap'[d][i] = idMap[d][i]
  PROVE  MapInvBy(d)'
<1>1. ASSUME NEW r \in pendingA'[d]
      PROVE  Unpresented(d)' \/ Names(d, r.source, r)'
  BY <1>1 DEF MapInvBy, Names, UsedIds, AIds
<1>2. ASSUME NEW r \in pendingC'[d], NEW i \in SourceID, i \in r.source
      PROVE  Unpresented(d)' \/ Names(d, i, r)'
  BY <1>2 DEF MapInvBy, Names, UsedIds, CIds
<1>3. ASSUME NEW r \in ReqsOf(d)'
      PROVE  Names(d, r.source, r)'
  BY <1>3 DEF MapInvBy, Names, UsedIds, ReqIds
<1>4. ASSUME NEW k \in AcksOf(d)'
      PROVE  \E x \in Alias : idMap'[d][k.source] = {[addr |-> k.addr, alias |-> x]}
  BY <1>4 DEF MapInvBy, UsedIds, AckIds
<1> QED BY <1>1, <1>2, <1>3, <1>4 DEF MapInvBy

\* Only an agent's own update_signal ends its wait to be presented.
LEMMA UnpresentedStays ==
  ASSUME TypeOK, NEW c \in Core, NEW d \in Core, Unpresented(d),
         NEW p \in {PosA(c), PosB(c), PosC(c), PosE(c), PosD(c), PosFuzz(c)}, At(p)
  PROVE  Unpresented(d)'
  BY NCoreAssumption
     DEF Unpresented, At, Reach, TypeOK, Core, PosA, PosB, PosC, PosE, PosD,
         PosFuzz, PosUpdate

\* Another agent's update_signal does not end the wait.
LEMMA UnpresentedUpdate ==
  ASSUME TypeOK, NEW c \in Core, Update(c), NEW d \in Core \ {c}, Unpresented(d)
  PROVE  Unpresented(d)'
<1>1. /\ IF c = 0 THEN pos < PosUpdate(0) ELSE pos = PosUpdate(c - 1)
      /\ pos' = IF c = NCore - 1 THEN 0 ELSE PosUpdate(c)
  BY DEF Update, Reach
<1>2. PosFuzz(d) <= pos /\ pos < PosUpdate(d) /\ pos \in Nat
  BY NCoreAssumption DEF Unpresented, TypeOK
<1>3. c < d
  BY <1>1, <1>2, NCoreAssumption DEF Core, PosUpdate
<1>4. pos' = PosUpdate(c)
  BY <1>1, <1>3, NCoreAssumption DEF Core
<1> QED BY <1>2, <1>3, <1>4, NCoreAssumption DEF Unpresented, Core, PosFuzz, PosUpdate

\* What a handler of the cycle takes from the port has been presented.
LEMMA Fired ==
  ASSUME TypeOK, NEW c \in Core,
         NEW p \in {PosA(c), PosB(c), PosC(c), PosE(c), PosD(c), PosFuzz(c)}, At(p)
  PROVE  ~Unpresented(c)
  BY NCoreAssumption
     DEF Unpresented, At, Reach, TypeOK, Core, PosA, PosB, PosC, PosE, PosD, PosFuzz

\* Nothing is in flight at first.
LEMMA MapInit == Init => MapInv
<1> SUFFICES ASSUME Init, NEW c \in Core PROVE MapInvBy(c)
  BY DEF MapInv
<1>1. pendingA[c] = {} /\ pendingC[c] = {} /\ ReqsOf(c) = {} /\ AcksOf(c) = {}
  BY DEF Init, ReqsOf, AcksOf
<1> QED BY <1>1 DEF MapInvBy

\* fire_a: the device has the request whose id names its block.
LEMMA MapFireA ==
  ASSUME TypeOK, IdInv, MapInv, NEW c \in Core, FireA(c), NEW d \in Core
  PROVE  MapInvBy(d)'
<1>1. PICK r \in pendingA[c] :
        /\ pendingA' = [pendingA EXCEPT ![c] = {}]
        /\ reqs' = reqs \cup {r}
  BY DEF FireA
<1>2. UNCHANGED <<pendingC, idMap, relAcks>>
  BY DEF FireA, idVars
<1>3. Unpresented(d) => Unpresented(d)'
  BY UnpresentedStays DEF FireA
<1>4. r.core = c
  BY <1>1 DEF IdInv, IdInvBy, OnePending
<1>5. AcksOf(d)' = AcksOf(d)
  BY <1>2 DEF AcksOf
<1>6. MapInvBy(d)
  BY DEF MapInv
<1>7. CASE d # c
  <2>1. pendingA'[d] = pendingA[d] /\ ReqsOf(d)' = ReqsOf(d)
    BY <1>1, <1>4, <1>7 DEF ReqsOf, TypeOK, TypePending
  <2> QED BY <1>2, <1>3, <1>5, <1>6, <2>1, MapFrame
<1>8. CASE d = c
  <2>1. pendingA'[c] = {} /\ ReqsOf(c)' = ReqsOf(c) \cup {r}
    BY <1>1, <1>4 DEF ReqsOf, TypeOK, TypePending
  <2>2. Names(c, r.source, r)
    BY <1>6, <1>8, Fired DEF MapInvBy, FireA
  <2>3. \A q \in ReqsOf(c)' : Names(c, q.source, q)'
    BY <1>2, <1>6, <1>8, <2>1, <2>2 DEF MapInvBy, Names
  <2>4. \A q \in pendingC'[c], i \in SourceID :
          i \in q.source => Unpresented(c)' \/ Names(c, i, q)'
    BY <1>2, <1>3, <1>6, <1>8 DEF MapInvBy, Names
  <2>5. \A k \in AcksOf(c)' :
          \E x \in Alias : idMap'[c][k.source] = {[addr |-> k.addr, alias |-> x]}
    BY <1>2, <1>5, <1>6, <1>8 DEF MapInvBy
  <2> QED BY <1>8, <2>1, <2>3, <2>4, <2>5 DEF MapInvBy
<1> QED BY <1>7, <1>8

\* fire_c: the ReleaseAck owed has the id that names the released block.
LEMMA MapFireC ==
  ASSUME TypeOK, IdInv, MapInv, NEW c \in Core, FireC(c), NEW d \in Core
  PROVE  MapInvBy(d)'
<1>1. PICK r \in pendingC[c] : FireCBeat(c, r) \/ FireRelease(c, r) \/ FireProbeAck(c, r)
  BY DEF FireC
<1>2. UNCHANGED <<pendingA, idMap, reqs>>
  BY DEF FireC
<1>3. Unpresented(d) => Unpresented(d)'
  BY UnpresentedStays DEF FireC
<1>4. r \in ReqC
  BY DEF TypeOK, TypePending
<1>5. ReqsOf(d)' = ReqsOf(d)
  BY <1>2 DEF ReqsOf
<1>6. MapInvBy(d)
  BY DEF MapInv
<1>7. CASE FireRelease(c, r)
  <2> DEFINE k == [core |-> c, addr |-> r.addr, source |-> The(r.source)]
  <2>1. pendingC' = [pendingC EXCEPT ![c] = {}] /\ relAcks' = relAcks \cup {k}
    BY <1>7 DEF FireRelease
  <2>2. k.core = c /\ k.source = The(r.source) /\ k.addr = r.addr
    OBVIOUS
  <2> HIDE DEF k
  <2>3. r.source = {The(r.source)} /\ The(r.source) \in SourceID /\ r.alias \in Alias
    <3>1. r \in [op : ReleaseOp, addr : Addr, alias : Alias, param : TLPermDemotion,
                 beats : 1 .. 2, data : Data, source : {{i} : i \in SourceID}]
      BY <1>4, <1>7 DEF FireRelease, ReqC, ReleaseOp, ProbeAckOp
    <3>2. PICK i \in SourceID : r.source = {i}
      BY <3>1
    <3>3. The(r.source) = i
      BY <3>2 DEF The
    <3> QED BY <3>1, <3>2, <3>3
  <2>4. CASE d # c
    <3>1. pendingC'[d] = pendingC[d] /\ AcksOf(d)' = AcksOf(d)
      BY <2>1, <2>2, <2>4 DEF AcksOf, TypeOK, TypePending
    <3> QED BY <1>2, <1>3, <1>5, <1>6, <3>1, MapFrame
  <2>5. CASE d = c
    <3>1. pendingC'[c] = {} /\ AcksOf(c)' = AcksOf(c) \cup {k}
      BY <2>1, <2>2 DEF AcksOf, TypeOK, TypePending
    <3>2. Names(c, The(r.source), r)
      BY <1>6, <2>3, <2>5, Fired DEF MapInvBy, FireC
    <3>3. \A j \in AcksOf(c)' :
            \E x \in Alias : idMap'[c][j.source] = {[addr |-> j.addr, alias |-> x]}
      BY <1>2, <1>6, <2>2, <2>3, <2>5, <3>1, <3>2 DEF MapInvBy, Names
    <3>4. \A q \in pendingA'[c] : Unpresented(c)' \/ Names(c, q.source, q)'
      BY <1>2, <1>3, <1>6, <2>5 DEF MapInvBy, Names
    <3>5. \A q \in ReqsOf(c)' : Names(c, q.source, q)'
      BY <1>2, <1>5, <1>6, <2>5 DEF MapInvBy, Names
    <3> QED BY <2>5, <3>1, <3>3, <3>4, <3>5 DEF MapInvBy
  <2> QED BY <2>4, <2>5
<1>8. CASE FireProbeAck(c, r)
  <2>1. pendingC'[d] \subseteq pendingC[d] /\ AcksOf(d)' = AcksOf(d)
    BY <1>8 DEF FireProbeAck, AcksOf, TypeOK, TypePending
  <2> QED BY <1>2, <1>3, <1>5, <1>6, <2>1, MapFrame
<1>9. CASE FireCBeat(c, r)
  <2>1. /\ pendingC' = [pendingC EXCEPT ![c] = {LessABeat(r)}]
        /\ relAcks' = relAcks
    BY <1>9 DEF FireCBeat
  <2>2. AcksOf(d)' = AcksOf(d)
    BY <2>1 DEF AcksOf
  <2>3. CASE d # c
    <3>1. pendingC'[d] = pendingC[d]
      BY <2>1, <2>3 DEF TypeOK, TypePending
    <3> QED BY <1>2, <1>3, <1>5, <1>6, <2>2, <3>1, MapFrame
  <2>4. CASE d = c
    <3>1. pendingC'[c] = {LessABeat(r)}
      BY <2>1 DEF TypeOK, TypePending
    <3>2. /\ LessABeat(r).source = r.source /\ LessABeat(r).addr = r.addr
          /\ LessABeat(r).alias = r.alias
      BY DEF LessABeat
    <3>3. \A q \in pendingC'[c], i \in SourceID :
            i \in q.source => Unpresented(c)' \/ Names(c, i, q)'
      BY <1>2, <1>3, <1>6, <2>4, <3>1, <3>2 DEF MapInvBy, Names
    <3>4. \A q \in pendingA'[c] : Unpresented(c)' \/ Names(c, q.source, q)'
      BY <1>2, <1>3, <1>6, <2>4 DEF MapInvBy, Names
    <3>5. /\ \A q \in ReqsOf(c)' : Names(c, q.source, q)'
          /\ \A k \in AcksOf(c)' :
               \E x \in Alias : idMap'[c][k.source] = {[addr |-> k.addr, alias |-> x]}
      BY <1>2, <1>5, <1>6, <2>2, <2>4 DEF MapInvBy, Names
    <3> QED BY <2>4, <3>3, <3>4, <3>5 DEF MapInvBy
  <2> QED BY <2>3, <2>4
<1> QED BY <1>1, <1>7, <1>8, <1>9

\* Freeing an id erases the block it names; nobody owns the id any more.
LEMMA MapFreed ==
  ASSUME TypeOK, IdInv', MapInv, NEW c \in Core, NEW s \in SourceID, FreeSource(c, s),
         NEW d \in Core
  PROVE  \A i \in UsedIds(d)' : idMap'[d][i] = idMap[d][i]
<1>1. idMap' = [idMap EXCEPT ![c][s] = {}] /\ freeSlot' = [freeSlot EXCEPT ![c] = {s}]
  BY DEF FreeSource
<1>2. CASE d # c
  BY <1>1, <1>2 DEF TypeOK, TypeIds
<1>3. CASE d = c
  <2>1. freeSlot'[c] = {s}
    BY <1>1 DEF TypeOK, TypeIds
  <2>2. s \notin UsedIds(c)'
    BY <2>1 DEF IdInv, IdInvBy, IdsConservedBy
  <2>3. \A i \in SourceID \ {s} : idMap'[c][i] = idMap[c][i]
    BY <1>1 DEF TypeOK, TypeIds
  <2>4. UsedIds(c)' \subseteq SourceID
    BY DEF IdInv, IdInvBy, IdsConservedBy
  <2> QED BY <1>3, <2>2, <2>3, <2>4
<1> QED BY <1>2, <1>3

\* fire_d: the ids of the requests still to be answered keep their blocks.
LEMMA MapFireD ==
  ASSUME TypeOK, IdInv, IdInv', MapInv, NEW c \in Core, FireD(c), NEW d \in Core
  PROVE  MapInvBy(d)'
<1>1. UNCHANGED <<pendingA, pendingC>>
  BY DEF FireD
<1>2. Unpresented(d) => Unpresented(d)'
  BY UnpresentedStays DEF FireD
<1>3. MapInvBy(d)
  BY DEF MapInv
<1>4. /\ reqs' \subseteq reqs /\ relAcks' \subseteq relAcks
      /\ \A i \in UsedIds(d)' : idMap'[d][i] = idMap[d][i]
  <2>1. ASSUME NEW k \in relAcks, FireReleaseAck(c, k)
        PROVE  <1>4
    <3>1. k.source \in SourceID
      BY DEF TypeOK, TypeDevice, ReleaseAck
    <3> QED BY <2>1, <3>1, MapFreed DEF FireReleaseAck
  <2>2. ASSUME NEW r \in reqs, NEW perm, FireGrantBeat(c, r, perm)
        PROVE  <1>4
    BY <2>2 DEF FireGrantBeat
  <2>3. ASSUME NEW r \in reqs, NEW perm, FireGrant(c, r, perm)
        PROVE  <1>4
    <3>1. r.source \in SourceID
      BY DEF TypeOK, TypeDevice, ReqA
    <3> QED BY <2>3, <3>1, MapFreed DEF FireGrant
  <2>4. ASSUME NEW r \in reqs, FireCBOAck(c, r)
        PROVE  <1>4
    <3>1. r.source \in SourceID
      BY DEF TypeOK, TypeDevice, ReqA
    <3> QED BY <2>4, <3>1, MapFreed DEF FireCBOAck
  <2>5. \A p \in pendingD[c] : p.req \in reqs
    BY DEF IdInv, IdInvBy, GrantOwed, ReqsOf
  <2> QED BY <2>1, <2>2, <2>3, <2>4, <2>5 DEF FireD
<1>5. ReqsOf(d)' \subseteq ReqsOf(d) /\ AcksOf(d)' \subseteq AcksOf(d)
  BY <1>4 DEF ReqsOf, AcksOf
<1> QED BY <1>1, <1>2, <1>3, <1>4, <1>5, MapFrame

\* An operation leaves its request to be presented.
LEMMA MapFuzz ==
  ASSUME TypeOK, MapInv, NEW c \in Core, Fuzz(c), NEW d \in Core
  PROVE  MapInvBy(d)'
<1>1. UNCHANGED <<idMap, reqs, relAcks>>
  BY DEF Fuzz, dutVars
<1>2. ReqsOf(d)' = ReqsOf(d) /\ AcksOf(d)' = AcksOf(d)
  BY <1>1 DEF ReqsOf, AcksOf
<1>3. MapInvBy(d)
  BY DEF MapInv
<1>4. CASE d # c
  <2>1. Unpresented(d) => Unpresented(d)'
    BY UnpresentedStays DEF Fuzz
  <2>2. pendingA'[d] = pendingA[d] /\ pendingC'[d] = pendingC[d]
    <3>1. \/ pendingC' = pendingC /\ \E r : pendingA' = [pendingA EXCEPT ![c] = {r}]
          \/ pendingA' = pendingA /\ \E r : pendingC' = [pendingC EXCEPT ![c] = {r}]
      <4>1. ASSUME NEW i, NEW op, NEW a, NEW x, NEW param, DoAcquire(c, i, op, a, x, param)
            PROVE  <3>1
        BY <4>1 DEF DoAcquire
      <4>2. ASSUME NEW i, NEW a, NEW x, DoReleaseDataAuto(c, i, a, x)
            PROVE  <3>1
        BY <4>2 DEF DoReleaseDataAuto
      <4>3. ASSUME NEW i, NEW op, NEW a, DoCBO(c, i, op, a)
            PROVE  <3>1
        BY <4>3 DEF DoCBO
      <4> QED BY <4>1, <4>2, <4>3 DEF Fuzz
    <3> QED BY <1>4, <3>1 DEF TypeOK, TypePending
  <2> QED BY <1>1, <1>2, <1>3, <2>1, <2>2, MapFrame
<1>5. CASE d = c
  <2>1. Unpresented(c)'
    BY NCoreAssumption DEF Fuzz, At, Unpresented, Core, PosFuzz, PosUpdate
  <2> QED BY <1>1, <1>2, <1>3, <1>5, <2>1 DEF MapInvBy, Names
<1> QED BY <1>4, <1>5

\* What send_a and send_c write in idMap leaves the ids of requests in flight alone.
LEMMA MapKept ==
  ASSUME TypeOK, IdInv', NEW c \in Core, Update(c),
         NEW i \in ReqIds(c)' \cup AckIds(c)'
  PROVE  idMap'[c][i] = idMap[c][i]
<1>1. PICK C : /\ pendingC' = [pendingC EXCEPT ![c] = C]
               /\ idMap' = [idMap EXCEPT ![c] = IdMapped(c, C)]
  BY DEF Update, NoHandleB, HandleB, SendC
<1>2. /\ pendingC'[c] = C /\ idMap'[c] = IdMapped(c, C) /\ pendingA'[c] = pendingA[c]
  BY <1>1 DEF Update, TypeOK, TypePending, TypeIds
<1>3. IdsConservedBy(c)'
  BY DEF IdInv, IdInvBy
<1>4. i \notin AIds(c)' /\ i \notin CIds(c)' /\ i \in SourceID
  BY <1>3 DEF IdsConservedBy, UsedIds
<1>5. /\ {r \in pendingA[c] : r.source = i} = {}
      /\ {r \in C : i \in r.source} = {}
  BY <1>2, <1>4 DEF AIds, CIds
<1> QED BY <1>2, <1>4, <1>5 DEF IdMapped

\* send_a and send_c name the blocks of the requests they present, and no id that
\* a request in flight owns.
LEMMA MapUpdate ==
  ASSUME TypeOK, IdInv, IdInv', MapInv, NEW c \in Core, Update(c), NEW d \in Core
  PROVE  MapInvBy(d)'
<1>1. UNCHANGED <<pendingA, reqs, relAcks>>
  BY DEF Update, dutVars
<1>2. ReqsOf(d)' = ReqsOf(d) /\ AcksOf(d)' = AcksOf(d)
  BY <1>1 DEF ReqsOf, AcksOf
<1>3. PICK C : /\ pendingC' = [pendingC EXCEPT ![c] = C]
               /\ idMap' = [idMap EXCEPT ![c] = IdMapped(c, C)]
  BY DEF Update, NoHandleB, HandleB, SendC
<1>4. MapInvBy(d)
  BY DEF MapInv
<1>5. CASE d # c
  <2>1. Unpresented(d) => Unpresented(d)'
    BY <1>5, UnpresentedUpdate
  <2>2. pendingC'[d] = pendingC[d] /\ idMap'[d] = idMap[d]
    BY <1>3, <1>5 DEF TypeOK, TypePending, TypeIds
  <2> QED BY <1>1, <1>2, <1>4, <2>1, <2>2, MapFrame
<1>6. CASE d = c
  <2>1. pendingC'[c] = C /\ idMap'[c] = IdMapped(c, C) /\ pendingA'[c] = pendingA[c]
    BY <1>1, <1>3 DEF TypeOK, TypePending, TypeIds
  <2> DEFINE named(i) == {r \in pendingA[c] : r.source = i} \cup {r \in C : i \in r.source}
  <2>2. \A i \in SourceID :
          idMap'[c][i] = IF named(i) = {} THEN idMap[c][i]
                         ELSE {[addr |-> r.addr, alias |-> r.alias] : r \in named(i)}
    BY <2>1 DEF IdMapped
  <2> HIDE DEF named
  <2>3. IdsConservedBy(c)' /\ OnePending(c)'
    BY DEF IdInv, IdInvBy
  <2>4. /\ AIds(c)' = {r.source : r \in pendingA[c]}
        /\ CIds(c)' = UNION {r.source : r \in C}
    BY <2>1 DEF AIds, CIds
  <2>5. UsedIds(c)' \subseteq SourceID
    BY <2>3 DEF IdsConservedBy
  <2>6. ASSUME NEW r \in pendingA[c]
        PROVE  Names(c, r.source, r)'
    <3>1. r.source \in AIds(c)' /\ r.source \in SourceID
      BY <2>4, <2>5 DEF UsedIds
    <3>2. r.source \notin CIds(c)'
      BY <2>3, <3>1 DEF IdsConservedBy
    <3>3. named(r.source) = {r}
      BY <2>1, <2>3, <2>4, <3>2 DEF OnePending, named
    <3>4. {[addr |-> q.addr, alias |-> q.alias] : q \in named(r.source)}
            = {[addr |-> r.addr, alias |-> r.alias]}
      BY <3>3
    <3> QED BY <2>2, <3>1, <3>3, <3>4 DEF Names
  <2>7. ASSUME NEW r \in C, NEW i \in SourceID, i \in r.source
        PROVE  Names(c, i, r)'
    <3>1. i \in CIds(c)'
      BY <2>4, <2>7
    <3>2. i \notin AIds(c)'
      BY <2>3, <3>1 DEF IdsConservedBy
    <3>3. named(i) = {r}
      BY <2>1, <2>3, <2>4, <2>7, <3>2 DEF OnePending, named
    <3>4. {[addr |-> q.addr, alias |-> q.alias] : q \in named(i)}
            = {[addr |-> r.addr, alias |-> r.alias]}
      BY <3>3
    <3> QED BY <2>2, <3>3, <3>4 DEF Names
  <2>8. \A i \in ReqIds(c)' \cup AckIds(c)' : idMap'[c][i] = idMap[c][i]
    BY MapKept
  <2>9. \A r \in ReqsOf(c)' : Names(c, r.source, r)'
    BY <1>2, <1>4, <1>6, <2>8 DEF MapInvBy, Names, ReqIds
  <2>10. \A k \in AcksOf(c)' :
           \E x \in Alias : idMap'[c][k.source] = {[addr |-> k.addr, alias |-> x]}
    BY <1>2, <1>4, <1>6, <2>8 DEF MapInvBy, AckIds
  <2> QED BY <1>6, <2>1, <2>6, <2>7, <2>9, <2>10 DEF MapInvBy
<1> QED BY <1>5, <1>6

\* Steps that move no request and no id keep the blocks the ids name.
LEMMA MapStill ==
  ASSUME MapInv, UNCHANGED <<pendingA, pendingC, idMap, reqs, relAcks>>,
         NEW d \in Core, Unpresented(d) => Unpresented(d)'
  PROVE  MapInvBy(d)'
<1>1. ReqsOf(d)' = ReqsOf(d) /\ AcksOf(d)' = AcksOf(d)
  BY DEF ReqsOf, AcksOf
<1> QED BY <1>1, MapFrame DEF MapInv

\* Every step preserves MapInv.
LEMMA MapStep == TypeOK /\ IdInv /\ IdInv' /\ MapInv /\ [Next]_vars => MapInv'
<1> SUFFICES ASSUME TypeOK, IdInv, IdInv', MapInv, [Next]_vars, NEW d \in Core
             PROVE  MapInvBy(d)'
  BY DEF MapInv
<1>1. CASE \E a \in Addr : WriteBack(a)
  BY <1>1, MapStill DEF WriteBack, pendVars, idVars, dutVars, Unpresented, PosFuzz, PosUpdate
<1>2. CASE \E c \in Core : FireA(c)
  BY <1>2, MapFireA
<1>3. ASSUME NEW c \in Core, FireB(c) \/ FireE(c)
      PROVE  MapInvBy(d)'
  <2>1. UNCHANGED <<pendingA, pendingC, idMap, reqs, relAcks>>
    BY <1>3 DEF FireB, FireE, idVars
  <2>2. Unpresented(d) => Unpresented(d)'
    BY <1>3, UnpresentedStays DEF FireB, FireE
  <2> QED BY <2>1, <2>2, MapStill
<1>4. CASE \E c \in Core : FireC(c)
  BY <1>4, MapFireC
<1>5. CASE \E c \in Core : FireD(c)
  BY <1>5, MapFireD
<1>6. CASE \E c \in Core : Fuzz(c)
  BY <1>6, MapFuzz
<1>7. CASE \E c \in Core : Update(c)
  BY <1>7, MapUpdate
<1>8. CASE UNCHANGED vars
  BY <1>8, MapStill DEF vars, pendVars, idVars, dutVars, Unpresented, PosFuzz, PosUpdate
<1> QED BY <1>1, <1>2, <1>3, <1>4, <1>5, <1>6, <1>7, <1>8 DEF Next

\* What the requests in flight and their ids tell of the device, from MapInv.
LEMMA MapAnswers == MapInv /\ TypeOK => AnswersFindTheirBlock
<1> SUFFICES ASSUME MapInv, TypeOK PROVE AnswersFindTheirBlock
  OBVIOUS
<1>1. \A r \in reqs : r.core \in Core /\ r \in ReqsOf(r.core)
  BY DEF TypeOK, TypeDevice, ReqA, ReqsOf
<1>2. \A k \in relAcks : k.core \in Core /\ k \in AcksOf(k.core)
  BY DEF TypeOK, TypeDevice, ReleaseAck, AcksOf
<1> QED BY <1>1, <1>2 DEF MapInv, MapInvBy, Names, AnswersFindTheirBlock

\* idMap and idpool together: both invariants hold of every run.
LEMMA IdMapHolds == Spec => [](TypeOK /\ IdInv /\ MapInv)
<1>1. Init => IdInv /\ MapInv
  BY IdInit, MapInit
<1>2. TypeOK /\ IdInv /\ MapInv /\ [Next]_vars => IdInv' /\ MapInv'
  BY IdStep, MapStep
<1> QED BY <1>1, <1>2, TypeCorrect, PTL DEF Spec

\* fire_d's idMap lookup: whatever was presented, answered and recycled since a
\* request left, its answer's id still names the block the request was about.
THEOREM AnswersReachBlocks == Spec => []AnswersFindTheirBlock
<1>1. TypeOK /\ IdInv /\ MapInv => AnswersFindTheirBlock
  BY MapAnswers
<1> QED BY <1>1, IdMapHolds, PTL

-----------------------------------------------------------------------------
(* CMOs in flight and lives of memory alternatives *)

\* localCMOStatus of an agent tells of each of its CMOs whether it has left the
\* port, and an address has one CMO in flight.
CMOInvBy(c) ==
  /\ \A r \in pendingA[c] :
       r.op \in CBOOp => cmo[c][r.addr].op = r.op /\ cmo[c][r.addr].fired = FALSE
  /\ \A r \in ReqsOf(c) :
       r.op \in CBOOp => cmo[c][r.addr].op = r.op /\ cmo[c][r.addr].fired = TRUE
  /\ \A q, r \in ReqsOf(c) :
       q.op \in CBOOp /\ r.op \in CBOOp /\ q.addr = r.addr => q = r
CMOInv == \A c \in Core : CMOInvBy(c)

\* The agents whose cbo.inval of a block is in flight.
Invals(a) == {c \in Core : cmo[c][a] = [op |-> "CBOInval", fired |-> TRUE]}

\* The life of a memory alternative that n invalidations share.
Lives(alt, n) == alt = n \/ (n = 0 /\ alt = NoAlt)

AltInv == memorySyncStrict \/ \A a \in Addr : Lives(memAlt[a], Cardinality(Invals(a)))

\* An agent whose CMOs stay and whose requests only leave keeps its part.
LEMMA CMOFrame ==
  ASSUME NEW d \in Core, CMOInvBy(d), cmo'[d] = cmo[d],
         pendingA'[d] \subseteq pendingA[d], ReqsOf(d)' \subseteq ReqsOf(d)
  PROVE  CMOInvBy(d)'
  BY DEF CMOInvBy

\* No CMO is in flight at first.
LEMMA CMOInit == Init => CMOInv
  BY DEF Init, CMOInv, CMOInvBy, ReqsOf

\* fire_a marks the CMO of the address as fired.
LEMMA CMOFireA ==
  ASSUME TypeOK, IdInv, CMOInv, NEW c \in Core, FireA(c), NEW d \in Core
  PROVE  CMOInvBy(d)'
<1>1. PICK r \in pendingA[c] :
        /\ pendingA' = [pendingA EXCEPT ![c] = {}]
        /\ reqs' = reqs \cup {r}
        /\ cmo' = IF r.op \in CBOOp
             THEN [cmo EXCEPT ![c][r.addr] = [op |-> cmo[c][r.addr].op, fired |-> TRUE]]
             ELSE cmo
  BY DEF FireA
<1>2. r.core = c /\ pendingA[c] = {r} /\ r \in ReqA
  BY <1>1 DEF IdInv, IdInvBy, OnePending, TypeOK, TypePending
<1>3. CMOInvBy(d)
  BY DEF CMOInv
<1>4. cmo \in [Core -> [Addr -> CMOStatus]] /\ r.addr \in Addr
  BY <1>2 DEF TypeOK, TypeIds, PerAddr, ReqA
<1>5. CASE d # c
  <2>1. pendingA'[d] = pendingA[d] /\ ReqsOf(d)' = ReqsOf(d)
    BY <1>1, <1>2, <1>5 DEF ReqsOf, TypeOK, TypePending
  <2>2. cmo'[d] = cmo[d]
    BY <1>1, <1>4, <1>5
  <2> QED BY <1>3, <2>1, <2>2, CMOFrame
<1>6. CASE d = c
  <2>1. pendingA'[c] = {} /\ ReqsOf(c)' = ReqsOf(c) \cup {r}
    BY <1>1, <1>2 DEF ReqsOf, TypeOK, TypePending
  <2>2. CASE r.op \in CBOOp
    <3>1. cmo[c][r.addr].op = r.op /\ cmo[c][r.addr].fired = FALSE
      BY <1>3, <1>6, <2>2 DEF CMOInvBy
    <3>2. \A q \in ReqsOf(c) : q.op \in CBOOp => q.addr # r.addr
      BY <1>3, <1>6, <3>1 DEF CMOInvBy
    <3>3. cmo'[c] = [cmo[c] EXCEPT ![r.addr] = [op |-> r.op, fired |-> TRUE]]
      BY <1>1, <1>4, <2>2, <3>1
    <3>4. cmo'[c][r.addr].op = r.op /\ cmo'[c][r.addr].fired = TRUE
      BY <1>4, <3>3
    <3>5. \A q \in ReqsOf(c) : q.op \in CBOOp => cmo'[c][q.addr] = cmo[c][q.addr]
      BY <1>4, <3>2, <3>3 DEF ReqsOf, TypeOK, TypeDevice, ReqA
    <3> QED BY <1>3, <1>6, <2>1, <3>2, <3>4, <3>5 DEF CMOInvBy
  <2>3. CASE r.op \notin CBOOp
    <3>1. cmo' = cmo
      BY <1>1, <2>3
    <3> QED BY <1>3, <1>6, <2>1, <2>3, <3>1 DEF CMOInvBy
  <2> QED BY <2>2, <2>3
<1> QED BY <1>5, <1>6

\* A CBOAck ends the only CMO of its address; other answers end no CMO.
LEMMA CMOFireD ==
  ASSUME TypeOK, IdInv, CMOInv, NEW c \in Core, FireD(c), NEW d \in Core
  PROVE  CMOInvBy(d)'
<1>1. pendingA' = pendingA
  BY DEF FireD
<1>2. CMOInvBy(d)
  BY DEF CMOInv
<1>3. CASE cmo' = cmo /\ reqs' \subseteq reqs
  <2>1. ReqsOf(d)' \subseteq ReqsOf(d)
    BY <1>3 DEF ReqsOf
  <2> QED BY <1>1, <1>2, <1>3, <2>1, CMOFrame
<1>4. ASSUME NEW r \in reqs, r.core = c, MayAckCBO(r), FireCBOAck(c, r)
      PROVE  CMOInvBy(d)'
  <2>1. /\ cmo' = [cmo EXCEPT ![c][r.addr] = [op |-> "none", fired |-> FALSE]]
        /\ reqs' = reqs \ {r}
    BY <1>4 DEF FireCBOAck
  <2>2. r.op \in CBOOp
    BY <1>4 DEF MayAckCBO
  <2>3. cmo \in [Core -> [Addr -> CMOStatus]] /\ r.addr \in Addr
    BY DEF TypeOK, TypeIds, PerAddr, TypeDevice, ReqA
  <2>4. ReqsOf(d)' \subseteq ReqsOf(d)
    BY <2>1 DEF ReqsOf
  <2>5. CASE d # c
    <3>1. cmo'[d] = cmo[d]
      BY <2>1, <2>3, <2>5
    <3> QED BY <1>1, <1>2, <2>4, <3>1, CMOFrame
  <2>6. CASE d = c
    <3>1. r \in ReqsOf(c) /\ ReqsOf(c)' = ReqsOf(c) \ {r}
      BY <1>4, <2>1 DEF ReqsOf
    <3>2. cmo[c][r.addr].fired = TRUE
      BY <1>2, <2>2, <2>6, <3>1 DEF CMOInvBy
    <3>3. \A q \in pendingA'[c] : q.op \in CBOOp => q.addr # r.addr
      BY <1>1, <1>2, <2>6, <3>2 DEF CMOInvBy
    <3>4. \A q \in ReqsOf(c)' : q.op \in CBOOp => q.addr # r.addr
      BY <1>2, <2>2, <2>6, <3>1 DEF CMOInvBy
    <3>5. \A a \in Addr \ {r.addr} : cmo'[c][a] = cmo[c][a]
      BY <2>1, <2>3
    <3>6. \A q \in pendingA'[c] \cup ReqsOf(c)' : q.addr \in Addr
      BY <1>1, <3>1 DEF ReqsOf, TypeOK, TypePending, TypeDevice, ReqA
    <3> QED BY <1>1, <1>2, <2>6, <3>1, <3>3, <3>4, <3>5, <3>6 DEF CMOInvBy
  <2> QED BY <2>5, <2>6
<1>5. \A p \in pendingD[c] : p.req \in reqs
  BY DEF IdInv, IdInvBy, GrantOwed, ReqsOf
<1>6. ASSUME NEW k \in relAcks, FireReleaseAck(c, k)
      PROVE  cmo' = cmo /\ reqs' \subseteq reqs
  BY <1>6 DEF FireReleaseAck
<1>7. ASSUME NEW r \in reqs, NEW perm, FireGrantBeat(c, r, perm) \/ FireGrant(c, r, perm)
      PROVE  cmo' = cmo /\ reqs' \subseteq reqs
  BY <1>7 DEF FireGrantBeat, FireGrant
<1> QED BY <1>3, <1>4, <1>5, <1>6, <1>7 DEF FireD

\* cmo_guard: a CMO starts at an address that has none.
LEMMA CMOFuzz ==
  ASSUME TypeOK, CMOInv, NEW c \in Core, Fuzz(c), NEW d \in Core
  PROVE  CMOInvBy(d)'
<1>1. PICK i \in idle[c], a \in Addr : Fuzz(c)!2!(i, a)
  BY DEF Fuzz
<1>2. reqs' = reqs
  BY DEF Fuzz, dutVars
<1>3. ReqsOf(d)' = ReqsOf(d)
  BY <1>2 DEF ReqsOf
<1>4. CMOInvBy(d)
  BY DEF CMOInv
<1>5. \/ cmo' = cmo /\ pendingA' = pendingA
      \/ /\ cmo' = cmo
         /\ \E r : r.op \notin CBOOp /\ pendingA' = [pendingA EXCEPT ![c] = {r}]
      \/ /\ cmo[c][a].op = "none"
         /\ \E r : /\ r.addr = a /\ pendingA' = [pendingA EXCEPT ![c] = {r}]
                   /\ cmo' = [cmo EXCEPT ![c][a] = [op |-> r.op, fired |-> FALSE]]
  <2>1. ASSUME NEW op \in AcquireOp, NEW x, NEW param, DoAcquire(c, i, op, a, x, param)
        PROVE  <1>5
    <3> DEFINE p == IF (a \in known[c] /\ status[c][a][x] = "S_VALID")
                       /\ privilege[c][a][x] = "BRANCH" THEN "BtoT" ELSE param
               r == [core |-> c, op |-> op, addr |-> a, alias |-> x, source |-> i,
                     param |-> p]
    <3>1. cmo' = cmo /\ pendingA' = [pendingA EXCEPT ![c] = {r}]
      BY <2>1 DEF DoAcquire
    <3>2. r.op \notin CBOOp
      BY DEF AcquireOp, CBOOp
    <3> HIDE DEF r
    <3> QED BY <3>1, <3>2
  <2>2. ASSUME NEW x, DoReleaseDataAuto(c, i, a, x)
        PROVE  <1>5
    BY <2>2 DEF DoReleaseDataAuto
  <2>3. ASSUME NEW op, DoCBO(c, i, op, a)
        PROVE  <1>5
    <3> DEFINE r == [core |-> c, op |-> op, addr |-> a, alias |-> CHOOSE x \in Alias : TRUE,
                     param |-> "NtoB", source |-> i]
    <3>1. /\ cmo[c][a].op = "none"
          /\ pendingA' = [pendingA EXCEPT ![c] = {r}]
          /\ cmo' = [cmo EXCEPT ![c][a] = [op |-> op, fired |-> FALSE]]
      BY <2>3 DEF DoCBO
    <3>2. r.addr = a /\ r.op = op
      OBVIOUS
    <3> HIDE DEF r
    <3> QED BY <3>1, <3>2
  <2> QED BY <1>1, <2>1, <2>2, <2>3
<1>6. cmo \in [Core -> [Addr -> CMOStatus]] /\ pendingA \in [Core -> SUBSET ReqA]
  BY DEF TypeOK, TypeIds, PerAddr, TypePending
<1>7. CASE d # c
  <2>1. cmo'[d] = cmo[d] /\ pendingA'[d] = pendingA[d]
    BY <1>5, <1>6, <1>7
  <2> QED BY <1>3, <1>4, <2>1, CMOFrame
<1>8. CASE d = c
  <2>1. CASE cmo' = cmo /\ pendingA' = pendingA
    BY <1>3, <1>4, <2>1, CMOFrame
  <2>2. ASSUME cmo' = cmo, NEW r, r.op \notin CBOOp, pendingA' = [pendingA EXCEPT ![c] = {r}]
        PROVE  CMOInvBy(d)'
    <3>1. pendingA'[c] = {r}
      BY <1>6, <2>2
    <3> QED BY <1>3, <1>4, <1>8, <2>2, <3>1 DEF CMOInvBy
  <2>3. ASSUME cmo[c][a].op = "none", NEW r, r.addr = a,
               pendingA' = [pendingA EXCEPT ![c] = {r}],
               cmo' = [cmo EXCEPT ![c][a] = [op |-> r.op, fired |-> FALSE]]
        PROVE  CMOInvBy(d)'
    <3>1. pendingA'[c] = {r}
      BY <1>6, <2>3
    <3>2. cmo'[c][a].op = r.op /\ cmo'[c][a].fired = FALSE
      BY <1>6, <2>3
    <3>3. \A q \in ReqsOf(c) : q.op \in CBOOp => q.addr # a
      BY <1>4, <1>8, <2>3 DEF CMOInvBy, CBOOp
    <3>4. \A q \in ReqsOf(c) : q.op \in CBOOp => cmo'[c][q.addr] = cmo[c][q.addr]
      BY <1>6, <2>3, <3>3 DEF ReqsOf, TypeOK, TypeDevice, ReqA
    <3> QED BY <1>3, <1>4, <1>8, <2>3, <3>1, <3>2, <3>4 DEF CMOInvBy
  <2> QED BY <1>5, <2>1, <2>2, <2>3
<1> QED BY <1>7, <1>8

\* Every step preserves CMOInv.
LEMMA CMOStep == TypeOK /\ IdInv /\ CMOInv /\ [Next]_vars => CMOInv'
<1> SUFFICES ASSUME TypeOK, IdInv, CMOInv, [Next]_vars, NEW d \in Core
             PROVE  CMOInvBy(d)'
  BY DEF CMOInv
<1>1. CASE \E c \in Core : FireA(c)
  BY <1>1, CMOFireA
<1>2. CASE \E c \in Core : FireD(c)
  BY <1>2, CMOFireD
<1>3. CASE \E c \in Core : Fuzz(c)
  BY <1>3, CMOFuzz
<1>4. CASE UNCHANGED <<cmo, pendingA, reqs>>
  <2>1. ReqsOf(d)' = ReqsOf(d)
    BY <1>4 DEF ReqsOf
  <2> QED BY <1>4, <2>1, CMOFrame DEF CMOInv
<1>5. ASSUME NEW a \in Addr, WriteBack(a)
      PROVE  UNCHANGED <<cmo, pendingA, reqs>>
  BY <1>5 DEF WriteBack, timeVars, pendVars, dutVars
<1>6. ASSUME NEW c \in Core, FireB(c) \/ FireC(c) \/ FireE(c) \/ Update(c)
      PROVE  UNCHANGED <<cmo, pendingA, reqs>>
  BY <1>6 DEF FireB, FireC, FireE, Update, timeVars, dutVars
<1>7. CASE UNCHANGED vars
  BY <1>4, <1>7 DEF vars, timeVars, pendVars, dutVars
<1> QED BY <1>1, <1>2, <1>3, <1>4, <1>5, <1>6, <1>7 DEF Next

\* grant, touch and reclaim keep the life of an alternative equal to its invalidations.
LEMMA LivesOps ==
  ASSUME NEW alt, NEW n \in Nat, Lives(alt, n)
  PROVE  /\ Lives(GrantMemoryAlt(alt), n + 1)
         /\ Lives(TouchMemoryAlt(alt), n)
         /\ n > 0 => Lives(ReclaimMemoryAlt(alt), n - 1)
  BY DEF Lives, NoAlt, GrantMemoryAlt, TouchMemoryAlt, ReclaimMemoryAlt

\* There are finitely many agents, so their invalidations can be counted.
LEMMA InvalsFinite ==
  ASSUME NEW a \in Addr
  PROVE  IsFiniteSet(Invals(a)) /\ Cardinality(Invals(a)) \in Nat
<1>1. IsFiniteSet(Core)
  BY NCoreAssumption, FS_Interval DEF Core
<1>2. Invals(a) \subseteq Core
  BY DEF Invals
<1> QED BY <1>1, <1>2, FS_Subset, FS_CardinalityType

\* A step that starts and ends no cbo.inval, and touches alternatives at the most.
LEMMA AltFrame ==
  ASSUME AltInv, \A a \in Addr : Invals(a)' = Invals(a),
         \A a \in Addr : memAlt'[a] \in {memAlt[a], TouchMemoryAlt(memAlt[a])}
  PROVE  AltInv'
  BY LivesOps, InvalsFinite DEF AltInv

\* No alternative lives at first, and no cbo.inval is in flight.
LEMMA AltInit == Init => AltInv
<1> SUFFICES ASSUME Init, NEW a \in Addr PROVE Lives(memAlt[a], Cardinality(Invals(a)))
  BY DEF AltInv
<1>1. Invals(a) = {}
  BY DEF Init, Invals
<1> QED BY <1>1, FS_EmptySet DEF Init, Lives

\* A CMO at (c, b) that was not counted and is not counted now.
LEMMA InvalsStay ==
  ASSUME TypeOK, NEW c \in Core, NEW b \in Addr, NEW v,
         cmo' = [cmo EXCEPT ![c][b] = v],
         ~(cmo[c][b].op = "CBOInval" /\ cmo[c][b].fired = TRUE),
         ~(v.op = "CBOInval" /\ v.fired = TRUE)
  PROVE  \A a \in Addr : Invals(a)' = Invals(a)
<1>1. cmo \in [Core -> [Addr -> CMOStatus]]
  BY DEF TypeOK, TypeIds, PerAddr
<1>2. \A d \in Core, a \in Addr : (d # c \/ a # b) => cmo'[d][a] = cmo[d][a]
  BY <1>1
<1>3. cmo'[c][b] = v
  BY <1>1
<1>4. cmo[c][b] # [op |-> "CBOInval", fired |-> TRUE]
  OBVIOUS
<1>5. v # [op |-> "CBOInval", fired |-> TRUE]
  OBVIOUS
<1> QED BY <1>2, <1>3, <1>4, <1>5 DEF Invals

\* fire_a of a cbo.inval counts it and grants the alternative a life.
LEMMA AltFireA ==
  ASSUME TypeOK, IdInv, CMOInv, AltInv, NEW c \in Core, FireA(c)
  PROVE  AltInv'
<1>1. PICK r \in pendingA[c] :
        /\ cmo' = IF r.op \in CBOOp
             THEN [cmo EXCEPT ![c][r.addr] = [op |-> cmo[c][r.addr].op, fired |-> TRUE]]
             ELSE cmo
        /\ memAlt' = IF r.op = "CBOInval" /\ ~memorySyncStrict
             THEN [memAlt EXCEPT ![r.addr] = GrantMemoryAlt(memAlt[r.addr])]
             ELSE memAlt
  BY DEF FireA
<1>2. r.addr \in Addr
  BY DEF TypeOK, TypePending, ReqA
<1>3. r.op \in CBOOp => cmo[c][r.addr].op = r.op /\ cmo[c][r.addr].fired = FALSE
  BY DEF CMOInv, CMOInvBy
<1>4. CASE memorySyncStrict
  BY <1>4 DEF AltInv
<1>5. CASE r.op # "CBOInval"
  <2>1. memAlt' = memAlt
    BY <1>1, <1>5
  <2>2. \A a \in Addr : Invals(a)' = Invals(a)
    <3>1. CASE r.op \in CBOOp
      <4> DEFINE v == [op |-> cmo[c][r.addr].op, fired |-> TRUE]
      <4>1. cmo' = [cmo EXCEPT ![c][r.addr] = v]
        BY <1>1, <3>1
      <4>2. v.op # "CBOInval" /\ cmo[c][r.addr].fired = FALSE
        BY <1>3, <1>5, <3>1
      <4> HIDE DEF v
      <4> QED BY <1>2, <4>1, <4>2, InvalsStay
    <3>2. CASE r.op \notin CBOOp
      BY <1>1, <3>2 DEF Invals
    <3> QED BY <3>1, <3>2
  <2> QED BY <2>1, <2>2, AltFrame
<1>6. CASE r.op = "CBOInval" /\ ~memorySyncStrict
  <2>1. cmo[c][r.addr].op = "CBOInval" /\ cmo[c][r.addr].fired = FALSE
    BY <1>3, <1>6 DEF CBOOp
  <2>2. cmo' = [cmo EXCEPT ![c][r.addr] = [op |-> "CBOInval", fired |-> TRUE]]
    BY <1>1, <1>6, <2>1 DEF CBOOp
  <2>3. memAlt' = [memAlt EXCEPT ![r.addr] = GrantMemoryAlt(memAlt[r.addr])]
    BY <1>1, <1>6
  <2>4. cmo \in [Core -> [Addr -> CMOStatus]] /\ memAlt \in [Addr -> MemoryAlt]
    BY DEF TypeOK, TypeIds, PerAddr, TypeShared
  <2>5. c \notin Invals(r.addr) /\ Invals(r.addr)' = Invals(r.addr) \cup {c}
    <3>1. cmo'[c][r.addr] = [op |-> "CBOInval", fired |-> TRUE]
      BY <1>2, <2>2, <2>4
    <3>2. \A d \in Core \ {c} : cmo'[d][r.addr] = cmo[d][r.addr]
      BY <1>2, <2>2, <2>4
    <3>3. cmo[c][r.addr] # [op |-> "CBOInval", fired |-> TRUE]
      BY <2>1
    <3> QED BY <3>1, <3>2, <3>3 DEF Invals
  <2>6. \A a \in Addr \ {r.addr} : Invals(a)' = Invals(a) /\ memAlt'[a] = memAlt[a]
    BY <1>2, <2>2, <2>3, <2>4 DEF Invals
  <2>7. Cardinality(Invals(r.addr)') = Cardinality(Invals(r.addr)) + 1
    BY <1>2, <2>5, FS_AddElement, InvalsFinite
  <2>8. Lives(memAlt'[r.addr], Cardinality(Invals(r.addr)'))
    <3>1. memAlt'[r.addr] = GrantMemoryAlt(memAlt[r.addr])
      BY <1>2, <2>3, <2>4
    <3>2. Lives(memAlt[r.addr], Cardinality(Invals(r.addr)))
      BY <1>2, <1>6 DEF AltInv
    <3> QED BY <1>2, <2>7, <3>1, <3>2, LivesOps, InvalsFinite
  <2> QED BY <1>6, <2>6, <2>8 DEF AltInv
<1> QED BY <1>4, <1>5, <1>6

\* A CBOAck of a cbo.inval reclaims the life it was granted.
LEMMA AltFireCBOAck ==
  ASSUME TypeOK, CMOInv, AltInv, NEW c \in Core, NEW r \in ReqsOf(c), r.op \in CBOOp,
         FireCBOAck(c, r)
  PROVE  AltInv'
<1> DEFINE a == r.addr
           v == [op |-> "none", fired |-> FALSE]
<1>1. /\ memAlt' = IF cmo[c][a].op = "CBOInval" /\ ~memorySyncStrict
           THEN [memAlt EXCEPT ![a] = ReclaimMemoryAlt(memAlt[a])] ELSE memAlt
      /\ cmo' = [cmo EXCEPT ![c][a] = v]
  BY DEF FireCBOAck
<1>2. a \in Addr
  BY DEF ReqsOf, TypeOK, TypeDevice, ReqA
<1>3. cmo[c][a].op = r.op /\ cmo[c][a].fired = TRUE
  BY DEF CMOInv, CMOInvBy
<1>4. cmo \in [Core -> [Addr -> CMOStatus]] /\ memAlt \in [Addr -> MemoryAlt]
  BY DEF TypeOK, TypeIds, PerAddr, TypeShared
<1>5. v.op # "CBOInval"
  OBVIOUS
<1> HIDE DEF a, v
<1>6. CASE memorySyncStrict
  BY <1>6 DEF AltInv
<1>7. CASE r.op # "CBOInval"
  <2>1. memAlt' = memAlt /\ \A b \in Addr : Invals(b)' = Invals(b)
    BY <1>1, <1>2, <1>3, <1>5, <1>7, InvalsStay
  <2> QED BY <2>1, AltFrame
<1>8. CASE r.op = "CBOInval" /\ ~memorySyncStrict
  <2>1. c \in Invals(a) /\ Invals(a)' = Invals(a) \ {c}
    <3>1. cmo[c][a] = [op |-> "CBOInval", fired |-> TRUE]
      BY <1>2, <1>3, <1>4, <1>8 DEF CMOStatus
    <3>2. cmo'[c][a] # [op |-> "CBOInval", fired |-> TRUE]
      BY <1>1, <1>2, <1>4, <1>5
    <3>3. \A d \in Core \ {c} : cmo'[d][a] = cmo[d][a]
      BY <1>1, <1>2, <1>4
    <3> QED BY <3>1, <3>2, <3>3 DEF Invals
  <2>2. \A b \in Addr \ {a} : Invals(b)' = Invals(b) /\ memAlt'[b] = memAlt[b]
    BY <1>1, <1>2, <1>4 DEF Invals
  <2>3. /\ Cardinality(Invals(a)') = Cardinality(Invals(a)) - 1
        /\ Cardinality(Invals(a)) > 0
    <3>1. IsFiniteSet(Invals(a)) /\ Cardinality(Invals(a)) \in Nat
      BY <1>2, InvalsFinite
    <3>2. Cardinality(Invals(a) \ {c}) = Cardinality(Invals(a)) - 1
      BY <2>1, <3>1, FS_RemoveElement
    <3>3. Cardinality(Invals(a)) # 0
      BY <2>1, <3>1, FS_EmptySet
    <3> QED BY <2>1, <3>1, <3>2, <3>3
  <2>4. Lives(memAlt'[a], Cardinality(Invals(a)'))
    <3>1. memAlt'[a] = ReclaimMemoryAlt(memAlt[a])
      BY <1>1, <1>2, <1>3, <1>4, <1>8
    <3>2. Lives(memAlt[a], Cardinality(Invals(a)))
      BY <1>2, <1>8 DEF AltInv
    <3> QED BY <1>2, <2>3, <3>1, <3>2, LivesOps, InvalsFinite
  <2> QED BY <1>8, <2>2, <2>4 DEF AltInv
<1> QED BY <1>6, <1>7, <1>8

\* Other answers, and writes, touch the alternatives at the most.
LEMMA AltTouched ==
  ASSUME TypeOK, AltInv, UNCHANGED cmo, NEW b \in Addr,
         memAlt' \in {memAlt, [memAlt EXCEPT ![b] = TouchMemoryAlt(memAlt[b])]}
  PROVE  AltInv'
<1>1. \A a \in Addr : Invals(a)' = Invals(a)
  BY DEF Invals
<1>2. \A a \in Addr : memAlt'[a] \in {memAlt[a], TouchMemoryAlt(memAlt[a])}
  BY DEF TypeOK, TypeShared
<1> QED BY <1>1, <1>2, AltFrame

\* A write of an agent touches the alternative of its block only.
LEMMA AltFireC ==
  ASSUME TypeOK, AltInv, NEW c \in Core, FireC(c)
  PROVE  AltInv'
<1>1. PICK r \in pendingC[c] : FireCBeat(c, r) \/ FireRelease(c, r) \/ FireProbeAck(c, r)
  BY DEF FireC
<1>2. memAlt' \in {memAlt, [memAlt EXCEPT ![r.addr] = TouchMemoryAlt(memAlt[r.addr])]}
  BY <1>1 DEF FireCBeat, FireRelease, FireProbeAck, boardVars
<1>3. r.addr \in Addr
  BY DEF TypeOK, TypePending, ReqC
<1>4. cmo' = cmo
  BY DEF FireC
<1> QED BY <1>2, <1>3, <1>4, AltTouched

\* fire_d: a CBOAck ends a life, a ReleaseAck may touch the alternative.
LEMMA AltFireD ==
  ASSUME TypeOK, CMOInv, AltInv, NEW c \in Core, FireD(c)
  PROVE  AltInv'
<1>1. ASSUME NEW k \in relAcks, FireReleaseAck(c, k)
      PROVE  AltInv'
  <2>1. k.source \in SourceID /\ cmo' = cmo
    BY <1>1 DEF TypeOK, TypeDevice, ReleaseAck, FireReleaseAck
  <2>2. PICK e \in idMap[c][k.source] :
          memAlt' \in {memAlt, [memAlt EXCEPT ![e.addr] = TouchMemoryAlt(memAlt[e.addr])]}
    BY <1>1 DEF FireReleaseAck
  <2>3. e.addr \in Addr
    BY <2>1 DEF TypeOK, TypeIds, Block
  <2> QED BY <2>1, <2>2, <2>3, AltTouched
<1>2. ASSUME NEW r, NEW perm, FireGrantBeat(c, r, perm) \/ FireGrant(c, r, perm)
      PROVE  AltInv'
  <2>1. UNCHANGED <<cmo, memAlt>>
    BY <1>2 DEF FireGrantBeat, FireGrant, boardVars
  <2>2. \A a \in Addr : Invals(a)' = Invals(a)
    BY <2>1 DEF Invals
  <2> QED BY <2>1, <2>2, AltFrame
<1>3. ASSUME NEW r \in reqs, r.core = c, MayAckCBO(r), FireCBOAck(c, r)
      PROVE  AltInv'
  BY <1>3, AltFireCBOAck DEF ReqsOf, MayAckCBO
<1> QED BY <1>1, <1>2, <1>3 DEF FireD

\* An operation's CMO is not counted before it is fired.
LEMMA AltFuzz ==
  ASSUME TypeOK, AltInv, NEW c \in Core, Fuzz(c)
  PROVE  AltInv'
<1>1. memAlt' = memAlt
  BY DEF Fuzz, boardVars
<1>2. \A a \in Addr : Invals(a)' = Invals(a)
  <2>1. PICK i \in idle[c], a \in Addr : Fuzz(c)!2!(i, a)
    BY DEF Fuzz
  <2>2. CASE cmo' = cmo
    BY <2>2 DEF Invals
  <2>3. ASSUME NEW op, DoCBO(c, i, op, a)
        PROVE  <1>2
    <3> DEFINE v == [op |-> op, fired |-> FALSE]
    <3>1. cmo[c][a].op = "none" /\ cmo' = [cmo EXCEPT ![c][a] = v]
      BY <2>3 DEF DoCBO
    <3>2. v.fired = FALSE
      OBVIOUS
    <3> HIDE DEF v
    <3> QED BY <3>1, <3>2, InvalsStay
  <2>4. ASSUME NEW op, NEW x, NEW param, DoAcquire(c, i, op, a, x, param)
        PROVE  cmo' = cmo
    BY <2>4 DEF DoAcquire
  <2>5. ASSUME NEW x, DoReleaseDataAuto(c, i, a, x)
        PROVE  cmo' = cmo
    BY <2>5 DEF DoReleaseDataAuto
  <2> QED BY <2>1, <2>2, <2>3, <2>4, <2>5
<1> QED BY <1>1, <1>2, AltFrame

\* Every step preserves AltInv.
LEMMA AltStep == TypeOK /\ IdInv /\ CMOInv /\ AltInv /\ [Next]_vars => AltInv'
<1> SUFFICES ASSUME TypeOK, IdInv, CMOInv, AltInv, [Next]_vars PROVE AltInv'
  OBVIOUS
<1>1. CASE \E c \in Core : FireA(c)
  BY <1>1, AltFireA
<1>2. CASE \E c \in Core : FireC(c)
  BY <1>2, AltFireC
<1>3. CASE \E c \in Core : FireD(c)
  BY <1>3, AltFireD
<1>4. CASE \E c \in Core : Fuzz(c)
  BY <1>4, AltFuzz
<1>5. CASE UNCHANGED <<cmo, memAlt>>
  <2>1. \A a \in Addr : Invals(a)' = Invals(a)
    BY <1>5 DEF Invals
  <2> QED BY <1>5, <2>1, AltFrame
<1>6. ASSUME NEW a \in Addr, WriteBack(a)
      PROVE  UNCHANGED <<cmo, memAlt>>
  BY <1>6 DEF WriteBack, timeVars, boardVars
<1>7. ASSUME NEW c \in Core, FireB(c) \/ FireE(c) \/ Update(c)
      PROVE  UNCHANGED <<cmo, memAlt>>
  BY <1>7 DEF FireB, FireE, Update, timeVars, boardVars
<1>8. CASE UNCHANGED vars
  BY <1>5, <1>8 DEF vars, timeVars, boardVars
<1> QED BY <1>1, <1>2, <1>3, <1>4, <1>5, <1>6, <1>7, <1>8 DEF Next

\* Every reachable state keeps the ids, the blocks they name, and the CMOs in order.
LEMMA CMOHolds == Spec => [](TypeOK /\ IdInv /\ MapInv /\ CMOInv /\ AltInv)
<1>1. Init => CMOInv /\ AltInv
  BY CMOInit, AltInit
<1>2. TypeOK /\ IdInv /\ CMOInv /\ AltInv /\ [Next]_vars => CMOInv' /\ AltInv'
  BY CMOStep, AltStep
<1> QED BY <1>1, <1>2, IdMapHolds, PTL DEF Spec

\* GlobalBoard's memory alternatives: the life of one is the number of cbo.inval in
\* flight, so that it neither ends before the last of them nor outlives them by more
\* than the touch that removes it.
THEOREM AlternativesCounted == Spec => []AltCountsInvals
<1>1. AltInv => AltCountsInvals
  <2> SUFFICES ASSUME AltInv, NEW a \in Addr
               PROVE  \/ memAlt[a] = Cardinality(Invals(a))
                      \/ Cardinality(Invals(a)) = 0 /\ memAlt[a] = NoAlt
                      \/ memorySyncStrict
    BY DEF AltCountsInvals, Invals
  <2> QED BY DEF AltInv, Lives
<1> QED BY <1>1, CMOHolds, PTL

-----------------------------------------------------------------------------
(* Permissions *)

\* No copy but <<c, x>> forbids that the directory has perm for it.
Fits(c, a, x, perm) ==
  \A d \in Core, y \in Alias :
    <<d, y>> # <<c, x>> /\ dir[d][a][y] # "INVALID"
      => d # c /\ perm = "BRANCH" /\ dir[d][a][y] = "BRANCH"

Coherent ==
  \A c \in Core, a \in Addr, x \in Alias :
    dir[c][a][x] # "INVALID" => Fits(c, a, x, dir[c][a][x])

\* A block is probed or granted at one agent at a time, and not both.
OneAtATime ==
  \A c, d \in Core, a \in Addr :
    <<c, a>> \in probing \cup granting /\ <<d, a>> \in probing \cup granting
      => c = d /\ <<c, a>> \notin probing \cap granting

\* A permission that is given up leaves no more than there was.
NotAbove(new, old) ==
  /\ new = "TIP" => old = "TIP"
  /\ new = "BRANCH" => old \in {"TIP", "BRANCH"}

\* What an agent has on its ports: a half received grant still fits, a block whose
\* GrantAck is to come is not granted anew, a probe holds its block until its answer
\* is taken, and what C reports takes nothing that the directory does not give.
CopyInvBy(c) ==
  /\ \A p \in pendingD[c] :
       /\ <<c, p.req.addr>> \in granting
       /\ Fits(c, p.req.addr, p.req.alias, p.perm)
       /\ \A e \in pendingE[c] : e.addr # p.req.addr
  /\ \A e \in pendingE[c] : <<c, e.addr>> \in granting
  /\ \A b \in pendingB[c] : <<c, b.addr>> \in probing
  /\ \A r \in pendingC[c] :
       /\ NotAbove(Reported(r.param), dir[c][r.addr][r.alias])
       /\ r.op \in ReleaseOp => Reported(r.param) = "INVALID"
       /\ r.op \in ProbeAckOp =>
            <<c, r.addr>> \in probing /\ \A b \in pendingB[c] : b.addr # r.addr

\* The agents hold what the directory says they hold.
CopyInv == privilege = dir /\ Coherent /\ OneAtATime /\ \A c \in Core : CopyInvBy(c)

\* The agent and the directory read a report on C the same way, and an answer to a
\* probe gives up no more than the agent has.
LEMMA ReportOps ==
  /\ \A param : Reported(param) = ShrinkGenPriv(param) \/ param \notin TLPermDemotion
  /\ \A probe : \A perm \in TLPermission : NotAbove(Reported(ProbeAckParam(probe, perm)), perm)
  /\ \A perm : NotAbove(Reported("NtoN"), perm)
  /\ \A perm \in TLPermission : NotAbove(Reported(ProbeAckParam("toN", perm)), perm)
  BY DEF Reported, ShrinkGenPriv, ProbeAckParam, NotAbove, TLPermission, TLPermDemotion

\* The device grants what fits.
LEMMA MayGrantFits ==
  ASSUME NEW r \in ReqA, NEW perm, MayGrant(r, perm)
  PROVE  Fits(r.core, r.addr, r.alias, perm) /\ Quiet(r.addr)
<1>1. \A h \in Held(r.addr) :
        h # <<r.core, r.alias>> =>
          h[1] # r.core /\ perm = "BRANCH" /\ dir[h[1]][r.addr][h[2]] = "BRANCH"
  BY DEF MayGrant
<1>2. \A d \in Core, y \in Alias :
        dir[d][r.addr][y] # "INVALID" => <<d, y>> \in Held(r.addr)
  BY DEF Held
<1>3. Quiet(r.addr)
  BY DEF MayGrant
<1> QED BY <1>1, <1>2, <1>3 DEF Fits

\* Nobody holds a copy at first.
LEMMA CopyInit == Init => CopyInv
<1> SUFFICES ASSUME Init PROVE CopyInv
  OBVIOUS
<1>1. privilege = dir /\ Coherent
  BY DEF Init, Coherent
<1>2. OneAtATime
  BY DEF Init, OneAtATime
<1>3. \A c \in Core : CopyInvBy(c)
  BY DEF Init, CopyInvBy
<1> QED BY <1>1, <1>2, <1>3 DEF CopyInv

\* Steps that move nothing but take requests off the agent's ports.
LEMMA CopyFrame ==
  ASSUME CopyInv, UNCHANGED <<privilege, dir, probing, granting, pendingD, pendingE>>,
         \A d \in Core : pendingB'[d] \subseteq pendingB[d] /\ pendingC'[d] \subseteq pendingC[d]
  PROVE  CopyInv'
<1>1. Coherent'
  BY DEF CopyInv, Coherent, Fits
<1>2. OneAtATime'
  BY DEF CopyInv, OneAtATime
<1>3. ASSUME NEW d \in Core
      PROVE  CopyInvBy(d)'
  BY DEF CopyInv, CopyInvBy, Fits
<1> QED BY <1>1, <1>2, <1>3 DEF CopyInv

\* fire_b: the device probes a block nobody is being probed for or granted.
LEMMA CopyFireB ==
  ASSUME TypeOK, CopyInv, NEW c \in Core, FireB(c)
  PROVE  CopyInv'
<1>1. PICK b \in ReqB :
        /\ MayProbe(c, b)
        /\ pendingB' = [pendingB EXCEPT ![c] = {b}]
        /\ probing' = probing \cup {<<c, b.addr>>}
  BY DEF FireB
<1>2. UNCHANGED <<privilege, dir, granting, pendingC, pendingD, pendingE>>
  BY DEF FireB, entryVars
<1>3. \A d \in Core : <<d, b.addr>> \notin probing \cup granting
  BY <1>1 DEF MayProbe, Quiet
<1>4. Coherent'
  BY <1>2 DEF CopyInv, Coherent, Fits
<1>5. OneAtATime'
  BY <1>1, <1>2, <1>3 DEF CopyInv, OneAtATime
<1>6. ASSUME NEW d \in Core
      PROVE  CopyInvBy(d)'
  <2>1. CopyInvBy(d)
    BY DEF CopyInv
  <2>2. \A p \in pendingD'[d] :
          /\ <<d, p.req.addr>> \in granting'
          /\ Fits(d, p.req.addr, p.req.alias, p.perm)'
          /\ \A e \in pendingE'[d] : e.addr # p.req.addr
    BY <1>2, <2>1 DEF CopyInvBy, Fits
  <2>3. pendingB'[d] = IF d = c THEN {b} ELSE pendingB[d]
    BY <1>1 DEF TypeOK, TypePending
  <2>4. \A q \in pendingB'[d] : <<d, q.addr>> \in probing'
    BY <1>1, <2>1, <2>3 DEF CopyInvBy
  <2>5. \A r \in pendingC'[d] :
          /\ NotAbove(Reported(r.param), dir'[d][r.addr][r.alias])
          /\ r.op \in ReleaseOp => Reported(r.param) = "INVALID"
          /\ r.op \in ProbeAckOp =>
               <<d, r.addr>> \in probing' /\ \A q \in pendingB'[d] : q.addr # r.addr
    BY <1>1, <1>2, <1>3, <2>1, <2>3 DEF CopyInvBy
  <2> QED BY <1>2, <2>1, <2>2, <2>4, <2>5 DEF CopyInvBy
<1> QED BY <1>2, <1>4, <1>5, <1>6 DEF CopyInv

\* A copy that shrinks leaves the copies coherent, and what fitted fits.
LEMMA Shrunk ==
  ASSUME TypeOK, Coherent, NEW c \in Core, NEW a \in Addr, NEW x \in Alias,
         NEW perm \in TLPermission, NotAbove(perm, dir[c][a][x]),
         dir' = [dir EXCEPT ![c][a][x] = perm]
  PROVE  /\ Coherent'
         /\ \A d \in Core, b \in Addr, y \in Alias : \A p :
              Fits(d, b, y, p) => Fits(d, b, y, p)'
<1>1. \A d \in Core, b \in Addr, y \in Alias :
        dir'[d][b][y] = IF <<d, b, y>> = <<c, a, x>> THEN perm ELSE dir[d][b][y]
  BY DEF TypeOK, TypeDevice, PerBlock
<1>2. perm # "INVALID" => dir[c][a][x] # "INVALID"
  BY DEF NotAbove, TLPermission
<1>3. dir[c][a][x] = "BRANCH" /\ perm # "INVALID" => perm = "BRANCH"
  BY DEF NotAbove, TLPermission
<1>4. ASSUME NEW d \in Core, NEW b \in Addr, NEW y \in Alias, NEW p, Fits(d, b, y, p)
      PROVE  Fits(d, b, y, p)'
  <2> SUFFICES ASSUME NEW e \in Core, NEW z \in Alias,
                      <<e, z>> # <<d, y>>, dir'[e][b][z] # "INVALID"
               PROVE  e # d /\ p = "BRANCH" /\ dir'[e][b][z] = "BRANCH"
    BY DEF Fits
  <2>1. dir[e][b][z] # "INVALID"
    BY <1>1, <1>2
  <2>2. e # d /\ p = "BRANCH" /\ dir[e][b][z] = "BRANCH"
    BY <1>4, <2>1 DEF Fits
  <2> QED BY <1>1, <1>3, <2>2
<1>5. ASSUME NEW d \in Core, NEW b \in Addr, NEW y \in Alias, dir'[d][b][y] # "INVALID"
      PROVE  Fits(d, b, y, dir[d][b][y])'
  <2>1. Fits(d, b, y, dir[d][b][y])
    BY <1>1, <1>2, <1>5 DEF Coherent
  <2>2. \A e \in Core, z \in Alias :
          <<e, z>> # <<d, y>> /\ dir'[e][b][z] # "INVALID"
            => e # d /\ dir[d][b][y] = "BRANCH" /\ dir'[e][b][z] = "BRANCH"
    BY <1>1, <1>2, <1>3, <2>1 DEF Fits
  <2>3. dir[d][b][y] = "BRANCH" => dir'[d][b][y] = "BRANCH"
    BY <1>1, <1>3, <1>5
  <2> QED BY <2>2, <2>3 DEF Fits
<1> QED BY <1>4, <1>5 DEF Coherent

\* fire_c: a Release or a ProbeAck gives up what the directory then takes back; the
\* last beat of a ProbeAck ends the probe.
LEMMA CopyReported ==
  ASSUME TypeOK, CopyInv, NEW c \in Core, NEW r \in pendingC[c],
         pendingC' = [pendingC EXCEPT ![c] = {}],
         privilege' = [privilege EXCEPT ![c][r.addr][r.alias] = ShrinkGenPriv(r.param)],
         dir' = [dir EXCEPT ![c][r.addr][r.alias] = Reported(r.param)],
         \/ probing' = probing
         \/ r.op \in ProbeAckOp /\ probing' = probing \ {<<c, r.addr>>},
         UNCHANGED <<pendingB, pendingD, pendingE, granting>>
  PROVE  CopyInv'
<1>1. r.addr \in Addr /\ r.alias \in Alias /\ r.param \in TLPermDemotion
  BY DEF TypeOK, TypePending, ReqC
<1>2. Reported(r.param) = ShrinkGenPriv(r.param) /\ Reported(r.param) \in TLPermission
  BY <1>1, ReportOps, ParamOps
<1>3. privilege' = dir'
  BY <1>2 DEF CopyInv
<1>4. NotAbove(Reported(r.param), dir[c][r.addr][r.alias])
  BY DEF CopyInv, CopyInvBy
<1>5. /\ Coherent'
      /\ \A d \in Core, b \in Addr, y \in Alias : \A p : Fits(d, b, y, p) => Fits(d, b, y, p)'
  BY <1>1, <1>2, <1>4, Shrunk DEF CopyInv
<1>6. OneAtATime'
  BY DEF CopyInv, OneAtATime
<1>7. pendingC'[c] = {} /\ \A d \in Core \ {c} : pendingC'[d] = pendingC[d] /\ dir'[d] = dir[d]
  BY DEF TypeOK, TypePending, TypeDevice, PerBlock
<1>8. ASSUME NEW d \in Core
      PROVE  CopyInvBy(d)'
  <2>1. CopyInvBy(d)
    BY DEF CopyInv
  <2>2. \A p \in pendingD'[d] :
          /\ <<d, p.req.addr>> \in granting'
          /\ Fits(d, p.req.addr, p.req.alias, p.perm)'
          /\ \A e \in pendingE'[d] : e.addr # p.req.addr
    <3>1. \A p \in pendingD[d] : p.req.addr \in Addr /\ p.req.alias \in Alias
      BY DEF TypeOK, TypePending, ReqA
    <3> QED BY <1>5, <2>1, <3>1 DEF CopyInvBy
  <2>3. \A b \in pendingB'[d] : <<d, b.addr>> \in probing'
    <3>1. CASE probing' = probing
      BY <2>1, <3>1 DEF CopyInvBy
    <3>2. CASE r.op \in ProbeAckOp /\ probing' = probing \ {<<c, r.addr>>}
      BY <2>1, <3>2 DEF CopyInvBy
    <3> QED BY <3>1, <3>2
  <2>4. \A q \in pendingC'[d] :
          /\ NotAbove(Reported(q.param), dir'[d][q.addr][q.alias])
          /\ q.op \in ReleaseOp => Reported(q.param) = "INVALID"
          /\ q.op \in ProbeAckOp =>
               <<d, q.addr>> \in probing' /\ \A b \in pendingB'[d] : b.addr # q.addr
    BY <1>7, <2>1 DEF CopyInvBy
  <2>5. \A e \in pendingE'[d] : <<d, e.addr>> \in granting'
    BY <2>1 DEF CopyInvBy
  <2> QED BY <2>2, <2>3, <2>4, <2>5 DEF CopyInvBy
<1> QED BY <1>3, <1>5, <1>6, <1>8 DEF CopyInv

\* fire_c: agent and directory take note of the same report.
LEMMA CopyFireC ==
  ASSUME TypeOK, IdInv, CopyInv, NEW c \in Core, FireC(c)
  PROVE  CopyInv'
<1>1. PICK r \in pendingC[c] : FireCBeat(c, r) \/ FireRelease(c, r) \/ FireProbeAck(c, r)
  BY DEF FireC
<1>2. UNCHANGED <<pendingB, pendingD, pendingE, granting>>
  BY DEF FireC
<1>3. CASE FireRelease(c, r)
  <2>1. /\ pendingC' = [pendingC EXCEPT ![c] = {}]
        /\ privilege' = [privilege EXCEPT ![c][r.addr][r.alias] = ShrinkGenPriv(r.param)]
        /\ dir' = [dir EXCEPT ![c][r.addr][r.alias] = Reported(r.param)]
        /\ probing' = probing
    BY <1>3 DEF FireRelease
  <2> QED BY <1>2, <2>1, CopyReported
<1>4. CASE FireProbeAck(c, r)
  <2>1. /\ pendingC' = [pendingC EXCEPT ![c] = {}]
        /\ privilege' = [privilege EXCEPT ![c][r.addr][r.alias] = ShrinkGenPriv(r.param)]
        /\ dir' = [dir EXCEPT ![c][r.addr][r.alias] = Reported(r.param)]
        /\ r.op \in ProbeAckOp /\ probing' = probing \ {<<c, r.addr>>}
    BY <1>4 DEF FireProbeAck
  <2> QED BY <1>2, <2>1, CopyReported
<1>5. CASE FireCBeat(c, r)
  <2>1. /\ pendingC' = [pendingC EXCEPT ![c] = {LessABeat(r)}]
        /\ UNCHANGED <<privilege, dir, probing>>
    BY <1>5 DEF FireCBeat
  <2>2. /\ LessABeat(r).op = r.op /\ LessABeat(r).addr = r.addr
        /\ LessABeat(r).alias = r.alias /\ LessABeat(r).param = r.param
    BY DEF LessABeat
  <2>3. /\ pendingC'[c] = {LessABeat(r)}
        /\ \A d \in Core \ {c} : pendingC'[d] = pendingC[d]
    BY <2>1 DEF TypeOK, TypePending
  <2>4. ASSUME NEW d \in Core
        PROVE  CopyInvBy(d)'
    <3>1. CopyInvBy(d)
      BY DEF CopyInv
    <3>2. \A p \in pendingD'[d] :
            /\ <<d, p.req.addr>> \in granting'
            /\ Fits(d, p.req.addr, p.req.alias, p.perm)'
            /\ \A e \in pendingE'[d] : e.addr # p.req.addr
      BY <1>2, <2>1, <3>1 DEF CopyInvBy, Fits
    <3>3. \A q \in pendingC'[d] :
            /\ NotAbove(Reported(q.param), dir'[d][q.addr][q.alias])
            /\ q.op \in ReleaseOp => Reported(q.param) = "INVALID"
            /\ q.op \in ProbeAckOp =>
                 <<d, q.addr>> \in probing' /\ \A b \in pendingB'[d] : b.addr # q.addr
      BY <1>2, <2>1, <2>2, <2>3, <3>1 DEF CopyInvBy
    <3> QED BY <1>2, <2>1, <3>1, <3>2, <3>3 DEF CopyInvBy
  <2>5. Coherent' /\ OneAtATime'
    BY <1>2, <2>1 DEF CopyInv, Coherent, Fits, OneAtATime
  <2> QED BY <2>1, <2>4, <2>5 DEF CopyInv
<1> QED BY <1>1, <1>3, <1>4, <1>5

\* fire_e: the block of the GrantAck may be probed and granted again.
LEMMA CopyFireE ==
  ASSUME TypeOK, CopyInv, NEW c \in Core, FireE(c)
  PROVE  CopyInv'
<1>1. PICK e \in pendingE[c] :
        /\ pendingE' = [pendingE EXCEPT ![c] = {}]
        /\ granting' = granting \ {<<c, e.addr>>}
  BY DEF FireE
<1>2. UNCHANGED <<privilege, dir, probing, pendingB, pendingC, pendingD>>
  BY DEF FireE
<1>3. Coherent' /\ OneAtATime'
  BY <1>1, <1>2 DEF CopyInv, Coherent, Fits, OneAtATime
<1>4. ASSUME NEW d \in Core
      PROVE  CopyInvBy(d)'
  <2>1. CopyInvBy(d)
    BY DEF CopyInv
  <2>2. pendingE'[d] = IF d = c THEN {} ELSE pendingE[d]
    BY <1>1 DEF TypeOK, TypePending
  <2>3. \A p \in pendingD'[d] :
          /\ <<d, p.req.addr>> \in granting'
          /\ Fits(d, p.req.addr, p.req.alias, p.perm)'
          /\ \A q \in pendingE'[d] : q.addr # p.req.addr
    BY <1>1, <1>2, <2>1, <2>2 DEF CopyInvBy, Fits
  <2>4. \A q \in pendingE'[d] : <<d, q.addr>> \in granting'
    BY <1>1, <2>1, <2>2 DEF CopyInvBy
  <2> QED BY <1>2, <2>1, <2>3, <2>4 DEF CopyInvBy
<1> QED BY <1>2, <1>3, <1>4 DEF CopyInv

\* Nobody else is probed for a, or granted it, and c is not probed for it.
Alone(c, a) ==
  \A d \in Core : <<d, a>> \in probing \cup granting => d = c /\ <<d, a>> \notin probing

\* A copy that fits joins the others.
LEMMA CopyGranted ==
  ASSUME TypeOK, CopyInv, NEW c \in Core, NEW a \in Addr, NEW x \in Alias,
         NEW perm \in TLPermission, Fits(c, a, x, perm), Alone(c, a),
         dir' = [dir EXCEPT ![c][a][x] = perm],
         privilege' = [privilege EXCEPT ![c][a][x] = perm],
         granting' = granting \cup {<<c, a>>},
         pendingD' = [pendingD EXCEPT ![c] = {}],
         NEW e, e.addr = a, pendingE' = [pendingE EXCEPT ![c] = {e}],
         UNCHANGED <<probing, pendingB, pendingC>>
  PROVE  CopyInv'
<1>1. privilege' = dir'
  BY DEF CopyInv
<1>2. \A d \in Core, b \in Addr, y \in Alias :
        dir'[d][b][y] = IF <<d, b, y>> = <<c, a, x>> THEN perm ELSE dir[d][b][y]
  BY DEF TypeOK, TypeDevice, PerBlock
<1>3. Coherent'
  <2> SUFFICES ASSUME NEW d \in Core, NEW b \in Addr, NEW y \in Alias,
                      dir'[d][b][y] # "INVALID",
                      NEW f \in Core, NEW z \in Alias,
                      <<f, z>> # <<d, y>>, dir'[f][b][z] # "INVALID"
               PROVE  f # d /\ dir'[d][b][y] = "BRANCH" /\ dir'[f][b][z] = "BRANCH"
    BY DEF Coherent, Fits
  <2>1. CASE <<d, b, y>> = <<c, a, x>>
    BY <1>2, <2>1 DEF Fits
  <2>2. CASE <<f, b, z>> = <<c, a, x>>
    BY <1>2, <2>2 DEF Fits
  <2>3. CASE <<d, b, y>> # <<c, a, x>> /\ <<f, b, z>> # <<c, a, x>>
    BY <1>2, <2>3 DEF CopyInv, Coherent, Fits
  <2> QED BY <2>1, <2>2, <2>3
<1>4. OneAtATime'
  BY DEF CopyInv, OneAtATime, Alone
<1>5. /\ pendingD'[c] = {} /\ pendingE'[c] = {e}
      /\ \A d \in Core \ {c} : pendingD'[d] = pendingD[d] /\ pendingE'[d] = pendingE[d]
  BY DEF TypeOK, TypePending
<1>6. ASSUME NEW d \in Core
      PROVE  CopyInvBy(d)'
  <2>1. CopyInvBy(d)
    BY DEF CopyInv
  <2>2. \A p \in pendingD'[d] :
          /\ <<d, p.req.addr>> \in granting'
          /\ Fits(d, p.req.addr, p.req.alias, p.perm)'
          /\ \A q \in pendingE'[d] : q.addr # p.req.addr
    <3> SUFFICES ASSUME NEW p \in pendingD'[d]
                 PROVE  /\ <<d, p.req.addr>> \in granting'
                        /\ Fits(d, p.req.addr, p.req.alias, p.perm)'
                        /\ \A q \in pendingE'[d] : q.addr # p.req.addr
      OBVIOUS
    <3>1. d # c /\ p \in pendingD[d] /\ pendingE'[d] = pendingE[d]
      BY <1>5
    <3>2. p.req.addr \in Addr
      BY <3>1 DEF TypeOK, TypePending, ReqA
    <3>3. p.req.addr # a
      BY <2>1, <3>1 DEF CopyInvBy, Alone
    <3>4. Fits(d, p.req.addr, p.req.alias, p.perm)'
      <4>1. Fits(d, p.req.addr, p.req.alias, p.perm)
        BY <2>1, <3>1 DEF CopyInvBy
      <4>2. \A f \in Core, z \in Alias : dir'[f][p.req.addr][z] = dir[f][p.req.addr][z]
        BY <1>2, <3>2, <3>3
      <4> QED BY <4>1, <4>2 DEF Fits
    <3> QED BY <2>1, <3>1, <3>4 DEF CopyInvBy
  <2>3. \A q \in pendingE'[d] : <<d, q.addr>> \in granting'
    BY <1>5, <2>1 DEF CopyInvBy
  <2>4. \A r \in pendingC'[d] :
          /\ NotAbove(Reported(r.param), dir'[d][r.addr][r.alias])
          /\ r.op \in ReleaseOp => Reported(r.param) = "INVALID"
          /\ r.op \in ProbeAckOp =>
               <<d, r.addr>> \in probing' /\ \A b \in pendingB'[d] : b.addr # r.addr
    <3> SUFFICES ASSUME NEW r \in pendingC[d]
                 PROVE  NotAbove(Reported(r.param), dir'[d][r.addr][r.alias])
      BY <2>1 DEF CopyInvBy
    <3>1. r \in ReqC
      BY DEF TypeOK, TypePending
    <3>2. CASE r.op \in ReleaseOp
      BY <2>1, <3>2 DEF CopyInvBy, NotAbove
    <3>3. CASE r.op \in ProbeAckOp
      <4>1. <<d, r.addr>> # <<c, a>>
        BY <2>1, <3>3 DEF CopyInvBy, Alone
      <4>2. r.addr \in Addr /\ r.alias \in Alias
        BY <3>1 DEF ReqC
      <4>3. dir'[d][r.addr][r.alias] = dir[d][r.addr][r.alias]
        BY <1>2, <4>1, <4>2
      <4> QED BY <2>1, <4>3 DEF CopyInvBy
    <3> QED BY <3>1, <3>2, <3>3 DEF ReqC
  <2> QED BY <2>1, <2>2, <2>3, <2>4 DEF CopyInvBy
<1> QED BY <1>1, <1>3, <1>4, <1>6 DEF CopyInv

\* The first beat of a GrantData claims the block for its agent.
LEMMA CopyFireGrantBeat ==
  ASSUME TypeOK, CopyInv, NEW c \in Core, FireD(c), NEW r \in ReqsOf(c),
         NEW perm \in TLPermission, MayGrant(r, perm), FireGrantBeat(c, r, perm)
  PROVE  CopyInv'
<1>1. /\ pendingD' = [pendingD EXCEPT ![c] = {[req |-> r, perm |-> perm]}]
      /\ granting' = granting \cup {<<c, r.addr>>}
  BY DEF FireGrantBeat
<1>2. UNCHANGED <<privilege, dir, probing, pendingB, pendingC, pendingE>>
  BY DEF FireGrantBeat, FireD
<1>3. r \in ReqA /\ r.core = c
  BY DEF ReqsOf, TypeOK, TypeDevice
<1>4. Fits(c, r.addr, r.alias, perm) /\ Quiet(r.addr)
  BY <1>3, MayGrantFits
<1>5. \A d \in Core : <<d, r.addr>> \notin probing \cup granting
  BY <1>4 DEF Quiet
<1>6. Coherent' /\ OneAtATime'
  BY <1>1, <1>2, <1>5 DEF CopyInv, Coherent, Fits, OneAtATime
<1>7. ASSUME NEW d \in Core
      PROVE  CopyInvBy(d)'
  <2>1. CopyInvBy(d)
    BY DEF CopyInv
  <2>2. pendingD'[d] = IF d = c THEN {[req |-> r, perm |-> perm]} ELSE pendingD[d]
    BY <1>1 DEF TypeOK, TypePending
  <2>3. \A e \in pendingE'[d] : <<d, e.addr>> \in granting'
    BY <1>1, <1>2, <2>1 DEF CopyInvBy
  <2>4. \A p \in pendingD'[d] :
          /\ <<d, p.req.addr>> \in granting'
          /\ Fits(d, p.req.addr, p.req.alias, p.perm)'
          /\ \A e \in pendingE'[d] : e.addr # p.req.addr
    <3>1. CASE d = c
      <4>1. \A e \in pendingE[c] : e.addr # r.addr
        BY <1>5, <2>1, <3>1 DEF CopyInvBy
      <4>2. Fits(c, r.addr, r.alias, perm)'
        BY <1>2, <1>4 DEF Fits
      <4> QED BY <1>1, <1>2, <2>2, <3>1, <4>1, <4>2
    <3>2. CASE d # c
      BY <1>1, <1>2, <2>1, <2>2, <3>2 DEF CopyInvBy, Fits
    <3> QED BY <3>1, <3>2
  <2> QED BY <1>2, <2>1, <2>3, <2>4 DEF CopyInvBy
<1> QED BY <1>2, <1>6, <1>7 DEF CopyInv

\* A Grant gives the agent, through idMap, the permission the directory records.
LEMMA CopyFireGrant ==
  ASSUME TypeOK, MapInv, CopyInv, NEW c \in Core, FireD(c), NEW r \in ReqsOf(c),
         NEW perm \in TLPermission, FireGrant(c, r, perm),
         Fits(c, r.addr, r.alias, perm), Alone(c, r.addr)
  PROVE  CopyInv'
<1>1. r.addr \in Addr /\ r.alias \in Alias
  BY DEF ReqsOf, TypeOK, TypeDevice, ReqA
<1>2. idMap[c][r.source] = {[addr |-> r.addr, alias |-> r.alias]}
  BY DEF MapInv, MapInvBy, Names
<1>3. PICK e \in idMap[c][r.source] :
        /\ privilege' = [privilege EXCEPT ![c][e.addr][e.alias] = perm]
        /\ pendingE' = [pendingE EXCEPT ![c] = {e}]
        /\ dir' = [dir EXCEPT ![c][r.addr][r.alias] = perm]
        /\ granting' = granting \cup {<<c, r.addr>>}
        /\ pendingD' = [pendingD EXCEPT ![c] = {}]
  BY DEF FireGrant
<1>4. e.addr = r.addr /\ e.alias = r.alias
  BY <1>2
<1>5. UNCHANGED <<probing, pendingB, pendingC>>
  BY DEF FireD
<1> QED BY <1>1, <1>3, <1>4, <1>5, CopyGranted

\* fire_d: agent and directory take note of the same grant.
LEMMA CopyFireD ==
  ASSUME TypeOK, IdInv, MapInv, CopyInv, NEW c \in Core, FireD(c)
  PROVE  CopyInv'
<1>1. UNCHANGED <<pendingB, pendingC, probing>>
  BY DEF FireD
<1>2. ASSUME NEW k \in relAcks, FireReleaseAck(c, k)
      PROVE  CopyInv'
  BY <1>1, <1>2, CopyFrame DEF FireReleaseAck
<1>3. ASSUME NEW r \in reqs, FireCBOAck(c, r)
      PROVE  CopyInv'
  BY <1>1, <1>3, CopyFrame DEF FireCBOAck
<1>4. ASSUME NEW r \in reqs, NEW perm \in TLPermission, r.core = c, MayGrant(r, perm),
             FireGrantBeat(c, r, perm)
      PROVE  CopyInv'
  BY <1>4, CopyFireGrantBeat DEF ReqsOf
<1>5. ASSUME NEW r \in reqs, NEW perm \in TLPermission, r.core = c, MayGrant(r, perm),
             FireGrant(c, r, perm)
      PROVE  CopyInv'
  <2>1. r \in ReqsOf(c) /\ r \in ReqA
    BY <1>5 DEF ReqsOf, TypeOK, TypeDevice
  <2>2. Fits(c, r.addr, r.alias, perm) /\ Alone(c, r.addr)
    BY <1>5, <2>1, MayGrantFits DEF Quiet, Alone
  <2> QED BY <1>5, <2>1, <2>2, CopyFireGrant
<1>6. ASSUME NEW p \in pendingD[c], FireGrant(c, p.req, p.perm)
      PROVE  CopyInv'
  <2>1. p.req \in ReqsOf(c)
    BY DEF IdInv, IdInvBy, GrantOwed
  <2>2. p.perm \in TLPermission
    BY DEF TypeOK, TypePending
  <2>3. <<c, p.req.addr>> \in granting /\ Fits(c, p.req.addr, p.req.alias, p.perm)
    BY DEF CopyInv, CopyInvBy
  <2>4. Alone(c, p.req.addr)
    <3>1. p.req.addr \in Addr
      BY DEF TypeOK, TypePending, ReqA
    <3> QED BY <2>3, <3>1 DEF CopyInv, OneAtATime, Alone
  <2> QED BY <1>6, <2>1, <2>2, <2>3, <2>4, CopyFireGrant
<1> QED BY <1>2, <1>3, <1>4, <1>5, <1>6 DEF FireD

\* A Release is of the whole permission.
LEMMA CopyFuzz ==
  ASSUME TypeOK, CopyInv, NEW c \in Core, Fuzz(c)
  PROVE  CopyInv'
<1>1. UNCHANGED <<privilege, dir, probing, granting, pendingB, pendingD, pendingE>>
  BY DEF Fuzz, entryVars, dutVars
<1>2. \/ pendingC' = pendingC
      \/ \E r : /\ r.op \in ReleaseOp /\ r.param \in {"TtoN", "BtoN"}
                /\ pendingC' = [pendingC EXCEPT ![c] = {r}]
  <2>1. ASSUME NEW i, NEW op, NEW a, NEW x, NEW param, DoAcquire(c, i, op, a, x, param)
        PROVE  <1>2
    BY <2>1 DEF DoAcquire
  <2>2. ASSUME NEW i, NEW a, NEW x, DoReleaseDataAuto(c, i, a, x)
        PROVE  <1>2
    <3> DEFINE toN == IF privilege[c][a][x] = "TIP" THEN "TtoN" ELSE "BtoN"
               request(op, n, d) == [op |-> op, addr |-> a, alias |-> x, param |-> toN,
                                     beats |-> n, data |-> d, source |-> {i}]
    <3>1. \/ pendingC' = [pendingC EXCEPT ![c] = {request("Release", 1, Zero)}]
          \/ \E d \in Data : pendingC' = [pendingC EXCEPT ![c] = {request("ReleaseData", 2, d)}]
      BY <2>2 DEF DoReleaseDataAuto
    <3>2. \A op \in ReleaseOp : \A n, d :
            request(op, n, d).op \in ReleaseOp /\ request(op, n, d).param \in {"TtoN", "BtoN"}
      OBVIOUS
    <3> HIDE DEF request
    <3> QED BY <3>1, <3>2 DEF ReleaseOp
  <2>3. ASSUME NEW i, NEW op, NEW a, DoCBO(c, i, op, a)
        PROVE  <1>2
    BY <2>3 DEF DoCBO
  <2> QED BY <2>1, <2>2, <2>3 DEF Fuzz
<1>3. CASE pendingC' = pendingC
  BY <1>1, <1>3, CopyFrame
<1>4. ASSUME NEW r, r.op \in ReleaseOp, r.param \in {"TtoN", "BtoN"},
             pendingC' = [pendingC EXCEPT ![c] = {r}]
      PROVE  CopyInv'
  <2>1. /\ pendingC'[c] = {r}
        /\ \A d \in Core \ {c} : pendingC'[d] = pendingC[d]
    BY <1>4 DEF TypeOK, TypePending
  <2>2. Reported(r.param) = "INVALID" /\ r.op \notin ProbeAckOp
    BY <1>4 DEF Reported, ReleaseOp, ProbeAckOp
  <2>3. Coherent' /\ OneAtATime'
    BY <1>1 DEF CopyInv, Coherent, Fits, OneAtATime
  <2>4. ASSUME NEW d \in Core
        PROVE  CopyInvBy(d)'
    <3>1. CopyInvBy(d)
      BY DEF CopyInv
    <3>2. \A q \in pendingC'[d] :
            /\ NotAbove(Reported(q.param), dir'[d][q.addr][q.alias])
            /\ q.op \in ReleaseOp => Reported(q.param) = "INVALID"
            /\ q.op \in ProbeAckOp =>
                 <<d, q.addr>> \in probing' /\ \A b \in pendingB'[d] : b.addr # q.addr
      BY <1>1, <2>1, <2>2, <3>1 DEF CopyInvBy, NotAbove
    <3>3. \A p \in pendingD'[d] :
            /\ <<d, p.req.addr>> \in granting'
            /\ Fits(d, p.req.addr, p.req.alias, p.perm)'
            /\ \A e \in pendingE'[d] : e.addr # p.req.addr
      BY <1>1, <3>1 DEF CopyInvBy, Fits
    <3> QED BY <1>1, <3>1, <3>2, <3>3 DEF CopyInvBy
  <2> QED BY <1>1, <2>3, <2>4 DEF CopyInv
<1> QED BY <1>2, <1>3, <1>4

\* An answer to a probe is about the probe's block and gives up no more than the
\* agent has.
LEMMA AnswerGivesUp ==
  ASSUME TypeOK, NEW c \in Core, NEW b \in ReqB, NEW st, NEW r \in ProbeAnswers(c, b, st)
  PROVE  /\ r.op \in ProbeAckOp
         /\ r.addr = b.addr /\ r.alias = b.alias
         /\ NotAbove(Reported(r.param), privilege[c][b.addr][b.alias])
<1> DEFINE perm == privilege[c][b.addr][b.alias]
           answer(op, param, d) ==
      [op |-> op, addr |-> b.addr, alias |-> b.alias, param |-> param, data |-> d,
       beats |-> IF op = "ProbeAckData" THEN 2 ELSE 1, source |-> {}]
           par == ProbeAckParam(b.param, perm)
<1>1. b.addr \in Addr /\ b.alias \in Alias /\ b.param \in TLParamProbe
  BY DEF ReqB
<1>2. perm \in TLPermission
  BY <1>1 DEF TypeOK, TypeEntries, PerBlock
<1>3. ProbedOp(c, b) \subseteq ProbeAckOp
  BY DEF ProbedOp, ProbeAckOp
<1>4. \A op, param, d : /\ answer(op, param, d).op = op
                        /\ answer(op, param, d).addr = b.addr
                        /\ answer(op, param, d).alias = b.alias
                        /\ answer(op, param, d).param = param
  OBVIOUS
<1>5. ProbeAnswers(c, b, st) =
        CASE st[b.addr][b.alias] \in {"S_SENDING_A", "S_A_WAITING_D"}
               -> {answer("ProbeAck", ProbeAckParam("toN", perm), Zero)}
          [] st[b.addr][b.alias] = "S_INVALID" -> {answer("ProbeAck", "NtoN", Zero)}
          [] OTHER -> UNION {{answer(op, par, d) : d \in ProbedData(op, par, board[b.addr])}
                             : op \in ProbedOp(c, b)}
  BY DEF ProbeAnswers
<1> HIDE DEF answer, perm, par
<1>6. PICK op, param, d :
        /\ op \in ProbeAckOp
        /\ r = answer(op, param, d)
        /\ param \in {par, "NtoN", ProbeAckParam("toN", perm)}
  <2>1. CASE st[b.addr][b.alias] \in {"S_SENDING_A", "S_A_WAITING_D"}
    <3>1. r = answer("ProbeAck", ProbeAckParam("toN", perm), Zero)
      BY <1>5, <2>1
    <3> QED BY <3>1 DEF ProbeAckOp
  <2>2. CASE st[b.addr][b.alias] = "S_INVALID"
    <3>1. r = answer("ProbeAck", "NtoN", Zero)
      BY <1>5, <2>2
    <3> QED BY <3>1 DEF ProbeAckOp
  <2>3. CASE st[b.addr][b.alias] \notin {"S_SENDING_A", "S_A_WAITING_D", "S_INVALID"}
    <3>1. r \in UNION {{answer(op, par, d) : d \in ProbedData(op, par, board[b.addr])}
                       : op \in ProbedOp(c, b)}
      BY <1>5, <2>3
    <3> QED BY <1>3, <3>1
  <2> QED BY <2>1, <2>2, <2>3
<1>7. NotAbove(Reported(param), perm)
  BY <1>2, <1>6, ReportOps DEF par
<1> QED BY <1>4, <1>6, <1>7 DEF perm

\* handle_b answers the probe with what the agent has and the directory knows of.
LEMMA CopyUpdate ==
  ASSUME TypeOK, IdInv, CopyInv, NEW c \in Core, Update(c)
  PROVE  CopyInv'
<1> DEFINE st == Presented(c)
<1>1. UNCHANGED <<privilege, dir, probing, granting, pendingD, pendingE>>
  BY DEF Update, dutVars
<1>2. CASE NoHandleB(c, st)
  <2>1. pendingC' = [pendingC EXCEPT ![c] = pendingC[c]] /\ pendingB' = pendingB
    BY <1>2 DEF NoHandleB, SendC
  <2>2. \A d \in Core : pendingB'[d] \subseteq pendingB[d] /\ pendingC'[d] \subseteq pendingC[d]
    BY <2>1 DEF TypeOK, TypePending
  <2> QED BY <1>1, <2>2, CopyFrame
<1>3. ASSUME NEW b \in pendingB[c], HandleB(c, b, st)
      PROVE  CopyInv'
  <2>1. /\ pendingC[c] = {}
        /\ pendingB' = [pendingB EXCEPT ![c] = {}]
        /\ \/ \E r \in ProbeAnswers(c, b, st) : pendingC' = [pendingC EXCEPT ![c] = {r}]
           \/ pendingC' = [pendingC EXCEPT ![c] = {}]
    BY <1>3 DEF HandleB, SendC, AnswersProbe
  <2>2. b \in ReqB
    BY DEF TypeOK, TypePending
  <2>3. pendingB'[c] = {} /\ \A d \in Core \ {c} : pendingB'[d] = pendingB[d]
    BY <2>1 DEF TypeOK, TypePending
  <2>4. CASE pendingC' = [pendingC EXCEPT ![c] = {}]
    <3>1. \A d \in Core : pendingB'[d] \subseteq pendingB[d] /\ pendingC'[d] \subseteq pendingC[d]
      BY <2>3, <2>4 DEF TypeOK, TypePending
    <3> QED BY <1>1, <3>1, CopyFrame
  <2>5. ASSUME NEW r \in ProbeAnswers(c, b, st), pendingC' = [pendingC EXCEPT ![c] = {r}]
        PROVE  CopyInv'
    <3>1. pendingC'[c] = {r} /\ \A d \in Core \ {c} : pendingC'[d] = pendingC[d]
      BY <2>5 DEF TypeOK, TypePending
    <3>2. /\ r.op \in ProbeAckOp
          /\ r.addr = b.addr /\ r.alias = b.alias
          /\ NotAbove(Reported(r.param), dir[c][b.addr][b.alias])
      BY <2>2, AnswerGivesUp DEF CopyInv
    <3>3. r.op \notin ReleaseOp
      BY <3>2 DEF ReleaseOp, ProbeAckOp
    <3>4. <<c, b.addr>> \in probing
      BY DEF CopyInv, CopyInvBy
    <3>5. Coherent' /\ OneAtATime'
      BY <1>1 DEF CopyInv, Coherent, Fits, OneAtATime
    <3>6. ASSUME NEW d \in Core
          PROVE  CopyInvBy(d)'
      <4>1. CopyInvBy(d)
        BY DEF CopyInv
      <4>2. \A q \in pendingC'[d] :
              /\ NotAbove(Reported(q.param), dir'[d][q.addr][q.alias])
              /\ q.op \in ReleaseOp => Reported(q.param) = "INVALID"
              /\ q.op \in ProbeAckOp =>
                   <<d, q.addr>> \in probing' /\ \A p \in pendingB'[d] : p.addr # q.addr
        BY <1>1, <2>3, <3>1, <3>2, <3>3, <3>4, <4>1 DEF CopyInvBy
      <4>3. \A p \in pendingD'[d] :
              /\ <<d, p.req.addr>> \in granting'
              /\ Fits(d, p.req.addr, p.req.alias, p.perm)'
              /\ \A e \in pendingE'[d] : e.addr # p.req.addr
        BY <1>1, <4>1 DEF CopyInvBy, Fits
      <4>4. \A p \in pendingB'[d] : <<d, p.addr>> \in probing'
        BY <1>1, <2>3, <4>1 DEF CopyInvBy
      <4> QED BY <1>1, <4>1, <4>2, <4>3, <4>4 DEF CopyInvBy
    <3> QED BY <1>1, <3>5, <3>6 DEF CopyInv
  <2> QED BY <2>1, <2>4, <2>5
<1> QED BY <1>2, <1>3 DEF Update

\* Every step keeps the agents' permissions those of a coherent directory.
LEMMA CopyStep == TypeOK /\ IdInv /\ MapInv /\ CopyInv /\ [Next]_vars => CopyInv'
<1> SUFFICES ASSUME TypeOK, IdInv, MapInv, CopyInv, [Next]_vars PROVE CopyInv'
  OBVIOUS
<1>1. ASSUME NEW c \in Core, FireA(c)
      PROVE  CopyInv'
  <2>1. UNCHANGED <<privilege, dir, probing, granting, pendingB, pendingC, pendingD, pendingE>>
    BY <1>1 DEF FireA
  <2> QED BY <2>1, CopyFrame
<1>2. ASSUME NEW a \in Addr, WriteBack(a)
      PROVE  CopyInv'
  <2>1. UNCHANGED <<privilege, dir, probing, granting, pendingB, pendingC, pendingD, pendingE>>
    BY <1>2 DEF WriteBack, entryVars, pendVars, dutVars
  <2> QED BY <2>1, CopyFrame
<1>3. CASE UNCHANGED vars
  <2>1. UNCHANGED <<privilege, dir, probing, granting, pendingB, pendingC, pendingD, pendingE>>
    BY <1>3 DEF vars, entryVars, pendVars, dutVars
  <2> QED BY <2>1, CopyFrame
<1>4. CASE Next
  BY <1>1, <1>2, <1>4, CopyFireB, CopyFireC, CopyFireE, CopyFireD, CopyFuzz, CopyUpdate
     DEF Next
<1> QED BY <1>3, <1>4

\* The permissions are the directory's in every reachable state.
LEMMA CopyHolds ==
  Spec => [](TypeOK /\ IdInv /\ MapInv /\ CMOInv /\ AltInv /\ CopyInv)
<1>1. Init => CopyInv
  BY CopyInit
<1>2. TypeOK /\ IdInv /\ MapInv /\ CopyInv /\ [Next]_vars => CopyInv'
  BY CopyStep
<1> QED BY <1>1, <1>2, CMOHolds, PTL DEF Spec

\* The permissions in the agents' boards are coherent (fire_d installs a Grant
\* through idMap, fire_c gives up what a Release or a ProbeAck reports): a TIP
\* excludes every other copy and an agent holds a block under one alias only.
THEOREM CopiesCoherent == Spec => []SingleWriter
<1>1. CopyInv => SingleWriter
  <2> SUFFICES ASSUME CopyInv, NEW c \in Core, NEW d \in Core, NEW a \in Addr,
                      NEW x \in Alias, NEW y \in Alias, <<c, x>> # <<d, y>>,
                      privilege[c][a][x] # "INVALID", privilege[d][a][y] # "INVALID"
               PROVE  c # d /\ privilege[c][a][x] = "BRANCH"
    BY DEF SingleWriter
  <2>1. Fits(c, a, x, dir[c][a][x])
    BY DEF CopyInv, Coherent
  <2> QED BY <2>1 DEF CopyInv, Fits
<1> QED BY <1>1, CopyHolds, PTL

-----------------------------------------------------------------------------
(* The oracle *)

\* The fuzzers issue what they are configured to issue.
OpsInv ==
  /\ \A c \in Core : \A r \in pendingA[c] : r.op \in Ops
  /\ \A r \in reqs : r.op \in Ops

\* No cbo.inval is answered before the ReleaseAck of a release it may drop.
InvalsWait == Overtake = {} \/ "CBOInval" \notin Ops

OneValue(S) == \E v \in Data : S = {v}

\* What the board knows of a block.  An absent entry is a block nobody has written; a
\* valid one has the block's value, unless a cbo.inval has dropped that for memory's,
\* and then the alternative is alive; a pending one has the value of a release whose
\* ReleaseAck is to come.
BoardInvAt(a) ==
  /\ board[a].status = "NONE" =>
       /\ board[a].data = {} /\ board[a].pending = {}
       /\ line[a] = Zero /\ mem[a] = Zero
  /\ board[a].status = "VALID" =>
       /\ OneValue(board[a].data) /\ board[a].pending = {}
       /\ line[a] \in board[a].data \/ (line[a] = mem[a] /\ memAlt[a] # NoAlt)
  /\ board[a].status = "PENDING" =>
       board[a].pending = {line[a]} /\ \E k \in relAcks : k.addr = a

BoardInv == InvalsWait => \A a \in Addr : BoardInvAt(a)

\* Nothing is asked for at first.
LEMMA OpsInit == Init => OpsInv
  BY DEF Init, OpsInv

\* Requests that only leave are still configured ones.
LEMMA OpsFrame ==
  ASSUME OpsInv, UNCHANGED pendingA, reqs' \subseteq reqs
  PROVE  OpsInv'
  BY DEF OpsInv

\* The fuzzers ask for configured operations.
LEMMA OpsFuzz ==
  ASSUME TypeOK, OpsInv, NEW c \in Core, Fuzz(c)
  PROVE  OpsInv'
<1>1. reqs' = reqs
  BY DEF Fuzz, dutVars
<1>2. \/ pendingA' = pendingA
      \/ \E r : r.op \in Ops /\ pendingA' = [pendingA EXCEPT ![c] = {r}]
  <2>1. ASSUME NEW i, NEW op, NEW a, NEW x, NEW param, DoAcquire(c, i, op, a, x, param)
        PROVE  <1>2
    <3>1. op \in Ops
      BY <2>1 DEF DoAcquire
    <3>2. \E par : pendingA' = [pendingA EXCEPT ![c] =
            {[core |-> c, op |-> op, addr |-> a, alias |-> x, source |-> i, param |-> par]}]
      BY <2>1 DEF DoAcquire
    <3> QED BY <3>1, <3>2
  <2>2. ASSUME NEW i, NEW a, NEW x, DoReleaseDataAuto(c, i, a, x)
        PROVE  <1>2
    BY <2>2 DEF DoReleaseDataAuto
  <2>3. ASSUME NEW i, NEW op, NEW a, DoCBO(c, i, op, a)
        PROVE  <1>2
    <3>1. op \in Ops
      BY <2>3 DEF DoCBO
    <3>2. \E x : pendingA' = [pendingA EXCEPT ![c] =
            {[core |-> c, op |-> op, addr |-> a, alias |-> x, param |-> "NtoB", source |-> i]}]
      BY <2>3 DEF DoCBO
    <3> QED BY <3>1, <3>2
  <2> QED BY <2>1, <2>2, <2>3 DEF Fuzz
<1>3. ASSUME NEW r, r.op \in Ops, pendingA' = [pendingA EXCEPT ![c] = {r}]
      PROVE  OpsInv'
  <2>1. \A d \in Core : pendingA'[d] = IF d = c THEN {r} ELSE pendingA[d]
    BY <1>3 DEF TypeOK, TypePending
  <2> QED BY <1>1, <1>3, <2>1 DEF OpsInv
<1> QED BY <1>1, <1>2, <1>3, OpsFrame

\* Every step keeps the requests to the configured operations.
LEMMA OpsStep == TypeOK /\ OpsInv /\ [Next]_vars => OpsInv'
<1> SUFFICES ASSUME TypeOK, OpsInv, [Next]_vars PROVE OpsInv'
  OBVIOUS
<1>1. ASSUME NEW c \in Core, FireA(c)
      PROVE  OpsInv'
  <2>1. PICK r \in pendingA[c] :
          pendingA' = [pendingA EXCEPT ![c] = {}] /\ reqs' = reqs \cup {r}
    BY <1>1 DEF FireA
  <2>2. r.op \in Ops
    BY DEF OpsInv
  <2>3. \A d \in Core : pendingA'[d] \subseteq pendingA[d]
    BY <2>1 DEF TypeOK, TypePending
  <2> QED BY <2>1, <2>2, <2>3 DEF OpsInv
<1>2. ASSUME NEW c \in Core, FireD(c)
      PROVE  OpsInv'
  <2>1. pendingA' = pendingA
    BY <1>2 DEF FireD
  <2>2. ASSUME NEW k, FireReleaseAck(c, k)
        PROVE  reqs' \subseteq reqs
    BY <2>2 DEF FireReleaseAck
  <2>3. ASSUME NEW r, NEW perm, FireGrantBeat(c, r, perm)
        PROVE  reqs' \subseteq reqs
    BY <2>3 DEF FireGrantBeat
  <2>4. ASSUME NEW r, NEW perm, FireGrant(c, r, perm)
        PROVE  reqs' \subseteq reqs
    BY <2>4 DEF FireGrant
  <2>5. ASSUME NEW r, FireCBOAck(c, r)
        PROVE  reqs' \subseteq reqs
    BY <2>5 DEF FireCBOAck
  <2>6. reqs' \subseteq reqs
    BY <1>2, <2>2, <2>3, <2>4, <2>5 DEF FireD
  <2> QED BY <2>1, <2>6, OpsFrame
<1>3. ASSUME NEW c \in Core, FireB(c) \/ FireC(c) \/ FireE(c) \/ Update(c)
      PROVE  OpsInv'
  BY <1>3, OpsFrame DEF FireB, FireC, FireE, Update, dutVars
<1>4. ASSUME NEW a \in Addr, WriteBack(a)
      PROVE  OpsInv'
  BY <1>4, OpsFrame DEF WriteBack, pendVars, dutVars
<1>5. CASE UNCHANGED vars
  BY <1>5, OpsFrame DEF vars, pendVars, dutVars
<1> QED BY <1>1, <1>2, <1>3, <1>4, <1>5, OpsFuzz DEF Next

\* An unwritten block is zero on the board, in memory and in the device.
LEMMA BoardInit == Init => BoardInv
  BY DEF Init, BoardInv, BoardInvAt, NoEntry

\* Steps that leave a block's value and entry alone.
LEMMA BoardAtFrame ==
  ASSUME NEW a \in Addr, BoardInvAt(a),
         board'[a] = board[a], line'[a] = line[a],
         mem'[a] \in {mem[a], line[a]},
         memAlt[a] # NoAlt => memAlt'[a] # NoAlt,
         \A k \in relAcks : k.addr = a => k \in relAcks'
  PROVE  BoardInvAt(a)'
  BY DEF BoardInvAt

\* A step that moves neither values nor ReleaseAcks keeps the board right.
LEMMA BoardFrame ==
  ASSUME BoardInv, UNCHANGED <<board, memAlt, mem, line, relAcks>>
  PROVE  BoardInv'
  BY DEF BoardInv, BoardInvAt

\* A write-back makes memory's value the block's: the board stays right.
LEMMA WriteBackBoard ==
  ASSUME TypeOK, BoardInv, NEW b \in Addr, WriteBack(b)
  PROVE  BoardInv'
<1>1. mem' = [mem EXCEPT ![b] = line[b]] /\ UNCHANGED <<board, memAlt, line, relAcks>>
  BY DEF WriteBack, boardVars, dutVars
<1>2. \A a \in Addr : mem'[a] \in {mem[a], line[a]}
  BY <1>1 DEF TypeOK, TypeShared
<1> QED BY <1>1, <1>2, BoardAtFrame DEF BoardInv

\* fire_a: an alternative that is alive stays alive.
LEMMA BoardFireA ==
  ASSUME TypeOK, BoardInv, NEW c \in Core, FireA(c)
  PROVE  BoardInv'
<1>1. PICK r \in pendingA[c] :
        memAlt' = IF r.op = "CBOInval" /\ ~memorySyncStrict
             THEN [memAlt EXCEPT ![r.addr] = GrantMemoryAlt(memAlt[r.addr])]
             ELSE memAlt
  BY DEF FireA
<1>2. UNCHANGED <<board, mem, line, relAcks>>
  BY DEF FireA
<1>3. \A a \in Addr : memAlt[a] # NoAlt => memAlt'[a] # NoAlt
  BY <1>1 DEF TypeOK, TypeShared, MemoryAlt, GrantMemoryAlt, NoAlt
<1> QED BY <1>2, <1>3, BoardAtFrame DEF BoardInv

\* fire_c: the released value is the block's, pending until the ReleaseAck; the
\* value of a ProbeAckData is the block's at once.
LEMMA BoardFireC ==
  ASSUME TypeOK, BoardInv, NEW c \in Core, FireC(c)
  PROVE  BoardInv'
<1>1. PICK r \in pendingC[c] : FireCBeat(c, r) \/ FireRelease(c, r) \/ FireProbeAck(c, r)
  BY DEF FireC
<1>2. mem' = mem
  BY DEF FireC
<1>3. r.addr \in Addr /\ r.data \in Data
  BY DEF TypeOK, TypePending, ReqC
<1>4. CASE UNCHANGED <<boardVars, line>> /\ relAcks \subseteq relAcks'
  BY <1>2, <1>4, BoardAtFrame DEF BoardInv, boardVars
<1>5. ASSUME memAlt' = [memAlt EXCEPT ![r.addr] = TouchMemoryAlt(memAlt[r.addr])],
             line' = [line EXCEPT ![r.addr] = r.data],
             relAcks \subseteq relAcks',
             NEW e, board' = [board EXCEPT ![r.addr] = e],
             \/ e.status = "VALID" /\ e.data = {r.data} /\ e.pending = {}
             \/ /\ e.status = "PENDING" /\ e.pending = {r.data}
                /\ \E k \in relAcks' : k.addr = r.addr
      PROVE  BoardInv'
  <2> SUFFICES ASSUME InvalsWait, NEW a \in Addr, BoardInvAt(a)
               PROVE  BoardInvAt(a)'
    BY DEF BoardInv, InvalsWait
  <2>1. board'[r.addr] = e /\ line'[r.addr] = r.data
    BY <1>3, <1>5 DEF TypeOK, TypeShared, TypeDevice
  <2>2. CASE a = r.addr
    BY <1>3, <1>5, <2>1, <2>2 DEF BoardInvAt, OneValue
  <2>3. CASE a # r.addr
    <3>1. board'[a] = board[a] /\ line'[a] = line[a] /\ memAlt'[a] = memAlt[a]
      BY <1>5, <2>3 DEF TypeOK, TypeShared, TypeDevice
    <3> QED BY <1>2, <1>5, <3>1, BoardAtFrame
  <2> QED BY <2>2, <2>3
<1>6. CASE FireCBeat(c, r)
  BY <1>4, <1>6 DEF FireCBeat
<1>7. CASE FireRelease(c, r)
  <2>1. PICK k : k.addr = r.addr /\ relAcks' = relAcks \cup {k}
    <3> DEFINE k == [core |-> c, addr |-> r.addr, source |-> The(r.source)]
    <3>1. k.addr = r.addr
      OBVIOUS
    <3>2. relAcks' = relAcks \cup {k}
      BY <1>7 DEF FireRelease
    <3> HIDE DEF k
    <3> QED BY <3>1, <3>2
  <2>2. CASE r.op = "ReleaseData"
    <3>1. /\ board' = [board EXCEPT ![r.addr] = Released(board[r.addr], r.data)]
          /\ memAlt' = [memAlt EXCEPT ![r.addr] = TouchMemoryAlt(memAlt[r.addr])]
          /\ line' = [line EXCEPT ![r.addr] = r.data]
      BY <1>7, <2>2 DEF FireRelease
    <3>2. /\ Released(board[r.addr], r.data).status = "PENDING"
          /\ Released(board[r.addr], r.data).pending = {r.data}
      BY DEF Released
    <3> QED BY <1>5, <2>1, <3>1, <3>2
  <2>3. CASE r.op # "ReleaseData"
    BY <1>4, <1>7, <2>1, <2>3 DEF FireRelease
  <2> QED BY <2>2, <2>3
<1>8. CASE FireProbeAck(c, r)
  <2>1. relAcks' = relAcks
    BY <1>8 DEF FireProbeAck
  <2>2. CASE r.op = "ProbeAckData"
    <3>1. /\ board' = [board EXCEPT ![r.addr] = ProbeWritten(r.data)]
          /\ memAlt' = [memAlt EXCEPT ![r.addr] = TouchMemoryAlt(memAlt[r.addr])]
          /\ line' = [line EXCEPT ![r.addr] = r.data]
      BY <1>8, <2>2 DEF FireProbeAck
    <3>2. /\ ProbeWritten(r.data).status = "VALID"
          /\ ProbeWritten(r.data).data = {r.data}
          /\ ProbeWritten(r.data).pending = {}
      BY DEF ProbeWritten
    <3> QED BY <1>5, <2>1, <3>1, <3>2
  <2>3. CASE r.op # "ProbeAckData"
    BY <1>4, <1>8, <2>1, <2>3 DEF FireProbeAck
  <2> QED BY <2>2, <2>3
<1> QED BY <1>1, <1>6, <1>7, <1>8

\* A ReleaseAck reaches, through idMap, the block that was released: its pending
\* value becomes the valid one.
LEMMA BoardFireReleaseAck ==
  ASSUME TypeOK, MapInv, BoardInv, NEW c \in Core, NEW k \in relAcks, FireReleaseAck(c, k)
  PROVE  BoardInv'
<1>1. k \in AcksOf(c) /\ k.addr \in Addr
  BY DEF FireReleaseAck, AcksOf, TypeOK, TypeDevice, ReleaseAck
<1>2. PICK x \in Alias : idMap[c][k.source] = {[addr |-> k.addr, alias |-> x]}
  BY <1>1 DEF MapInv, MapInvBy
<1>3. /\ board' = [board EXCEPT ![k.addr] = Unpending(board[k.addr])]
      /\ memAlt' = IF board[k.addr].pending = {} THEN memAlt
                   ELSE [memAlt EXCEPT ![k.addr] = TouchMemoryAlt(memAlt[k.addr])]
  <2>1. PICK e \in idMap[c][k.source] :
          /\ board' = [board EXCEPT ![e.addr] = Unpending(board[e.addr])]
          /\ memAlt' = IF board[e.addr].pending = {} THEN memAlt
                       ELSE [memAlt EXCEPT ![e.addr] = TouchMemoryAlt(memAlt[e.addr])]
    BY DEF FireReleaseAck
  <2>2. e.addr = k.addr
    BY <1>2
  <2> QED BY <2>1, <2>2
<1>4. UNCHANGED <<mem, line>> /\ relAcks' = relAcks \ {k}
  BY DEF FireReleaseAck
<1> SUFFICES ASSUME InvalsWait, NEW a \in Addr, BoardInvAt(a)
             PROVE  BoardInvAt(a)'
  BY DEF BoardInv, InvalsWait
<1>5. CASE a # k.addr
  <2>1. board'[a] = board[a] /\ memAlt'[a] = memAlt[a]
    BY <1>1, <1>3, <1>5 DEF TypeOK, TypeShared
  <2>2. \A j \in relAcks : j.addr = a => j \in relAcks'
    BY <1>4, <1>5
  <2> QED BY <1>4, <2>1, <2>2, BoardAtFrame
<1>6. CASE a = k.addr
  <2>1. board'[a] = Unpending(board[a]) /\ line'[a] = line[a] /\ mem'[a] = mem[a]
    BY <1>1, <1>3, <1>4, <1>6 DEF TypeOK, TypeShared
  <2>2. line[a] \in Data /\ board[a].status \in {"NONE", "VALID", "PENDING"}
    BY DEF TypeOK, TypeDevice, TypeShared, Entry
  <2>3. CASE board[a].status = "PENDING"
    <3>1. board[a].pending = {line[a]}
      BY <2>3 DEF BoardInvAt
    <3>2. /\ board'[a].status = "VALID" /\ board'[a].data = {line[a]}
          /\ board'[a].pending = {}
      BY <2>1, <3>1 DEF Unpending
    <3> QED BY <2>1, <2>2, <3>2 DEF BoardInvAt, OneValue
  <2>4. CASE board[a].status # "PENDING"
    <3>1. board[a].pending = {}
      BY <2>2, <2>4 DEF BoardInvAt
    <3>2. board'[a] = board[a] /\ memAlt'[a] = memAlt[a]
      BY <1>3, <1>6, <2>1, <3>1 DEF Unpending
    <3> QED BY <2>1, <2>2, <2>4, <3>2 DEF BoardInvAt
  <2> QED BY <2>3, <2>4
<1> QED BY <1>5, <1>6

\* The alternative of a block with a cbo.inval in flight survives the end of that one.
LEMMA InvalLives ==
  ASSUME TypeOK, AltInv, ~memorySyncStrict, NEW c \in Core, NEW a \in Addr,
         cmo[c][a].op = "CBOInval", cmo[c][a].fired = TRUE
  PROVE  ReclaimMemoryAlt(memAlt[a]) # NoAlt
<1>1. cmo[c][a] = [op |-> "CBOInval", fired |-> TRUE]
  BY DEF TypeOK, TypeIds, PerAddr, CMOStatus
<1>2. c \in Invals(a)
  BY <1>1 DEF Invals
<1>3. IsFiniteSet(Invals(a)) /\ Cardinality(Invals(a)) \in Nat
  BY InvalsFinite
<1>4. Cardinality(Invals(a)) # 0
  BY <1>2, <1>3, FS_EmptySet
<1>5. Lives(memAlt[a], Cardinality(Invals(a)))
  BY DEF AltInv
<1> HIDE DEF Invals
<1> QED BY <1>3, <1>4, <1>5 DEF Lives, ReclaimMemoryAlt, NoAlt

\* A CBOAck: the value goes to memory, or memory's replaces it; then no release of
\* the block is pending, and the alternative lives or the entry is overridden.
LEMMA BoardFireCBOAck ==
  ASSUME TypeOK, CMOInv, AltInv, OpsInv, BoardInv, NEW c \in Core, NEW r \in ReqsOf(c),
         MayAckCBO(r), FireCBOAck(c, r)
  PROVE  BoardInv'
<1> DEFINE a == r.addr
<1>1. a \in Addr /\ r \in reqs
  BY DEF ReqsOf, TypeOK, TypeDevice, ReqA
<1>2. r.op \in CBOOp /\ MayOvertake(r)
  BY DEF MayAckCBO
<1>3. cmo[c][a].op = r.op /\ cmo[c][a].fired = TRUE
  BY <1>2 DEF CMOInv, CMOInvBy
<1>4. /\ memAlt' = IF r.op = "CBOInval" /\ ~memorySyncStrict
           THEN [memAlt EXCEPT ![a] = ReclaimMemoryAlt(memAlt[a])] ELSE memAlt
      /\ board' = IF r.op = "CBOInval" /\ memorySyncStrict
           THEN [board EXCEPT ![a] = Synced(board[a], mem[a])] ELSE board
      /\ mem' = IF r.op = "CBOInval" THEN mem ELSE [mem EXCEPT ![a] = line[a]]
      /\ line' = IF r.op = "CBOInval" THEN [line EXCEPT ![a] = mem[a]] ELSE line
      /\ relAcks' = relAcks
  BY <1>3 DEF FireCBOAck
<1> HIDE DEF a
<1>5. CASE r.op # "CBOInval"
  <2>1. UNCHANGED <<board, memAlt, line, relAcks>>
    BY <1>4, <1>5
  <2>2. \A b \in Addr : mem'[b] \in {mem[b], line[b]}
    BY <1>1, <1>4, <1>5 DEF TypeOK, TypeShared
  <2> QED BY <2>1, <2>2, BoardAtFrame DEF BoardInv
<1>6. CASE r.op = "CBOInval"
  <2> SUFFICES ASSUME InvalsWait, NEW b \in Addr, BoardInvAt(b)
               PROVE  BoardInvAt(b)'
    BY DEF BoardInv, InvalsWait
  <2>1. CASE b # a
    <3>1. /\ board'[b] = board[b] /\ memAlt'[b] = memAlt[b]
          /\ mem'[b] = mem[b] /\ line'[b] = line[b]
      BY <1>1, <1>4, <1>6, <2>1 DEF TypeOK, TypeShared, TypeDevice
    <3> QED BY <1>4, <3>1, BoardAtFrame
  <2>2. CASE b = a
    <3>1. \A k \in relAcks : k.addr # a
      <4>1. Overtake = {}
        BY <1>1, <1>6 DEF InvalsWait, OpsInv
      <4> QED BY <1>2, <4>1 DEF MayOvertake, a
    <3>2. board[a].status # "PENDING"
      BY <2>2, <3>1 DEF BoardInvAt
    <3>3. line'[a] = mem[a] /\ mem'[a] = mem[a] /\ mem[a] \in Data
      BY <1>1, <1>4, <1>6 DEF TypeOK, TypeShared, TypeDevice
    <3>4. board[a] \in Entry
      BY <1>1 DEF TypeOK, TypeShared
    <3>5. CASE memorySyncStrict
      <4>1. board'[a] = Synced(board[a], mem[a])
        BY <1>1, <1>4, <1>6, <3>5 DEF TypeOK, TypeShared
      <4>2. CASE board[a].status = "VALID"
        <5>1. /\ board'[a].status = "VALID" /\ board'[a].data = {mem[a]}
              /\ board'[a].pending = board[a].pending
          BY <3>4, <4>1, <4>2 DEF Synced, Entry
        <5> QED BY <2>2, <3>3, <4>2, <5>1 DEF BoardInvAt, OneValue
      <4>3. CASE board[a].status # "VALID"
        <5>1. board'[a] = board[a]
          BY <4>1, <4>3 DEF Synced
        <5> QED BY <2>2, <3>2, <3>3, <4>3, <5>1 DEF BoardInvAt
      <4> QED BY <4>2, <4>3
    <3>6. CASE ~memorySyncStrict
      <4>1. board'[a] = board[a] /\ memAlt'[a] = ReclaimMemoryAlt(memAlt[a])
        BY <1>1, <1>4, <1>6, <3>6 DEF TypeOK, TypeShared
      <4>2. memAlt'[a] # NoAlt
        BY <1>1, <1>3, <1>6, <3>6, <4>1, InvalLives DEF a
      <4> QED BY <2>2, <3>2, <3>3, <4>1, <4>2 DEF BoardInvAt
    <3> QED BY <3>5, <3>6
  <2> QED BY <2>1, <2>2
<1> QED BY <1>5, <1>6

\* fire_d: only a ReleaseAck and a CBOAck touch the board.
LEMMA BoardFireD ==
  ASSUME TypeOK, MapInv, CMOInv, AltInv, OpsInv, BoardInv, NEW c \in Core, FireD(c)
  PROVE  BoardInv'
<1>1. ASSUME NEW r, NEW perm, FireGrantBeat(c, r, perm) \/ FireGrant(c, r, perm)
      PROVE  BoardInv'
  <2>1. UNCHANGED <<board, memAlt, mem, line, relAcks>>
    BY <1>1 DEF FireGrantBeat, FireGrant, boardVars
  <2> QED BY <2>1, BoardFrame
<1>2. ASSUME NEW r \in reqs, r.core = c, MayAckCBO(r), FireCBOAck(c, r)
      PROVE  BoardInv'
  BY <1>2, BoardFireCBOAck DEF ReqsOf
<1> QED BY <1>1, <1>2, BoardFireReleaseAck DEF FireD

\* Every step keeps the board right.
LEMMA BoardStep ==
  TypeOK /\ MapInv /\ CMOInv /\ AltInv /\ OpsInv /\ BoardInv /\ [Next]_vars => BoardInv'
<1> SUFFICES ASSUME TypeOK, MapInv, CMOInv, AltInv, OpsInv, BoardInv, [Next]_vars
             PROVE  BoardInv'
  OBVIOUS
<1>1. ASSUME NEW c \in Core, FireB(c) \/ FireE(c) \/ Fuzz(c) \/ Update(c)
      PROVE  BoardInv'
  <2>1. UNCHANGED <<board, memAlt, mem, line, relAcks>>
    BY <1>1 DEF FireB, FireE, Fuzz, Update, boardVars, dutVars
  <2> QED BY <2>1, BoardFrame
<1>2. CASE UNCHANGED vars
  <2>1. UNCHANGED <<board, memAlt, mem, line, relAcks>>
    BY <1>2 DEF vars, boardVars, dutVars
  <2> QED BY <2>1, BoardFrame
<1> QED BY <1>1, <1>2, WriteBackBoard, BoardFireA, BoardFireC, BoardFireD DEF Next

\* The board is right in every reachable state.
LEMMA BoardHolds == Spec => [](TypeOK /\ OpsInv /\ BoardInv)
<1>1. Init => OpsInv /\ BoardInv
  BY OpsInit, BoardInit
<1>2. TypeOK /\ OpsInv /\ [Next]_vars => OpsInv'
  BY OpsStep
<1>3. TypeOK /\ MapInv /\ CMOInv /\ AltInv /\ OpsInv /\ BoardInv /\ [Next]_vars => BoardInv'
  BY BoardStep
<1> QED BY <1>1, <1>2, <1>3, CMOHolds, PTL DEF Spec

\* As long as no cbo.inval overtakes a ReleaseAck of its block, the scoreboard accepts
\* the block's present value in every state (verify of ScoreBoard.h): a mismatch that
\* the tester reports on a GrantData is the device's.
THEOREM OracleNeverWrong ==
  ASSUME InvalsWait
  PROVE  Spec => []OracleSound
<1>1. TypeOK /\ BoardInv => OracleSound
  <2> SUFFICES ASSUME TypeOK, NEW a \in Addr, BoardInvAt(a)
               PROVE  line[a] \in Accepted(board[a], memAlt[a], mem[a])
    BY DEF BoardInv, OracleSound
  <2>1. board[a].status \in {"NONE", "VALID", "PENDING"}
    BY DEF TypeOK, TypeShared, Entry
  <2> QED BY <2>1 DEF BoardInvAt, Accepted
<1> QED BY <1>1, BoardHolds, PTL

\* Under the same condition, with no release to be acknowledged and no alternative
\* alive the scoreboard accepts nothing else: no corrupted GrantData goes unreported.
THEOREM OracleMissesNothing ==
  ASSUME InvalsWait
  PROVE  Spec => []OracleExact
<1>1. TypeOK /\ BoardInv => OracleExact
  <2> SUFFICES ASSUME TypeOK, NEW a \in Addr, BoardInvAt(a), memAlt[a] = NoAlt,
                      \A c \in Core : AcksFor(c, a) = {}
               PROVE  Accepted(board[a], memAlt[a], mem[a]) = {line[a]}
    BY DEF BoardInv, OracleExact
  <2>1. board[a].status \in {"NONE", "VALID", "PENDING"}
    BY DEF TypeOK, TypeShared, Entry
  <2>2. \A k \in relAcks : k.addr # a
    BY DEF AcksFor, TypeOK, TypeDevice, ReleaseAck
  <2>3. CASE board[a].status = "NONE"
    BY <2>3 DEF BoardInvAt, Accepted
  <2>4. CASE board[a].status = "VALID"
    <3>1. board[a].data = {line[a]}
      BY <2>4 DEF BoardInvAt, OneValue
    <3> QED BY <2>4, <3>1 DEF Accepted
  <2> QED BY <2>1, <2>2, <2>3, <2>4 DEF BoardInvAt
<1> QED BY <1>1, BoardHolds, PTL
=============================================================================
