----------------------- MODULE CAgentAssertionProofs ------------------------
(***************************************************************************)
(* The assertions of the agents: the statuses tell of the messages in      *)
(* flight, what C reports is true, every answer finds a time stamp, every  *)
(* status is one its handler accepts, every probe finds data to be         *)
(* answered with.  Together: no tlc_assert fails, and the agents implement *)
(* CoherentMemory.                                                         *)
(***************************************************************************)
EXTENDS CAgentProofs

-----------------------------------------------------------------------------
(* Agents a step does not concern *)

\* What an agent keeps of its own, and what it has in flight.
ownVars(d) ==
  <<known[d], status[d], privilege[d], dirty[d], dir[d], pendingA[d], pendingB[d],
    pendingC[d], pendingD[d], pendingE[d], idMap[d], cmo[d], stampA[d], stampC[d],
    probePool[d], ReqsOf(d), AcksOf(d)>>

\* fire_a of one agent leaves the others what they have.
LEMMA ElsewhereA ==
  ASSUME TypeOK, IdInv, NEW c \in Core, FireA(c), NEW d \in Core \ {c}
  PROVE  UNCHANGED ownVars(d)
<1>1. PICK r \in pendingA[c] : FireA(c)!2!(r)
  BY DEF FireA
<1>2. r.core = c /\ r \in ReqA /\ r.addr \in Addr /\ r.alias \in Alias
  BY DEF IdInv, IdInvBy, OnePending, TypeOK, TypePending, ReqA
<1>3. UNCHANGED <<known, privilege, dirty, dir, pendingB, pendingC, pendingD, pendingE,
                  idMap, stampC, probePool, relAcks>>
  BY DEF FireA, idVars
<1>4. /\ pendingA' = [pendingA EXCEPT ![c] = {}]
      /\ reqs' = reqs \cup {r}
      /\ stampA' = [stampA EXCEPT ![c] = @ \cup {r.addr}]
  BY <1>1
<1>5. \/ \E v : status' = [status EXCEPT ![c][r.addr] = v]
      \/ \E v : status' = [status EXCEPT ![c][r.addr][r.alias] = v]
  BY <1>1
<1>6. cmo' = cmo \/ \E v : cmo' = [cmo EXCEPT ![c][r.addr] = v]
  BY <1>1
<1>7. status'[d] = status[d] /\ cmo'[d] = cmo[d]
  BY <1>5, <1>6 DEF TypeOK, TypeEntries, TypeIds, PerBlock, PerAddr
<1>8. pendingA'[d] = pendingA[d] /\ stampA'[d] = stampA[d]
  BY <1>4 DEF TypeOK, TypePending, TypeIds
<1>9. ReqsOf(d)' = ReqsOf(d) /\ AcksOf(d)' = AcksOf(d)
  BY <1>2, <1>3, <1>4 DEF ReqsOf, AcksOf
<1> QED BY <1>3, <1>7, <1>8, <1>9 DEF ownVars

\* So do fire_b and fire_e.
LEMMA ElsewhereBE ==
  ASSUME TypeOK, NEW c \in Core, FireB(c) \/ FireE(c), NEW d \in Core \ {c}
  PROVE  UNCHANGED ownVars(d)
<1>1. UNCHANGED <<known, privilege, dirty, dir, pendingA, pendingC, pendingD,
                  idMap, cmo, stampA, stampC, probePool, reqs, relAcks>>
  BY DEF FireB, FireE, entryVars, idVars, timeVars
<1>2. /\ pendingB' = pendingB \/ \E v : pendingB' = [pendingB EXCEPT ![c] = v]
      /\ pendingE' = pendingE \/ \E v : pendingE' = [pendingE EXCEPT ![c] = v]
      /\ status' = status \/ \E a, x, v : status' = [status EXCEPT ![c][a][x] = v]
  BY DEF FireB, FireE, entryVars
<1>3. /\ pendingB'[d] = pendingB[d] /\ pendingE'[d] = pendingE[d]
      /\ status'[d] = status[d]
  BY <1>2 DEF TypeOK, TypePending, TypeEntries, PerBlock
<1> QED BY <1>1, <1>3 DEF ownVars, ReqsOf, AcksOf

\* So does fire_c.
LEMMA ElsewhereC ==
  ASSUME TypeOK, NEW c \in Core, FireC(c), NEW d \in Core \ {c}
  PROVE  UNCHANGED ownVars(d)
<1>1. PICK r \in pendingC[c] : FireCBeat(c, r) \/ FireRelease(c, r) \/ FireProbeAck(c, r)
  BY DEF FireC
<1>2. UNCHANGED <<known, pendingA, pendingB, pendingD, pendingE, idMap, cmo, stampA, reqs>>
  BY DEF FireC
<1>3. /\ pendingC'[d] = pendingC[d] /\ stampC'[d] = stampC[d] /\ probePool'[d] = probePool[d]
      /\ status'[d] = status[d] /\ privilege'[d] = privilege[d]
      /\ dirty'[d] = dirty[d] /\ dir'[d] = dir[d]
  <2> USE DEF TypeOK, TypePending, TypeEntries, TypeIds, TypeDevice, PerBlock
  <2>1. CASE FireCBeat(c, r)
    BY <2>1 DEF FireCBeat
  <2>2. CASE FireRelease(c, r)
    BY <2>2 DEF FireRelease
  <2>3. CASE FireProbeAck(c, r)
    BY <2>3 DEF FireProbeAck
  <2> QED BY <1>1, <2>1, <2>2, <2>3
<1>4. relAcks' = relAcks \/ relAcks' = relAcks \cup
        {[core |-> c, addr |-> r.addr, source |-> The(r.source)]}
  BY <1>1 DEF FireCBeat, FireRelease, FireProbeAck
<1>5. ReqsOf(d)' = ReqsOf(d) /\ AcksOf(d)' = AcksOf(d)
  BY <1>2, <1>4 DEF ReqsOf, AcksOf
<1> QED BY <1>2, <1>3, <1>5 DEF ownVars

\* An id that is freed is freed in its own agent's pool.
LEMMA FreedElsewhere ==
  ASSUME TypeOK, NEW c \in Core, NEW d \in Core \ {c}, NEW a, NEW s,
         MapLatency(c, a), FreeSource(c, s)
  PROVE  idMap'[d] = idMap[d] /\ stampA'[d] = stampA[d] /\ stampC'[d] = stampC[d]
  BY DEF MapLatency, FreeSource, TypeOK, TypeIds

\* fire_d of one agent leaves the others what they have.
LEMMA ElsewhereD ==
  ASSUME TypeOK, IdInv, NEW c \in Core, FireD(c), NEW d \in Core \ {c}
  PROVE  UNCHANGED ownVars(d)
<1>1. UNCHANGED <<known, pendingA, pendingB, pendingC, probePool>>
  BY DEF FireD
<1>2. /\ pendingD'[d] = pendingD[d] /\ pendingE'[d] = pendingE[d]
      /\ stampA'[d] = stampA[d] /\ stampC'[d] = stampC[d]
      /\ idMap'[d] = idMap[d] /\ cmo'[d] = cmo[d]
      /\ status'[d] = status[d] /\ privilege'[d] = privilege[d]
      /\ dirty'[d] = dirty[d] /\ dir'[d] = dir[d]
      /\ ReqsOf(d)' = ReqsOf(d) /\ AcksOf(d)' = AcksOf(d)
  <2>1. ASSUME NEW k \in relAcks, FireReleaseAck(c, k)
        PROVE  <1>2
    <3>1. PICK e \in idMap[c][k.source] : FireReleaseAck(c, k)!2!(e)
      BY <2>1 DEF FireReleaseAck
    <3>2. /\ status' = [status EXCEPT ![c][e.addr][e.alias] =
                          AfterReleaseAck(status[c][e.addr][e.alias])]
          /\ MapLatency(c, e.addr)
      BY <3>1
    <3>3. /\ k.core = c /\ FreeSource(c, k.source) /\ relAcks' = relAcks \ {k}
          /\ UNCHANGED <<privilege, dirty, cmo, pendingD, pendingE, reqs, dir>>
      BY <2>1 DEF FireReleaseAck
    <3>4. ReqsOf(d)' = ReqsOf(d) /\ AcksOf(d)' = AcksOf(d)
      BY <3>3 DEF ReqsOf, AcksOf
    <3>5. status'[d] = status[d]
      BY <3>2 DEF TypeOK, TypeEntries, PerBlock
    <3> QED BY <3>2, <3>3, <3>4, <3>5, FreedElsewhere
  <2>2. ASSUME NEW r \in reqs, NEW perm \in TLPermission, FireGrantBeat(c, r, perm)
        PROVE  <1>2
    <3>1. /\ pendingD' = [pendingD EXCEPT ![c] = {[req |-> r, perm |-> perm]}]
          /\ UNCHANGED <<status, privilege, dirty, cmo, stampA, stampC, idMap, pendingE,
                         reqs, relAcks, dir>>
      BY <2>2 DEF FireGrantBeat
    <3>2. pendingD'[d] = pendingD[d]
      BY <3>1 DEF TypeOK, TypePending
    <3> QED BY <3>1, <3>2 DEF ReqsOf, AcksOf
  <2>3. ASSUME NEW r \in reqs, NEW perm \in TLPermission, r.core = c, FireGrant(c, r, perm)
        PROVE  <1>2
    <3>1. PICK e \in idMap[c][r.source] : FireGrant(c, r, perm)!(e)
      BY <2>3 DEF FireGrant
    <3>2. /\ status' = [status EXCEPT ![c][e.addr][e.alias] = "S_SENDING_E"]
          /\ privilege' = [privilege EXCEPT ![c][e.addr][e.alias] = perm]
          /\ dirty' = dirty \/ dirty' = [dirty EXCEPT ![c][e.addr][e.alias] = TRUE]
          /\ dir' = [dir EXCEPT ![c][r.addr][r.alias] = perm]
          /\ pendingD' = [pendingD EXCEPT ![c] = {}]
          /\ pendingE' = [pendingE EXCEPT ![c] = {e}]
          /\ MapLatency(c, e.addr)
          /\ FreeSource(c, r.source)
          /\ reqs' = reqs \ {r}
          /\ UNCHANGED <<cmo, relAcks>>
      BY <3>1
    <3>3. ReqsOf(d)' = ReqsOf(d) /\ AcksOf(d)' = AcksOf(d)
      BY <2>3, <3>2 DEF ReqsOf, AcksOf
    <3>4. pendingD'[d] = pendingD[d] /\ pendingE'[d] = pendingE[d]
      BY <3>2 DEF TypeOK, TypePending
    <3>5. /\ status'[d] = status[d] /\ privilege'[d] = privilege[d]
          /\ dirty'[d] = dirty[d] /\ dir'[d] = dir[d]
      BY <3>2 DEF TypeOK, TypeEntries, TypeDevice, PerBlock
    <3> QED BY <3>2, <3>3, <3>4, <3>5, FreedElsewhere
  <2>4. ASSUME NEW r \in reqs, r.core = c, FireCBOAck(c, r)
        PROVE  <1>2
    <3>1. /\ \E v : status' = [status EXCEPT ![c][r.addr] = v]
          /\ cmo' = [cmo EXCEPT ![c][r.addr] = [op |-> "none", fired |-> FALSE]]
          /\ MapLatency(c, r.addr)
          /\ FreeSource(c, r.source)
          /\ reqs' = reqs \ {r}
          /\ UNCHANGED <<privilege, dirty, pendingD, pendingE, relAcks, dir>>
      BY <2>4 DEF FireCBOAck
    <3>2. ReqsOf(d)' = ReqsOf(d) /\ AcksOf(d)' = AcksOf(d)
      BY <2>4, <3>1 DEF ReqsOf, AcksOf
    <3>3. status'[d] = status[d] /\ cmo'[d] = cmo[d]
      BY <3>1 DEF TypeOK, TypeEntries, TypeIds, PerBlock, PerAddr
    <3> QED BY <3>1, <3>2, <3>3, FreedElsewhere
  <2>5. \A p \in pendingD[c] : p.req \in reqs /\ p.req.core = c /\ p.perm \in TLPermission
    BY DEF IdInv, IdInvBy, GrantOwed, ReqsOf, TypeOK, TypePending
  <2> QED BY <2>1, <2>2, <2>3, <2>4, <2>5 DEF FireD
<1> QED BY <1>1, <1>2 DEF ownVars

\* So does the tick of a fuzzer.
LEMMA ElsewhereFuzz ==
  ASSUME TypeOK, NEW c \in Core, Fuzz(c), NEW d \in Core \ {c}
  PROVE  UNCHANGED ownVars(d)
<1>1. UNCHANGED <<entryVars, pendingB, pendingD, pendingE, idMap, probePool, stampA,
                  stampC, reqs, relAcks, dir>>
  BY DEF Fuzz, dutVars
<1>2. pendingA'[d] = pendingA[d] /\ pendingC'[d] = pendingC[d] /\ cmo'[d] = cmo[d]
  <2> USE DEF TypeOK, TypePending, TypeIds, PerAddr
  <2>1. ASSUME NEW i, NEW op, NEW a, NEW x, NEW param, DoAcquire(c, i, op, a, x, param)
        PROVE  <1>2
    BY <2>1 DEF DoAcquire
  <2>2. ASSUME NEW i, NEW a, NEW x, DoReleaseDataAuto(c, i, a, x)
        PROVE  <1>2
    BY <2>2 DEF DoReleaseDataAuto
  <2>3. ASSUME NEW i, NEW op, NEW a, DoCBO(c, i, op, a)
        PROVE  <1>2
    BY <2>3 DEF DoCBO
  <2> QED BY <2>1, <2>2, <2>3 DEF Fuzz
<1> QED BY <1>1, <1>2 DEF ownVars, entryVars, ReqsOf, AcksOf

\* So does update_signal.
LEMMA ElsewhereUpdate ==
  ASSUME TypeOK, NEW c \in Core, Update(c), NEW d \in Core \ {c}
  PROVE  UNCHANGED ownVars(d)
<1>1. UNCHANGED <<privilege, dirty, dir, pendingA, pendingD, pendingE, cmo, stampA,
                  stampC, reqs, relAcks>>
  BY DEF Update, timeVars, dutVars
<1>2. /\ \E v : known' = [known EXCEPT ![c] = v]
      /\ \E v : pendingC' = [pendingC EXCEPT ![c] = v]
      /\ \E v : status' = [status EXCEPT ![c] = v]
      /\ \E v : idMap' = [idMap EXCEPT ![c] = v]
      /\ \E v : probePool' = [probePool EXCEPT ![c] = v]
      /\ pendingB' = pendingB \/ \E v : pendingB' = [pendingB EXCEPT ![c] = v]
  BY DEF Update, NoHandleB, HandleB, SendC
<1>3. /\ known'[d] = known[d] /\ pendingC'[d] = pendingC[d] /\ status'[d] = status[d]
      /\ idMap'[d] = idMap[d] /\ probePool'[d] = probePool[d] /\ pendingB'[d] = pendingB[d]
  BY <1>2 DEF TypeOK, TypePending, TypeEntries, TypeIds
<1> QED BY <1>1, <1>3 DEF ownVars, ReqsOf, AcksOf

-----------------------------------------------------------------------------
(* Statuses and messages *)

\* The Acquire has left; a report of the Acquire's own block waits on C; any report
\* of the block waits on C.
AWaiting == {"S_A_WAITING_D", "S_A_WAITING_D_INTR", "S_A_WAITING_D_NESTED_SENDING_C"}
Nested == {"S_SENDING_A_NESTED_SENDING_C", "S_A_WAITING_D_INTR",
           "S_A_WAITING_D_NESTED_SENDING_C"}
OnC == SendingC \cup Nested

\* The messages that a block's status tells of.
AcquireOn(c, a, x) ==
  \E r \in pendingA[c] : r.op \in AcquireOp /\ r.addr = a /\ r.alias = x
CBOOn(c, a) == \E r \in pendingA[c] : r.op \in CBOOp /\ r.addr = a
AcquireOut(c, a, x) ==
  \E r \in ReqsOf(c) : r.op \in AcquireOp /\ r.addr = a /\ r.alias = x
CBOOut(c, a) == \E r \in ReqsOf(c) : r.op \in CBOOp /\ r.addr = a
AckOwed(c, a, x) ==
  \E k \in AcksOf(c) : idMap[c][k.source] = {[addr |-> a, alias |-> x]}

\* The messages of a block in status s; only a known block has a status.
Messages(c, s, a, x) ==
  /\ s \in AcquireFirable => AcquireOn(c, a, x)
  /\ s \in AWaiting <=> AcquireOut(c, a, x)
  /\ s \in CBOSending => CBOOn(c, a)
  /\ s \in CBOAwaitingD <=> CBOOut(c, a)
  /\ s \in OnC => Presents(pendingC[c], a, x)
  /\ s \in AwaitingReleaseAck <=> AckOwed(c, a, x)
  /\ s = "S_SENDING_E" <=> Presents(pendingE[c], a, x)
Tells(c, s, a, x) == (s # "S_INVALID" => a \in known[c]) /\ Messages(c, s, a, x)

\* The statuses under which the fuzzer asks for r: send_a has not seen it yet.
AskedA(c, r) ==
  \A x \in Alias :
    \/ status[c][r.addr][x] \in Idle /\ ~Presents(pendingC[c], r.addr, x)
    \/ r.op \in CBOOp /\ status[c][r.addr][x] \in {"S_SENDING_C", "S_C_WAITING_D"}

\* The statuses of the blocks with a request on A, and on C.
TellsA(c, r) ==
  \/ Unpresented(c) /\ AskedA(c, r)
  \/ r.op \in AcquireOp /\ status[c][r.addr][r.alias] \in AcquireFirable
  \/ r.op \in CBOOp /\ \A x \in Alias : status[c][r.addr][x] \in CBOSending
TellsC(c, r) ==
  LET s == status[c][r.addr][r.alias] IN
  IF r.op \in ReleaseOp
  THEN s \in SendingC \/ (Unpresented(c) /\ s = "S_VALID")
  ELSE s \in OnC

\* A block has one request on A or to be answered, and one ReleaseAck to come.
OneEach(c) ==
  /\ \A q, r \in ReqsOf(c) : q.addr = r.addr => q = r
  /\ \A r \in pendingA[c], q \in ReqsOf(c) : q.addr # r.addr
  /\ \A j, k \in AcksOf(c) : idMap[c][j.source] = idMap[c][k.source] => j = k
  /\ \A e, f \in pendingE[c] : e = f

\* The inductive strengthening of StatusTracksMessages.
StatusInvBy(c) ==
  /\ \A a \in Addr, x \in Alias : Tells(c, status[c][a][x], a, x)
  /\ \A r \in pendingA[c] : TellsA(c, r)
  /\ \A r \in pendingC[c] : TellsC(c, r)
  /\ OneEach(c)
StatusInv == failed = {} => \A c \in Core : StatusInvBy(c)

\* A step of another agent, and steps that move no message of this one.
LEMMA StatusFrame ==
  ASSUME NEW d \in Core, StatusInvBy(d), Unpresented(d) => Unpresented(d)',
         UNCHANGED <<known[d], status[d], pendingA[d], pendingC[d], pendingE[d], idMap[d],
                     ReqsOf(d), AcksOf(d)>>
  PROVE  StatusInvBy(d)'
<1>1. \A a \in Addr, x \in Alias : Tells(d, status[d][a][x], a, x)'
  BY DEF StatusInvBy, Tells, Messages, AcquireOn, AcquireOut, CBOOn, CBOOut, AckOwed, Presents
<1>2. \A r \in pendingA'[d] : TellsA(d, r)'
  BY DEF StatusInvBy, TellsA, AskedA, Presents
<1>3. \A r \in pendingC'[d] : TellsC(d, r)'
  BY DEF StatusInvBy, TellsC
<1>4. OneEach(d)'
  BY DEF StatusInvBy, OneEach
<1> QED BY <1>1, <1>2, <1>3, <1>4 DEF StatusInvBy

\* Every block is invalid at first, and nothing is in flight.
LEMMA StatusInit == Init => StatusInv
<1> SUFFICES ASSUME Init, NEW c \in Core PROVE StatusInvBy(c)
  BY DEF StatusInv
<1>1. /\ pendingA[c] = {} /\ pendingC[c] = {} /\ pendingE[c] = {}
      /\ ReqsOf(c) = {} /\ AcksOf(c) = {}
      /\ \A a \in Addr, x \in Alias : status[c][a][x] = "S_INVALID"
  BY DEF Init, ReqsOf, AcksOf
<1>2. \A a \in Addr, x \in Alias : Tells(c, status[c][a][x], a, x)
  BY <1>1 DEF Tells, Messages, AcquireOut, CBOOut, AckOwed, Presents, AcquireFirable, AWaiting,
              CBOSending, CBOAwaitingD, OnC, SendingC, Nested, AwaitingReleaseAck
<1> QED BY <1>1, <1>2 DEF StatusInvBy, OneEach

\* An Acquire leaves the port.
LEMMA AcquireLeaves ==
  ASSUME NEW s \in AcquireFirable
  PROVE  LET t == AfterFireAcquire(s) IN
         /\ t \in AWaiting /\ t \notin AcquireFirable \cup CBOSending \cup CBOAwaitingD
         /\ t \notin AwaitingReleaseAck /\ t \notin {"S_SENDING_E", "S_INVALID"}
         /\ t \in OnC <=> s \in OnC
         /\ s \notin AWaiting \cup CBOSending \cup CBOAwaitingD \cup AwaitingReleaseAck \cup Idle
         /\ s \notin SendingC /\ s \notin {"S_SENDING_E", "S_INVALID"}
  BY DEF AcquireFirable, AfterFireAcquire, AWaiting, CBOSending, CBOAwaitingD, OnC,
         SendingC, Nested, AwaitingReleaseAck, Idle

\* A CBO leaves the port.
LEMMA CBOLeaves ==
  ASSUME NEW s \in CBOSending
  PROVE  LET t == AfterFireCBO(s) IN
         /\ t \in CBOAwaitingD /\ t \notin AcquireFirable \cup CBOSending \cup AWaiting
         /\ t \notin {"S_SENDING_E", "S_INVALID"}
         /\ t \in AwaitingReleaseAck <=> s \in AwaitingReleaseAck
         /\ t \in OnC <=> s \in OnC
         /\ t \in SendingC <=> s \in OnC
         /\ s \notin AWaiting \cup AcquireFirable \cup CBOAwaitingD \cup Idle
         /\ s \notin {"S_SENDING_E", "S_INVALID"}
  BY DEF AcquireFirable, AfterFireCBO, AWaiting, CBOSending, CBOAwaitingD, OnC,
         SendingC, Nested, AwaitingReleaseAck, Idle

\* fire_a: the request goes from the port to the device, its blocks to a waiting status.
LEMMA StatusFireA ==
  ASSUME TypeOK, IdInv, NEW c \in Core, FireA(c), StatusInvBy(c), failed' = {}
  PROVE  StatusInvBy(c)'
<1>1. PICK r \in pendingA[c] : FireA(c)!2!(r)
  BY DEF FireA
<1>2. r.core = c /\ r \in ReqA /\ r.addr \in Addr /\ r.alias \in Alias /\ pendingA[c] = {r}
  BY DEF IdInv, IdInvBy, OnePending, TypeOK, TypePending, ReqA
<1>3. UNCHANGED <<known, pendingC, pendingE, idMap, relAcks>>
  BY DEF FireA, idVars
<1>4. pendingA'[c] = {} /\ ReqsOf(c)' = ReqsOf(c) \cup {r} /\ AcksOf(c)' = AcksOf(c)
  BY <1>1, <1>2, <1>3 DEF ReqsOf, AcksOf, TypeOK, TypePending
<1>5. ~Unpresented(c)
  BY Fired DEF FireA
<1> DEFINE s(a, x) == status[c][a][x]
<1>6. \A a \in Addr, x \in Alias : Tells(c, s(a, x), a, x)
  BY DEF StatusInvBy
<1>7. \A q \in pendingC[c] : TellsC(c, q)
  BY DEF StatusInvBy
<1>8. ASSUME \A a \in Addr, x \in Alias : Tells(c, s(a, x), a, x)',
             \A q \in pendingC[c] : TellsC(c, q)'
      PROVE  StatusInvBy(c)'
  <2>1. OneEach(c)'
    BY <1>2, <1>3, <1>4 DEF StatusInvBy, OneEach
  <2> QED BY <1>3, <1>4, <1>8, <2>1 DEF StatusInvBy
<1>9. CASE r.op \in CBOOp
  <2>1. \A x \in Alias : s(r.addr, x) \in CBOSending
    BY <1>1, <1>9 DEF Check
  <2>2. \A a \in Addr, x \in Alias :
          s(a, x)' = IF a = r.addr THEN AfterFireCBO(s(a, x)) ELSE s(a, x)
    BY <1>1, <1>2, <1>9 DEF TypeOK, TypeEntries, PerBlock
  <2>3. r.op \notin AcquireOp
    BY <1>9 DEF CBOOp, AcquireOp
  <2>4. CBOOut(c, r.addr)' /\ \A a \in Addr \ {r.addr} : CBOOut(c, a)' = CBOOut(c, a)
    BY <1>4, <1>9 DEF CBOOut
  <2>5. \A a \in Addr, x \in Alias : AcquireOut(c, a, x)' = AcquireOut(c, a, x)
    BY <1>4, <2>3 DEF AcquireOut
  <2>6. ASSUME NEW a \in Addr, NEW x \in Alias
        PROVE  Tells(c, s(a, x), a, x)'
    <3>1. CASE a = r.addr
      <4>1. /\ status'[c][a][x] = AfterFireCBO(s(a, x)) /\ s(a, x) \in CBOSending
            /\ CBOOut(c, a)'
        BY <2>1, <2>2, <2>4, <3>1
      <4>2. UNCHANGED <<pendingC[c], pendingE[c], AckOwed(c, a, x), AcquireOut(c, a, x), known[c]>>
        BY <1>3, <1>4, <2>5 DEF AckOwed
      <4>3. Tells(c, s(a, x), a, x)
        BY <1>6
      <4> QED BY <4>1, <4>2, <4>3, CBOLeaves DEF Tells, Messages, Presents
    <3>2. CASE a # r.addr
      <4>1. ~AcquireOn(c, a, x) /\ ~CBOOn(c, a)
        BY <1>2, <3>2 DEF AcquireOn, CBOOn
      <4> QED BY <1>3, <1>4, <1>6, <2>2, <2>4, <2>5, <3>2, <4>1
              DEF Tells, Messages, Presents, AckOwed
    <3> QED BY <3>1, <3>2
  <2>7. \A q \in pendingC[c] : TellsC(c, q)'
    <3> SUFFICES ASSUME NEW q \in pendingC[c] PROVE TellsC(c, q)'
      OBVIOUS
    <3>1. TellsC(c, q) /\ q.addr \in Addr /\ q.alias \in Alias
      BY <1>7, ReqCFields DEF TypeOK, TypePending
    <3>2. SendingC \subseteq OnC
      BY DEF OnC
    <3> QED BY <1>5, <2>1, <2>2, <3>1, <3>2, CBOLeaves DEF TellsC
  <2> QED BY <1>8, <2>6, <2>7
<1>10. CASE r.op \in AcquireOp
  <2>1. r.op \notin CBOOp
    BY <1>10 DEF CBOOp, AcquireOp
  <2>2. /\ s(r.addr, r.alias) \in AcquireFirable
        /\ status' = [status EXCEPT ![c][r.addr][r.alias] = AfterFireAcquire(s(r.addr, r.alias))]
    BY <1>1, <2>1 DEF Check
  <2>3. \A a \in Addr, x \in Alias :
          s(a, x)' = IF a = r.addr /\ x = r.alias THEN AfterFireAcquire(s(a, x)) ELSE s(a, x)
    BY <1>2, <2>2 DEF TypeOK, TypeEntries, PerBlock
  <2>4. \A a \in Addr : CBOOut(c, a)' = CBOOut(c, a)
    BY <1>4, <2>1 DEF CBOOut
  <2>5. /\ AcquireOut(c, r.addr, r.alias)'
        /\ \A a \in Addr, x \in Alias :
             <<a, x>> # <<r.addr, r.alias>> => AcquireOut(c, a, x)' = AcquireOut(c, a, x)
    BY <1>4, <1>10 DEF AcquireOut
  <2>6. ASSUME NEW a \in Addr, NEW x \in Alias
        PROVE  Tells(c, s(a, x), a, x)'
    <3>1. CASE a = r.addr /\ x = r.alias
      <4>1. /\ status'[c][a][x] = AfterFireAcquire(s(a, x)) /\ s(a, x) \in AcquireFirable
            /\ AcquireOut(c, a, x)'
        BY <2>2, <2>3, <2>5, <3>1
      <4>2. UNCHANGED <<pendingC[c], pendingE[c], AckOwed(c, a, x), CBOOut(c, a), known[c]>>
        BY <1>3, <1>4, <2>4 DEF AckOwed
      <4>3. Tells(c, s(a, x), a, x)
        BY <1>6
      <4> QED BY <4>1, <4>2, <4>3, AcquireLeaves DEF Tells, Messages, Presents
    <3>2. CASE ~(a = r.addr /\ x = r.alias)
      <4>1. ~AcquireOn(c, a, x) /\ ~CBOOn(c, a)
        BY <1>2, <2>1, <3>2 DEF AcquireOn, CBOOn
      <4> QED BY <1>3, <1>4, <1>6, <2>3, <2>4, <2>5, <3>2, <4>1
              DEF Tells, Messages, Presents, AckOwed
    <3> QED BY <3>1, <3>2
  <2>7. \A q \in pendingC[c] : TellsC(c, q)'
    <3> SUFFICES ASSUME NEW q \in pendingC[c] PROVE TellsC(c, q)'
      OBVIOUS
    <3>1. TellsC(c, q) /\ q.addr \in Addr /\ q.alias \in Alias
      BY <1>7, ReqCFields DEF TypeOK, TypePending
    <3> QED BY <1>5, <2>2, <2>3, <3>1, AcquireLeaves DEF TellsC
  <2> QED BY <1>8, <2>6, <2>7
<1> QED BY <1>2, <1>9, <1>10 DEF ReqA

\* Requests that stay on A and on C while the statuses of their blocks move on.
LEMMA TellsKept ==
  ASSUME TypeOK, NEW c \in Core, StatusInvBy(c), ~Unpresented(c),
         pendingA'[c] = pendingA[c], pendingC'[c] \subseteq pendingC[c],
         \A q \in pendingC'[c] : LET s == status[c][q.addr][q.alias]
                                     t == status'[c][q.addr][q.alias]
                                 IN  (s \in SendingC => t \in SendingC) /\ (s \in OnC => t \in OnC),
         \A a \in Addr, x \in Alias :
           LET s == status[c][a][x]
               t == status'[c][a][x]
           IN  /\ s \in AcquireFirable => t \in AcquireFirable
               /\ s \in CBOSending => t \in CBOSending
  PROVE  /\ \A r \in pendingA'[c] : TellsA(c, r)'
         /\ \A r \in pendingC'[c] : TellsC(c, r)'
<1>1. ASSUME NEW r \in pendingA[c]
      PROVE  TellsA(c, r)'
  <2>1. r.addr \in Addr /\ r.alias \in Alias
    BY DEF TypeOK, TypePending, ReqA
  <2>2. TellsA(c, r)
    BY DEF StatusInvBy
  <2> QED BY <2>1, <2>2 DEF TellsA
<1>2. ASSUME NEW r \in pendingC'[c]
      PROVE  TellsC(c, r)'
  <2>1. TellsC(c, r)
    BY DEF StatusInvBy
  <2> QED BY <2>1 DEF TellsC
<1> QED BY <1>1, <1>2

\* A Release leaves the port.
LEMMA ReleaseLeaves ==
  ASSUME NEW s \in SendingC
  PROVE  LET t == AfterFireRelease(s) IN
         /\ t \in AwaitingReleaseAck /\ t \notin OnC \cup AcquireFirable \cup AWaiting
         /\ t \in CBOSending <=> s \in CBOSending
         /\ t \in CBOAwaitingD <=> s \in CBOAwaitingD
         /\ s \in OnC /\ s \notin AwaitingReleaseAck \cup AcquireFirable \cup AWaiting
         /\ s \notin {"S_SENDING_E", "S_INVALID"} /\ t \notin {"S_SENDING_E", "S_INVALID"}
  BY DEF AcquireFirable, AfterFireRelease, AWaiting, CBOSending, CBOAwaitingD, OnC,
         SendingC, Nested, AwaitingReleaseAck

\* A ProbeAck leaves the port.
LEMMA ProbeAckLeaves ==
  ASSUME NEW s \in OnC, NEW param
  PROVE  LET t == AfterFireProbeAck(s, param) IN
         /\ t \notin OnC \cup AwaitingReleaseAck /\ s \notin AwaitingReleaseAck
         /\ t \in AcquireFirable <=> s \in AcquireFirable
         /\ t \in AWaiting <=> s \in AWaiting
         /\ t \in CBOSending <=> s \in CBOSending
         /\ t \in CBOAwaitingD <=> s \in CBOAwaitingD
         /\ s \notin {"S_SENDING_E", "S_INVALID"} /\ t # "S_SENDING_E"
  BY DEF AcquireFirable, AfterFireProbeAck, AWaiting, CBOSending, CBOAwaitingD, OnC,
         SendingC, Nested, AwaitingReleaseAck

\* fire_c: a Release leaves a ReleaseAck to be awaited, a ProbeAck leaves nothing.
LEMMA StatusFireC ==
  ASSUME TypeOK, IdInv, MapInv, NEW c \in Core, FireC(c), StatusInvBy(c), failed' = {}
  PROVE  StatusInvBy(c)'
<1>1. PICK r \in pendingC[c] : FireCBeat(c, r) \/ FireRelease(c, r) \/ FireProbeAck(c, r)
  BY DEF FireC
<1>2. UNCHANGED <<known, pendingA, pendingE, idMap, reqs>>
  BY DEF FireC
<1>3. r \in ReqC /\ r.addr \in Addr /\ r.alias \in Alias /\ pendingC[c] = {r}
  BY ReqCFields DEF IdInv, IdInvBy, OnePending, TypeOK, TypePending
<1>4. ReqsOf(c)' = ReqsOf(c)
  BY <1>2 DEF ReqsOf
<1>5. ~Unpresented(c)
  BY Fired DEF FireC
<1> DEFINE s(a, x) == status[c][a][x]
<1>6. \A a \in Addr, x \in Alias : Tells(c, s(a, x), a, x)
  BY DEF StatusInvBy
<1>7. TellsC(c, r) /\ OneEach(c)
  BY DEF StatusInvBy
<1>8. CASE FireCBeat(c, r)
  <2>1. /\ pendingC' = [pendingC EXCEPT ![c] = {LessABeat(r)}]
        /\ status' = status /\ relAcks' = relAcks
    BY <1>8 DEF FireCBeat
  <2>2. pendingC'[c] = {LessABeat(r)} /\ AcksOf(c)' = AcksOf(c)
    BY <2>1 DEF AcksOf, TypeOK, TypePending
  <2>3. /\ LessABeat(r).op = r.op /\ LessABeat(r).addr = r.addr
        /\ LessABeat(r).alias = r.alias
    BY DEF LessABeat
  <2>4. \A a \in Addr, x \in Alias : Tells(c, s(a, x), a, x)'
    BY <1>2, <1>3, <1>4, <1>6, <2>1, <2>2, <2>3
       DEF Tells, Messages, AcquireOn, AcquireOut, CBOOn, CBOOut, AckOwed, Presents
  <2>5. \A q \in pendingA'[c] : TellsA(c, q)'
    BY <1>2, <1>5, <2>1 DEF StatusInvBy, TellsA
  <2>6. TellsC(c, LessABeat(r))'
    BY <1>5, <1>7, <2>1, <2>3 DEF TellsC
  <2>7. OneEach(c)'
    BY <1>2, <1>4, <1>7, <2>2 DEF OneEach
  <2> QED BY <2>2, <2>4, <2>5, <2>6, <2>7 DEF StatusInvBy
<1>9. ASSUME NEW t, FireRelease(c, r) \/ FireProbeAck(c, r),
             status' = [status EXCEPT ![c][r.addr][r.alias] = t],
             Tells(c, t, r.addr, r.alias)',
             s(r.addr, r.alias) \in AcquireFirable => t \in AcquireFirable,
             s(r.addr, r.alias) \in CBOSending => t \in CBOSending,
             OneEach(c)',
             \A a \in Addr, x \in Alias :
               <<a, x>> # <<r.addr, r.alias>> => AckOwed(c, a, x)' = AckOwed(c, a, x)
      PROVE  StatusInvBy(c)'
  <2>1. pendingC'[c] = {}
    BY <1>9 DEF FireRelease, FireProbeAck, TypeOK, TypePending
  <2>2. \A a \in Addr, x \in Alias :
          status'[c][a][x] = IF a = r.addr /\ x = r.alias THEN t ELSE s(a, x)
    BY <1>3, <1>9 DEF TypeOK, TypeEntries, PerBlock
  <2>3. ASSUME NEW a \in Addr, NEW x \in Alias
        PROVE  Tells(c, s(a, x), a, x)'
    <3>1. CASE a = r.addr /\ x = r.alias
      BY <1>9, <2>2, <3>1
    <3>2. CASE ~(a = r.addr /\ x = r.alias)
      <4>1. ~Presents(pendingC[c], a, x)
        BY <1>3, <3>2 DEF Presents
      <4>2. Tells(c, s(a, x), a, x) /\ status'[c][a][x] = status[c][a][x]
        BY <1>6, <2>2, <3>2
      <4>3. AckOwed(c, a, x)' = AckOwed(c, a, x)
        BY <1>9, <3>2
      <4> QED BY <1>2, <1>4, <4>1, <4>2, <4>3
              DEF Tells, Messages, AcquireOn, AcquireOut, CBOOn, CBOOut, Presents
    <3> QED BY <3>1, <3>2
  <2>4. \A q \in pendingA'[c] : TellsA(c, q)'
    BY <1>2, <1>5, <1>9, <2>1, <2>2, TellsKept
  <2> QED BY <1>9, <2>1, <2>3, <2>4 DEF StatusInvBy
<1>10. CASE FireRelease(c, r)
  <2> DEFINE k == [core |-> c, addr |-> r.addr, source |-> The(r.source)]
  <2> PICK t : t = AfterFireRelease(s(r.addr, r.alias))
    OBVIOUS
  <2>1. relAcks' = relAcks \cup {k} /\ pendingC' = [pendingC EXCEPT ![c] = {}]
    BY <1>10 DEF FireRelease
  <2>2. k.core = c /\ k.source = The(r.source)
    OBVIOUS
  <2> HIDE DEF k
  <2>3. AcksOf(c)' = AcksOf(c) \cup {k} /\ pendingC'[c] = {}
    BY <2>1, <2>2 DEF AcksOf, TypeOK, TypePending
  <2>4. idMap'[c][k.source] = {[addr |-> r.addr, alias |-> r.alias]}
    <3>1. r \in [op : ReleaseOp, addr : Addr, alias : Alias, param : TLPermDemotion,
                 beats : 1 .. 2, data : Data, source : {{i} : i \in SourceID}]
      BY <1>3, <1>10 DEF FireRelease, ReqC, ReleaseOp, ProbeAckOp
    <3>2. The(r.source) \in r.source /\ The(r.source) \in SourceID
      BY <3>1 DEF The
    <3> QED BY <1>2, <1>5, <2>2, <3>2 DEF MapInv, MapInvBy, Names
  <2>5. s(r.addr, r.alias) \in SendingC
    BY <1>10 DEF FireRelease, Check, ReleaseFirable
  <2>6. ~AckOwed(c, r.addr, r.alias)
    BY <1>3, <1>6, <2>5, ReleaseLeaves DEF Tells, Messages
  <2>7. OneEach(c)'
    BY <1>2, <1>4, <1>7, <2>3, <2>4, <2>6 DEF OneEach, AckOwed
  <2>8. AckOwed(c, r.addr, r.alias)'
    BY <2>3, <2>4 DEF AckOwed
  <2>9. \A a \in Addr, x \in Alias :
          <<a, x>> # <<r.addr, r.alias>> => AckOwed(c, a, x)' = AckOwed(c, a, x)
    <3> SUFFICES ASSUME NEW a \in Addr, NEW x \in Alias, <<a, x>> # <<r.addr, r.alias>>
                 PROVE  AckOwed(c, a, x)' = AckOwed(c, a, x)
      OBVIOUS
    <3>1. [addr |-> a, alias |-> x] # [addr |-> r.addr, alias |-> r.alias]
      OBVIOUS
    <3> QED BY <1>2, <2>3, <2>4, <3>1 DEF AckOwed
  <2>10. Tells(c, t, r.addr, r.alias)'
    <3>1. Tells(c, s(r.addr, r.alias), r.addr, r.alias)
      BY <1>3, <1>6
    <3>2. UNCHANGED <<AcquireOut(c, r.addr, r.alias), CBOOn(c, r.addr), CBOOut(c, r.addr)>>
      BY <1>2, <1>4 DEF AcquireOut, CBOOut, CBOOn
    <3> QED BY <1>2, <2>5, <2>8, <3>1, <3>2, ReleaseLeaves DEF Tells, Messages, Presents
  <2>11. status' = [status EXCEPT ![c][r.addr][r.alias] = t]
    BY <1>10 DEF FireRelease
  <2> QED BY <1>9, <1>10, <2>5, <2>7, <2>9, <2>10, <2>11, ReleaseLeaves
<1>11. CASE FireProbeAck(c, r)
  <2> PICK t : t = AfterFireProbeAck(s(r.addr, r.alias), r.param)
    OBVIOUS
  <2>1. /\ relAcks' = relAcks /\ pendingC' = [pendingC EXCEPT ![c] = {}]
        /\ r.op \in ProbeAckOp
        /\ status' = [status EXCEPT ![c][r.addr][r.alias] = t]
    BY <1>11 DEF FireProbeAck
  <2>2. AcksOf(c)' = AcksOf(c) /\ pendingC'[c] = {}
    BY <2>1 DEF AcksOf, TypeOK, TypePending
  <2>3. s(r.addr, r.alias) \in OnC
    BY <1>7, <2>1 DEF TellsC, ProbeAckOp, ReleaseOp
  <2>4. OneEach(c)'
    BY <1>2, <1>4, <1>7, <2>2 DEF OneEach
  <2>5. \A a, x : AckOwed(c, a, x)' = AckOwed(c, a, x)
    BY <1>2, <2>2 DEF AckOwed
  <2>6. Tells(c, t, r.addr, r.alias)'
    <3>1. Tells(c, s(r.addr, r.alias), r.addr, r.alias)
      BY <1>3, <1>6
    <3>2. UNCHANGED <<AcquireOn(c, r.addr, r.alias), AcquireOut(c, r.addr, r.alias),
                      CBOOn(c, r.addr), CBOOut(c, r.addr)>>
      BY <1>2, <1>4 DEF AcquireOn, AcquireOut, CBOOut, CBOOn
    <3> QED BY <1>2, <2>3, <2>5, <3>1, <3>2, ProbeAckLeaves DEF Tells, Messages, Presents
  <2> QED BY <1>9, <1>11, <2>1, <2>3, <2>4, <2>5, <2>6, ProbeAckLeaves
<1> QED BY <1>1, <1>8, <1>10, <1>11

\* fire_e: the GrantAck leaves and its block is valid.
LEMMA StatusFireE ==
  ASSUME TypeOK, IdInv, NEW c \in Core, FireE(c), StatusInvBy(c)
  PROVE  StatusInvBy(c)'
<1>1. PICK e \in pendingE[c] : FireE(c)!2!(e)
  BY DEF FireE
<1>2. UNCHANGED <<known, pendingA, pendingC, idMap, reqs, relAcks>>
  BY DEF FireE, idVars
<1>3. /\ e.addr \in Addr /\ e.alias \in Alias /\ pendingE'[c] = {}
      /\ \A f \in pendingE[c] : f = e
  BY <1>1 DEF TypeOK, TypePending, Block, StatusInvBy, OneEach
<1>4. ReqsOf(c)' = ReqsOf(c) /\ AcksOf(c)' = AcksOf(c)
  BY <1>2 DEF ReqsOf, AcksOf
<1>5. \A a \in Addr, x \in Alias :
        status'[c][a][x] = IF a = e.addr /\ x = e.alias THEN "S_VALID" ELSE status[c][a][x]
  BY <1>1, <1>3 DEF TypeOK, TypeEntries, PerBlock
<1>6. status[c][e.addr][e.alias] = "S_SENDING_E"
  BY <1>3 DEF StatusInvBy, Tells, Messages, Presents
<1>7. ASSUME NEW a \in Addr, NEW x \in Alias
      PROVE  Tells(c, status[c][a][x], a, x)'
  <2>1. Tells(c, status[c][a][x], a, x)
    BY DEF StatusInvBy
  <2>2. UNCHANGED <<AcquireOn(c, a, x), AcquireOut(c, a, x), CBOOn(c, a), CBOOut(c, a),
                    AckOwed(c, a, x)>>
    BY <1>2, <1>4 DEF AcquireOn, AcquireOut, CBOOn, CBOOut, AckOwed
  <2>3. CASE a = e.addr /\ x = e.alias
    BY <1>2, <1>3, <1>5, <1>6, <2>1, <2>2, <2>3
       DEF Tells, Messages, Presents, AcquireFirable, AWaiting, CBOSending, CBOAwaitingD,
           OnC, SendingC, Nested, AwaitingReleaseAck
  <2>4. CASE ~(a = e.addr /\ x = e.alias)
    <3>1. ~Presents(pendingE[c], a, x)
      BY <1>3, <2>4 DEF Presents
    <3> QED BY <1>2, <1>3, <1>5, <2>1, <2>2, <2>4, <3>1 DEF Tells, Messages, Presents
  <2> QED BY <2>3, <2>4
<1>8. /\ \A r \in pendingA'[c] : TellsA(c, r)'
      /\ \A r \in pendingC'[c] : TellsC(c, r)'
  <2>1. ~Unpresented(c)
    BY Fired DEF FireE
  <2>2. \A a \in Addr, x \in Alias :
          LET s == status[c][a][x]
              t == status'[c][a][x]
          IN  /\ s \in AcquireFirable => t \in AcquireFirable
              /\ s \in CBOSending => t \in CBOSending
              /\ s \in SendingC => t \in SendingC
              /\ s \in OnC => t \in OnC
    BY <1>5, <1>6 DEF AcquireFirable, CBOSending, OnC, SendingC, Nested
  <2>3. \A q \in pendingC[c] : q.addr \in Addr /\ q.alias \in Alias
    BY ReqCFields DEF TypeOK, TypePending
  <2> QED BY <1>2, <2>1, <2>2, <2>3, TellsKept
<1>9. OneEach(c)'
  BY <1>2, <1>3, <1>4 DEF StatusInvBy, OneEach
<1> QED BY <1>7, <1>8, <1>9 DEF StatusInvBy

\* A ReleaseAck arrives.
LEMMA ReleaseAckMoves ==
  ASSUME NEW s \in AwaitingReleaseAck
  PROVE  LET t == AfterReleaseAck(s) IN
         /\ t \notin AwaitingReleaseAck \cup AcquireFirable \cup AWaiting \cup OnC
         /\ t \in CBOSending <=> s \in CBOSending
         /\ t \in CBOAwaitingD <=> s \in CBOAwaitingD
         /\ t # "S_SENDING_E"
         /\ s \notin OnC \cup AcquireFirable \cup AWaiting
         /\ s \notin SendingC
         /\ s \notin {"S_SENDING_E", "S_INVALID"}
  BY DEF AcquireFirable, AfterReleaseAck, AWaiting, CBOSending, CBOAwaitingD, OnC,
         SendingC, Nested, AwaitingReleaseAck

\* A ReleaseAck ends the wait of the one block that it is about.
LEMMA StatusReleaseAck ==
  ASSUME TypeOK, IdInv, IdInv', MapInv, NEW c \in Core, FireD(c), StatusInvBy(c),
         NEW k \in relAcks, FireReleaseAck(c, k), failed' = {}
  PROVE  StatusInvBy(c)'
<1>1. PICK e \in idMap[c][k.source] : FireReleaseAck(c, k)!2!(e)
  BY DEF FireReleaseAck
<1>2. UNCHANGED <<known, pendingA, pendingC, pendingE, reqs>>
  BY DEF FireD, FireReleaseAck
<1>3. /\ k \in AcksOf(c) /\ k.source \in SourceID /\ relAcks' = relAcks \ {k}
      /\ FreeSource(c, k.source)
  BY DEF FireReleaseAck, AcksOf, TypeOK, TypeDevice, ReleaseAck
<1>4. idMap[c][k.source] = {e} /\ e.addr \in Addr /\ e.alias \in Alias
  <2>1. PICK x \in Alias : idMap[c][k.source] = {[addr |-> k.addr, alias |-> x]}
    BY <1>3 DEF MapInv, MapInvBy
  <2> QED BY <1>3, <2>1 DEF AcksOf, TypeOK, TypeDevice, ReleaseAck
<1>5. e = [addr |-> e.addr, alias |-> e.alias]
  BY <1>3, <1>4 DEF TypeOK, TypeIds, Block
<1>6. ReqsOf(c)' = ReqsOf(c) /\ AcksOf(c)' = AcksOf(c) \ {k}
  BY <1>2, <1>3 DEF ReqsOf, AcksOf
<1>7. \A j \in AcksOf(c)' : idMap'[c][j.source] = idMap[c][j.source]
  <2>1. \A i \in UsedIds(c)' : idMap'[c][i] = idMap[c][i]
    BY <1>3, MapFreed
  <2> QED BY <2>1 DEF UsedIds, AckIds
<1>8. status[c][e.addr][e.alias] \in AwaitingReleaseAck
  BY <1>1 DEF Check
<1>9. \A a \in Addr, x \in Alias :
        status'[c][a][x] = IF a = e.addr /\ x = e.alias THEN AfterReleaseAck(status[c][a][x])
                           ELSE status[c][a][x]
  <2>1. status' = [status EXCEPT ![c][e.addr][e.alias] =
                     AfterReleaseAck(status[c][e.addr][e.alias])]
    BY <1>1
  <2> QED BY <1>4, <2>1 DEF TypeOK, TypeEntries, PerBlock
<1>10. /\ ~AckOwed(c, e.addr, e.alias)'
       /\ \A a \in Addr, x \in Alias :
            ~(a = e.addr /\ x = e.alias) => AckOwed(c, a, x)' = AckOwed(c, a, x)
  <2>1. \A j \in AcksOf(c)' : idMap[c][j.source] # {e}
    BY <1>3, <1>4, <1>6 DEF StatusInvBy, OneEach
  <2>2. \A a \in Addr, x \in Alias :
          ~(a = e.addr /\ x = e.alias) => [addr |-> a, alias |-> x] # e
    OBVIOUS
  <2>3. ~AckOwed(c, e.addr, e.alias)'
    BY <1>5, <1>7, <2>1 DEF AckOwed
  <2>4. ASSUME NEW a \in Addr, NEW x \in Alias, ~(a = e.addr /\ x = e.alias)
        PROVE  AckOwed(c, a, x)' = AckOwed(c, a, x)
    <3>1. \A j \in AcksOf(c) : idMap[c][j.source] = {[addr |-> a, alias |-> x]} => j # k
      BY <1>4, <2>2, <2>4
    <3> QED BY <1>6, <1>7, <3>1 DEF AckOwed
  <2> QED BY <2>3, <2>4
<1>11. ASSUME NEW a \in Addr, NEW x \in Alias
       PROVE  Tells(c, status[c][a][x], a, x)'
  <2>1. Tells(c, status[c][a][x], a, x)
    BY DEF StatusInvBy
  <2>2. UNCHANGED <<AcquireOn(c, a, x), AcquireOut(c, a, x), CBOOn(c, a), CBOOut(c, a)>>
    BY <1>2, <1>6 DEF AcquireOn, AcquireOut, CBOOn, CBOOut
  <2>3. CASE a = e.addr /\ x = e.alias
    BY <1>2, <1>8, <1>9, <1>10, <2>1, <2>2, <2>3, ReleaseAckMoves DEF Tells, Messages, Presents
  <2>4. CASE ~(a = e.addr /\ x = e.alias)
    BY <1>2, <1>9, <1>10, <2>1, <2>2, <2>4 DEF Tells, Messages, Presents
  <2> QED BY <2>3, <2>4
<1>12. /\ \A r \in pendingA'[c] : TellsA(c, r)'
       /\ \A r \in pendingC'[c] : TellsC(c, r)'
  <2>1. ~Unpresented(c)
    BY Fired DEF FireD
  <2>2. \A a \in Addr, x \in Alias :
          LET s == status[c][a][x]
              t == status'[c][a][x]
          IN  /\ s \in AcquireFirable => t \in AcquireFirable
              /\ s \in CBOSending => t \in CBOSending
              /\ s \in SendingC => t \in SendingC
              /\ s \in OnC => t \in OnC
    BY <1>8, <1>9, ReleaseAckMoves
  <2>3. \A q \in pendingC[c] : q.addr \in Addr /\ q.alias \in Alias
    BY ReqCFields DEF TypeOK, TypePending
  <2> QED BY <1>2, <2>1, <2>2, <2>3, TellsKept
<1>13. OneEach(c)'
  BY <1>2, <1>6, <1>7 DEF StatusInvBy, OneEach
<1> QED BY <1>11, <1>12, <1>13 DEF StatusInvBy

\* An answer to request r takes it off the device, and frees its id.
LEMMA Answered ==
  ASSUME TypeOK, IdInv, IdInv', MapInv, NEW c \in Core, NEW r \in ReqsOf(c), OneEach(c),
         FreeSource(c, r.source), reqs' = reqs \ {r}, UNCHANGED <<pendingA, relAcks>>
  PROVE  /\ ReqsOf(c)' = ReqsOf(c) \ {r}
         /\ \A q \in ReqsOf(c)' : q.addr # r.addr
         /\ \A x : ~AcquireOut(c, r.addr, x)'
         /\ ~CBOOut(c, r.addr)'
         /\ \A a, x : a # r.addr => AcquireOut(c, a, x)' = AcquireOut(c, a, x)
         /\ \A a : a # r.addr => CBOOut(c, a)' = CBOOut(c, a)
         /\ \A k \in AcksOf(c)' : idMap'[c][k.source] = idMap[c][k.source]
         /\ AcksOf(c)' = AcksOf(c)
         /\ \A a, x : AckOwed(c, a, x)' = AckOwed(c, a, x)
<1>1. ReqsOf(c)' = ReqsOf(c) \ {r} /\ AcksOf(c)' = AcksOf(c)
  BY DEF ReqsOf, AcksOf
<1>2. \A q \in ReqsOf(c)' : q.addr # r.addr
  BY <1>1 DEF OneEach
<1>3. r.source \in SourceID
  BY DEF ReqsOf, TypeOK, TypeDevice, ReqA
<1>4. \A k \in AcksOf(c)' : idMap'[c][k.source] = idMap[c][k.source]
  BY <1>3, MapFreed DEF UsedIds, AckIds
<1> QED BY <1>1, <1>2, <1>4 DEF AcquireOut, CBOOut, AckOwed

\* A Grant ends the wait of its Acquire and brings a GrantAck onto E.
LEMMA StatusGrant ==
  ASSUME TypeOK, IdInv, IdInv', MapInv, NEW c \in Core, FireD(c), StatusInvBy(c),
         NEW r \in ReqsOf(c), NEW perm, FireGrant(c, r, perm), failed' = {}
  PROVE  StatusInvBy(c)'
<1>1. PICK e \in idMap[c][r.source] : FireGrant(c, r, perm)!(e)
  BY DEF FireGrant
<1>2. e = [addr |-> r.addr, alias |-> r.alias]
  BY DEF MapInv, MapInvBy, Names
<1>3. e.addr = r.addr /\ e.alias = r.alias /\ r.addr \in Addr /\ r.alias \in Alias
  BY <1>2 DEF ReqsOf, TypeOK, TypeDevice, ReqA
<1>4. /\ UNCHANGED <<known, pendingA, pendingC, relAcks>>
      /\ FreeSource(c, r.source) /\ reqs' = reqs \ {r}
      /\ pendingE' = [pendingE EXCEPT ![c] = {e}]
  BY <1>1 DEF FireD
<1>5. pendingE'[c] = {e} /\ pendingE[c] = {}
  BY <1>1, <1>4 DEF Check, TypeOK, TypePending
<1>6. status[c][r.addr][r.alias] = "S_A_WAITING_D"
  BY <1>1, <1>3 DEF Check
<1>7. \A a \in Addr, x \in Alias :
        status'[c][a][x] = IF a = r.addr /\ x = r.alias THEN "S_SENDING_E"
                           ELSE status[c][a][x]
  <2>1. status' = [status EXCEPT ![c][r.addr][r.alias] = "S_SENDING_E"]
    BY <1>1, <1>3
  <2> QED BY <1>3, <2>1 DEF TypeOK, TypeEntries, PerBlock
<1>8. OneEach(c)
  BY DEF StatusInvBy
<1>9. /\ ReqsOf(c)' = ReqsOf(c) \ {r} /\ AcksOf(c)' = AcksOf(c)
      /\ \A k \in AcksOf(c)' : idMap'[c][k.source] = idMap[c][k.source]
      /\ \A a, x : AckOwed(c, a, x)' = AckOwed(c, a, x)
  BY <1>4, <1>8, Answered
<1>10. \A a \in Addr, x \in Alias :
         ~(a = r.addr /\ x = r.alias) => AcquireOut(c, a, x)' = AcquireOut(c, a, x)
  BY <1>9 DEF AcquireOut
<1>11. \A a \in Addr : CBOOut(c, a)' = CBOOut(c, a)
  <2>1. status[c][r.addr][r.alias] \in AWaiting
    BY <1>6 DEF AWaiting
  <2>2. AcquireOut(c, r.addr, r.alias)
    BY <1>3, <2>1 DEF StatusInvBy, Tells, Messages
  <2>3. r.op \notin CBOOp
    BY <1>8, <2>2 DEF AcquireOut, OneEach, AcquireOp, CBOOp
  <2> QED BY <1>9, <2>3 DEF CBOOut
<1>12. ~AcquireOut(c, r.addr, r.alias)'
  BY <1>4, <1>8, Answered
<1>13. ASSUME NEW a \in Addr, NEW x \in Alias
       PROVE  Tells(c, status[c][a][x], a, x)'
  <2>1. Tells(c, status[c][a][x], a, x)
    BY DEF StatusInvBy
  <2>2. UNCHANGED <<AcquireOn(c, a, x), CBOOn(c, a)>>
    BY <1>4 DEF AcquireOn, CBOOn
  <2>3. CASE a = r.addr /\ x = r.alias
    BY <1>3, <1>4, <1>5, <1>6, <1>7, <1>9, <1>11, <1>12, <2>1, <2>2, <2>3
       DEF Tells, Messages, Presents, AcquireFirable, AWaiting, CBOSending, CBOAwaitingD,
           OnC, SendingC, Nested, AwaitingReleaseAck
  <2>4. CASE ~(a = r.addr /\ x = r.alias)
    BY <1>3, <1>4, <1>5, <1>7, <1>9, <1>10, <1>11, <2>1, <2>2, <2>4 DEF Tells, Messages, Presents
  <2> QED BY <2>3, <2>4
<1>14. /\ \A q \in pendingA'[c] : TellsA(c, q)'
       /\ \A q \in pendingC'[c] : TellsC(c, q)'
  <2>1. ~Unpresented(c)
    BY Fired DEF FireD
  <2>2. \A a \in Addr, x \in Alias :
          LET s == status[c][a][x]
              t == status'[c][a][x]
          IN  /\ s \in AcquireFirable => t \in AcquireFirable
              /\ s \in CBOSending => t \in CBOSending
              /\ s \in SendingC => t \in SendingC
              /\ s \in OnC => t \in OnC
    BY <1>6, <1>7 DEF AcquireFirable, CBOSending, OnC, SendingC, Nested
  <2>3. \A q \in pendingC[c] : q.addr \in Addr /\ q.alias \in Alias
    BY ReqCFields DEF TypeOK, TypePending
  <2> QED BY <1>4, <2>1, <2>2, <2>3, TellsKept
<1>15. OneEach(c)'
  BY <1>4, <1>5, <1>8, <1>9 DEF OneEach
<1> QED BY <1>13, <1>14, <1>15 DEF StatusInvBy

\* A CBOAck arrives.
LEMMA CBOAckMoves ==
  ASSUME NEW s \in CBOAwaitingD, NEW op, NEW perm
  PROVE  LET t == AfterCBOAck(op, s, perm) IN
         /\ t \notin CBOAwaitingD \cup CBOSending \cup AcquireFirable \cup AWaiting
         /\ t \in OnC <=> s \in OnC
         /\ t \in SendingC <=> s \in OnC
         /\ t \in AwaitingReleaseAck <=> s \in AwaitingReleaseAck
         /\ t # "S_SENDING_E"
         /\ s \notin CBOSending \cup AcquireFirable \cup AWaiting
         /\ s \notin {"S_SENDING_E", "S_INVALID"}
         /\ s \in SendingC => s \in OnC
  BY DEF AcquireFirable, AfterCBOAck, AWaiting, CBOSending, CBOAwaitingD, OnC,
         SendingC, Nested, AwaitingReleaseAck

\* A CBOAck ends the wait of all aliases of its block.
LEMMA StatusCBOAck ==
  ASSUME TypeOK, IdInv, IdInv', MapInv, NEW c \in Core, FireD(c), StatusInvBy(c),
         NEW r \in ReqsOf(c), r.op \in CBOOp, FireCBOAck(c, r), failed' = {}
  PROVE  StatusInvBy(c)'
<1> DEFINE after(x) == AfterCBOAck(cmo[c][r.addr].op, status[c][r.addr][x],
                                   privilege[c][r.addr][x])
<1>1. /\ UNCHANGED <<known, pendingA, pendingC, pendingE, relAcks>>
      /\ FreeSource(c, r.source) /\ reqs' = reqs \ {r}
      /\ status' = [status EXCEPT ![c][r.addr] = [x \in Alias |-> after(x)]]
  BY DEF FireD, FireCBOAck
<1>2. r.addr \in Addr
  BY DEF ReqsOf, TypeOK, TypeDevice, ReqA
<1>3. \A x \in Alias : status[c][r.addr][x] \in CBOAwaitingD
  BY DEF FireCBOAck, CBOAckCheck, Check
<1>4. \A a \in Addr, x \in Alias :
        status'[c][a][x] = IF a = r.addr THEN after(x) ELSE status[c][a][x]
  BY <1>1, <1>2 DEF TypeOK, TypeEntries, PerBlock
<1> HIDE DEF after
<1>5. \A x \in Alias : after(x) = AfterCBOAck(cmo[c][r.addr].op, status[c][r.addr][x],
                                              privilege[c][r.addr][x])
  BY DEF after
<1>6. OneEach(c)
  BY DEF StatusInvBy
<1>7. /\ ReqsOf(c)' = ReqsOf(c) \ {r} /\ AcksOf(c)' = AcksOf(c)
      /\ ~CBOOut(c, r.addr)' /\ \A x : ~AcquireOut(c, r.addr, x)'
      /\ \A a, x : a # r.addr => AcquireOut(c, a, x)' = AcquireOut(c, a, x)
      /\ \A a : a # r.addr => CBOOut(c, a)' = CBOOut(c, a)
      /\ \A k \in AcksOf(c)' : idMap'[c][k.source] = idMap[c][k.source]
      /\ \A a, x : AckOwed(c, a, x)' = AckOwed(c, a, x)
  BY <1>1, <1>6, Answered
<1>8. ASSUME NEW a \in Addr, NEW x \in Alias
      PROVE  Tells(c, status[c][a][x], a, x)'
  <2>1. Tells(c, status[c][a][x], a, x)
    BY DEF StatusInvBy
  <2>2. UNCHANGED <<AcquireOn(c, a, x), CBOOn(c, a)>>
    BY <1>1 DEF AcquireOn, CBOOn
  <2>3. CASE a = r.addr
    BY <1>1, <1>3, <1>4, <1>5, <1>7, <2>1, <2>2, <2>3, CBOAckMoves DEF Tells, Messages, Presents
  <2>4. CASE a # r.addr
    BY <1>1, <1>4, <1>7, <2>1, <2>2, <2>4 DEF Tells, Messages, Presents
  <2> QED BY <2>3, <2>4
<1>9. /\ \A q \in pendingA'[c] : TellsA(c, q)'
      /\ \A q \in pendingC'[c] : TellsC(c, q)'
  <2>1. ~Unpresented(c)
    BY Fired DEF FireD
  <2>2. \A a \in Addr, x \in Alias :
          LET s == status[c][a][x]
              t == status'[c][a][x]
          IN  /\ s \in AcquireFirable => t \in AcquireFirable
              /\ s \in CBOSending => t \in CBOSending
              /\ s \in SendingC => t \in SendingC
              /\ s \in OnC => t \in OnC
    BY <1>3, <1>4, <1>5, CBOAckMoves
  <2>3. \A q \in pendingC[c] : q.addr \in Addr /\ q.alias \in Alias
    BY ReqCFields DEF TypeOK, TypePending
  <2> QED BY <1>1, <2>1, <2>2, <2>3, TellsKept
<1>10. OneEach(c)'
  BY <1>1, <1>6, <1>7 DEF OneEach
<1> QED BY <1>8, <1>9, <1>10 DEF StatusInvBy

\* fire_d.
LEMMA StatusFireD ==
  ASSUME TypeOK, IdInv, IdInv', MapInv, CMOInv, NEW c \in Core, FireD(c), StatusInvBy(c),
         failed' = {}
  PROVE  StatusInvBy(c)'
<1>1. CASE \E k \in relAcks : FireReleaseAck(c, k)
  BY <1>1, StatusReleaseAck
<1>2. ASSUME NEW r \in reqs, NEW perm, FireGrantBeat(c, r, perm)
      PROVE  StatusInvBy(c)'
  <2>1. UNCHANGED <<known, status, pendingA, pendingC, pendingE, idMap, reqs, relAcks>>
    BY <1>2 DEF FireD, FireGrantBeat
  <2>2. Unpresented(c) => Unpresented(c)'
    BY UnpresentedStays DEF FireD
  <2> QED BY <2>1, <2>2, StatusFrame DEF ReqsOf, AcksOf
<1>3. ASSUME NEW r \in reqs, NEW perm, r.core = c, FireGrant(c, r, perm)
      PROVE  StatusInvBy(c)'
  BY <1>3, StatusGrant DEF ReqsOf
<1>4. ASSUME NEW r \in reqs, r.core = c, r.op \in CBOOp, FireCBOAck(c, r)
      PROVE  StatusInvBy(c)'
  BY <1>4, StatusCBOAck DEF ReqsOf
<1>5. \A p \in pendingD[c] : p.req \in reqs /\ p.req.core = c
  BY DEF IdInv, IdInvBy, GrantOwed, ReqsOf
<1> QED BY <1>1, <1>2, <1>3, <1>4, <1>5 DEF FireD, MayGrant, MayAckCBO

\* A block an operation may start at: no request of it is out, on A or on C.
LEMMA MayStart ==
  ASSUME TypeOK, NEW c \in Core, StatusInvBy(c), ~Unpresented(c), NEW a \in Addr,
         \/ ~InFlight(c, a, Status \ Idle)
         \/ ~InFlight(c, a, Status \ (Idle \cup {"S_SENDING_C", "S_C_WAITING_D"}))
  PROVE  /\ \A q \in ReqsOf(c) : q.addr # a
         /\ \A x \in Alias : status[c][a][x] \in Idle => ~Presents(pendingC[c], a, x)
<1>1. \A x \in Alias : status[c][a][x] \in Idle \cup {"S_SENDING_C", "S_C_WAITING_D"}
  <2> SUFFICES ASSUME NEW x \in Alias
               PROVE  status[c][a][x] \in Idle \cup {"S_SENDING_C", "S_C_WAITING_D"}
    OBVIOUS
  <2>1. status[c][a][x] \in Status
    BY DEF TypeOK, TypeEntries, PerBlock
  <2>2. status[c][a][x] # "S_INVALID" => a \in known[c]
    BY DEF StatusInvBy, Tells
  <2> QED BY <2>1, <2>2 DEF InFlight, Idle
<1>2. \A x \in Alias : status[c][a][x] \notin AWaiting \cup CBOAwaitingD
  BY <1>1 DEF Idle, AWaiting, CBOAwaitingD
<1>3. ASSUME NEW q \in ReqsOf(c), q.addr = a
      PROVE  FALSE
  <2>1. q.op \in AcquireOp \cup CBOOp /\ q.alias \in Alias
    BY DEF ReqsOf, TypeOK, TypeDevice, ReqA
  <2>2. AcquireOut(c, a, q.alias) \/ CBOOut(c, a)
    BY <1>3, <2>1 DEF AcquireOut, CBOOut
  <2> QED BY <1>2, <2>1, <2>2 DEF StatusInvBy, Tells, Messages
<1>4. ASSUME NEW x \in Alias, status[c][a][x] \in Idle, NEW q \in pendingC[c],
             q.addr = a, q.alias = x
      PROVE  FALSE
  <2>1. TellsC(c, q)
    BY DEF StatusInvBy
  <2>2. status[c][a][x] \in OnC
    BY <1>4, <2>1 DEF TellsC, OnC
  <2> QED BY <1>4, <2>2 DEF OnC, SendingC, Nested, Idle
<1> QED BY <1>3, <1>4 DEF Presents

\* A fuzzer asks for an operation only of blocks whose statuses allow it.
LEMMA StatusFuzz ==
  ASSUME TypeOK, NEW c \in Core, Fuzz(c), StatusInvBy(c)
  PROVE  StatusInvBy(c)'
<1>1. UNCHANGED <<known, status, pendingE, idMap, reqs, relAcks>>
  BY DEF Fuzz, entryVars, dutVars
<1>2. ReqsOf(c)' = ReqsOf(c) /\ AcksOf(c)' = AcksOf(c)
  BY <1>1 DEF ReqsOf, AcksOf
<1>3. ~Unpresented(c)
  BY Fired DEF Fuzz
<1>4. Unpresented(c)'
  BY NCoreAssumption DEF Fuzz, At, Unpresented, Core, PosFuzz, PosUpdate
<1>5. ASSUME NEW r, NEW a \in Addr, r.addr = a, pendingA[c] = {}, pendingC' = pendingC,
             pendingA' = [pendingA EXCEPT ![c] = {r}],
             \/ ~InFlight(c, a, Status \ Idle)
             \/ r.op \in CBOOp
                /\ ~InFlight(c, a, Status \ (Idle \cup {"S_SENDING_C", "S_C_WAITING_D"}))
      PROVE  StatusInvBy(c)'
  <2>1. pendingA'[c] = {r} /\ pendingC'[c] = pendingC[c]
    BY <1>5 DEF TypeOK, TypePending
  <2>2. /\ \A q \in ReqsOf(c) : q.addr # a
        /\ \A x \in Alias : status[c][a][x] \in Idle => ~Presents(pendingC[c], a, x)
    BY <1>3, <1>5, MayStart
  <2>3. ASSUME NEW b \in Addr, NEW x \in Alias
        PROVE  Tells(c, status[c][b][x], b, x)'
    <3>1. Tells(c, status[c][b][x], b, x) /\ ~AcquireOn(c, b, x) /\ ~CBOOn(c, b)
      BY <1>5 DEF StatusInvBy, AcquireOn, CBOOn
    <3>2. UNCHANGED <<AcquireOut(c, b, x), CBOOut(c, b), AckOwed(c, b, x)>>
      BY <1>1, <1>2 DEF AcquireOut, CBOOut, AckOwed
    <3> QED BY <1>1, <2>1, <3>1, <3>2 DEF Tells, Messages, Presents
  <2>4. AskedA(c, r)'
    <3> SUFFICES ASSUME NEW x \in Alias
                 PROVE  \/ status[c][a][x] \in Idle /\ ~Presents(pendingC[c], a, x)
                        \/ r.op \in CBOOp /\ status[c][a][x] \in {"S_SENDING_C", "S_C_WAITING_D"}
      BY <1>1, <1>5, <2>1 DEF AskedA, Presents
    <3>1. status[c][a][x] \in Status
      BY DEF TypeOK, TypeEntries, PerBlock
    <3>2. status[c][a][x] # "S_INVALID" => a \in known[c]
      BY DEF StatusInvBy, Tells
    <3> QED BY <1>5, <2>2, <3>1, <3>2 DEF InFlight, Idle
  <2>5. \A q \in pendingC'[c] : TellsC(c, q)'
    BY <1>1, <1>3, <2>1 DEF StatusInvBy, TellsC
  <2>6. OneEach(c)'
    BY <1>1, <1>2, <1>5, <2>1, <2>2 DEF StatusInvBy, OneEach
  <2> QED BY <1>4, <2>1, <2>3, <2>4, <2>5, <2>6 DEF StatusInvBy, TellsA
<1>6. ASSUME NEW i, NEW op, NEW a \in Addr, NEW x, NEW param, DoAcquire(c, i, op, a, x, param)
      PROVE  StatusInvBy(c)'
  <2> DEFINE perm == privilege[c][a][x]
             valid == a \in known[c] /\ status[c][a][x] = "S_VALID"
  <2> PICK r : r = [core |-> c, op |-> op, addr |-> a, alias |-> x, source |-> i,
                    param |-> IF valid /\ perm = "BRANCH" THEN "BtoT" ELSE param]
    OBVIOUS
  <2>1. r.addr = a
    OBVIOUS
  <2>2. /\ pendingA[c] = {} /\ pendingC' = pendingC /\ ~InFlight(c, a, Status \ Idle)
        /\ pendingA' = [pendingA EXCEPT ![c] = {r}]
    BY <1>6 DEF DoAcquire
  <2> QED BY <1>5, <2>1, <2>2
<1>7. ASSUME NEW i, NEW op \in CBOOp, NEW a \in Addr, DoCBO(c, i, op, a)
      PROVE  StatusInvBy(c)'
  BY <1>5, <1>7 DEF DoCBO
<1>8. ASSUME NEW i, NEW a \in Addr, NEW x \in Alias, DoReleaseDataAuto(c, i, a, x)
      PROVE  StatusInvBy(c)'
  <2>1. PICK r : /\ pendingC' = [pendingC EXCEPT ![c] = {r}]
                 /\ r.op \in ReleaseOp /\ r.addr = a /\ r.alias = x
    <3> DEFINE request(op, n, d) ==
                 [op |-> op, addr |-> a, alias |-> x,
                  param |-> IF privilege[c][a][x] = "TIP" THEN "TtoN" ELSE "BtoN",
                  beats |-> n, data |-> d, source |-> {i}]
    <3>1. \/ pendingC' = [pendingC EXCEPT ![c] = {request("Release", 1, Zero)}]
          \/ \E d \in Data : pendingC' = [pendingC EXCEPT ![c] = {request("ReleaseData", 2, d)}]
      BY <1>8 DEF DoReleaseDataAuto
    <3>2. \A op, n, d : /\ request(op, n, d).op = op /\ request(op, n, d).addr = a
                        /\ request(op, n, d).alias = x
      OBVIOUS
    <3> HIDE DEF request
    <3> QED BY <3>1, <3>2 DEF ReleaseOp
  <2>2. /\ pendingA' = pendingA /\ pendingC[c] = {} /\ status[c][a][x] = "S_VALID"
        /\ pendingC'[c] = {r}
    BY <1>8, <2>1 DEF DoReleaseDataAuto, TypeOK, TypePending
  <2>3. ASSUME NEW b \in Addr, NEW y \in Alias
        PROVE  Tells(c, status[c][b][y], b, y)'
    <3>1. Tells(c, status[c][b][y], b, y) /\ ~Presents(pendingC[c], b, y)
      BY <2>2 DEF StatusInvBy, Presents
    <3>2. UNCHANGED <<AcquireOn(c, b, y), CBOOn(c, b), AcquireOut(c, b, y), CBOOut(c, b),
                      AckOwed(c, b, y)>>
      BY <1>1, <1>2, <2>2 DEF AcquireOn, CBOOn, AcquireOut, CBOOut, AckOwed
    <3> QED BY <1>1, <3>1, <3>2 DEF Tells, Messages, Presents
  <2>4. \A q \in pendingA'[c] : TellsA(c, q)'
    BY <1>1, <1>3, <2>2 DEF StatusInvBy, TellsA
  <2>5. TellsC(c, r)'
    BY <1>1, <1>4, <2>1, <2>2 DEF TellsC
  <2>6. OneEach(c)'
    BY <1>1, <1>2, <2>2 DEF StatusInvBy, OneEach
  <2> QED BY <2>2, <2>3, <2>4, <2>5, <2>6 DEF StatusInvBy
<1> QED BY <1>6, <1>7, <1>8 DEF Fuzz

\* An Acquire is presented.
LEMMA AcquireSent ==
  ASSUME NEW s \in Idle \cup AcquireFirable
  PROVE  LET t == AfterSendAcquire(s) IN
         /\ t \in AcquireFirable
         /\ t \notin AWaiting \cup CBOSending \cup CBOAwaitingD \cup AwaitingReleaseAck
         /\ t # "S_SENDING_E" /\ t \in OnC <=> s \in OnC
         /\ s \notin AWaiting \cup CBOSending \cup CBOAwaitingD \cup AwaitingReleaseAck
         /\ s # "S_SENDING_E" /\ s \notin SendingC
  BY DEF AfterSendAcquire, AcquireFirable, AWaiting, CBOSending, CBOAwaitingD, OnC,
         SendingC, Nested, AwaitingReleaseAck, Idle

\* A CBO is presented.
LEMMA CBOSent ==
  ASSUME NEW s \in Idle \cup {"S_SENDING_C", "S_C_WAITING_D"} \cup CBOSending
  PROVE  LET t == AfterSendCBO(s) IN
         /\ t \in CBOSending
         /\ t \notin AWaiting \cup AcquireFirable \cup CBOAwaitingD
         /\ t # "S_SENDING_E"
         /\ t \in OnC <=> s \in OnC
         /\ t \in SendingC <=> s \in OnC
         /\ t \in AwaitingReleaseAck <=> s \in AwaitingReleaseAck
         /\ s \notin AWaiting \cup AcquireFirable \cup CBOAwaitingD
         /\ s # "S_SENDING_E"
  BY DEF AfterSendCBO, AcquireFirable, AWaiting, CBOSending, CBOAwaitingD, OnC,
         SendingC, Nested, AwaitingReleaseAck, Idle

\* The statuses between send_a and send_c.
LEMMA StatusSendA ==
  ASSUME TypeOK, IdInv, NEW c \in Core, StatusInvBy(c), NEW st, st = Presented(c)
  PROVE  /\ \A a \in Addr, x \in Alias : Messages(c, st[a][x], a, x)
         /\ \A a \in Addr, x \in Alias :
              st[a][x] # "S_INVALID" => a \in known[c] \cup {r.addr : r \in pendingA[c]}
         /\ \A r \in pendingA[c] :
              \/ r.op \in AcquireOp /\ st[r.addr][r.alias] \in AcquireFirable
              \/ r.op \in CBOOp /\ \A x \in Alias : st[r.addr][x] \in CBOSending
         /\ \A r \in pendingC[c] :
              IF r.op \in ReleaseOp THEN st[r.addr][r.alias] \in SendingC \cup {"S_VALID"}
              ELSE st[r.addr][r.alias] \in OnC
<1>1. /\ \A a \in Addr, x \in Alias : Messages(c, status[c][a][x], a, x)
      /\ \A a \in Addr, x \in Alias : status[c][a][x] # "S_INVALID" => a \in known[c]
      /\ \A r \in pendingC[c] : TellsC(c, r)
      /\ \A r \in pendingA[c] : TellsA(c, r)
  BY DEF StatusInvBy, Tells
<1>2. \A r \in pendingC[c] : r.addr \in Addr /\ r.alias \in Alias
  BY ReqCFields DEF TypeOK, TypePending
<1>3. CASE pendingA[c] = {}
  BY <1>1, <1>3 DEF Presented, TellsC
<1>4. CASE pendingA[c] # {}
  <2>1. PICK r \in pendingA[c] : pendingA[c] = {r}
    BY <1>4 DEF IdInv, IdInvBy, OnePending
  <2>2. The(pendingA[c]) = r
    BY <2>1 DEF The
  <2>3. r \in ReqA /\ r.addr \in Addr /\ r.alias \in Alias
    BY DEF TypeOK, TypePending, ReqA
  <2>4. status[c] \in [Addr -> [Alias -> Status]]
    BY DEF TypeOK, TypeEntries, PerBlock
  <2>5. CASE r.op \in CBOOp
    <3>1. \A a \in Addr, x \in Alias :
            st[a][x] = IF a = r.addr THEN AfterSendCBO(status[c][a][x]) ELSE status[c][a][x]
      BY <1>4, <2>2, <2>3, <2>4, <2>5 DEF Presented
    <3>2. r.op \notin AcquireOp
      BY <2>5 DEF AcquireOp, CBOOp
    <3>3. \A x \in Alias : status[c][r.addr][x] \in
            Idle \cup {"S_SENDING_C", "S_C_WAITING_D"} \cup CBOSending
      BY <1>1, <3>2 DEF TellsA, AskedA
    <3>4. CBOOn(c, r.addr)
      BY <2>5 DEF CBOOn
    <3>5. ASSUME NEW a \in Addr, NEW x \in Alias
          PROVE  Messages(c, st[a][x], a, x)
      BY <1>1, <3>1, <3>3, <3>4, CBOSent DEF Messages
    <3>6. ASSUME NEW q \in pendingC[c]
          PROVE  IF q.op \in ReleaseOp THEN st[q.addr][q.alias] \in SendingC \cup {"S_VALID"}
                 ELSE st[q.addr][q.alias] \in OnC
      <4>1. TellsC(c, q) /\ q.addr \in Addr /\ q.alias \in Alias
        BY <1>1, <1>2
      <4>2. CASE q.addr # r.addr
        BY <3>1, <4>1, <4>2 DEF TellsC
      <4>3. CASE q.addr = r.addr
        <5>1. status[c][r.addr][q.alias] # "S_VALID"
          <6>1. Presents(pendingC[c], r.addr, q.alias)
            BY <4>3 DEF Presents
          <6>2. TellsA(c, r)
            BY <1>1
          <6> QED BY <3>2, <4>1, <6>1, <6>2 DEF TellsA, AskedA, CBOSending
        <5>2. status[c][r.addr][q.alias] \in OnC
          BY <4>1, <4>3, <5>1 DEF TellsC, OnC
        <5> QED BY <3>1, <3>3, <4>1, <4>3, <5>2, CBOSent
      <4> QED BY <4>2, <4>3
    <3>7. ASSUME NEW a \in Addr, NEW x \in Alias, st[a][x] # "S_INVALID"
          PROVE  a \in known[c] \cup {q.addr : q \in pendingA[c]}
      BY <1>1, <2>1, <3>1, <3>7
    <3>8. \A x \in Alias : st[r.addr][x] \in CBOSending
      BY <2>3, <3>1, <3>3, CBOSent
    <3> QED BY <2>1, <2>5, <3>5, <3>6, <3>7, <3>8
  <2>6. CASE r.op \in AcquireOp
    <3>1. r.op \notin CBOOp
      BY <2>6 DEF AcquireOp, CBOOp
    <3>2. \A a \in Addr, x \in Alias :
            st[a][x] = IF a = r.addr /\ x = r.alias THEN AfterSendAcquire(status[c][a][x])
                       ELSE status[c][a][x]
      BY <1>4, <2>2, <2>3, <2>4, <3>1 DEF Presented
    <3>3. status[c][r.addr][r.alias] \in Idle \cup AcquireFirable
      BY <1>1, <2>3, <3>1 DEF TellsA, AskedA
    <3>4. AcquireOn(c, r.addr, r.alias)
      BY <2>6 DEF AcquireOn
    <3>5. ASSUME NEW a \in Addr, NEW x \in Alias
          PROVE  Messages(c, st[a][x], a, x)
      BY <1>1, <3>2, <3>3, <3>4, AcquireSent DEF Messages
    <3>6. ASSUME NEW q \in pendingC[c]
          PROVE  IF q.op \in ReleaseOp THEN st[q.addr][q.alias] \in SendingC \cup {"S_VALID"}
                 ELSE st[q.addr][q.alias] \in OnC
      <4>1. TellsC(c, q) /\ q.addr \in Addr /\ q.alias \in Alias
        BY <1>1, <1>2
      <4>2. CASE ~(q.addr = r.addr /\ q.alias = r.alias)
        BY <3>2, <4>1, <4>2 DEF TellsC
      <4>3. CASE q.addr = r.addr /\ q.alias = r.alias
        <5>1. status[c][r.addr][r.alias] # "S_VALID"
          <6>1. Presents(pendingC[c], r.addr, r.alias)
            BY <4>3 DEF Presents
          <6>2. TellsA(c, r)
            BY <1>1
          <6> QED BY <2>3, <3>1, <6>1, <6>2 DEF TellsA, AskedA, AcquireFirable
        <5> QED BY <3>2, <3>3, <4>1, <4>3, <5>1, AcquireSent DEF TellsC
      <4> QED BY <4>2, <4>3
    <3>7. ASSUME NEW a \in Addr, NEW x \in Alias, st[a][x] # "S_INVALID"
          PROVE  a \in known[c] \cup {q.addr : q \in pendingA[c]}
      BY <1>1, <2>1, <3>2, <3>7
    <3>8. st[r.addr][r.alias] \in AcquireFirable
      BY <2>3, <3>2, <3>3, AcquireSent
    <3> QED BY <2>1, <2>6, <3>5, <3>6, <3>7, <3>8
  <2> QED BY <2>3, <2>5, <2>6 DEF ReqA
<1> QED BY <1>3, <1>4

\* What is presented on C is presented again, with the status its block has.
LEMMA PresentedAgain ==
  ASSUME NEW s
  PROVE  /\ s \in SendingC => AfterSendRelease(s) = s
         /\ AfterSendRelease("S_VALID") = "S_SENDING_C"
         /\ \A op : s \in OnC \cap ProbeAckSendable => AfterSendProbeAck(op, s) = s
         /\ "S_SENDING_C" \in SendingC /\ SendingC \subseteq OnC
         /\ "S_VALID" \notin AcquireFirable \cup AWaiting \cup CBOSending \cup CBOAwaitingD
         /\ "S_VALID" \notin AwaitingReleaseAck
         /\ "S_SENDING_C" \notin AcquireFirable \cup AWaiting \cup CBOSending \cup CBOAwaitingD
         /\ "S_SENDING_C" \notin AwaitingReleaseAck
  BY DEF AfterSendProbeAck, AfterSendRelease, AcquireFirable, AWaiting, CBOSending,
         CBOAwaitingD, OnC, SendingC, Nested, AwaitingReleaseAck, ProbeAckSendable, Idle

\* A ProbeAck is presented.
LEMMA ProbeAckSent ==
  ASSUME NEW s \in ProbeAckSendable \ OnC, NEW op
  PROVE  LET t == AfterSendProbeAck(op, s) IN
         /\ t \in OnC /\ t \notin AwaitingReleaseAck /\ s \notin AwaitingReleaseAck
         /\ t \in AcquireFirable <=> s \in AcquireFirable
         /\ t \in AWaiting <=> s \in AWaiting
         /\ t \in CBOSending <=> s \in CBOSending
         /\ t \in CBOAwaitingD <=> s \in CBOAwaitingD
         /\ t \notin {"S_SENDING_E", "S_INVALID"} /\ s # "S_SENDING_E"
  BY DEF AfterSendProbeAck, AfterSendRelease, AcquireFirable, AWaiting, CBOSending,
         CBOAwaitingD, OnC, SendingC, Nested, AwaitingReleaseAck, ProbeAckSendable, Idle

\* A request send_c lets onto the port has an entry, and a ProbeAck a status it may have.
LEMMA SendCPassed ==
  ASSUME NEW c, NEW st, NEW C, SendCCheck(c, st, C) = {}, NEW r \in C
  PROVE  /\ r.addr \in known[c]
         /\ r.op \in ProbeAckOp => st[r.addr][r.alias] \in ProbeAckSendable
<1> DEFINE Part(q) == Check(q.addr \in known[c], "send_c key")
                      \cup Check(q.op \in ProbeAckOp => st[q.addr][q.alias] \in ProbeAckSendable,
                                 "send_c status")
<1>1. SendCCheck(c, st, C) = UNION {Part(q) : q \in C}
  BY DEF SendCCheck
<1>2. Part(r) \in {Part(q) : q \in C}
  OBVIOUS
<1> HIDE DEF Part
<1>3. Part(r) = {}
  BY <1>1, <1>2
<1>4. Check(r.addr \in known[c], "send_c key") = {}
  BY <1>3 DEF Part
<1>5. Check(r.op \in ProbeAckOp => st[r.addr][r.alias] \in ProbeAckSendable,
           "send_c status") = {}
  BY <1>3 DEF Part
<1> QED BY <1>4, <1>5 DEF Check

\* update_signal: send_a, handle_b and send_c move statuses with what they present.
LEMMA StatusUpdate ==
  ASSUME TypeOK, IdInv, IdInv', NEW c \in Core, Update(c), StatusInvBy(c), failed' = {}
  PROVE  StatusInvBy(c)'
<1> PICK st : st = Presented(c)
  OBVIOUS
<1>1. UNCHANGED <<pendingA, pendingE, reqs, relAcks>>
  BY DEF Update, dutVars
<1>2. ReqsOf(c)' = ReqsOf(c) /\ AcksOf(c)' = AcksOf(c)
  BY <1>1 DEF ReqsOf, AcksOf
<1>3. \A k \in AcksOf(c)' : idMap'[c][k.source] = idMap[c][k.source]
  BY MapKept DEF AckIds
<1>4. OneEach(c)'
  BY <1>1, <1>2, <1>3 DEF StatusInvBy, OneEach
<1>5. \A a, x : /\ AcquireOn(c, a, x)' = AcquireOn(c, a, x)
                /\ AcquireOut(c, a, x)' = AcquireOut(c, a, x)
                /\ AckOwed(c, a, x)' = AckOwed(c, a, x)
                /\ CBOOn(c, a)' = CBOOn(c, a) /\ CBOOut(c, a)' = CBOOut(c, a)
  BY <1>1, <1>2, <1>3 DEF AcquireOn, AcquireOut, AckOwed, CBOOn, CBOOut
<1>6. /\ \A a \in Addr, x \in Alias : Messages(c, st[a][x], a, x)
      /\ \A a \in Addr, x \in Alias : st[a][x] # "S_INVALID" => a \in known'[c]
      /\ \A r \in pendingA[c] :
           \/ r.op \in AcquireOp /\ st[r.addr][r.alias] \in AcquireFirable
           \/ r.op \in CBOOp /\ \A x \in Alias : st[r.addr][x] \in CBOSending
      /\ \A r \in pendingC[c] :
           IF r.op \in ReleaseOp THEN st[r.addr][r.alias] \in SendingC \cup {"S_VALID"}
           ELSE st[r.addr][r.alias] \in OnC
      /\ known[c] \subseteq known'[c]
  <2>1. known'[c] = known[c] \cup {r.addr : r \in pendingA[c]}
    BY DEF Update, TypeOK, TypeEntries
  <2> QED BY <2>1, StatusSendA
<1>7. \A r \in pendingA[c] : r.addr \in Addr /\ r.alias \in Alias
  BY DEF TypeOK, TypePending, ReqA
<1>8. st \in [Addr -> [Alias -> Status]]
  BY PresentedType
<1>9. ASSUME NEW r \in ReqC, NEW t, pendingC'[c] = {r}, pendingC[c] \subseteq {r},
             \A a \in Addr, x \in Alias :
               status'[c][a][x] = IF a = r.addr /\ x = r.alias THEN t ELSE st[a][x],
             Messages(c, t, r.addr, r.alias)', t # "S_INVALID" => r.addr \in known'[c],
             st[r.addr][r.alias] \in AcquireFirable => t \in AcquireFirable,
             st[r.addr][r.alias] \in CBOSending => t \in CBOSending,
             t \in SendingC \/ (r.op \notin ReleaseOp /\ t \in OnC)
      PROVE  StatusInvBy(c)'
  <2>1. r.addr \in Addr /\ r.alias \in Alias
    BY ReqCFields
  <2>2. ASSUME NEW a \in Addr, NEW x \in Alias
        PROVE  Tells(c, status[c][a][x], a, x)'
    <3>1. CASE a = r.addr /\ x = r.alias
      BY <1>9, <3>1 DEF Tells
    <3>2. CASE ~(a = r.addr /\ x = r.alias)
      <4>1. status'[c][a][x] = st[a][x] /\ ~Presents(pendingC[c], a, x)
        BY <1>9, <3>2 DEF Presents
      <4> QED BY <1>1, <1>5, <1>6, <4>1 DEF Tells, Messages, Presents
    <3> QED BY <3>1, <3>2
  <2>3. ASSUME NEW q \in pendingA'[c]
        PROVE  TellsA(c, q)'
    BY <1>1, <1>6, <1>7, <1>9 DEF TellsA
  <2>4. TellsC(c, r)'
    BY <1>9, <2>1, PresentedAgain DEF TellsC
  <2> QED BY <1>4, <1>9, <2>2, <2>3, <2>4 DEF StatusInvBy
<1>10. ASSUME SendC(c, st, {}), pendingC[c] = {}
       PROVE  StatusInvBy(c)'
  <2>1. status'[c] = st /\ pendingC'[c] = {}
    BY <1>10 DEF SendC, AfterSendC, TypeOK, TypePending, TypeEntries, PerBlock
  <2>2. ASSUME NEW a \in Addr, NEW x \in Alias
        PROVE  Tells(c, status[c][a][x], a, x)'
    BY <1>1, <1>5, <1>6, <1>10, <2>1 DEF Tells, Messages, Presents
  <2>3. ASSUME NEW q \in pendingA'[c]
        PROVE  TellsA(c, q)'
    BY <1>1, <1>6, <1>7, <2>1 DEF TellsA
  <2> QED BY <1>4, <2>1, <2>2, <2>3 DEF StatusInvBy
<1>11. ASSUME NEW r \in ReqC, SendC(c, st, {r})
       PROVE  /\ pendingC'[c] = {r}
              /\ \A a \in Addr, x \in Alias :
                   status'[c][a][x] =
                     IF a = r.addr /\ x = r.alias
                     THEN IF r.op \in ReleaseOp THEN AfterSendRelease(st[a][x])
                          ELSE AfterSendProbeAck(r.op, st[a][x])
                     ELSE st[a][x]
  <2>1. r.addr \in Addr /\ r.alias \in Alias
    BY ReqCFields
  <2>2. The({r}) = r
    BY DEF The
  <2>3. pendingC'[c] = {r} /\ status'[c] = AfterSendC(st, {r})
    BY <1>11 DEF SendC, TypeOK, TypePending, TypeEntries, PerBlock
  <2> QED BY <1>8, <2>1, <2>2, <2>3 DEF AfterSendC
<1>12. CASE NoHandleB(c, st)
  <2>1. SendC(c, st, pendingC[c]) /\ SendCCheck(c, st, pendingC[c]) = {}
    BY <1>12 DEF NoHandleB
  <2>2. CASE pendingC[c] = {}
    BY <1>10, <2>1, <2>2
  <2>3. ASSUME NEW r \in pendingC[c]
        PROVE  StatusInvBy(c)'
    <3>1. pendingC[c] = {r} /\ r \in ReqC /\ r.addr \in Addr /\ r.alias \in Alias
      BY ReqCFields DEF IdInv, IdInvBy, OnePending, TypeOK, TypePending
    <3> PICK s : s = st[r.addr][r.alias]
      OBVIOUS
    <3> PICK t : t = IF r.op \in ReleaseOp THEN AfterSendRelease(s)
                     ELSE AfterSendProbeAck(r.op, s)
      OBVIOUS
    <3>2. Messages(c, s, r.addr, r.alias) /\ (s # "S_INVALID" => r.addr \in known'[c])
      BY <1>6, <3>1
    <3>3. /\ pendingC'[c] = {r}
          /\ \A a \in Addr, x \in Alias :
               status'[c][a][x] = IF a = r.addr /\ x = r.alias THEN t ELSE st[a][x]
      BY <1>11, <2>1, <3>1
    <3>4. t = s \/ (s = "S_VALID" /\ t = "S_SENDING_C")
      <4>1. CASE r.op \in ReleaseOp
        BY <1>6, <4>1, PresentedAgain
      <4>2. CASE r.op \notin ReleaseOp
        <5>1. r.op \in ProbeAckOp
          BY <3>1, <4>2 DEF ReqC
        <5>2. s \in ProbeAckSendable
          BY <2>1, <3>1, <5>1, SendCPassed
        <5> QED BY <1>6, <4>2, <5>2, PresentedAgain
      <4> QED BY <4>1, <4>2
    <3>5. t \in SendingC \/ (r.op \notin ReleaseOp /\ t \in OnC)
      BY <1>6, <3>4, PresentedAgain
    <3>6. Presents(pendingC'[c], r.addr, r.alias)
      BY <3>3 DEF Presents
    <3>7. Messages(c, t, r.addr, r.alias)' /\ (t # "S_INVALID" => r.addr \in known'[c])
      BY <1>1, <1>5, <3>2, <3>4, <3>6, PresentedAgain DEF Messages
    <3> QED BY <1>9, <3>1, <3>3, <3>4, <3>5, <3>7, PresentedAgain
  <2> QED BY <2>2, <2>3
<1>13. ASSUME NEW b \in pendingB[c], HandleB(c, b, st)
       PROVE  StatusInvBy(c)'
  <2>1. pendingC[c] = {} /\ b \in ReqB
    BY <1>13 DEF HandleB, AnswersProbe, TypeOK, TypePending
  <2>2. PICK r \in ProbeAnswers(c, b, st) :
          /\ SendC(c, st, {r})
          /\ HandleBCheck(c, b, st) = {} /\ SendCCheck(c, st, {r}) = {}
    BY <1>13 DEF HandleB
  <2>3. r \in ReqC /\ r.op \in ProbeAckOp /\ r.op \notin ReleaseOp
    BY <2>1, AnswerGivesUp, ProbeAnswersType DEF ProbeAckOp, ReleaseOp
  <2>4. r.addr \in Addr /\ r.alias \in Alias
    BY <2>3, ReqCFields
  <2> PICK s : s = st[r.addr][r.alias]
    OBVIOUS
  <2> PICK t : t = AfterSendProbeAck(r.op, s)
    OBVIOUS
  <2>5. Messages(c, s, r.addr, r.alias)
    BY <1>6, <2>4
  <2>6. s \in ProbeAckSendable \ OnC
    <3>1. s \in ProbeAckSendable
      BY <2>2, <2>3, SendCPassed
    <3>2. ~Presents(pendingC[c], r.addr, r.alias)
      BY <2>1 DEF Presents
    <3> QED BY <2>5, <3>1, <3>2 DEF Messages
  <2>7. r.addr \in known'[c]
    <3>1. r.addr \in known[c]
      BY <2>2, SendCPassed
    <3> QED BY <1>6, <3>1
  <2>8. /\ pendingC'[c] = {r}
        /\ \A a \in Addr, x \in Alias :
             status'[c][a][x] = IF a = r.addr /\ x = r.alias THEN t ELSE st[a][x]
    BY <1>11, <2>2, <2>3
  <2>9. Presents(pendingC'[c], r.addr, r.alias)
    BY <2>8 DEF Presents
  <2>10. Messages(c, t, r.addr, r.alias)'
    BY <1>1, <1>5, <2>5, <2>6, <2>9, ProbeAckSent DEF Messages
  <2> QED BY <1>9, <2>1, <2>3, <2>6, <2>7, <2>8, <2>10, ProbeAckSent
<1> QED BY <1>12, <1>13 DEF Update

\* Every step that fails no assertion keeps statuses and messages together.
LEMMA StatusStep ==
  TypeOK /\ IdInv /\ IdInv' /\ MapInv /\ CMOInv /\ StatusInv /\ [Next]_vars => StatusInv'
<1> SUFFICES ASSUME TypeOK, IdInv, IdInv', MapInv, CMOInv, StatusInv, [Next]_vars,
                    failed' = {}, NEW d \in Core
             PROVE  StatusInvBy(d)'
  BY DEF StatusInv
<1>1. failed = {} => StatusInvBy(d)
  BY DEF StatusInv
<1>2. ASSUME NEW c \in Core, c # d, UNCHANGED ownVars(d), Unpresented(d) => Unpresented(d)',
             failed = {}
      PROVE  StatusInvBy(d)'
  BY <1>1, <1>2, StatusFrame DEF ownVars
<1>3. ASSUME NEW a \in Addr, WriteBack(a)
      PROVE  StatusInvBy(d)'
  <2>1. failed = {} /\ UNCHANGED <<pos, entryVars, pendVars, idVars, reqs, relAcks>>
    BY <1>3 DEF WriteBack, dutVars
  <2> QED BY <1>1, <2>1, StatusFrame
          DEF entryVars, pendVars, idVars, ReqsOf, AcksOf, Unpresented, PosFuzz, PosUpdate
<1>4. ASSUME NEW c \in Core, FireA(c)
      PROVE  StatusInvBy(d)'
  BY <1>1, <1>2, <1>4, ElsewhereA, StatusFireA, UnpresentedStays DEF FireA, At, Reach
<1>5. ASSUME NEW c \in Core, FireB(c)
      PROVE  StatusInvBy(d)'
  <2>1. /\ failed = {}
        /\ Unpresented(d) => Unpresented(d)'
        /\ UNCHANGED <<entryVars, pendingA, pendingC, pendingE, idVars, reqs, relAcks>>
    BY <1>5, UnpresentedStays DEF FireB, At, Reach
  <2> QED BY <1>1, <2>1, StatusFrame DEF entryVars, idVars, ReqsOf, AcksOf
<1>6. ASSUME NEW c \in Core, FireC(c)
      PROVE  StatusInvBy(d)'
  BY <1>1, <1>2, <1>6, ElsewhereC, StatusFireC, UnpresentedStays DEF FireC, At, Reach
<1>7. ASSUME NEW c \in Core, FireE(c)
      PROVE  StatusInvBy(d)'
  BY <1>1, <1>2, <1>7, ElsewhereBE, StatusFireE, UnpresentedStays DEF FireE, At, Reach
<1>8. ASSUME NEW c \in Core, FireD(c)
      PROVE  StatusInvBy(d)'
  BY <1>1, <1>2, <1>8, ElsewhereD, StatusFireD, UnpresentedStays DEF FireD, At, Reach
<1>9. ASSUME NEW c \in Core, Fuzz(c)
      PROVE  StatusInvBy(d)'
  BY <1>1, <1>2, <1>9, ElsewhereFuzz, StatusFuzz, UnpresentedStays DEF Fuzz, At, Reach
<1>10. ASSUME NEW c \in Core, Update(c)
       PROVE  StatusInvBy(d)'
  <2>1. failed = {}
    BY <1>10 DEF Update
  <2>2. CASE c = d
    BY <1>1, <1>10, <2>1, <2>2, StatusUpdate
  <2>3. CASE c # d
    BY <1>2, <1>10, <2>1, <2>3, ElsewhereUpdate, UnpresentedUpdate
  <2> QED BY <2>2, <2>3
<1>11. CASE UNCHANGED vars
  <2>1. failed = {} /\ UNCHANGED <<pos, entryVars, pendVars, idVars, reqs, relAcks>>
    BY <1>11 DEF vars, dutVars
  <2> QED BY <1>1, <2>1, StatusFrame
          DEF entryVars, pendVars, idVars, ReqsOf, AcksOf, Unpresented, PosFuzz, PosUpdate
<1> QED BY <1>3, <1>4, <1>5, <1>6, <1>7, <1>8, <1>9, <1>10, <1>11 DEF Next

\* Statuses and messages tell the same story in every reachable state.
LEMMA StatusHolds ==
  Spec => [](TypeOK /\ IdInv /\ MapInv /\ CMOInv /\ AltInv /\ CopyInv /\ StatusInv)
<1>1. Init => StatusInv
  BY StatusInit
<1>2. TypeOK /\ IdInv /\ IdInv' /\ MapInv /\ CMOInv /\ StatusInv /\ [Next]_vars => StatusInv'
  BY StatusStep
<1> QED BY <1>1, <1>2, CopyHolds, PTL DEF Spec

\* The CMOs an agent counts: finitely many, within the depth, each on the port or
\* unanswered.
CMOSlots(c) ==
  /\ IsFiniteSet(CMOInflight(c))
  /\ cmoParallelDepth > 0 => Cardinality(CMOInflight(c)) <= cmoParallelDepth
  /\ \A a \in CMOInflight(c) :
       CBOFor(c, a) # {} \/ \E r \in pendingA[c] : r.addr = a /\ r.op \in CBOOp

SlotsInv == \A c \in Core : CMOSlots(c)

\* No CMO is counted at first.
LEMMA SlotsInit == Init => SlotsInv
<1> SUFFICES ASSUME Init, NEW c \in Core
             PROVE  CMOSlots(c)
  BY DEF SlotsInv
<1>1. CMOInflight(c) = {}
  BY DEF Init, CMOInflight
<1> QED BY <1>1, FS_EmptySet, ConfigAssumption DEF CMOSlots

\* An agent that counts the same CMOs and loses no message about one keeps its part.
LEMMA SlotsFrame ==
  ASSUME NEW d \in Core, CMOSlots(d), CMOInflight(d)' = CMOInflight(d),
         \A r \in pendingA[d] : r.op \in CBOOp => r \in pendingA'[d] \cup ReqsOf(d)',
         \A r \in ReqsOf(d) : r.op \in CBOOp => r \in ReqsOf(d)'
  PROVE  CMOSlots(d)'
<1>1. ASSUME NEW a \in CMOInflight(d)
      PROVE  CBOFor(d, a)' # {} \/ \E r \in pendingA'[d] : r.addr = a /\ r.op \in CBOOp
  <2>1. CASE CBOFor(d, a) # {}
    <3>1. PICK r \in CBOFor(d, a) : TRUE
      BY <2>1
    <3>2. r \in ReqsOf(d)' /\ r.op \in CBOOp /\ r.addr = a /\ r.core = d
      BY <3>1 DEF CBOFor, ReqsOf
    <3> QED BY <3>2 DEF CBOFor, ReqsOf
  <2>2. ASSUME NEW r \in pendingA[d], r.addr = a, r.op \in CBOOp
        PROVE  CBOFor(d, a)' # {} \/ \E q \in pendingA'[d] : q.addr = a /\ q.op \in CBOOp
    BY <2>2 DEF CBOFor, ReqsOf
  <2> QED BY <2>1, <2>2 DEF CMOSlots
<1> QED BY <1>1 DEF CMOSlots

\* fire_a: the CMO moves from the port to the device.
LEMMA SlotsFireA ==
  ASSUME TypeOK, IdInv, CMOInv, NEW c \in Core, FireA(c), NEW d \in Core, CMOSlots(d)
  PROVE  CMOSlots(d)'
<1>1. PICK r \in pendingA[c] :
        /\ pendingA' = [pendingA EXCEPT ![c] = {}]
        /\ reqs' = reqs \cup {r}
        /\ cmo' = IF r.op \in CBOOp
             THEN [cmo EXCEPT ![c][r.addr] = [op |-> cmo[c][r.addr].op, fired |-> TRUE]]
             ELSE cmo
  BY DEF FireA
<1>2. r.core = c /\ pendingA[c] = {r} /\ r \in ReqA
  BY <1>1 DEF IdInv, IdInvBy, OnePending, TypeOK, TypePending
<1>3. cmo \in [Core -> [Addr -> CMOStatus]] /\ r.addr \in Addr /\ pendingA \in [Core -> SUBSET ReqA]
  BY <1>2 DEF TypeOK, TypeIds, PerAddr, ReqA, TypePending
<1>4. \A a \in Addr : cmo'[d][a].op = cmo[d][a].op
  BY <1>1, <1>3
<1>5. CMOInflight(d)' = CMOInflight(d)
  BY <1>4 DEF CMOInflight
<1>6. \A q \in pendingA[d] : q.op \in CBOOp => q \in pendingA'[d] \cup ReqsOf(d)'
  BY <1>1, <1>2, <1>3 DEF ReqsOf
<1>7. \A q \in ReqsOf(d) : q \in ReqsOf(d)'
  BY <1>1 DEF ReqsOf
<1> QED BY <1>5, <1>6, <1>7, SlotsFrame

\* A CBOAck ends the CMO it answers and no other answer ends one.
LEMMA SlotsFireD ==
  ASSUME TypeOK, IdInv, CMOInv, NEW c \in Core, FireD(c), NEW d \in Core, CMOSlots(d)
  PROVE  CMOSlots(d)'
<1>1. pendingA' = pendingA
  BY DEF FireD
<1>2. CASE cmo' = cmo /\ \A r \in reqs : r.op \in CBOOp => r \in reqs'
  <2>1. CMOInflight(d)' = CMOInflight(d) /\ \A r \in ReqsOf(d) : r.op \in CBOOp => r \in ReqsOf(d)'
    BY <1>2 DEF CMOInflight, ReqsOf
  <2> QED BY <1>1, <2>1, SlotsFrame
<1>3. ASSUME NEW r \in reqs, r.core = c, MayAckCBO(r), FireCBOAck(c, r)
      PROVE  CMOSlots(d)'
  <2>1. /\ cmo' = [cmo EXCEPT ![c][r.addr] = [op |-> "none", fired |-> FALSE]]
        /\ reqs' = reqs \ {r}
    BY <1>3 DEF FireCBOAck
  <2>2. cmo \in [Core -> [Addr -> CMOStatus]] /\ r.addr \in Addr
    BY DEF TypeOK, TypeIds, PerAddr, TypeDevice, ReqA
  <2>3. CASE d # c
    <3>1. cmo'[d] = cmo[d]
      BY <2>1, <2>2, <2>3
    <3>2. CMOInflight(d)' = CMOInflight(d)
      BY <3>1 DEF CMOInflight
    <3>3. \A q \in ReqsOf(d) : q \in ReqsOf(d)'
      BY <1>3, <2>1, <2>3 DEF ReqsOf
    <3> QED BY <1>1, <3>2, <3>3, SlotsFrame
  <2>4. CASE d = c
    <3>1. \A a \in Addr : cmo'[c][a] = IF a = r.addr THEN [op |-> "none", fired |-> FALSE]
                                        ELSE cmo[c][a]
      BY <2>1, <2>2
    <3>2. CMOInflight(c)' = CMOInflight(c) \ {r.addr}
      BY <3>1 DEF CMOInflight
    <3>3. IsFiniteSet(CMOInflight(c)) /\ CMOInflight(c)' \subseteq CMOInflight(c)
      BY <2>4, <3>2 DEF CMOSlots
    <3>4. /\ IsFiniteSet(CMOInflight(c)')
          /\ Cardinality(CMOInflight(c)') <= Cardinality(CMOInflight(c))
          /\ Cardinality(CMOInflight(c)') \in Nat /\ Cardinality(CMOInflight(c)) \in Nat
      BY <3>3, FS_Subset, FS_CardinalityType
    <3>5. cmoParallelDepth > 0 => Cardinality(CMOInflight(c)') <= cmoParallelDepth
      BY <2>4, <3>4, ConfigAssumption DEF CMOSlots
    <3>6. ASSUME NEW a \in CMOInflight(c)'
          PROVE  CBOFor(c, a)' # {} \/ \E q \in pendingA'[c] : q.addr = a /\ q.op \in CBOOp
      <4>1. a \in CMOInflight(c) /\ a # r.addr
        BY <3>2, <3>6
      <4>2. CBOFor(c, a) # {} \/ \E q \in pendingA[c] : q.addr = a /\ q.op \in CBOOp
        BY <2>4, <4>1 DEF CMOSlots
      <4>3. CBOFor(c, a)' = CBOFor(c, a)
        BY <2>1, <4>1 DEF CBOFor
      <4> QED BY <1>1, <4>2, <4>3
    <3> QED BY <2>4, <3>4, <3>5, <3>6 DEF CMOSlots
  <2> QED BY <2>3, <2>4
<1>4. \A p \in pendingD[c] : p.req \in reqs /\ p.req.op \in AcquireOp
  BY DEF IdInv, IdInvBy, GrantOwed, ReqsOf, AcquireOp
<1>5. ASSUME NEW k \in relAcks, FireReleaseAck(c, k)
      PROVE  cmo' = cmo /\ reqs' = reqs
  BY <1>5 DEF FireReleaseAck
<1>6. ASSUME NEW r \in reqs, NEW perm, FireGrantBeat(c, r, perm)
      PROVE  cmo' = cmo /\ reqs' = reqs
  BY <1>6 DEF FireGrantBeat
<1>7. ASSUME NEW r \in reqs, r.op \in AcquireOp, NEW perm, FireGrant(c, r, perm)
      PROVE  cmo' = cmo /\ \A q \in reqs : q.op \in CBOOp => q \in reqs'
  BY <1>7 DEF FireGrant, AcquireOp, CBOOp
<1>8. ASSUME NEW p \in pendingD[c], FireGrant(c, p.req, p.perm)
      PROVE  CMOSlots(d)'
  BY <1>2, <1>4, <1>7, <1>8
<1>9. ASSUME NEW r \in reqs, NEW perm \in TLPermission,
             FireGrantBeat(c, r, perm) \/ (r.op = "AcquirePerm" /\ FireGrant(c, r, perm))
      PROVE  CMOSlots(d)'
  BY <1>2, <1>6, <1>7, <1>9 DEF AcquireOp
<1>10. ASSUME NEW k \in relAcks, FireReleaseAck(c, k)
       PROVE  CMOSlots(d)'
  BY <1>2, <1>5, <1>10
<1> QED BY <1>3, <1>8, <1>9, <1>10 DEF FireD

\* do_cbo counts a CMO only within the depth, and puts it on the port.
LEMMA SlotsFuzz ==
  ASSUME TypeOK, NEW c \in Core, Fuzz(c), NEW d \in Core, CMOSlots(d)
  PROVE  CMOSlots(d)'
<1>1. ReqsOf(d)' = ReqsOf(d)
  BY DEF Fuzz, dutVars, ReqsOf
<1>2. cmo \in [Core -> [Addr -> CMOStatus]] /\ pendingA \in [Core -> SUBSET ReqA]
  BY DEF TypeOK, TypeIds, PerAddr, TypePending
<1>3. CASE cmo' = cmo /\ \A r \in pendingA[d] : r \in pendingA'[d]
  <2>1. CMOInflight(d)' = CMOInflight(d)
    BY <1>3 DEF CMOInflight
  <2> QED BY <1>1, <1>3, <2>1, SlotsFrame
<1>4. ASSUME NEW i, NEW op \in CBOOp, NEW a \in Addr, DoCBO(c, i, op, a)
      PROVE  CMOSlots(d)'
  <2> DEFINE r == [core |-> c, op |-> op, addr |-> a, alias |-> CHOOSE x \in Alias : TRUE,
                   param |-> "NtoB", source |-> i]
  <2>1. /\ cmo[c][a].op = "none" /\ pendingA[c] = {}
        /\ pendingA' = [pendingA EXCEPT ![c] = {r}]
        /\ cmo' = [cmo EXCEPT ![c][a] = [op |-> op, fired |-> FALSE]]
    BY <1>4 DEF DoCBO
  <2>2. DepthAllows(c)
    BY <1>4 DEF DoCBO
  <2>3. r.addr = a /\ r.op = op
    OBVIOUS
  <2> HIDE DEF r
  <2>4. CASE d # c
    <3>1. cmo'[d] = cmo[d] /\ pendingA'[d] = pendingA[d]
      BY <1>2, <2>1, <2>4
    <3>2. CMOInflight(d)' = CMOInflight(d)
      BY <3>1 DEF CMOInflight
    <3> QED BY <1>1, <3>1, <3>2, SlotsFrame
  <2>5. CASE d = c
    <3>1. \A b \in Addr : cmo'[c][b] = IF b = a THEN [op |-> op, fired |-> FALSE] ELSE cmo[c][b]
      BY <1>2, <2>1
    <3>2. CMOInflight(c)' = CMOInflight(c) \cup {a} /\ a \notin CMOInflight(c)
      BY <2>1, <3>1 DEF CMOInflight, CBOOp
    <3>3. IsFiniteSet(CMOInflight(c))
      BY <2>5 DEF CMOSlots
    <3>4. /\ IsFiniteSet(CMOInflight(c)')
          /\ Cardinality(CMOInflight(c)') = Cardinality(CMOInflight(c)) + 1
          /\ Cardinality(CMOInflight(c)) \in Nat
      BY <3>2, <3>3, FS_AddElement, FS_CardinalityType
    <3>5. cmoParallelDepth > 0 => Cardinality(CMOInflight(c)') <= cmoParallelDepth
      BY <2>2, <3>4, ConfigAssumption DEF DepthAllows
    <3>6. pendingA'[c] = {r}
      BY <1>2, <2>1
    <3>7. ASSUME NEW b \in CMOInflight(c)'
          PROVE  CBOFor(c, b)' # {} \/ \E q \in pendingA'[c] : q.addr = b /\ q.op \in CBOOp
      <4>1. CASE b = a
        BY <2>3, <3>6, <4>1
      <4>2. CASE b # a
        <5>1. CBOFor(c, b) # {}
          BY <2>1, <2>5, <3>2, <3>7, <4>2 DEF CMOSlots
        <5>2. CBOFor(c, b)' = CBOFor(c, b)
          BY DEF CBOFor, Fuzz, dutVars
        <5> QED BY <5>1, <5>2
      <4> QED BY <4>1, <4>2
    <3> QED BY <2>5, <3>4, <3>5, <3>7 DEF CMOSlots
  <2> QED BY <2>4, <2>5
<1>5. ASSUME NEW op, NEW i, NEW a, NEW x, NEW param, DoAcquire(c, i, op, a, x, param)
      PROVE  cmo' = cmo /\ \A r \in pendingA[d] : r \in pendingA'[d]
  BY <1>2, <1>5 DEF DoAcquire
<1>6. ASSUME NEW i, NEW a, NEW x, DoReleaseDataAuto(c, i, a, x)
      PROVE  cmo' = cmo /\ \A r \in pendingA[d] : r \in pendingA'[d]
  BY <1>6 DEF DoReleaseDataAuto
<1> QED BY <1>3, <1>4, <1>5, <1>6 DEF Fuzz

\* Every step preserves SlotsInv.
LEMMA SlotsStep == TypeOK /\ IdInv /\ CMOInv /\ SlotsInv /\ [Next]_vars => SlotsInv'
<1> SUFFICES ASSUME TypeOK, IdInv, CMOInv, SlotsInv, [Next]_vars, NEW d \in Core
             PROVE  CMOSlots(d)'
  BY DEF SlotsInv
<1>0. CMOSlots(d)
  BY DEF SlotsInv
<1>1. CASE \E c \in Core : FireA(c)
  BY <1>0, <1>1, SlotsFireA
<1>2. CASE \E c \in Core : FireD(c)
  BY <1>0, <1>2, SlotsFireD
<1>3. CASE \E c \in Core : Fuzz(c)
  BY <1>0, <1>3, SlotsFuzz
<1>4. CASE UNCHANGED <<cmo, pendingA, reqs>>
  <2>1. CMOInflight(d)' = CMOInflight(d) /\ ReqsOf(d)' = ReqsOf(d)
    BY <1>4 DEF CMOInflight, ReqsOf
  <2> QED BY <1>0, <1>4, <2>1, SlotsFrame
<1>5. ASSUME NEW a \in Addr, WriteBack(a)
      PROVE  UNCHANGED <<cmo, pendingA, reqs>>
  BY <1>5 DEF WriteBack, timeVars, pendVars, dutVars
<1>6. ASSUME NEW c \in Core, FireB(c) \/ FireC(c) \/ FireE(c) \/ Update(c)
      PROVE  UNCHANGED <<cmo, pendingA, reqs>>
  BY <1>6 DEF FireB, FireC, FireE, Update, timeVars, dutVars
<1>7. CASE UNCHANGED vars
  BY <1>4, <1>7 DEF vars, timeVars, pendVars, dutVars
<1> QED BY <1>1, <1>2, <1>3, <1>4, <1>5, <1>6, <1>7 DEF Next

\* What CMOInv and SlotsInv say of each direction, together.
LEMMA SlotsTrack ==
  ASSUME TypeOK, CMOInv, SlotsInv, NEW c \in Core
  PROVE  CMOsTrackMessages(c)
<1>1. ASSUME NEW a \in Addr, CBOFor(c, a) # {} \/ \E r \in pendingA[c] : r.addr = a /\ r.op \in CBOOp
      PROVE  a \in CMOInflight(c)
  <2>1. CASE CBOFor(c, a) # {}
    <3>1. PICK r \in ReqsOf(c) : r.addr = a /\ r.op \in CBOOp
      BY <2>1 DEF CBOFor, ReqsOf
    <3> QED BY <3>1 DEF CMOInv, CMOInvBy, CMOInflight, CBOOp
  <2>2. ASSUME NEW r \in pendingA[c], r.addr = a, r.op \in CBOOp
        PROVE  a \in CMOInflight(c)
    BY <2>2 DEF CMOInv, CMOInvBy, CMOInflight, CBOOp
  <2> QED BY <1>1, <2>1, <2>2
<1> QED BY <1>1 DEF SlotsInv, CMOSlots, CMOsTrackMessages

\* A block's status and the messages in flight tell the same story as long as no
\* assertion has failed, for every device the model knows: whatever it stalls, probes
\* and answers out of order, a waiting status has the answer that ends it on its way, a
\* sending status its request on the port, and no answer comes to a block that does not
\* wait for it; and an agent counts the CMOs it has under way, within the depth.
THEOREM StatusesTrack == Spec => []StatusTracksMessages
<1>1. TypeOK /\ MapInv /\ CMOInv /\ StatusInv /\ SlotsInv => StatusTracksMessages
  <2> SUFFICES ASSUME TypeOK, MapInv, CMOInv, StatusInv, SlotsInv, failed = {}, NEW c \in Core,
                      NEW a \in Addr, NEW x \in Alias
               PROVE  LET st == status[c][a][x] IN
        /\ st \in AwaitingReleaseAck <=>
             \E k \in AcksFor(c, a) : [addr |-> a, alias |-> x] \in idMap[c][k.source]
        /\ st \in {"S_A_WAITING_D", "S_A_WAITING_D_INTR", "S_A_WAITING_D_NESTED_SENDING_C"}
             <=> AcquireFor(c, a, x) # {}
        /\ st \in CBOAwaitingD <=> CBOFor(c, a) # {}
        /\ st = "S_SENDING_E" <=> Presents(pendingE[c], a, x)
        /\ st \in CBOSending => \E r \in pendingA[c] : r.addr = a /\ r.op \in CBOOp
        /\ st \in AcquireFirable =>
             \E r \in pendingA[c] : r.addr = a /\ r.alias = x /\ r.op \in AcquireOp
        /\ st \in SendingC => Presents(pendingC[c], a, x)
    BY SlotsTrack DEF StatusTracksMessages
  <2>1. Messages(c, status[c][a][x], a, x)
    BY DEF StatusInv, StatusInvBy, Tells
  <2>2. AckOwed(c, a, x) <=>
          \E k \in AcksFor(c, a) : [addr |-> a, alias |-> x] \in idMap[c][k.source]
    <3>1. \A k \in AcksOf(c) :
            \E y \in Alias : idMap[c][k.source] = {[addr |-> k.addr, alias |-> y]}
      BY DEF MapInv, MapInvBy
    <3>2. AcksFor(c, a) = {k \in AcksOf(c) : k.addr = a}
      BY DEF AcksFor, AcksOf
    <3>3. ASSUME NEW k \in AcksOf(c), idMap[c][k.source] = {[addr |-> a, alias |-> x]}
          PROVE  k.addr = a
      <4>1. PICK y \in Alias : idMap[c][k.source] = {[addr |-> k.addr, alias |-> y]}
        BY <3>1
      <4>2. [addr |-> k.addr, alias |-> y] = [addr |-> a, alias |-> x]
        BY <3>3, <4>1
      <4> QED BY <4>2
    <3> QED BY <3>1, <3>2, <3>3 DEF AckOwed
  <2>3. AcquireOut(c, a, x) <=> AcquireFor(c, a, x) # {}
    BY DEF AcquireOut, AcquireFor, ReqsOf
  <2>4. CBOOut(c, a) <=> CBOFor(c, a) # {}
    BY DEF CBOOut, CBOFor, ReqsOf
  <2>5. AcquireOn(c, a, x) => \E r \in pendingA[c] : r.addr = a /\ r.alias = x /\ r.op \in AcquireOp
    BY DEF AcquireOn
  <2>6. CBOOn(c, a) => \E r \in pendingA[c] : r.addr = a /\ r.op \in CBOOp
    BY DEF CBOOn
  <2> QED BY <2>1, <2>2, <2>3, <2>4, <2>5, <2>6, PresentedAgain DEF Messages, AWaiting
<1>2. Init => SlotsInv
  BY SlotsInit
<1>3. TypeOK /\ IdInv /\ CMOInv /\ SlotsInv /\ [Next]_vars => SlotsInv'
  BY SlotsStep
<1> QED BY <1>1, <1>2, <1>3, StatusHolds, PTL DEF Spec

-----------------------------------------------------------------------------
(* What a Release says *)

\* A Release on the port gives up all the directory records of its block, and one
\* with data gives up a TIP.
ReleaseInvBy(c) ==
  \A r \in pendingC[c] : r.op \in ReleaseOp =>
    LET held == dir[c][r.addr][r.alias] IN
    \/ r.param = "TtoN" /\ held = "TIP"
    \/ r.op = "Release" /\ r.param = "BtoN" /\ held = "BRANCH"
ReleaseInv == \A c \in Core : ReleaseInvBy(c)

\* Nothing is on C at first.
LEMMA ReleaseInit == Init => ReleaseInv
  BY DEF Init, ReleaseInv, ReleaseInvBy

\* A beat that is not the last changes nothing of what C says; after the last C is empty.
LEMMA ReleaseFireC ==
  ASSUME TypeOK, IdInv, NEW c \in Core, FireC(c), ReleaseInvBy(c)
  PROVE  ReleaseInvBy(c)'
<1>1. PICK r \in pendingC[c] : FireCBeat(c, r) \/ FireRelease(c, r) \/ FireProbeAck(c, r)
  BY DEF FireC
<1>2. CASE FireCBeat(c, r)
  <2>1. pendingC'[c] = {LessABeat(r)} /\ dir' = dir
    BY <1>2 DEF FireCBeat, TypeOK, TypePending
  <2> QED BY <2>1 DEF ReleaseInvBy, LessABeat
<1>3. CASE FireRelease(c, r) \/ FireProbeAck(c, r)
  <2>1. pendingC'[c] = {}
    BY <1>3 DEF FireRelease, FireProbeAck, TypeOK, TypePending
  <2> QED BY <2>1 DEF ReleaseInvBy
<1> QED BY <1>1, <1>2, <1>3

\* A block with a Release on the port has no Acquire to be answered.
LEMMA ReleaseAlone ==
  ASSUME TypeOK, NEW c \in Core, StatusInvBy(c), ~Unpresented(c),
         NEW r \in pendingC[c], r.op \in ReleaseOp
  PROVE  /\ r.addr \in Addr /\ r.alias \in Alias
         /\ status[c][r.addr][r.alias] \in SendingC
         /\ ~AcquireOut(c, r.addr, r.alias)
<1>1. r.addr \in Addr /\ r.alias \in Alias
  BY ReqCFields DEF TypeOK, TypePending
<1>2. status[c][r.addr][r.alias] \in SendingC
  BY DEF StatusInvBy, TellsC
<1>3. status[c][r.addr][r.alias] \notin AWaiting
  BY <1>2 DEF SendingC, AWaiting
<1> QED BY <1>1, <1>2, <1>3 DEF StatusInvBy, Tells, Messages

\* fire_d: a Grant of a block finds no Release of it on C.
LEMMA ReleaseFireD ==
  ASSUME TypeOK, IdInv, MapInv, NEW c \in Core, StatusInvBy(c), FireD(c), ReleaseInvBy(c)
  PROVE  ReleaseInvBy(c)'
<1>1. pendingC' = pendingC /\ ~Unpresented(c)
  BY Fired DEF FireD
<1>2. CASE dir' = dir
  BY <1>1, <1>2 DEF ReleaseInvBy
<1>3. ASSUME NEW q \in ReqsOf(c), q.op \in AcquireOp, NEW perm,
             dir' = [dir EXCEPT ![c][q.addr][q.alias] = perm]
      PROVE  ReleaseInvBy(c)'
  <2> SUFFICES ASSUME NEW r \in pendingC[c], r.op \in ReleaseOp
               PROVE  dir'[c][r.addr][r.alias] = dir[c][r.addr][r.alias]
    BY <1>1 DEF ReleaseInvBy
  <2>1. r.addr \in Addr /\ r.alias \in Alias /\ ~AcquireOut(c, r.addr, r.alias)
    BY <1>1, ReleaseAlone
  <2>2. ~(r.addr = q.addr /\ r.alias = q.alias)
    BY <1>3, <2>1 DEF AcquireOut
  <2> QED BY <1>3, <2>1, <2>2 DEF TypeOK, TypeDevice, PerBlock
<1>4. \/ dir' = dir
      \/ \E q \in ReqsOf(c) : \E perm :
           q.op \in AcquireOp /\ dir' = [dir EXCEPT ![c][q.addr][q.alias] = perm]
  <2>1. ASSUME NEW p \in pendingD[c], FireGrant(c, p.req, p.perm)
        PROVE  <1>4
    <3>1. p.req \in ReqsOf(c) /\ p.req.op \in AcquireOp
      BY DEF IdInv, IdInvBy, GrantOwed, AcquireOp
    <3>2. dir' = [dir EXCEPT ![c][p.req.addr][p.req.alias] = p.perm]
      BY <2>1 DEF FireGrant
    <3> QED BY <3>1, <3>2
  <2>2. ASSUME NEW q \in reqs, NEW perm, q.core = c, MayGrant(q, perm),
               FireGrantBeat(c, q, perm) \/ FireGrant(c, q, perm)
        PROVE  <1>4
    <3>1. q \in ReqsOf(c) /\ q.op \in AcquireOp
      BY <2>2 DEF MayGrant, ReqsOf
    <3>2. dir' = dir \/ dir' = [dir EXCEPT ![c][q.addr][q.alias] = perm]
      BY <2>2 DEF FireGrantBeat, FireGrant
    <3> QED BY <3>1, <3>2
  <2>3. ASSUME NEW k \in relAcks, FireReleaseAck(c, k)
        PROVE  <1>4
    BY <2>3 DEF FireReleaseAck
  <2>4. ASSUME NEW q \in reqs, FireCBOAck(c, q)
        PROVE  <1>4
    BY <2>4 DEF FireCBOAck
  <2> QED BY <2>1, <2>2, <2>3, <2>4 DEF FireD
<1> QED BY <1>2, <1>3, <1>4

\* do_releaseDataAuto says what the agent has, and so what the directory has.
LEMMA ReleaseFuzz ==
  ASSUME TypeOK, CopyInv, NEW c \in Core, Fuzz(c), ReleaseInvBy(c)
  PROVE  ReleaseInvBy(c)'
<1>1. dir' = dir /\ privilege = dir
  BY DEF Fuzz, dutVars, CopyInv
<1>2. CASE pendingC' = pendingC
  BY <1>1, <1>2 DEF ReleaseInvBy
<1>3. ASSUME NEW i, NEW a \in Addr, NEW x \in Alias, DoReleaseDataAuto(c, i, a, x)
      PROVE  ReleaseInvBy(c)'
  <2> PICK perm : perm = privilege[c][a][x]
    OBVIOUS
  <2> PICK toN : toN = IF perm = "TIP" THEN "TtoN" ELSE "BtoN"
    OBVIOUS
  <2>1. perm \in {"TIP", "BRANCH"}
    BY <1>3 DEF DoReleaseDataAuto, TypeOK, TypeEntries, PerBlock, TLPermission
  <2> DEFINE request(op, n, v) == [op |-> op, addr |-> a, alias |-> x, param |-> toN,
                                   beats |-> n, data |-> v, source |-> {i}]
  <2>2. \/ pendingC' = [pendingC EXCEPT ![c] = {request("Release", 1, Zero)}]
        \/ /\ perm = "TIP"
           /\ \E v \in Data : pendingC' = [pendingC EXCEPT ![c] = {request("ReleaseData", 2, v)}]
    BY <1>3 DEF DoReleaseDataAuto
  <2>4. \/ pendingC'[c] = {request("Release", 1, Zero)}
        \/ /\ perm = "TIP"
           /\ \E v \in Data : pendingC'[c] = {request("ReleaseData", 2, v)}
    BY <2>2 DEF TypeOK, TypePending
  <2>3. dir'[c][a][x] = perm
    BY <1>1
  <2> QED BY <2>1, <2>3, <2>4 DEF ReleaseInvBy
<1>4. ASSUME NEW i, NEW op, NEW a, NEW x, NEW param, DoAcquire(c, i, op, a, x, param)
      PROVE  ReleaseInvBy(c)'
  BY <1>2, <1>4 DEF DoAcquire
<1>5. ASSUME NEW i, NEW op, NEW a, DoCBO(c, i, op, a)
      PROVE  ReleaseInvBy(c)'
  BY <1>2, <1>5 DEF DoCBO
<1> QED BY <1>3, <1>4, <1>5 DEF Fuzz

\* update_signal presents the Release that is there, or the answer to a probe.
LEMMA ReleaseUpdate ==
  ASSUME TypeOK, NEW c \in Core, Update(c), ReleaseInvBy(c)
  PROVE  ReleaseInvBy(c)'
<1> PICK st : st = Presented(c)
  OBVIOUS
<1>1. dir' = dir
  BY DEF Update, dutVars
<1>2. CASE NoHandleB(c, st)
  <2>1. pendingC'[c] = pendingC[c]
    BY <1>2 DEF NoHandleB, SendC, TypeOK, TypePending
  <2> QED BY <1>1, <2>1 DEF ReleaseInvBy
<1>3. ASSUME NEW b \in pendingB[c], HandleB(c, b, st)
      PROVE  ReleaseInvBy(c)'
  <2>1. PICK C : /\ SendC(c, st, C)
                 /\ C = {} \/ \E r \in ProbeAnswers(c, b, st) : C = {r}
    BY <1>3 DEF HandleB
  <2>2. pendingC'[c] = C
    BY <2>1 DEF SendC, TypeOK, TypePending
  <2>3. \A r \in ProbeAnswers(c, b, st) : r.op \in ProbeAckOp
    BY AnswerGivesUp DEF TypeOK, TypePending
  <2> QED BY <2>1, <2>2, <2>3 DEF ReleaseInvBy, ProbeAckOp, ReleaseOp
<1> QED BY <1>2, <1>3 DEF Update

\* Every step keeps what a Release says true.
LEMMA ReleaseStep ==
  TypeOK /\ IdInv /\ MapInv /\ CopyInv /\ StatusInv /\ ReleaseInv /\ [Next]_vars => ReleaseInv'
<1> SUFFICES ASSUME TypeOK, IdInv, MapInv, CopyInv, StatusInv, ReleaseInv, [Next]_vars,
                    NEW d \in Core
             PROVE  ReleaseInvBy(d)'
  BY DEF ReleaseInv
<1>1. ReleaseInvBy(d)
  BY DEF ReleaseInv
<1>2. ASSUME UNCHANGED <<pendingC[d], dir[d]>>
      PROVE  ReleaseInvBy(d)'
  BY <1>1, <1>2 DEF ReleaseInvBy
<1>3. ASSUME UNCHANGED ownVars(d)
      PROVE  ReleaseInvBy(d)'
  BY <1>2, <1>3 DEF ownVars
<1>4. ASSUME NEW a \in Addr, WriteBack(a)
      PROVE  ReleaseInvBy(d)'
  BY <1>2, <1>4 DEF WriteBack, pendVars, dutVars
<1>5. ASSUME NEW c \in Core, FireA(c) \/ FireB(c) \/ FireE(c)
      PROVE  ReleaseInvBy(d)'
  BY <1>2, <1>5 DEF FireA, FireB, FireE
<1>6. ASSUME NEW c \in Core, FireC(c)
      PROVE  ReleaseInvBy(d)'
  BY <1>1, <1>3, <1>6, ElsewhereC, ReleaseFireC
<1>7. ASSUME NEW c \in Core, FireD(c)
      PROVE  ReleaseInvBy(d)'
  <2>1. StatusInvBy(d)
    BY <1>7 DEF FireD, At, Reach, StatusInv
  <2> QED BY <1>1, <1>3, <1>7, <2>1, ElsewhereD, ReleaseFireD
<1>8. ASSUME NEW c \in Core, Fuzz(c)
      PROVE  ReleaseInvBy(d)'
  BY <1>1, <1>3, <1>8, ElsewhereFuzz, ReleaseFuzz
<1>9. ASSUME NEW c \in Core, Update(c)
      PROVE  ReleaseInvBy(d)'
  BY <1>1, <1>3, <1>9, ElsewhereUpdate, ReleaseUpdate
<1>10. CASE UNCHANGED vars
  BY <1>2, <1>10 DEF vars, pendVars, dutVars
<1> QED BY <1>4, <1>5, <1>6, <1>7, <1>8, <1>9, <1>10 DEF Next

\* A Release says what the directory has in every reachable state.
LEMMA ReleaseHolds ==
  Spec => [](/\ TypeOK /\ IdInv /\ MapInv /\ CMOInv /\ AltInv /\ CopyInv /\ StatusInv
             /\ ReleaseInv)
  BY ReleaseInit, ReleaseStep, StatusHolds, PTL DEF Spec

-----------------------------------------------------------------------------
(* Time stamps *)

\* At an address an agent has one request and one ReleaseAck to come. While the
\* ReleaseAck is to come the agent holds nothing of the block and is granted nothing
\* of it, and the stamp of the Release is there; a request whose own stamp was charged
\* to the ReleaseAck leaves the agent without the block, so that no second Release
\* can follow.
StampInvBy(c) ==
  /\ \A q, r \in ReqsOf(c) : q.addr = r.addr => q = r
  /\ \A j, k \in AcksOf(c) : j.addr = k.addr => j = k
  /\ \A k \in AcksOf(c) :
       /\ \A x \in Alias : dir[c][k.addr][x] = "INVALID"
       /\ \A p \in pendingD[c] : p.req.addr # k.addr
       /\ k.addr \in stampC[c]
  /\ \A r \in ReqsOf(c) :
       /\ r.addr \in stampA[c] \cup stampC[c]
       /\ r.addr \notin stampA[c] => \A x \in Alias : dir[c][r.addr][x] = "INVALID"
       /\ \A k \in AcksOf(c) : k.addr = r.addr => r.addr \in stampA[c]
StampInv == "own" \notin Overtake => \A c \in Core : StampInvBy(c)

\* Nothing is in flight at first.
LEMMA StampInit == Init => StampInv
  BY DEF Init, StampInv, StampInvBy, ReqsOf, AcksOf

\* fire_a stamps its address.
LEMMA StampFireA ==
  ASSUME TypeOK, IdInv, NEW c \in Core, StatusInvBy(c), FireA(c), StampInvBy(c)
  PROVE  StampInvBy(c)'
<1>1. PICK r \in pendingA[c] :
        /\ reqs' = reqs \cup {r}
        /\ stampA' = [stampA EXCEPT ![c] = @ \cup {r.addr}]
  BY DEF FireA
<1>2. UNCHANGED <<stampC, pendingD, relAcks, dir>>
  BY DEF FireA
<1>3. r.core = c
  BY DEF IdInv, IdInvBy, OnePending
<1>4. ReqsOf(c)' = ReqsOf(c) \cup {r} /\ AcksOf(c)' = AcksOf(c)
  BY <1>1, <1>2, <1>3 DEF ReqsOf, AcksOf
<1>5. stampA'[c] = stampA[c] \cup {r.addr}
  BY <1>1 DEF TypeOK, TypeIds
<1>6. \A q \in ReqsOf(c) : q.addr # r.addr
  BY DEF StatusInvBy, OneEach
<1> QED BY <1>2, <1>4, <1>5, <1>6 DEF StampInvBy

\* A Release leaves a block the agent no longer holds.
LEMMA StampRelease ==
  ASSUME TypeOK, IdInv, CopyInv, NEW c \in Core, StatusInvBy(c), ReleaseInvBy(c),
         ~Unpresented(c), NEW r \in pendingC[c], FireRelease(c, r),
         UNCHANGED <<reqs, stampA, pendingD>>, StampInvBy(c)
  PROVE  StampInvBy(c)'
<1>1. r.addr \in Addr /\ r.alias \in Alias /\ ~AcquireOut(c, r.addr, r.alias)
  BY ReleaseAlone DEF FireRelease
<1>2. dir[c][r.addr][r.alias] # "INVALID" /\ Reported(r.param) = "INVALID"
  BY DEF FireRelease, ReleaseInvBy, Reported
<1> PICK k : k = [core |-> c, addr |-> r.addr, source |-> The(r.source)]
  OBVIOUS
<1>3. k.core = c /\ k.addr = r.addr
  OBVIOUS
<1>4. ReqsOf(c)' = ReqsOf(c) /\ AcksOf(c)' = AcksOf(c) \cup {k}
  BY <1>3 DEF FireRelease, ReqsOf, AcksOf
<1>5. stampC'[c] = stampC[c] \cup {r.addr} /\ stampA'[c] = stampA[c]
  BY DEF FireRelease, TypeOK, TypeIds
<1>6. \A a \in Addr, x \in Alias :
        dir'[c][a][x] = IF a = r.addr /\ x = r.alias THEN "INVALID" ELSE dir[c][a][x]
  <2>1. dir' = [dir EXCEPT ![c][r.addr][r.alias] = "INVALID"]
    BY <1>2 DEF FireRelease
  <2> QED BY <1>1, <2>1 DEF TypeOK, TypeDevice, PerBlock
<1>7. \A x \in Alias : x # r.alias => dir[c][r.addr][x] = "INVALID"
  BY <1>1, <1>2 DEF CopyInv, Coherent, Fits
<1>8. \A j \in AcksOf(c) : j.addr # r.addr /\ j.addr \in Addr
  BY <1>1, <1>2 DEF StampInvBy, AcksOf, TypeOK, TypeDevice, ReleaseAck
<1>9. ASSUME NEW p \in pendingD[c]
      PROVE  p.req.addr # r.addr
  <2>1. p.req \in ReqsOf(c) /\ p.req.op \in AcquireOp
    BY DEF IdInv, IdInvBy, GrantOwed, AcquireOp
  <2>2. Fits(c, p.req.addr, p.req.alias, p.perm)
    BY DEF CopyInv, CopyInvBy
  <2>3. p.req.addr = r.addr => p.req.alias = r.alias
    BY <1>1, <1>2, <2>2 DEF Fits
  <2> QED BY <1>1, <2>1, <2>3 DEF AcquireOut
<1>10. \A q \in ReqsOf(c) : q.addr \in Addr
  BY DEF ReqsOf, TypeOK, TypeDevice, ReqA
<1>11. \A q \in ReqsOf(c) : q.addr = r.addr => q.addr \in stampA[c]
  BY <1>1, <1>2 DEF StampInvBy
<1>12. \A i, j \in AcksOf(c)' : i.addr = j.addr => i = j
  BY <1>3, <1>4, <1>8 DEF StampInvBy
<1>13. ASSUME NEW j \in AcksOf(c)'
       PROVE  /\ \A x \in Alias : dir'[c][j.addr][x] = "INVALID"
              /\ \A p \in pendingD'[c] : p.req.addr # j.addr
              /\ j.addr \in stampC'[c]
  <2>1. CASE j = k
    BY <1>1, <1>3, <1>5, <1>6, <1>7, <1>9, <2>1
  <2>2. CASE j \in AcksOf(c)
    BY <1>5, <1>6, <1>8, <2>2 DEF StampInvBy
  <2> QED BY <1>4, <2>1, <2>2
<1>14. ASSUME NEW q \in ReqsOf(c)'
       PROVE  /\ q.addr \in stampA'[c] \cup stampC'[c]
              /\ q.addr \notin stampA'[c] => \A x \in Alias : dir'[c][q.addr][x] = "INVALID"
              /\ \A j \in AcksOf(c)' : j.addr = q.addr => q.addr \in stampA'[c]
  BY <1>3, <1>4, <1>5, <1>6, <1>10, <1>11 DEF StampInvBy
<1> QED BY <1>4, <1>12, <1>13, <1>14 DEF StampInvBy

\* fire_c stamps the address of a Release.
LEMMA StampFireC ==
  ASSUME TypeOK, IdInv, CopyInv, NEW c \in Core, StatusInvBy(c), ReleaseInvBy(c), FireC(c),
         StampInvBy(c)
  PROVE  StampInvBy(c)'
<1>1. PICK r \in pendingC[c] : FireCBeat(c, r) \/ FireRelease(c, r) \/ FireProbeAck(c, r)
  BY DEF FireC
<1>2. UNCHANGED <<reqs, stampA, pendingD>> /\ ~Unpresented(c)
  BY Fired DEF FireC
<1>3. CASE FireRelease(c, r)
  BY <1>1, <1>2, <1>3, StampRelease
<1>4. CASE FireCBeat(c, r)
  <2>1. UNCHANGED <<relAcks, dir>> /\ stampC[c] \subseteq stampC'[c]
    BY <1>4 DEF FireCBeat, TypeOK, TypeIds
  <2> QED BY <1>2, <2>1 DEF StampInvBy, ReqsOf, AcksOf
<1>5. CASE FireProbeAck(c, r)
  <2>1. UNCHANGED <<relAcks, stampC>>
    BY <1>5 DEF FireProbeAck
  <2>2. r.addr \in Addr /\ r.alias \in Alias
    BY ReqCFields DEF TypeOK, TypePending
  <2>3. NotAbove(Reported(r.param), dir[c][r.addr][r.alias])
    BY DEF CopyInv, CopyInvBy
  <2>4. Reported(r.param) \in TLPermission
    <3>1. r.param \in TLPermDemotion
      BY DEF TypeOK, TypePending, ReqC
    <3> QED BY <3>1 DEF Reported, TLPermission, TLPermDemotion
  <2>5. dir[c][r.addr][r.alias] = "INVALID" => Reported(r.param) = "INVALID"
    BY <2>3, <2>4 DEF NotAbove, TLPermission
  <2>6. \A a \in Addr, x \in Alias : dir[c][a][x] = "INVALID" => dir'[c][a][x] = "INVALID"
    <3>1. dir' = [dir EXCEPT ![c][r.addr][r.alias] = Reported(r.param)]
      BY <1>5 DEF FireProbeAck
    <3> QED BY <2>2, <2>5, <3>1 DEF TypeOK, TypeDevice, PerBlock
  <2>7. /\ \A q \in ReqsOf(c) : q.addr \in Addr
        /\ \A k \in AcksOf(c) : k.addr \in Addr
    BY DEF ReqsOf, AcksOf, TypeOK, TypeDevice, ReqA, ReleaseAck
  <2>8. ReqsOf(c)' = ReqsOf(c) /\ AcksOf(c)' = AcksOf(c)
    BY <1>2, <2>1 DEF ReqsOf, AcksOf
  <2> QED BY <1>2, <2>1, <2>6, <2>7, <2>8 DEF StampInvBy
<1> QED BY <1>1, <1>3, <1>4, <1>5

\* A ReleaseAck takes one stamp of its address and leaves a request's own.
LEMMA StampReleaseAck ==
  ASSUME TypeOK, MapInv, NEW c \in Core, NEW k \in relAcks, FireReleaseAck(c, k),
         StampInvBy(c)
  PROVE  StampInvBy(c)'
<1>1. k \in AcksOf(c)
  BY DEF FireReleaseAck, AcksOf
<1>2. PICK e \in idMap[c][k.source] : MapLatency(c, e.addr)
  BY DEF FireReleaseAck
<1>3. e.addr = k.addr
  BY <1>1, <1>2 DEF MapInv, MapInvBy
<1>4. ReqsOf(c)' = ReqsOf(c) /\ AcksOf(c)' = AcksOf(c) \ {k} /\ UNCHANGED <<pendingD, dir>>
  BY DEF FireReleaseAck, ReqsOf, AcksOf
<1>5. /\ stampA'[c] = stampA[c] \ {k.addr}
      /\ stampC'[c] = IF k.addr \in stampA[c] THEN stampC[c] ELSE stampC[c] \ {k.addr}
  BY <1>2, <1>3 DEF MapLatency, TypeOK, TypeIds
<1> QED BY <1>1, <1>4, <1>5 DEF StampInvBy

\* The answer to request r is the only one to come at its address.
LEMMA StampAnswered ==
  ASSUME TypeOK, NEW c \in Core, NEW r \in ReqsOf(c), StampInvBy(c),
         \A k \in AcksOf(c) : k.addr # r.addr,
         MapLatency(c, r.addr), reqs' = reqs \ {r}, relAcks' = relAcks,
         pendingD'[c] \subseteq pendingD[c],
         \A a \in Addr, x \in Alias : a # r.addr => dir'[c][a][x] = dir[c][a][x]
  PROVE  StampInvBy(c)'
<1>1. ReqsOf(c)' = ReqsOf(c) \ {r} /\ AcksOf(c)' = AcksOf(c)
  BY DEF ReqsOf, AcksOf
<1>2. /\ stampA'[c] = stampA[c] \ {r.addr}
      /\ stampC'[c] = stampC[c] \/ stampC'[c] = stampC[c] \ {r.addr}
  BY DEF MapLatency, TypeOK, TypeIds
<1>3. \A q \in ReqsOf(c)' : q \in ReqsOf(c) /\ q.addr # r.addr /\ q.addr \in Addr
  BY <1>1 DEF StampInvBy, ReqsOf, TypeOK, TypeDevice, ReqA
<1>4. \A k \in AcksOf(c)' : k \in AcksOf(c) /\ k.addr # r.addr /\ k.addr \in Addr
  BY <1>1 DEF AcksOf, TypeOK, TypeDevice, ReleaseAck
<1>5. /\ \A q, t \in ReqsOf(c)' : q.addr = t.addr => q = t
      /\ \A j, k \in AcksOf(c)' : j.addr = k.addr => j = k
  BY <1>3, <1>4 DEF StampInvBy
<1>6. ASSUME NEW k \in AcksOf(c)'
      PROVE  /\ \A x \in Alias : dir'[c][k.addr][x] = "INVALID"
             /\ \A p \in pendingD'[c] : p.req.addr # k.addr
             /\ k.addr \in stampC'[c]
  <2>1. k \in AcksOf(c) /\ k.addr # r.addr /\ k.addr \in Addr
    BY <1>4
  <2>2. \A x \in Alias : dir[c][k.addr][x] = "INVALID"
    BY <2>1 DEF StampInvBy
  <2>3. \A x \in Alias : dir'[c][k.addr][x] = "INVALID"
    BY <2>1, <2>2
  <2>4. \A p \in pendingD'[c] : p.req.addr # k.addr
    BY <2>1 DEF StampInvBy
  <2>5. k.addr \in stampC'[c]
    BY <1>2, <2>1 DEF StampInvBy
  <2> QED BY <2>3, <2>4, <2>5
<1>7. ASSUME NEW q \in ReqsOf(c)'
      PROVE  /\ q.addr \in stampA'[c] \cup stampC'[c]
             /\ q.addr \notin stampA'[c] => \A x \in Alias : dir'[c][q.addr][x] = "INVALID"
             /\ \A k \in AcksOf(c)' : k.addr = q.addr => q.addr \in stampA'[c]
  <2>1. q \in ReqsOf(c) /\ q.addr # r.addr /\ q.addr \in Addr
    BY <1>3
  <2>2. q.addr \in stampA[c] <=> q.addr \in stampA'[c]
    BY <1>2, <2>1
  <2>3. q.addr \in stampC[c] <=> q.addr \in stampC'[c]
    BY <1>2, <2>1
  <2>4. \A x \in Alias : dir'[c][q.addr][x] = dir[c][q.addr][x]
    BY <2>1
  <2> QED BY <1>4, <2>1, <2>2, <2>3, <2>4 DEF StampInvBy
<1> QED BY <1>5, <1>6, <1>7 DEF StampInvBy

\* fire_d: every answer takes one stamp.
LEMMA StampFireD ==
  ASSUME TypeOK, IdInv, MapInv, NEW c \in Core, FireD(c), "own" \notin Overtake,
         StampInvBy(c)
  PROVE  StampInvBy(c)'
<1>1. ASSUME NEW r \in reqs, r.core = c, MayOvertake(r)
      PROVE  \A k \in AcksOf(c) : k.addr # r.addr
  BY <1>1 DEF MayOvertake, AcksOf
<1>2. ASSUME NEW r \in ReqsOf(c), NEW perm, FireGrant(c, r, perm),
             \A k \in AcksOf(c) : k.addr # r.addr
      PROVE  StampInvBy(c)'
  <2>1. PICK e \in idMap[c][r.source] : FireGrant(c, r, perm)!(e)
    BY <1>2 DEF FireGrant
  <2>2. e.addr = r.addr /\ r.addr \in Addr
    <3>1. e = [addr |-> r.addr, alias |-> r.alias]
      BY DEF MapInv, MapInvBy, Names
    <3> QED BY <3>1 DEF ReqsOf, TypeOK, TypeDevice, ReqA
  <2>3. /\ MapLatency(c, r.addr) /\ reqs' = reqs \ {r} /\ relAcks' = relAcks
        /\ pendingD' = [pendingD EXCEPT ![c] = {}]
        /\ dir' = [dir EXCEPT ![c][r.addr][r.alias] = perm]
    BY <2>1, <2>2
  <2>4. pendingD'[c] = {}
    BY <2>3 DEF TypeOK, TypePending
  <2>5. \A a \in Addr, x \in Alias : a # r.addr => dir'[c][a][x] = dir[c][a][x]
    BY <2>3 DEF TypeOK, TypeDevice, PerBlock
  <2> QED BY <1>2, <2>3, <2>4, <2>5, StampAnswered
<1>3. ASSUME NEW p \in pendingD[c], FireGrant(c, p.req, p.perm)
      PROVE  StampInvBy(c)'
  <2>1. p.req \in ReqsOf(c) /\ \A k \in AcksOf(c) : k.addr # p.req.addr
    BY DEF IdInv, IdInvBy, GrantOwed, StampInvBy
  <2> QED BY <1>2, <1>3, <2>1
<1>4. ASSUME NEW r \in reqs, NEW perm, r.core = c, MayGrant(r, perm), FireGrantBeat(c, r, perm)
      PROVE  StampInvBy(c)'
  <2>1. \A k \in AcksOf(c) : k.addr # r.addr
    BY <1>1, <1>4 DEF MayGrant
  <2>2. /\ pendingD'[c] = {[req |-> r, perm |-> perm]}
        /\ UNCHANGED <<stampA, stampC, reqs, relAcks, dir>>
    BY <1>4 DEF FireGrantBeat, TypeOK, TypePending
  <2> QED BY <2>1, <2>2 DEF StampInvBy, ReqsOf, AcksOf
<1>5. ASSUME NEW r \in reqs, NEW perm, r.core = c, MayGrant(r, perm), FireGrant(c, r, perm)
      PROVE  StampInvBy(c)'
  <2>1. r \in ReqsOf(c) /\ \A k \in AcksOf(c) : k.addr # r.addr
    BY <1>1, <1>5 DEF MayGrant, ReqsOf
  <2> QED BY <1>2, <1>5, <2>1
<1>6. ASSUME NEW r \in reqs, r.core = c, MayAckCBO(r), FireCBOAck(c, r)
      PROVE  StampInvBy(c)'
  <2>1. r \in ReqsOf(c) /\ \A k \in AcksOf(c) : k.addr # r.addr
    BY <1>1, <1>6 DEF MayAckCBO, ReqsOf
  <2>2. /\ MapLatency(c, r.addr) /\ reqs' = reqs \ {r}
        /\ UNCHANGED <<relAcks, pendingD, dir>>
    BY <1>6 DEF FireCBOAck
  <2> QED BY <2>1, <2>2, StampAnswered
<1>7. ASSUME NEW k \in relAcks, FireReleaseAck(c, k)
      PROVE  StampInvBy(c)'
  BY <1>7, StampReleaseAck
<1> QED BY <1>3, <1>4, <1>5, <1>6, <1>7 DEF FireD

\* Every step leaves a stamp for every answer to come.
LEMMA StampStep ==
  /\ TypeOK /\ IdInv /\ MapInv /\ CopyInv /\ StatusInv /\ ReleaseInv /\ StampInv
  /\ [Next]_vars
  => StampInv'
<1> SUFFICES ASSUME TypeOK, IdInv, MapInv, CopyInv, StatusInv, ReleaseInv, StampInv,
                    [Next]_vars, "own" \notin Overtake, NEW d \in Core
             PROVE  StampInvBy(d)'
  BY DEF StampInv
<1>1. StampInvBy(d) /\ ReleaseInvBy(d)
  BY DEF StampInv, ReleaseInv
<1>2. failed = {} => StatusInvBy(d)
  BY DEF StatusInv
<1>3. ASSUME UNCHANGED <<pendingD[d], dir[d], stampA[d], stampC[d], ReqsOf(d), AcksOf(d)>>
      PROVE  StampInvBy(d)'
  BY <1>1, <1>3 DEF StampInvBy
<1>4. ASSUME UNCHANGED ownVars(d)
      PROVE  StampInvBy(d)'
  BY <1>3, <1>4 DEF ownVars
<1>5. ASSUME UNCHANGED <<pendingD, stampA, stampC, reqs, relAcks, dir>>
      PROVE  StampInvBy(d)'
  BY <1>3, <1>5 DEF ReqsOf, AcksOf
<1>6. ASSUME NEW a \in Addr, WriteBack(a)
      PROVE  StampInvBy(d)'
  BY <1>5, <1>6 DEF WriteBack, pendVars, timeVars, dutVars
<1>7. ASSUME NEW c \in Core, FireA(c)
      PROVE  StampInvBy(d)'
  BY <1>1, <1>2, <1>4, <1>7, ElsewhereA, StampFireA DEF FireA, At, Reach
<1>8. ASSUME NEW c \in Core, FireB(c) \/ FireE(c)
      PROVE  StampInvBy(d)'
  BY <1>5, <1>8 DEF FireB, FireE, timeVars
<1>9. ASSUME NEW c \in Core, FireC(c)
      PROVE  StampInvBy(d)'
  BY <1>1, <1>2, <1>4, <1>9, ElsewhereC, StampFireC DEF FireC, At, Reach
<1>10. ASSUME NEW c \in Core, FireD(c)
       PROVE  StampInvBy(d)'
  BY <1>1, <1>4, <1>10, ElsewhereD, StampFireD
<1>11. ASSUME NEW c \in Core, Fuzz(c)
       PROVE  StampInvBy(d)'
  BY <1>5, <1>11 DEF Fuzz, dutVars
<1>12. ASSUME NEW c \in Core, Update(c)
       PROVE  StampInvBy(d)'
  BY <1>5, <1>12 DEF Update, timeVars, dutVars
<1>13. CASE UNCHANGED vars
  BY <1>5, <1>13 DEF vars, pendVars, timeVars, dutVars
<1> QED BY <1>6, <1>7, <1>8, <1>9, <1>10, <1>11, <1>12, <1>13 DEF Next

\* Every answer to come has a stamp in every reachable state.
LEMMA StampHolds ==
  Spec => [](/\ TypeOK /\ IdInv /\ MapInv /\ CMOInv /\ AltInv /\ CopyInv /\ StatusInv
             /\ ReleaseInv /\ StampInv)
  BY StampInit, StampStep, ReleaseHolds, PTL DEF Spec

\* A set whose elements are all equal has one at most.
LEMMA OneCounted ==
  ASSUME NEW T, \A t, u \in T : t = u
  PROVE  IsFiniteSet(T) /\ Cardinality(T) = IF T = {} THEN 0 ELSE 1
<1>1. CASE T = {}
  BY <1>1, FS_EmptySet
<1>2. ASSUME NEW t \in T
      PROVE  IsFiniteSet(T) /\ Cardinality(T) = 1 /\ T # {}
  <2>1. T = {t}
    BY <1>2
  <2> QED BY <2>1, FS_Singleton
<1> QED BY <1>1, <1>2

\* Two have two elements.
LEMMA PairCounted ==
  ASSUME NEW A, NEW C, A # C
  PROVE  IsFiniteSet({A, C}) /\ Cardinality({A, C}) = 2
<1>1. IsFiniteSet({A}) /\ Cardinality({A}) = 1
  BY FS_Singleton
<1>2. {A, C} = {A} \cup {C} /\ C \notin {A}
  OBVIOUS
<1>3. IsFiniteSet({A} \cup {C}) /\ Cardinality({A} \cup {C}) = Cardinality({A}) + 1
  BY <1>1, <1>2, FS_AddElement
<1> QED BY <1>1, <1>2, <1>3

\* Two sets of one element at most are not more than the stamps that count them.
LEMMA TwoCounted ==
  ASSUME NEW A, NEW C, A # C, NEW R, NEW K, NEW S, S \subseteq {A, C},
         \A q, r \in R : q = r, \A j, k \in K : j = k,
         R # {} \/ K # {} => S # {},
         R # {} /\ K # {} => A \in S /\ C \in S
  PROVE  Cardinality(R) + Cardinality(K) <= Cardinality(S)
<1>1. IsFiniteSet(S) /\ Cardinality(S) \in Nat
  BY PairCounted, FS_Subset, FS_CardinalityType
<1>2. S # {} => Cardinality(S) # 0
  BY <1>1, FS_EmptySet
<1>3. A \in S /\ C \in S => Cardinality(S) = 2
  <2>1. A \in S /\ C \in S => S = {A, C}
    OBVIOUS
  <2> QED BY <2>1, PairCounted
<1>4. Cardinality(R) = IF R = {} THEN 0 ELSE 1
  BY OneCounted
<1>5. Cardinality(K) = IF K = {} THEN 0 ELSE 1
  BY OneCounted
<1> QED BY <1>1, <1>2, <1>3, <1>4, <1>5

\* Whatever shares an address, every answer still to come finds a time stamp at it, for
\* every number of agents, blocks and ids: a device that answers no request of an agent
\* for a block before the agent's own ReleaseAck of it never trips map_latency's
\* assertion, although it charges the first answer to the wrong request.
THEOREM AnswersTimed ==
  ASSUME "own" \notin Overtake
  PROVE  Spec => []AnswersStamped
<1>1. TypeOK /\ StampInv => AnswersStamped
  <2> SUFFICES ASSUME StampInv, NEW c \in Core, NEW a \in Addr
               PROVE  Cardinality({r \in reqs : r.core = c /\ r.addr = a})
                        + Cardinality(AcksFor(c, a))
                      <= Cardinality({stamps \in {<<"A", stampA>>, <<"C", stampC>>} :
                                       a \in stamps[2][c]})
    BY DEF AnswersStamped
  <2>1. PICK R : R = {r \in reqs : r.core = c /\ r.addr = a}
    OBVIOUS
  <2>2. PICK K : K = AcksFor(c, a)
    OBVIOUS
  <2>3. PICK A : A = <<"A", stampA>>
    OBVIOUS
  <2>4. PICK C : C = <<"C", stampC>>
    OBVIOUS
  <2>5. PICK S : S = {stamps \in {A, C} : a \in stamps[2][c]}
    OBVIOUS
  <2>6. StampInvBy(c)
    BY DEF StampInv
  <2>7. A # C /\ (a \in stampA[c] => A \in S) /\ (a \in stampC[c] => C \in S)
    BY <2>3, <2>4, <2>5
  <2>8. /\ \A q, r \in R : q = r
        /\ \A j, k \in K : j = k
        /\ R # {} \/ K # {} => S # {}
        /\ R # {} /\ K # {} => A \in S /\ C \in S
    BY <2>1, <2>2, <2>6, <2>7 DEF StampInvBy, ReqsOf, AcksOf, AcksFor
  <2>9. S \subseteq {A, C}
    BY <2>5
  <2>10. Cardinality(R) + Cardinality(K) <= Cardinality(S)
    BY <2>7, <2>8, <2>9, TwoCounted
  <2> QED BY <2>1, <2>2, <2>3, <2>4, <2>5, <2>10
<1> QED BY <1>1, StampHolds, PTL

-----------------------------------------------------------------------------
(* Reports *)

\* What C says the directory has for the block.
Says(param) ==
  CASE param \in {"TtoT", "TtoB", "TtoN"} -> "TIP"
    [] param \in {"BtoB", "BtoN"} -> "BRANCH"
    [] OTHER -> "INVALID"

\* A ProbeAck on the port says what the directory has.
ProbeAckSays(c) ==
  \A r \in pendingC[c] : r.op \in ProbeAckOp => dir[c][r.addr][r.alias] = Says(r.param)

\* Status and permission of a block: none once the block is invalid or released, one
\* when it is valid, no TIP while an Acquire of it is on its way.
PermFits(s, perm) ==
  /\ s \in {"S_INVALID"} \cup AwaitingReleaseAck => perm = "INVALID"
  /\ s \in {"S_VALID", "S_SENDING_E"} => perm # "INVALID"
  /\ s \in AcquireFirable \cup AWaiting => perm # "TIP"

PermInvBy(c) ==
  /\ \A a \in Addr, x \in Alias : PermFits(status[c][a][x], privilege[c][a][x])
  /\ \A r \in pendingA[c] : r.op \in AcquireOp => privilege[c][r.addr][r.alias] # "TIP"
  /\ \A p \in pendingD[c] : p.perm # "INVALID"

\* A cbo.clean that leaves the block TIP breaks the link between status and
\* permission: the agent takes the block for invalid.
PermInv ==
  ~CleanToT =>
    /\ cleaned = {}
    /\ \A c \in Core : ProbeAckSays(c)
    /\ failed = {} => \A c \in Core : PermInvBy(c)

\* An answer to a probe says what the agent has, unless the agent takes the block for
\* invalid.
LEMMA AnswerSays ==
  ASSUME TypeOK, NEW c \in Core, NEW b \in ReqB, NEW st, NEW r \in ProbeAnswers(c, b, st)
  PROVE  LET s == st[b.addr][b.alias] IN
         /\ r.op \in ProbeAckOp /\ r.addr = b.addr /\ r.alias = b.alias
         /\ IF s = "S_INVALID" THEN Says(r.param) = "INVALID"
            ELSE Says(r.param) = privilege[c][b.addr][b.alias]
         /\ s \in {"S_SENDING_A", "S_A_WAITING_D"} => r.op = "ProbeAck"
         /\ r.beats = IF r.op = "ProbeAckData" THEN 2 ELSE 1
<1> DEFINE answer(op, param, d) ==
      [op |-> op, addr |-> b.addr, alias |-> b.alias, param |-> param, data |-> d,
       beats |-> IF op = "ProbeAckData" THEN 2 ELSE 1, source |-> {}]
<1> PICK perm : perm = privilege[c][b.addr][b.alias]
  OBVIOUS
<1> PICK s : s = st[b.addr][b.alias]
  OBVIOUS
<1>1. perm \in TLPermission
  BY DEF TypeOK, TypeEntries, PerBlock, ReqB
<1>2. \A probe : Says(ProbeAckParam(probe, perm)) = perm
  BY <1>1 DEF Says, ProbeAckParam, TLPermission
<1>3. ProbeAnswers(c, b, st) =
        CASE s \in {"S_SENDING_A", "S_A_WAITING_D"}
               -> {answer("ProbeAck", ProbeAckParam("toN", perm), Zero)}
          [] s = "S_INVALID" -> {answer("ProbeAck", "NtoN", Zero)}
          [] OTHER -> UNION {{answer(op, ProbeAckParam(b.param, perm), d) :
                              d \in ProbedData(op, ProbeAckParam(b.param, perm), board[b.addr])}
                             : op \in ProbedOp(c, b)}
  BY DEF ProbeAnswers
<1>4. \A op, param, d : /\ answer(op, param, d).op = op
                        /\ answer(op, param, d).addr = b.addr
                        /\ answer(op, param, d).alias = b.alias
                        /\ answer(op, param, d).param = param
                        /\ answer(op, param, d).beats = IF op = "ProbeAckData" THEN 2 ELSE 1
  OBVIOUS
<1> HIDE DEF answer
<1>5. CASE s \in {"S_SENDING_A", "S_A_WAITING_D"}
  <2>1. r = answer("ProbeAck", ProbeAckParam("toN", perm), Zero)
    BY <1>3, <1>5
  <2> QED BY <1>2, <1>4, <1>5, <2>1 DEF ProbeAckOp
<1>6. CASE s = "S_INVALID"
  <2>1. r = answer("ProbeAck", "NtoN", Zero)
    BY <1>3, <1>6
  <2> QED BY <1>4, <1>6, <2>1 DEF ProbeAckOp, Says
<1>7. CASE s \notin {"S_SENDING_A", "S_A_WAITING_D", "S_INVALID"}
  <2>1. PICK op, d : /\ op \in ProbedOp(c, b)
                     /\ r = answer(op, ProbeAckParam(b.param, perm), d)
    BY <1>3, <1>7
  <2>2. op \in ProbeAckOp
    BY <2>1 DEF ProbedOp, ProbeAckOp
  <2> QED BY <1>2, <1>4, <1>7, <2>1, <2>2
<1> QED BY <1>5, <1>6, <1>7

\* send_a, block by block.
LEMMA PresentedAt ==
  ASSUME TypeOK, IdInv, NEW c \in Core, NEW st, st = Presented(c),
         NEW a \in Addr, NEW x \in Alias
  PROVE  LET s == status[c][a][x] IN
         \/ st[a][x] = s
         \/ \E r \in pendingA[c] :
              /\ r.op \in CBOOp /\ r.addr = a /\ st[a][x] = AfterSendCBO(s)
         \/ \E r \in pendingA[c] :
              /\ r.op \in AcquireOp /\ r.addr = a /\ r.alias = x
              /\ st[a][x] = AfterSendAcquire(s)
<1>1. CASE pendingA[c] = {}
  BY <1>1 DEF Presented
<1>2. CASE pendingA[c] # {}
  <2>1. PICK r \in pendingA[c] : pendingA[c] = {r}
    BY <1>2 DEF IdInv, IdInvBy, OnePending
  <2>2. The(pendingA[c]) = r
    BY <2>1 DEF The
  <2>3. r.addr \in Addr /\ r.alias \in Alias /\ (r.op \in AcquireOp \/ r.op \in CBOOp)
    BY DEF TypeOK, TypePending, ReqA
  <2>4. status[c] \in [Addr -> [Alias -> Status]]
    BY DEF TypeOK, TypeEntries, PerBlock
  <2>5. CASE r.op \in CBOOp
    <3>1. st[a][x] = IF a = r.addr THEN AfterSendCBO(status[c][a][x]) ELSE status[c][a][x]
      BY <1>2, <2>2, <2>3, <2>4, <2>5 DEF Presented
    <3> QED BY <2>5, <3>1
  <2>6. CASE r.op \notin CBOOp
    <3>1. st[a][x] = IF a = r.addr /\ x = r.alias THEN AfterSendAcquire(status[c][a][x])
                     ELSE status[c][a][x]
      BY <1>2, <2>2, <2>3, <2>4, <2>6 DEF Presented
    <3> QED BY <2>3, <2>6, <3>1
  <2> QED BY <2>5, <2>6
<1> QED BY <1>1, <1>2

\* send_c, block by block.
LEMMA SentAt ==
  ASSUME TypeOK, NEW c \in Core, NEW st, st = Presented(c), NEW C, SendC(c, st, C),
         NEW a \in Addr, NEW x \in Alias
  PROVE  LET t == status'[c][a][x] IN
         \/ t = st[a][x]
         \/ t = AfterSendRelease(st[a][x])
         \/ \E op : t = AfterSendProbeAck(op, st[a][x])
<1>1. status'[c] = AfterSendC(st, C)
  BY DEF SendC, TypeOK, TypeEntries, PerBlock
<1>2. st \in [Addr -> [Alias -> Status]]
  BY PresentedType
<1>3. CASE C = {}
  BY <1>1, <1>3 DEF AfterSendC
<1>4. CASE C # {}
  <2> PICK r : r = The(C)
    OBVIOUS
  <2> PICK v : v = IF r.op \in ReleaseOp THEN AfterSendRelease(st[r.addr][r.alias])
                   ELSE AfterSendProbeAck(r.op, st[r.addr][r.alias])
    OBVIOUS
  <2>1. status'[c] = [st EXCEPT ![r.addr][r.alias] = v]
    BY <1>1, <1>4 DEF AfterSendC
  <2>2. status'[c][a][x] = IF a = r.addr /\ x = r.alias THEN v ELSE st[a][x]
    BY <1>2, <2>1
  <2> QED BY <2>2
<1> QED BY <1>3, <1>4

\* The status chains keep the link with the permission.
LEMMA PermOps ==
  ASSUME NEW s, NEW perm, PermFits(s, perm)
  PROVE  /\ s \in CBOSending => PermFits(AfterFireCBO(s), perm)
         /\ s \in AcquireFirable => PermFits(AfterFireAcquire(s), perm)
         /\ perm # "TIP" => PermFits(AfterSendAcquire(s), perm)
         /\ PermFits(AfterSendCBO(s), perm)
         /\ PermFits(AfterSendRelease(s), perm)
         /\ \A op : PermFits(AfterSendProbeAck(op, s), perm)
         /\ PermFits(AfterFireRelease(s), "INVALID")
         /\ s \in AwaitingReleaseAck => PermFits(AfterReleaseAck(s), perm)
<1> USE DEF PermFits, AwaitingReleaseAck, AcquireFirable, AWaiting
<1>1. s \in CBOSending => PermFits(AfterFireCBO(s), perm)
  BY DEF AfterFireCBO, CBOSending
<1>2. s \in AcquireFirable => PermFits(AfterFireAcquire(s), perm)
  BY DEF AfterFireAcquire
<1>3. perm # "TIP" => PermFits(AfterSendAcquire(s), perm)
  BY DEF AfterSendAcquire
<1>4. PermFits(AfterSendCBO(s), perm)
  BY DEF AfterSendCBO
<1>5. PermFits(AfterSendRelease(s), perm)
  BY DEF AfterSendRelease
<1>6. \A op : PermFits(AfterSendProbeAck(op, s), perm)
  BY DEF AfterSendProbeAck, AfterSendRelease
<1>7. PermFits(AfterFireRelease(s), "INVALID")
  BY DEF AfterFireRelease
<1>8. s \in AwaitingReleaseAck => PermFits(AfterReleaseAck(s), perm)
  BY DEF AfterReleaseAck
<1> QED BY <1>1, <1>2, <1>3, <1>4, <1>5, <1>6, <1>7, <1>8

\* A ProbeAck that is taken leaves the status the permission it reports.
LEMMA PermProbeAck ==
  ASSUME NEW s \in ProbeAckFirable, NEW perm, PermFits(s, perm), NEW param,
         NotAbove(Reported(param), perm), Reported(param) = ShrinkGenPriv(param)
  PROVE  PermFits(AfterFireProbeAck(s, param), ShrinkGenPriv(param))
<1>1. ShrinkGenPriv(param) = "TIP" => perm = "TIP"
  BY DEF NotAbove
<1>2. CASE s = "S_SENDING_C"
  BY <1>2 DEF AfterFireProbeAck, PermFits, ShrinkGenPriv, AwaitingReleaseAck, AcquireFirable,
              AWaiting
<1>3. CASE s # "S_SENDING_C"
  BY <1>1, <1>3
     DEF AfterFireProbeAck, PermFits, AwaitingReleaseAck, AcquireFirable, AWaiting,
         ProbeAckFirable, SendingC
<1> QED BY <1>2, <1>3

\* Every block is invalid at first and nobody holds it.
LEMMA PermInit == Init => PermInv
<1> SUFFICES ASSUME Init
             PROVE  /\ cleaned = {}
                    /\ \A c \in Core : ProbeAckSays(c) /\ PermInvBy(c)
  BY DEF PermInv
<1>1. cleaned = {} /\ \A c \in Core : pendingC[c] = {} /\ pendingA[c] = {} /\ pendingD[c] = {}
  BY DEF Init
<1>2. \A c \in Core, a \in Addr, x \in Alias :
        status[c][a][x] = "S_INVALID" /\ privilege[c][a][x] = "INVALID"
  BY DEF Init
<1>3. PermFits("S_INVALID", "INVALID")
  BY DEF PermFits, AwaitingReleaseAck, AcquireFirable, AWaiting
<1> QED BY <1>1, <1>2, <1>3 DEF ProbeAckSays, PermInvBy

\* A ProbeAck that is presented stays true: its block is granted to nobody.
LEMMA ProbeAckStays ==
  ASSUME TypeOK, IdInv, CopyInv, NEW c \in Core, FireD(c), ProbeAckSays(c)
  PROVE  ProbeAckSays(c)'
<1>1. pendingC' = pendingC
  BY DEF FireD
<1>2. \A r \in pendingC[c] : r.op \in ProbeAckOp =>
        /\ r.addr \in Addr /\ r.alias \in Alias
        /\ <<c, r.addr>> \in probing /\ <<c, r.addr>> \notin granting
  BY ReqCFields DEF CopyInv, CopyInvBy, OneAtATime, TypeOK, TypePending
<1>3. ASSUME NEW a \in Addr, <<c, a>> \notin probing \/ <<c, a>> \in granting,
             NEW x, NEW perm, dir' = [dir EXCEPT ![c][a][x] = perm]
      PROVE  ProbeAckSays(c)'
  <2>1. \A b \in Addr, y \in Alias : b # a => dir'[c][b][y] = dir[c][b][y]
    BY <1>3 DEF TypeOK, TypeDevice, PerBlock
  <2> QED BY <1>1, <1>2, <1>3, <2>1 DEF ProbeAckSays
<1>4. CASE dir' = dir
  BY <1>1, <1>4 DEF ProbeAckSays
<1>5. ASSUME NEW p \in pendingD[c], FireGrant(c, p.req, p.perm)
      PROVE  ProbeAckSays(c)'
  <2>1. p.req.addr \in Addr /\ <<c, p.req.addr>> \in granting
    BY DEF CopyInv, CopyInvBy, TypeOK, TypePending, ReqA
  <2>2. dir' = [dir EXCEPT ![c][p.req.addr][p.req.alias] = p.perm]
    BY <1>5 DEF FireGrant
  <2> QED BY <1>3, <2>1, <2>2
<1>6. ASSUME NEW r \in reqs, NEW perm, r.core = c, MayGrant(r, perm), FireGrant(c, r, perm)
      PROVE  ProbeAckSays(c)'
  <2>1. r.addr \in Addr /\ <<c, r.addr>> \notin probing
    BY <1>6 DEF MayGrant, Quiet, TypeOK, TypeDevice, ReqA
  <2>2. dir' = [dir EXCEPT ![c][r.addr][r.alias] = perm]
    BY <1>6 DEF FireGrant
  <2> QED BY <1>3, <2>1, <2>2
<1>7. ASSUME NEW r \in reqs, NEW perm, FireGrantBeat(c, r, perm)
      PROVE  ProbeAckSays(c)'
  BY <1>4, <1>7 DEF FireGrantBeat
<1>8. ASSUME NEW k \in relAcks, FireReleaseAck(c, k)
      PROVE  ProbeAckSays(c)'
  BY <1>4, <1>8 DEF FireReleaseAck
<1>9. ASSUME NEW r \in reqs, FireCBOAck(c, r)
      PROVE  ProbeAckSays(c)'
  BY <1>4, <1>9 DEF FireCBOAck
<1> QED BY <1>5, <1>6, <1>7, <1>8, <1>9 DEF FireD

\* update_signal: the answer that handle_b makes says what the agent has.
LEMMA ProbeAckUpdate ==
  ASSUME TypeOK, IdInv, CopyInv, NEW c \in Core, Update(c), ProbeAckSays(c), PermInvBy(c)
  PROVE  ProbeAckSays(c)'
<1> PICK st : st = Presented(c)
  OBVIOUS
<1>1. dir' = dir /\ privilege = dir
  BY DEF Update, dutVars, CopyInv
<1>2. CASE NoHandleB(c, st)
  <2>1. pendingC'[c] = pendingC[c]
    BY <1>2 DEF NoHandleB, SendC, TypeOK, TypePending
  <2> QED BY <1>1, <2>1 DEF ProbeAckSays
<1>3. ASSUME NEW b \in pendingB[c], HandleB(c, b, st)
      PROVE  ProbeAckSays(c)'
  <2>1. PICK C : /\ SendC(c, st, C)
                 /\ C = {} \/ \E r \in ProbeAnswers(c, b, st) : C = {r}
    BY <1>3 DEF HandleB
  <2>2. pendingC'[c] = C
    BY <2>1 DEF SendC, TypeOK, TypePending
  <2>3. b \in ReqB /\ b.addr \in Addr /\ b.alias \in Alias
    BY DEF TypeOK, TypePending, ReqB
  <2>4. st[b.addr][b.alias] = "S_INVALID" => privilege[c][b.addr][b.alias] = "INVALID"
    <3>1. st[b.addr][b.alias] = "S_INVALID" => status[c][b.addr][b.alias] = "S_INVALID"
      BY <2>3, PresentedAt DEF AfterSendCBO, AfterSendAcquire
    <3> QED BY <2>3, <3>1 DEF PermInvBy, PermFits
  <2>5. \A r \in ProbeAnswers(c, b, st) :
          /\ r.addr = b.addr /\ r.alias = b.alias
          /\ Says(r.param) = privilege[c][b.addr][b.alias]
    BY <2>3, <2>4, AnswerSays
  <2> QED BY <1>1, <2>1, <2>2, <2>5 DEF ProbeAckSays
<1> QED BY <1>2, <1>3 DEF Update

\* fire_a changes statuses only.
LEMMA PermFireA ==
  ASSUME TypeOK, IdInv, NEW c \in Core, FireA(c), PermInvBy(c), failed' = {}
  PROVE  PermInvBy(c)'
<1>1. UNCHANGED <<privilege, pendingD>> /\ pendingA'[c] = {}
  BY DEF FireA, TypeOK, TypePending
<1>2. PICK r \in pendingA[c] : FireA(c)!2!(r)
  BY DEF FireA
<1>3. r.addr \in Addr /\ r.alias \in Alias
  BY DEF TypeOK, TypePending, ReqA
<1>4. status[c] \in [Addr -> [Alias -> Status]]
  BY DEF TypeOK, TypeEntries, PerBlock
<1>5. ASSUME NEW a \in Addr, NEW x \in Alias
      PROVE  PermFits(status'[c][a][x], privilege[c][a][x])
  <2>1. PermFits(status[c][a][x], privilege[c][a][x])
    BY DEF PermInvBy
  <2>2. CASE r.op \in CBOOp
    <3>1. status' = [status EXCEPT ![c][r.addr] =
                       [y \in Alias |-> AfterFireCBO(status[c][r.addr][y])]]
      BY <1>2, <2>2
    <3>2. \A y \in Alias : status[c][r.addr][y] \in CBOSending
      BY <1>2, <2>2 DEF Check
    <3>3. status'[c][a][x] = IF a = r.addr THEN AfterFireCBO(status[c][a][x])
                             ELSE status[c][a][x]
      BY <1>3, <1>4, <3>1 DEF TypeOK, TypeEntries, PerBlock
    <3> QED BY <2>1, <3>2, <3>3, PermOps
  <2>3. CASE r.op \notin CBOOp
    <3>1. status' = [status EXCEPT ![c][r.addr][r.alias] = AfterFireAcquire(@)]
      BY <1>2, <2>3
    <3>2. status[c][r.addr][r.alias] \in AcquireFirable
      BY <1>2, <2>3 DEF Check
    <3>3. status'[c][a][x] = IF a = r.addr /\ x = r.alias THEN AfterFireAcquire(status[c][a][x])
                             ELSE status[c][a][x]
      BY <1>3, <1>4, <3>1 DEF TypeOK, TypeEntries, PerBlock
    <3> QED BY <2>1, <3>2, <3>3, PermOps
  <2> QED BY <2>2, <2>3
<1> QED BY <1>1, <1>5 DEF PermInvBy

\* fire_c: a status that a report leaves fits the permission that it leaves.
LEMMA PermFireC ==
  ASSUME TypeOK, IdInv, CopyInv, NEW c \in Core, FireC(c), PermInvBy(c), failed' = {}
  PROVE  PermInvBy(c)'
<1>1. PICK r \in pendingC[c] : FireCBeat(c, r) \/ FireRelease(c, r) \/ FireProbeAck(c, r)
  BY DEF FireC
<1>2. UNCHANGED <<pendingA, pendingD>>
  BY DEF FireC
<1>3. CASE FireCBeat(c, r)
  BY <1>2, <1>3 DEF FireCBeat, PermInvBy
<1>4. r.addr \in Addr /\ r.alias \in Alias /\ r.param \in TLPermDemotion
  BY ReqCFields DEF TypeOK, TypePending
<1>5. Reported(r.param) = ShrinkGenPriv(r.param)
  BY <1>4, ReportOps
<1> PICK s : s = status[c][r.addr][r.alias]
  OBVIOUS
<1> PICK perm : perm = privilege[c][r.addr][r.alias]
  OBVIOUS
<1>6. PermFits(s, perm)
  BY <1>4 DEF PermInvBy
<1>7. NotAbove(Reported(r.param), perm)
  BY DEF CopyInv, CopyInvBy
<1>8. ASSUME NEW t, status' = [status EXCEPT ![c][r.addr][r.alias] = t],
             privilege' = [privilege EXCEPT ![c][r.addr][r.alias] = ShrinkGenPriv(r.param)],
             PermFits(t, ShrinkGenPriv(r.param))
      PROVE  PermInvBy(c)'
  <2>1. \A a \in Addr, x \in Alias :
          /\ status'[c][a][x] = IF a = r.addr /\ x = r.alias THEN t ELSE status[c][a][x]
          /\ privilege'[c][a][x] = IF a = r.addr /\ x = r.alias THEN ShrinkGenPriv(r.param)
                                   ELSE privilege[c][a][x]
    BY <1>4, <1>8 DEF TypeOK, TypeEntries, PerBlock
  <2>2. \A a \in Addr, x \in Alias : privilege'[c][a][x] = "TIP" => privilege[c][a][x] = "TIP"
    BY <1>5, <1>7, <2>1 DEF NotAbove
  <2>3. \A q \in pendingA[c] : q.addr \in Addr /\ q.alias \in Alias
    BY DEF TypeOK, TypePending, ReqA
  <2>4. \A a \in Addr, x \in Alias : PermFits(status'[c][a][x], privilege'[c][a][x])
    BY <1>8, <2>1 DEF PermInvBy
  <2>5. \A q \in pendingA'[c] : q.op \in AcquireOp => privilege'[c][q.addr][q.alias] # "TIP"
    BY <1>2, <2>2, <2>3 DEF PermInvBy
  <2> QED BY <1>2, <2>4, <2>5 DEF PermInvBy
<1>9. CASE FireRelease(c, r)
  <2>1. Reported(r.param) = "INVALID"
    BY <1>9 DEF FireRelease, CopyInv, CopyInvBy
  <2>2. PermFits(AfterFireRelease(s), ShrinkGenPriv(r.param))
    BY <1>5, <1>6, <2>1, PermOps
  <2>3. /\ status' = [status EXCEPT ![c][r.addr][r.alias] = AfterFireRelease(s)]
        /\ privilege' = [privilege EXCEPT ![c][r.addr][r.alias] = ShrinkGenPriv(r.param)]
    BY <1>9 DEF FireRelease
  <2> QED BY <1>8, <2>2, <2>3
<1>10. CASE FireProbeAck(c, r)
  <2>1. s \in ProbeAckFirable
    BY <1>10 DEF FireProbeAck, Check
  <2>2. PermFits(AfterFireProbeAck(s, r.param), ShrinkGenPriv(r.param))
    BY <1>5, <1>6, <1>7, <2>1, PermProbeAck
  <2>3. /\ status' = [status EXCEPT ![c][r.addr][r.alias] = AfterFireProbeAck(s, r.param)]
        /\ privilege' = [privilege EXCEPT ![c][r.addr][r.alias] = ShrinkGenPriv(r.param)]
    BY <1>10 DEF FireProbeAck
  <2> QED BY <1>8, <2>2, <2>3
<1> QED BY <1>1, <1>3, <1>9, <1>10

\* fire_e: the permission of a block that becomes valid was granted.
LEMMA PermFireE ==
  ASSUME TypeOK, NEW c \in Core, StatusInvBy(c), FireE(c), PermInvBy(c)
  PROVE  PermInvBy(c)'
<1>1. PICK e \in pendingE[c] : status' = [status EXCEPT ![c][e.addr][e.alias] = "S_VALID"]
  BY DEF FireE
<1>2. UNCHANGED <<privilege, pendingA, pendingD>>
  BY DEF FireE
<1>3. e.addr \in Addr /\ e.alias \in Alias
  BY DEF TypeOK, TypePending, Block
<1>4. status[c][e.addr][e.alias] = "S_SENDING_E"
  BY <1>3 DEF StatusInvBy, Tells, Messages, Presents
<1>5. \A a \in Addr, x \in Alias :
        status'[c][a][x] = IF a = e.addr /\ x = e.alias THEN "S_VALID" ELSE status[c][a][x]
  BY <1>1, <1>3 DEF TypeOK, TypeEntries, PerBlock
<1>6. \A perm : PermFits("S_SENDING_E", perm) => PermFits("S_VALID", perm)
  BY DEF PermFits, AwaitingReleaseAck, AcquireFirable, AWaiting
<1> QED BY <1>2, <1>3, <1>4, <1>5, <1>6 DEF PermInvBy

\* A fuzzer puts no ProbeAck on C.
LEMMA ProbeAckFuzz ==
  ASSUME TypeOK, NEW c \in Core, Fuzz(c), ProbeAckSays(c)
  PROVE  ProbeAckSays(c)'
<1>1. dir' = dir
  BY DEF Fuzz, dutVars
<1>2. CASE pendingC' = pendingC
  BY <1>1, <1>2 DEF ProbeAckSays
<1>3. ASSUME NEW i, NEW a, NEW x, DoReleaseDataAuto(c, i, a, x)
      PROVE  ProbeAckSays(c)'
  <2>1. PICK r : r.op \notin ProbeAckOp /\ pendingC' = [pendingC EXCEPT ![c] = {r}]
    <3> DEFINE request(op, n, d) ==
                 [op |-> op, addr |-> a, alias |-> x,
                  param |-> IF privilege[c][a][x] = "TIP" THEN "TtoN" ELSE "BtoN",
                  beats |-> n, data |-> d, source |-> {i}]
    <3>1. \/ pendingC' = [pendingC EXCEPT ![c] = {request("Release", 1, Zero)}]
          \/ \E d \in Data : pendingC' = [pendingC EXCEPT ![c] = {request("ReleaseData", 2, d)}]
      BY <1>3 DEF DoReleaseDataAuto
    <3>2. \A op, n, d : request(op, n, d).op = op
      OBVIOUS
    <3> QED BY <3>1, <3>2 DEF ProbeAckOp
  <2>2. pendingC'[c] = {r}
    BY <2>1 DEF TypeOK, TypePending
  <2> QED BY <2>1, <2>2 DEF ProbeAckSays
<1>4. ASSUME NEW i, NEW op, NEW a, NEW x, NEW param, DoAcquire(c, i, op, a, x, param)
      PROVE  ProbeAckSays(c)'
  BY <1>2, <1>4 DEF DoAcquire
<1>5. ASSUME NEW i, NEW op, NEW a, DoCBO(c, i, op, a)
      PROVE  ProbeAckSays(c)'
  BY <1>2, <1>5 DEF DoCBO
<1> QED BY <1>3, <1>4, <1>5 DEF Fuzz

\* The answer to an Acquire leaves the block a permission.
LEMMA PermGrant ==
  ASSUME TypeOK, MapInv, NEW c \in Core, OneEach(c), NEW r \in ReqsOf(c),
         NEW perm \in TLPermission \ {"INVALID"}, FireGrant(c, r, perm),
         UNCHANGED pendingA, PermInvBy(c)
  PROVE  PermInvBy(c)'
<1>1. PICK e \in idMap[c][r.source] : FireGrant(c, r, perm)!(e)
  BY DEF FireGrant
<1>2. e.addr = r.addr /\ e.alias = r.alias /\ r.addr \in Addr /\ r.alias \in Alias
  <2>1. e = [addr |-> r.addr, alias |-> r.alias]
    BY DEF MapInv, MapInvBy, Names
  <2> QED BY <2>1 DEF ReqsOf, TypeOK, TypeDevice, ReqA
<1>3. /\ status' = [status EXCEPT ![c][r.addr][r.alias] = "S_SENDING_E"]
      /\ privilege' = [privilege EXCEPT ![c][r.addr][r.alias] = perm]
      /\ pendingD' = [pendingD EXCEPT ![c] = {}]
  BY <1>1, <1>2
<1>4. \A a \in Addr, x \in Alias :
        /\ status'[c][a][x] = IF a = r.addr /\ x = r.alias THEN "S_SENDING_E"
                              ELSE status[c][a][x]
        /\ privilege'[c][a][x] = IF a = r.addr /\ x = r.alias THEN perm
                                 ELSE privilege[c][a][x]
  BY <1>2, <1>3 DEF TypeOK, TypeEntries, PerBlock
<1>5. pendingD'[c] = {}
  BY <1>3 DEF TypeOK, TypePending
<1>6. \A q \in pendingA[c] : q.addr \in Addr /\ q.alias \in Alias /\ q.addr # r.addr
  BY DEF OneEach, TypeOK, TypePending, ReqA
<1>7. PermFits("S_SENDING_E", perm)
  BY DEF PermFits, AwaitingReleaseAck, AcquireFirable, AWaiting
<1> QED BY <1>4, <1>5, <1>6, <1>7 DEF PermInvBy

\* A CBOAck leaves a block valid when it is held, invalid when it is not: a block the
\* device has cleaned is held BRANCH, one it has flushed is not held.
LEMMA PermCBOAck ==
  ASSUME TypeOK, CMOInv, CopyInv, NEW c \in Core, NEW r \in ReqsOf(c), MayAckCBO(r),
         FireCBOAck(c, r), cleaned = {}, UNCHANGED pendingA, PermInvBy(c), failed' = {}
  PROVE  PermInvBy(c)'
<1>1. UNCHANGED <<privilege, pendingD>>
  BY DEF FireCBOAck
<1>2. r.addr \in Addr /\ r.core = c
  BY DEF ReqsOf, TypeOK, TypeDevice, ReqA
<1>3. cmo[c][r.addr].op = r.op
  BY DEF MayAckCBO, CMOInv, CMOInvBy
<1>4. status' = [status EXCEPT ![c][r.addr] =
                   [x \in Alias |-> AfterCBOAck(r.op, @[x], privilege[c][r.addr][x])]]
  BY <1>3 DEF FireCBOAck
<1>5. \A a \in Addr, x \in Alias :
        status'[c][a][x] =
          IF a = r.addr THEN AfterCBOAck(r.op, status[c][a][x], privilege[c][a][x])
          ELSE status[c][a][x]
  BY <1>2, <1>4 DEF TypeOK, TypeEntries, PerBlock
<1>6. \A x \in Alias :
        \/ privilege[c][r.addr][x] = "INVALID"
        \/ r.op = "CBOClean" /\ privilege[c][r.addr][x] = "BRANCH"
  <2> SUFFICES ASSUME NEW x \in Alias, dir[c][r.addr][x] # "INVALID"
               PROVE  r.op = "CBOClean" /\ dir[c][r.addr][x] = "BRANCH"
    BY DEF CopyInv
  <2> PICK h : h = <<c, x>>
    OBVIOUS
  <2>1. h \in Held(r.addr) /\ h[1] = c /\ h[2] = x
    BY DEF Held
  <2>2. \A k \in Held(r.addr) : r.op = "CBOClean" /\ dir[k[1]][r.addr][k[2]] = "BRANCH"
    BY DEF MayAckCBO
  <2> QED BY <2>1, <2>2
<1>7. ASSUME NEW x \in Alias
      PROVE  PermFits(AfterCBOAck(r.op, status[c][r.addr][x], privilege[c][r.addr][x]),
                      privilege[c][r.addr][x])
  <2>1. PermFits(status[c][r.addr][x], privilege[c][r.addr][x])
    BY <1>2 DEF PermInvBy
  <2> QED BY <1>6, <2>1
          DEF PermFits, AfterCBOAck, AwaitingReleaseAck, AcquireFirable, AWaiting
<1> QED BY <1>1, <1>5, <1>7 DEF PermInvBy

\* fire_d: a Grant brings a permission, a CBOAck finds no TIP.
LEMMA PermFireD ==
  ASSUME TypeOK, IdInv, MapInv, CMOInv, CopyInv, NEW c \in Core, StatusInvBy(c), FireD(c),
         cleaned = {}, PermInvBy(c), failed' = {}
  PROVE  PermInvBy(c)'
<1>1. UNCHANGED pendingA /\ OneEach(c)
  BY DEF FireD, StatusInvBy
<1>2. ASSUME NEW p \in pendingD[c], FireGrant(c, p.req, p.perm)
      PROVE  PermInvBy(c)'
  <2>1. p.req \in ReqsOf(c) /\ p.perm \in TLPermission \ {"INVALID"}
    BY DEF IdInv, IdInvBy, GrantOwed, PermInvBy, TypeOK, TypePending
  <2> QED BY <1>1, <1>2, <2>1, PermGrant
<1>3. ASSUME NEW r \in reqs, NEW perm \in TLPermission, r.core = c, MayGrant(r, perm),
             FireGrant(c, r, perm)
      PROVE  PermInvBy(c)'
  <2>1. r \in ReqsOf(c) /\ perm # "INVALID"
    BY <1>3 DEF MayGrant, GrantPerm, ReqsOf
  <2> QED BY <1>1, <1>3, <2>1, PermGrant
<1>4. ASSUME NEW r \in reqs, NEW perm, MayGrant(r, perm), FireGrantBeat(c, r, perm)
      PROVE  PermInvBy(c)'
  <2>1. perm # "INVALID"
    BY <1>4 DEF MayGrant, GrantPerm
  <2>2. pendingD'[c] = {[req |-> r, perm |-> perm]} /\ UNCHANGED <<status, privilege>>
    BY <1>4 DEF FireGrantBeat, TypeOK, TypePending
  <2> QED BY <1>1, <2>1, <2>2 DEF PermInvBy
<1>5. ASSUME NEW k \in relAcks, FireReleaseAck(c, k)
      PROVE  PermInvBy(c)'
  <2>1. PICK e \in idMap[c][k.source] :
          /\ failed' = Check(status[c][e.addr][e.alias] \in AwaitingReleaseAck, "D status")
                       \cup LatencyCheck(c, e.addr)
          /\ status' = [status EXCEPT ![c][e.addr][e.alias] =
                          AfterReleaseAck(status[c][e.addr][e.alias])]
    BY <1>5 DEF FireReleaseAck
  <2>2. status[c][e.addr][e.alias] \in AwaitingReleaseAck
    BY <2>1 DEF Check
  <2>3. UNCHANGED <<privilege, pendingD>>
    BY <1>5 DEF FireReleaseAck
  <2>4. \A a \in Addr, x \in Alias :
          status'[c][a][x] = IF a = e.addr /\ x = e.alias THEN AfterReleaseAck(status[c][a][x])
                             ELSE status[c][a][x]
    <3> PICK A, X : A = e.addr /\ X = e.alias
      OBVIOUS
    <3>1. status' = [status EXCEPT ![c][A][X] = AfterReleaseAck(status[c][A][X])]
      BY <2>1
    <3>2. DOMAIN status = Core /\ \A a \in Addr : DOMAIN status[c][a] = Alias
      BY DEF TypeOK, TypeEntries, PerBlock
    <3>3. DOMAIN status[c] = Addr
      BY DEF TypeOK, TypeEntries, PerBlock
    <3> QED BY <3>1, <3>2, <3>3
  <2>5. \A a \in Addr, x \in Alias : PermFits(status'[c][a][x], privilege[c][a][x])
    BY <2>2, <2>4, PermOps DEF PermInvBy
  <2> QED BY <1>1, <2>3, <2>5 DEF PermInvBy
<1>6. ASSUME NEW r \in reqs, r.core = c, MayAckCBO(r), FireCBOAck(c, r)
      PROVE  PermInvBy(c)'
  BY <1>1, <1>6, PermCBOAck DEF ReqsOf
<1> QED BY <1>2, <1>3, <1>4, <1>5, <1>6 DEF FireD

\* No fuzzer asks for a block the agent holds TIP.
LEMMA PermFuzz ==
  ASSUME TypeOK, NEW c \in Core, StatusInvBy(c), Fuzz(c), PermInvBy(c)
  PROVE  PermInvBy(c)'
<1>1. UNCHANGED <<status, privilege, pendingD>>
  BY DEF Fuzz, entryVars
<1>2. CASE pendingA' = pendingA
  BY <1>1, <1>2 DEF PermInvBy
<1>3. ASSUME NEW i, NEW op, NEW a \in Addr, NEW x \in Alias, NEW param,
             DoAcquire(c, i, op, a, x, param)
      PROVE  PermInvBy(c)'
  <2> DEFINE perm == privilege[c][a][x]
             valid == a \in known[c] /\ status[c][a][x] = "S_VALID"
  <2> PICK r : r = [core |-> c, op |-> op, addr |-> a, alias |-> x, source |-> i,
                    param |-> IF valid /\ perm = "BRANCH" THEN "BtoT" ELSE param]
    OBVIOUS
  <2>1. r.addr = a /\ r.alias = x
    OBVIOUS
  <2>2. /\ ~InFlight(c, a, Status \ Idle)
        /\ pendingA' = [pendingA EXCEPT ![c] = {r}]
        /\ (valid => perm # "TIP")
    BY <1>3 DEF DoAcquire
  <2>3. pendingA'[c] = {r}
    BY <2>2 DEF TypeOK, TypePending
  <2>4. status[c][a][x] \in Status /\ (status[c][a][x] # "S_INVALID" => a \in known[c])
    BY DEF StatusInvBy, Tells, TypeOK, TypeEntries, PerBlock
  <2>5. ~valid => status[c][a][x] = "S_INVALID"
    BY <2>2, <2>4 DEF InFlight, Idle
  <2>6. status[c][a][x] = "S_INVALID" => perm = "INVALID"
    BY DEF PermInvBy, PermFits
  <2>7. perm # "TIP"
    BY <2>2, <2>5, <2>6
  <2> QED BY <1>1, <2>1, <2>3, <2>7 DEF PermInvBy
<1>4. ASSUME NEW i, NEW a, NEW x, DoReleaseDataAuto(c, i, a, x)
      PROVE  PermInvBy(c)'
  BY <1>2, <1>4 DEF DoReleaseDataAuto
<1>5. ASSUME NEW i, NEW op \in CBOOp, NEW a, DoCBO(c, i, op, a)
      PROVE  PermInvBy(c)'
  <2>1. PICK r : r.op = op /\ pendingA' = [pendingA EXCEPT ![c] = {r}]
    BY <1>5 DEF DoCBO
  <2>2. pendingA'[c] = {r}
    BY <2>1 DEF TypeOK, TypePending
  <2> QED BY <1>1, <2>1, <2>2 DEF PermInvBy, AcquireOp, CBOOp
<1> QED BY <1>3, <1>4, <1>5 DEF Fuzz

\* update_signal changes statuses only as the permissions allow.
LEMMA PermUpdate ==
  ASSUME TypeOK, IdInv, NEW c \in Core, Update(c), PermInvBy(c)
  PROVE  PermInvBy(c)'
<1> PICK st : st = Presented(c)
  OBVIOUS
<1>1. UNCHANGED <<privilege, pendingA, pendingD>>
  BY DEF Update
<1>2. PICK C : SendC(c, st, C)
  BY DEF Update, NoHandleB, HandleB
<1>3. ASSUME NEW a \in Addr, NEW x \in Alias
      PROVE  PermFits(status'[c][a][x], privilege[c][a][x])
  <2> PICK perm : perm = privilege[c][a][x]
    OBVIOUS
  <2>1. PermFits(status[c][a][x], perm)
    BY DEF PermInvBy
  <2>2. PermFits(st[a][x], perm)
    <3>1. CASE st[a][x] = status[c][a][x] \/ st[a][x] = AfterSendCBO(status[c][a][x])
      BY <2>1, <3>1, PermOps
    <3>2. ASSUME NEW r \in pendingA[c], r.op \in AcquireOp, r.addr = a, r.alias = x,
                 st[a][x] = AfterSendAcquire(status[c][a][x])
          PROVE  PermFits(st[a][x], perm)
      BY <2>1, <3>2, PermOps DEF PermInvBy
    <3> QED BY <3>1, <3>2, PresentedAt
  <2>3. \/ status'[c][a][x] = st[a][x]
        \/ status'[c][a][x] = AfterSendRelease(st[a][x])
        \/ \E op : status'[c][a][x] = AfterSendProbeAck(op, st[a][x])
    BY <1>2, SentAt
  <2> QED BY <2>2, <2>3, PermOps
<1> QED BY <1>1, <1>3 DEF PermInvBy

\* Every step keeps statuses, reports and permissions together.
LEMMA PermStep ==
  /\ TypeOK /\ IdInv /\ MapInv /\ CMOInv /\ CopyInv /\ StatusInv /\ PermInv
  /\ [Next]_vars
  => PermInv'
<1> SUFFICES ASSUME TypeOK, IdInv, MapInv, CMOInv, CopyInv, StatusInv, PermInv, [Next]_vars,
                    ~CleanToT
             PROVE  /\ cleaned' = {}
                    /\ \A d \in Core : ProbeAckSays(d)'
                    /\ failed' = {} => \A d \in Core : PermInvBy(d)'
  BY DEF PermInv
<1>1. cleaned' = {}
  <2>1. cleaned = {}
    BY DEF PermInv
  <2>2. ASSUME NEW c \in Core, FireB(c)
        PROVE  cleaned' = cleaned
    BY <2>2 DEF FireB, MayProbe
  <2>3. ASSUME NEW c \in Core, FireD(c)
        PROVE  cleaned' \subseteq cleaned
    <3>1. ASSUME NEW k, FireReleaseAck(c, k)
          PROVE  cleaned' \subseteq cleaned
      BY <3>1 DEF FireReleaseAck
    <3>2. ASSUME NEW r, NEW perm, FireGrantBeat(c, r, perm) \/ FireGrant(c, r, perm)
          PROVE  cleaned' \subseteq cleaned
      BY <3>2 DEF FireGrantBeat, FireGrant
    <3>3. ASSUME NEW r, FireCBOAck(c, r)
          PROVE  cleaned' \subseteq cleaned
      BY <3>3 DEF FireCBOAck
    <3> QED BY <2>3, <3>1, <3>2, <3>3 DEF FireD
  <2> QED BY <2>1, <2>2, <2>3
          DEF Next, WriteBack, FireA, FireC, FireE, Fuzz, Update, vars, dutVars
<1> SUFFICES ASSUME NEW d \in Core
             PROVE  ProbeAckSays(d)' /\ (failed' = {} => PermInvBy(d)')
  BY <1>1
<1>2. ProbeAckSays(d) /\ (failed = {} => StatusInvBy(d) /\ PermInvBy(d)) /\ cleaned = {}
  BY DEF PermInv, StatusInv
<1>3. ASSUME UNCHANGED <<pendingC[d], dir[d]>>
      PROVE  ProbeAckSays(d)'
  BY <1>2, <1>3 DEF ProbeAckSays
<1>4. ASSUME UNCHANGED <<status[d], privilege[d], pendingA[d], pendingD[d]>>, failed = {}
      PROVE  PermInvBy(d)'
  BY <1>2, <1>4 DEF PermInvBy
<1>5. ASSUME UNCHANGED ownVars(d), failed = {}
      PROVE  ProbeAckSays(d)' /\ PermInvBy(d)'
  BY <1>3, <1>4, <1>5 DEF ownVars
<1>6. ASSUME NEW a \in Addr, WriteBack(a)
      PROVE  ProbeAckSays(d)' /\ PermInvBy(d)'
  <2>1. failed = {} /\ UNCHANGED <<entryVars, pendVars, dutVars>>
    BY <1>6 DEF WriteBack
  <2> QED BY <1>3, <1>4, <2>1 DEF entryVars, pendVars, dutVars
<1>7. ASSUME NEW c \in Core, FireA(c)
      PROVE  ProbeAckSays(d)' /\ (failed' = {} => PermInvBy(d)')
  <2>1. failed = {} /\ UNCHANGED <<pendingC, dir>>
    BY <1>7 DEF FireA, At, Reach
  <2>2. CASE c # d
    BY <1>5, <1>7, <2>1, <2>2, ElsewhereA
  <2>3. CASE c = d
    BY <1>2, <1>3, <1>7, <2>1, <2>3, PermFireA
  <2> QED BY <2>2, <2>3
<1>8. ASSUME NEW c \in Core, FireB(c)
      PROVE  ProbeAckSays(d)' /\ PermInvBy(d)'
  <2>1. failed = {} /\ UNCHANGED <<status, privilege, pendingA, pendingC, pendingD, dir>>
    BY <1>8 DEF FireB, At, Reach, entryVars
  <2> QED BY <1>3, <1>4, <2>1
<1>9. ASSUME NEW c \in Core, FireC(c)
      PROVE  ProbeAckSays(d)' /\ (failed' = {} => PermInvBy(d)')
  <2>1. failed = {}
    BY <1>9 DEF FireC, At, Reach
  <2>2. CASE c # d
    BY <1>5, <1>9, <2>1, <2>2, ElsewhereC
  <2>3. CASE c = d
    <3>1. PICK r \in pendingC[c] : FireCBeat(c, r) \/ FireRelease(c, r) \/ FireProbeAck(c, r)
      BY <1>9 DEF FireC
    <3>2. CASE FireCBeat(c, r)
      <4>1. pendingC'[c] = {LessABeat(r)} /\ dir' = dir
        BY <3>2 DEF FireCBeat, TypeOK, TypePending
      <4>2. ProbeAckSays(c)'
        BY <1>2, <2>3, <4>1 DEF ProbeAckSays, LessABeat
      <4> QED BY <1>2, <1>9, <2>1, <2>3, <4>2, PermFireC
    <3>3. CASE FireRelease(c, r) \/ FireProbeAck(c, r)
      <4>1. pendingC'[c] = {}
        BY <3>3 DEF FireRelease, FireProbeAck, TypeOK, TypePending
      <4> QED BY <1>2, <1>9, <2>1, <2>3, <4>1, PermFireC DEF ProbeAckSays
    <3> QED BY <3>1, <3>2, <3>3
  <2> QED BY <2>2, <2>3
<1>10. ASSUME NEW c \in Core, FireE(c)
       PROVE  ProbeAckSays(d)' /\ PermInvBy(d)'
  <2>1. failed = {} /\ UNCHANGED <<pendingC, dir>>
    BY <1>10 DEF FireE, At, Reach
  <2>2. CASE c # d
    BY <1>5, <1>10, <2>1, <2>2, ElsewhereBE
  <2>3. CASE c = d
    BY <1>2, <1>3, <1>10, <2>1, <2>3, PermFireE
  <2> QED BY <2>2, <2>3
<1>11. ASSUME NEW c \in Core, FireD(c)
       PROVE  ProbeAckSays(d)' /\ (failed' = {} => PermInvBy(d)')
  <2>1. failed = {}
    BY <1>11 DEF FireD, At, Reach
  <2>2. CASE c # d
    BY <1>5, <1>11, <2>1, <2>2, ElsewhereD
  <2>3. CASE c = d
    BY <1>2, <1>11, <2>1, <2>3, PermFireD, ProbeAckStays
  <2> QED BY <2>2, <2>3
<1>12. ASSUME NEW c \in Core, Fuzz(c)
       PROVE  ProbeAckSays(d)' /\ PermInvBy(d)'
  <2>1. failed = {}
    BY <1>12 DEF Fuzz, At, Reach
  <2>2. CASE c # d
    BY <1>5, <1>12, <2>1, <2>2, ElsewhereFuzz
  <2>3. CASE c = d
    BY <1>2, <1>12, <2>1, <2>3, PermFuzz, ProbeAckFuzz
  <2> QED BY <2>2, <2>3
<1>13. ASSUME NEW c \in Core, Update(c)
       PROVE  ProbeAckSays(d)' /\ PermInvBy(d)'
  <2>1. failed = {}
    BY <1>13 DEF Update
  <2>2. CASE c # d
    BY <1>5, <1>13, <2>1, <2>2, ElsewhereUpdate
  <2>3. CASE c = d
    BY <1>2, <1>13, <2>1, <2>3, PermUpdate, ProbeAckUpdate
  <2> QED BY <2>2, <2>3
<1>14. CASE UNCHANGED vars
  <2>1. UNCHANGED <<failed, entryVars, pendVars, dutVars>>
    BY <1>14 DEF vars
  <2> QED BY <1>2, <1>3, <1>4, <2>1 DEF entryVars, pendVars, dutVars
<1> QED BY <1>6, <1>7, <1>8, <1>9, <1>10, <1>11, <1>12, <1>13, <1>14 DEF Next

\* Statuses and reports fit the permissions in every reachable state.
LEMMA PermHolds ==
  Spec => [](/\ TypeOK /\ IdInv /\ MapInv /\ CMOInv /\ AltInv /\ CopyInv /\ StatusInv
             /\ ReleaseInv /\ StampInv /\ PermInv)
  BY PermInit, PermStep, StampHolds, PTL DEF Spec

\* What an agent reports on C is what the directory has recorded for it, for every number
\* of agents and blocks, although handle_b and the fuzzer chose it cycles before the
\* device takes it: unless the device leaves a block TIP that it has cleaned.
THEOREM ReportsTrue ==
  ASSUME ~CleanToT
  PROVE  Spec => []ReportsTruthful
<1>1. TypeOK /\ ReleaseInv /\ PermInv => ReportsTruthful
  <2> SUFFICES ASSUME TypeOK, ReleaseInv, PermInv, NEW c \in Core, NEW r \in pendingC[c]
               PROVE  dir[c][r.addr][r.alias] = Says(r.param)
    BY DEF ReportsTruthful, Says
  <2>1. r.op \in ReleaseOp \/ r.op \in ProbeAckOp
    BY DEF TypeOK, TypePending, ReqC
  <2>2. CASE r.op \in ReleaseOp
    BY <2>2 DEF ReleaseInv, ReleaseInvBy, Says
  <2>3. CASE r.op \in ProbeAckOp
    BY <2>3 DEF PermInv, ProbeAckSays
  <2> QED BY <2>1, <2>2, <2>3
<1> QED BY <1>1, PermHolds, PTL

-----------------------------------------------------------------------------
(* Messages that may not wait *)

\* A probed block is known. A ProbeAck without data has one beat. What the device may
\* not stall is taken at the agent's next turn on its channel: a ProbeAck presented by
\* update_signal on C of the next cycle, a GrantAck asked for on D on E of the next.
WindowInvBy(c) ==
  /\ \A b \in pendingB[c] : b.addr \in known[c]
  /\ \A r \in pendingC[c] :
       r.op = "ProbeAck" => r.beats = 1 /\ (CStall \/ pos < PosC(c) \/ PosUpdate(c) <= pos)
  /\ EStall \/ pendingE[c] = {} \/ pos < PosE(c) \/ PosD(c) <= pos
WindowInv == \A c \in Core : WindowInvBy(c)

\* Nothing waits at first.
LEMMA WindowInit == Init => WindowInv
  BY DEF Init, WindowInv, WindowInvBy

\* A handler of another channel, or of another agent, passes over nothing that may not
\* wait.
LEMMA WindowFrame ==
  ASSUME TypeOK, NEW d \in Core, WindowInvBy(d), NEW p \in Int, At(p),
         p # PosC(d), p # PosE(d),
         \A b \in pendingB'[d] : b.addr \in known'[d],
         \A r \in pendingC'[d] : r.op = "ProbeAck" => r \in pendingC[d],
         pendingE'[d] \subseteq pendingE[d] \/ PosD(d) <= p
  PROVE  WindowInvBy(d)'
<1>1. pos \in Int /\ PosC(d) \in Int /\ PosE(d) \in Int /\ PosD(d) \in Int
      /\ PosUpdate(d) \in Int
  BY NCoreAssumption DEF TypeOK, Core, PosC, PosD, PosE, PosUpdate
<1>2. /\ pos < p /\ pos' = p
      /\ (~CStall /\ pendingC[d] # {}) => ~(pos < PosC(d) /\ PosC(d) < p)
      /\ (~EStall /\ pendingE[d] # {}) => ~(pos < PosE(d) /\ PosE(d) < p)
  BY DEF At, Reach
<1>3. UNCHANGED <<PosC(d), PosE(d), PosD(d), PosUpdate(d)>>
  BY DEF PosC, PosD, PosE, PosUpdate
<1>4. ASSUME NEW r \in pendingC'[d], r.op = "ProbeAck"
      PROVE  r.beats = 1 /\ (CStall \/ pos' < PosC(d) \/ PosUpdate(d) <= pos')
  BY <1>1, <1>2, <1>4, ConfigAssumption DEF WindowInvBy
<1>5. EStall \/ pendingE'[d] = {} \/ pos' < PosE(d) \/ PosD(d) <= pos'
  BY <1>1, <1>2, ConfigAssumption DEF WindowInvBy
<1> QED BY <1>3, <1>4, <1>5 DEF WindowInvBy

\* Every channel of every agent has a place of its own in the cycle.
LEMMA OwnPlace ==
  ASSUME NEW c \in Core, NEW d \in Core
  PROVE  /\ PosA(c) # PosC(d) /\ PosB(c) # PosC(d) /\ PosD(c) # PosC(d)
         /\ PosE(c) # PosC(d) /\ PosFuzz(c) # PosC(d)
         /\ PosA(c) # PosE(d) /\ PosB(c) # PosE(d) /\ PosC(c) # PosE(d)
         /\ PosD(c) # PosE(d) /\ PosFuzz(c) # PosE(d)
         /\ c # d => PosC(c) # PosC(d) /\ PosE(c) # PosE(d)
         /\ {PosA(c), PosB(c), PosC(c), PosD(c), PosE(c), PosFuzz(c)} \subseteq Int
  BY NCoreAssumption DEF Core, PosA, PosB, PosC, PosD, PosE, PosFuzz

\* C is empty after its handler, unless a beat of a report with data has left.
LEMMA WindowFireC ==
  ASSUME TypeOK, IdInv, NEW c \in Core, FireC(c), WindowInvBy(c)
  PROVE  WindowInvBy(c)'
<1>1. PICK r \in pendingC[c] : FireCBeat(c, r) \/ FireRelease(c, r) \/ FireProbeAck(c, r)
  BY DEF FireC
<1>2. At(PosC(c)) /\ UNCHANGED <<known, pendingB, pendingE>>
  BY DEF FireC
<1>3. \A q \in pendingC'[c] : q.op # "ProbeAck"
  <2>1. CASE FireCBeat(c, r)
    <3>1. r.op # "ProbeAck"
      BY <2>1 DEF FireCBeat, WindowInvBy
    <3>2. pendingC'[c] = {LessABeat(r)}
      BY <2>1 DEF FireCBeat, TypeOK, TypePending
    <3> QED BY <3>1, <3>2 DEF LessABeat
  <2>2. CASE FireRelease(c, r) \/ FireProbeAck(c, r)
    BY <2>2 DEF FireRelease, FireProbeAck, TypeOK, TypePending
  <2> QED BY <1>1, <2>1, <2>2
<1>4. /\ pos < PosC(c) /\ pos' = PosC(c) /\ PosC(c) < PosE(c) /\ PosE(c) < PosD(c)
      /\ pos \in Int /\ PosC(c) \in Int /\ PosE(c) \in Int /\ PosD(c) \in Int
  BY <1>2, NCoreAssumption DEF At, Reach, TypeOK, Core, PosC, PosE, PosD
<1>5. PosE(c)' = PosE(c) /\ PosD(c)' = PosD(c)
  BY DEF PosE, PosD
<1> QED BY <1>2, <1>3, <1>4, <1>5 DEF WindowInvBy

\* E is empty after its handler.
LEMMA WindowFireE ==
  ASSUME TypeOK, NEW c \in Core, FireE(c), WindowInvBy(c)
  PROVE  WindowInvBy(c)'
<1>1. /\ At(PosE(c)) /\ UNCHANGED <<known, pendingB, pendingC>>
      /\ pendingE' = [pendingE EXCEPT ![c] = {}]
  BY DEF FireE
<1>2. pendingE'[c] = {}
  BY <1>1 DEF TypeOK, TypePending
<1>3. /\ pos < PosE(c) /\ pos' = PosE(c) /\ PosC(c) < PosE(c)
      /\ pos \in Int /\ PosC(c) \in Int /\ PosE(c) \in Int /\ PosUpdate(c) \in Int
      /\ (~CStall /\ pendingC[c] # {}) => ~(pos < PosC(c) /\ PosC(c) < PosE(c))
  BY <1>1, NCoreAssumption DEF At, Reach, TypeOK, Core, PosC, PosE, PosUpdate
<1>4. PosC(c)' = PosC(c) /\ PosUpdate(c)' = PosUpdate(c)
  BY DEF PosC, PosUpdate
<1>5. ASSUME NEW r \in pendingC[c], r.op = "ProbeAck"
      PROVE  r.beats = 1 /\ (CStall \/ pos' < PosC(c) \/ PosUpdate(c) <= pos')
  BY <1>3, <1>5, ConfigAssumption DEF WindowInvBy
<1> QED BY <1>1, <1>2, <1>4, <1>5 DEF WindowInvBy

\* What update_signal presents on C it presents after C has had its turn.
LEMMA WindowUpdate ==
  ASSUME TypeOK, NEW c \in Core, Update(c), NEW d \in Core, WindowInvBy(d),
         c # d => UNCHANGED ownVars(d)
  PROVE  WindowInvBy(d)'
<1>1. /\ IF c = 0 THEN Reach(PosUpdate(0)) ELSE pos = PosUpdate(c - 1)
      /\ pos' = IF c = NCore - 1 THEN 0 ELSE PosUpdate(c)
      /\ known' = [known EXCEPT ![c] = @ \cup {r.addr : r \in pendingA[c]}]
      /\ UNCHANGED pendingE
  BY DEF Update
<1>2. /\ pos \in Int /\ pos' \in Int /\ PosC(d) \in Int /\ PosE(d) \in Int /\ PosD(d) \in Int
      /\ PosUpdate(d) \in Int /\ 0 < PosC(d) /\ PosC(d) < PosUpdate(0) /\ 0 < PosE(d)
      /\ c = d => pos' = 0 \/ pos' = PosUpdate(d)
      /\ pos' = 0 \/ PosD(d) <= pos'
      /\ c # 0 => PosC(d) <= pos
      /\ pos' = 0 \/ pos < pos'
  <2> USE NCoreAssumption DEF Core
  <2>1. /\ PosC(d) \in Int /\ PosE(d) \in Int /\ PosD(d) \in Int /\ PosUpdate(d) \in Int
        /\ PosUpdate(c) \in Int /\ 0 < PosC(d) /\ PosC(d) < PosUpdate(0) /\ 0 < PosE(d)
        /\ PosD(d) <= PosUpdate(c)
        /\ c # 0 => PosC(d) <= PosUpdate(c - 1)
    BY DEF PosC, PosE, PosD, PosUpdate
  <2>2. pos \in Int /\ pos' \in Int
    BY <1>1, <2>1 DEF TypeOK
  <2>3. pos < PosUpdate(c)
    <3>1. CASE c = 0
      BY <1>1, <3>1 DEF Reach
    <3>2. CASE c # 0
      BY <1>1, <3>2 DEF PosUpdate
    <3> QED BY <3>1, <3>2
  <2> QED BY <1>1, <2>1, <2>2, <2>3
<1>3. UNCHANGED <<PosC(d), PosE(d), PosD(d), PosUpdate(d)>>
  BY DEF PosC, PosD, PosE, PosUpdate
<1>4. EStall \/ pendingE'[d] = {} \/ pos' < PosE(d) \/ PosD(d) <= pos'
  BY <1>2
<1>5. known[d] \subseteq known'[d] /\ pendingB'[d] \subseteq pendingB[d]
  <2>1. known[d] \subseteq known'[d]
    BY <1>1 DEF TypeOK, TypeEntries
  <2>2. pendingB' = pendingB \/ pendingB' = [pendingB EXCEPT ![c] = {}]
    BY DEF Update, NoHandleB, HandleB
  <2> QED BY <2>1, <2>2 DEF TypeOK, TypePending
<1>6. \A b \in pendingB'[d] : b.addr \in known'[d]
  BY <1>5 DEF WindowInvBy
<1>7. ASSUME NEW r \in pendingC'[d], r.op = "ProbeAck"
      PROVE  r.beats = 1 /\ (CStall \/ pos' < PosC(d) \/ PosUpdate(d) <= pos')
  <2>1. CASE c = d
    <3>1. CStall \/ pos' < PosC(d) \/ PosUpdate(d) <= pos'
      BY <1>2, <2>1
    <3>2. r.beats = 1
      <4> PICK st : st = Presented(c)
        OBVIOUS
      <4>1. CASE NoHandleB(c, st)
        <5>1. pendingC'[c] = pendingC[c]
          BY <4>1 DEF NoHandleB, SendC, TypeOK, TypePending
        <5> QED BY <1>7, <2>1, <5>1 DEF WindowInvBy
      <4>2. ASSUME NEW b \in pendingB[c], HandleB(c, b, st)
            PROVE  r.beats = 1
        <5>1. PICK C : /\ SendC(c, st, C)
                       /\ C = {} \/ \E q \in ProbeAnswers(c, b, st) : C = {q}
          BY <4>2 DEF HandleB
        <5>2. pendingC'[c] = C
          BY <5>1 DEF SendC, TypeOK, TypePending
        <5>3. r \in ProbeAnswers(c, b, st) /\ b \in ReqB
          BY <2>1, <5>1, <5>2 DEF TypeOK, TypePending
        <5> QED BY <1>7, <5>3, AnswerSays
      <4> QED BY <4>1, <4>2 DEF Update
    <3> QED BY <3>1, <3>2
  <2>2. CASE c # d
    <3>1. r \in pendingC[d]
      BY <2>2 DEF ownVars
    <3>2. r.beats = 1 /\ (CStall \/ pos < PosC(d) \/ PosUpdate(d) <= pos)
      BY <1>7, <3>1 DEF WindowInvBy
    <3>3. c = 0 /\ ~CStall => ~(pos < PosC(d))
      BY <1>1, <1>2, <3>1 DEF Reach
    <3> QED BY <1>2, <2>2, <3>2, <3>3, ConfigAssumption
  <2> QED BY <2>1, <2>2
<1> QED BY <1>3, <1>4, <1>6, <1>7 DEF WindowInvBy

\* Every step keeps what may not wait before its turn.
LEMMA WindowStep == TypeOK /\ IdInv /\ WindowInv /\ [Next]_vars => WindowInv'
<1> SUFFICES ASSUME TypeOK, IdInv, WindowInv, [Next]_vars, NEW d \in Core
             PROVE  WindowInvBy(d)'
  BY DEF WindowInv
<1>1. WindowInvBy(d)
  BY DEF WindowInv
<1>2. ASSUME UNCHANGED <<pos, known, pendingB, pendingC, pendingE>>
      PROVE  WindowInvBy(d)'
  BY <1>1, <1>2 DEF WindowInvBy, PosC, PosE, PosD, PosUpdate
<1>3. ASSUME NEW p \in Int, At(p), p # PosC(d), p # PosE(d), UNCHANGED ownVars(d)
      PROVE  WindowInvBy(d)'
  <2>1. UNCHANGED <<known[d], pendingB[d], pendingC[d], pendingE[d]>>
    BY <1>3 DEF ownVars
  <2>2. \A b \in pendingB'[d] : b.addr \in known'[d]
    BY <1>1, <2>1 DEF WindowInvBy
  <2> QED BY <1>1, <1>3, <2>1, <2>2, WindowFrame
<1>4. ASSUME NEW a \in Addr, WriteBack(a)
      PROVE  WindowInvBy(d)'
  BY <1>2, <1>4 DEF WriteBack, entryVars, pendVars
<1>5. ASSUME NEW c \in Core, FireA(c)
      PROVE  WindowInvBy(d)'
  <2>1. At(PosA(c)) /\ UNCHANGED <<known, pendingB, pendingC, pendingE>>
    BY <1>5 DEF FireA
  <2>2. \A b \in pendingB'[d] : b.addr \in known'[d]
    BY <1>1, <2>1 DEF WindowInvBy
  <2> QED BY <1>1, <2>1, <2>2, OwnPlace, WindowFrame
<1>6. ASSUME NEW c \in Core, FireB(c)
      PROVE  WindowInvBy(d)'
  <2>1. At(PosB(c)) /\ UNCHANGED <<known, pendingC, pendingE>>
    BY <1>6 DEF FireB, entryVars
  <2>2. PICK b \in ReqB : b.addr \in known[c] /\ pendingB' = [pendingB EXCEPT ![c] = {b}]
    BY <1>6 DEF FireB, MayProbe
  <2>3. pendingB'[d] = IF d = c THEN {b} ELSE pendingB[d]
    BY <2>2 DEF TypeOK, TypePending
  <2>4. \A q \in pendingB'[d] : q.addr \in known'[d]
    BY <1>1, <2>1, <2>2, <2>3 DEF WindowInvBy
  <2> QED BY <1>1, <2>1, <2>4, OwnPlace, WindowFrame
<1>7. ASSUME NEW c \in Core, FireC(c)
      PROVE  WindowInvBy(d)'
  <2>1. At(PosC(c))
    BY <1>7 DEF FireC
  <2>2. CASE c = d
    BY <1>1, <1>7, <2>2, WindowFireC
  <2>3. CASE c # d
    BY <1>3, <1>7, <2>1, <2>3, ElsewhereC, OwnPlace
  <2> QED BY <2>2, <2>3
<1>8. ASSUME NEW c \in Core, FireE(c)
      PROVE  WindowInvBy(d)'
  <2>1. At(PosE(c))
    BY <1>8 DEF FireE
  <2>2. CASE c = d
    BY <1>1, <1>8, <2>2, WindowFireE
  <2>3. CASE c # d
    BY <1>3, <1>8, <2>1, <2>3, ElsewhereBE, OwnPlace
  <2> QED BY <2>2, <2>3
<1>9. ASSUME NEW c \in Core, FireD(c)
      PROVE  WindowInvBy(d)'
  <2>1. At(PosD(c)) /\ UNCHANGED <<known, pendingB, pendingC>>
    BY <1>9 DEF FireD
  <2>2. CASE c = d
    <3>1. \A b \in pendingB'[d] : b.addr \in known'[d]
      BY <1>1, <2>1 DEF WindowInvBy
    <3>2. PosD(d) <= PosD(c)
      BY <2>2, OwnPlace
    <3> QED BY <1>1, <2>1, <3>1, <3>2, OwnPlace, WindowFrame
  <2>3. CASE c # d
    BY <1>3, <1>9, <2>1, <2>3, ElsewhereD, OwnPlace
  <2> QED BY <2>2, <2>3
<1>10. ASSUME NEW c \in Core, Fuzz(c)
       PROVE  WindowInvBy(d)'
  <2>1. At(PosFuzz(c)) /\ UNCHANGED <<known, pendingB, pendingE>>
    BY <1>10 DEF Fuzz, entryVars
  <2>2. CASE c = d
    <3>1. \A b \in pendingB'[d] : b.addr \in known'[d]
      BY <1>1, <2>1 DEF WindowInvBy
    <3>2. \A r \in pendingC'[d] : r.op = "ProbeAck" => r \in pendingC[d]
      <4>1. ASSUME NEW i, NEW a, NEW x, DoReleaseDataAuto(c, i, a, x)
            PROVE  <3>2
        <5> PICK perm : perm = privilege[c][a][x]
          OBVIOUS
        <5> PICK toN : toN = IF perm = "TIP" THEN "TtoN" ELSE "BtoN"
          OBVIOUS
        <5> DEFINE request(op, n, v) == [op |-> op, addr |-> a, alias |-> x, param |-> toN,
                                         beats |-> n, data |-> v, source |-> {i}]
        <5>1. \/ pendingC' = [pendingC EXCEPT ![c] = {request("Release", 1, Zero)}]
              \/ \E v \in Data :
                   pendingC' = [pendingC EXCEPT ![c] = {request("ReleaseData", 2, v)}]
          BY <4>1 DEF DoReleaseDataAuto
        <5>2. \/ pendingC'[c] = {request("Release", 1, Zero)}
              \/ \E v \in Data : pendingC'[c] = {request("ReleaseData", 2, v)}
          BY <5>1 DEF TypeOK, TypePending
        <5> QED BY <2>2, <5>2
      <4>2. ASSUME NEW i, NEW op, NEW a, NEW x, NEW param, DoAcquire(c, i, op, a, x, param)
            PROVE  <3>2
        BY <2>2, <4>2 DEF DoAcquire
      <4>3. ASSUME NEW i, NEW op, NEW a, DoCBO(c, i, op, a)
            PROVE  <3>2
        BY <2>2, <4>3 DEF DoCBO
      <4> QED BY <1>10, <4>1, <4>2, <4>3 DEF Fuzz
    <3> QED BY <1>1, <2>1, <3>1, <3>2, OwnPlace, WindowFrame
  <2>3. CASE c # d
    BY <1>3, <1>10, <2>1, <2>3, ElsewhereFuzz, OwnPlace
  <2> QED BY <2>2, <2>3
<1>11. ASSUME NEW c \in Core, Update(c)
       PROVE  WindowInvBy(d)'
  BY <1>1, <1>11, ElsewhereUpdate, WindowUpdate
<1>12. CASE UNCHANGED vars
  BY <1>2, <1>12 DEF vars, entryVars, pendVars
<1> QED BY <1>4, <1>5, <1>6, <1>7, <1>8, <1>9, <1>10, <1>11, <1>12 DEF Next

\* The report nested in an Acquire is a ProbeAck without data.
NestInvBy(c) ==
  \A r \in pendingC[c] : status[c][r.addr][r.alias] \in Nested => r.op = "ProbeAck"
NestInv == failed = {} => \A c \in Core : NestInvBy(c)

\* No handler but send_c starts a report nested in an Acquire.
LEMMA NestOps ==
  /\ \A s \in CBOSending : AfterFireCBO(s) \notin Nested
  /\ \A s \in AcquireFirable : AfterFireAcquire(s) \in Nested => s \in Nested
  /\ \A s \in OnC : \A param : AfterFireProbeAck(s, param) \notin Nested
  /\ \A s : AfterFireRelease(s) \notin Nested /\ AfterReleaseAck(s) \notin Nested
  /\ \A op, s, perm : AfterCBOAck(op, s, perm) \notin Nested
  /\ "S_VALID" \notin Nested /\ "S_SENDING_E" \notin Nested
  /\ \A s : AfterSendCBO(s) \in Nested => s \in Nested
  /\ \A s : s \in SendingC \cup {"S_VALID"} => AfterSendRelease(s) \notin Nested
  /\ \A s \in OnC \ Nested : AfterSendProbeAck("ProbeAckData", s) = s
  /\ OnC = SendingC \cup Nested /\ SendingC \cap (AcquireFirable \cup Nested) = {}
  BY DEF Nested, OnC, SendingC, CBOSending, AcquireFirable, AfterFireCBO, AfterFireAcquire,
         AfterFireProbeAck, AfterFireRelease, AfterReleaseAck, AfterCBOAck, AfterSendCBO,
         AfterSendRelease, AfterSendProbeAck

\* Nothing is on C at first.
LEMMA NestInit == Init => NestInv
  BY DEF Init, NestInv, NestInvBy

\* Reports that stay while no block comes to a nested status.
LEMMA NestFrame ==
  ASSUME TypeOK, NEW d \in Core, NestInvBy(d), pendingC'[d] \subseteq pendingC[d],
         \A a \in Addr, x \in Alias : status'[d][a][x] \in Nested => status[d][a][x] \in Nested
  PROVE  NestInvBy(d)'
<1>1. \A r \in pendingC[d] : r.addr \in Addr /\ r.alias \in Alias
  BY ReqCFields DEF TypeOK, TypePending
<1> QED BY <1>1 DEF NestInvBy

\* fire_a nests no report that was not.
LEMMA NestFireA ==
  ASSUME TypeOK, IdInv, NEW c \in Core, FireA(c), StatusInvBy(c), NestInvBy(c)
  PROVE  NestInvBy(c)'
<1>1. PICK r \in pendingA[c] : FireA(c)!2!(r)
  BY DEF FireA
<1>2. r.addr \in Addr /\ r.alias \in Alias /\ (r.op \in CBOOp <=> r.op \notin AcquireOp)
  BY DEF TypeOK, TypePending, ReqA, CBOOp, AcquireOp
<1>3. ~Unpresented(c) /\ pendingC' = pendingC
  BY Fired DEF FireA
<1>4. TellsA(c, r)
  BY DEF StatusInvBy
<1>5. CASE r.op \in CBOOp
  <2>1. \A x \in Alias : status[c][r.addr][x] \in CBOSending
    BY <1>2, <1>3, <1>4, <1>5 DEF TellsA
  <2>2. status' = [status EXCEPT ![c][r.addr] =
                     [x \in Alias |-> AfterFireCBO(status[c][r.addr][x])]]
    BY <1>1, <1>5
  <2>3. \A a \in Addr, x \in Alias :
          status'[c][a][x] = IF a = r.addr THEN AfterFireCBO(status[c][a][x])
                             ELSE status[c][a][x]
    BY <1>2, <2>2 DEF TypeOK, TypeEntries, PerBlock
  <2> QED BY <1>3, <2>1, <2>3, NestOps, NestFrame
<1>6. CASE r.op \in AcquireOp
  <2>1. status[c][r.addr][r.alias] \in AcquireFirable
    BY <1>2, <1>3, <1>4, <1>6 DEF TellsA
  <2>2. status' = [status EXCEPT ![c][r.addr][r.alias] = AfterFireAcquire(@)]
    BY <1>1, <1>2, <1>6
  <2>3. \A a \in Addr, x \in Alias :
          status'[c][a][x] = IF a = r.addr /\ x = r.alias THEN AfterFireAcquire(status[c][a][x])
                             ELSE status[c][a][x]
    BY <1>2, <2>2 DEF TypeOK, TypeEntries, PerBlock
  <2> QED BY <1>3, <2>1, <2>3, NestOps, NestFrame
<1> QED BY <1>2, <1>5, <1>6

\* After a beat that is not the last the report is the same; after the last C is empty.
LEMMA NestFireC ==
  ASSUME TypeOK, IdInv, NEW c \in Core, FireC(c), NestInvBy(c)
  PROVE  NestInvBy(c)'
<1>1. PICK r \in pendingC[c] : FireCBeat(c, r) \/ FireRelease(c, r) \/ FireProbeAck(c, r)
  BY DEF FireC
<1>2. CASE FireCBeat(c, r)
  <2>1. pendingC'[c] = {LessABeat(r)} /\ status' = status
    BY <1>2 DEF FireCBeat, TypeOK, TypePending
  <2> QED BY <2>1 DEF NestInvBy, LessABeat
<1>3. CASE FireRelease(c, r) \/ FireProbeAck(c, r)
  <2>1. pendingC'[c] = {}
    BY <1>3 DEF FireRelease, FireProbeAck, TypeOK, TypePending
  <2> QED BY <2>1 DEF NestInvBy
<1> QED BY <1>1, <1>2, <1>3

\* fire_e.
LEMMA NestFireE ==
  ASSUME TypeOK, NEW c \in Core, FireE(c), NestInvBy(c)
  PROVE  NestInvBy(c)'
<1>1. PICK e \in pendingE[c] : status' = [status EXCEPT ![c][e.addr][e.alias] = "S_VALID"]
  BY DEF FireE
<1>2. pendingC' = pendingC /\ e.addr \in Addr /\ e.alias \in Alias
  BY DEF FireE, TypeOK, TypePending, Block
<1>3. \A a \in Addr, x \in Alias :
        status'[c][a][x] = IF a = e.addr /\ x = e.alias THEN "S_VALID" ELSE status[c][a][x]
  BY <1>1, <1>2 DEF TypeOK, TypeEntries, PerBlock
<1> QED BY <1>2, <1>3, NestOps, NestFrame

\* fire_d.
LEMMA NestFireD ==
  ASSUME TypeOK, NEW c \in Core, FireD(c), NestInvBy(c)
  PROVE  NestInvBy(c)'
<1>1. pendingC' = pendingC
  BY DEF FireD
<1>2. ASSUME NEW A, NEW X, NEW t, t \notin Nested,
             status' = [status EXCEPT ![c][A][X] = t]
      PROVE  NestInvBy(c)'
  <2>1. \A a \in Addr, x \in Alias : status'[c][a][x] \in {t, status[c][a][x]}
    BY <1>2 DEF TypeOK, TypeEntries, PerBlock
  <2> QED BY <1>1, <1>2, <2>1, NestFrame
<1>3. ASSUME NEW k, FireReleaseAck(c, k)
      PROVE  NestInvBy(c)'
  <2>1. PICK e \in idMap[c][k.source] :
          status' = [status EXCEPT ![c][e.addr][e.alias] =
                       AfterReleaseAck(status[c][e.addr][e.alias])]
    BY <1>3 DEF FireReleaseAck
  <2> QED BY <1>2, <2>1, NestOps
<1>4. ASSUME NEW r, NEW perm, FireGrantBeat(c, r, perm)
      PROVE  NestInvBy(c)'
  BY <1>1, <1>4, NestFrame DEF FireGrantBeat
<1>5. ASSUME NEW r, NEW perm, FireGrant(c, r, perm)
      PROVE  NestInvBy(c)'
  <2>1. PICK e \in idMap[c][r.source] :
          status' = [status EXCEPT ![c][e.addr][e.alias] = "S_SENDING_E"]
    BY <1>5 DEF FireGrant
  <2> QED BY <1>2, <2>1, NestOps
<1>6. ASSUME NEW r, FireCBOAck(c, r)
      PROVE  NestInvBy(c)'
  <2>1. PICK A, op : status' = [status EXCEPT ![c][A] =
          [x \in Alias |-> AfterCBOAck(op, @[x], privilege[c][A][x])]]
    BY <1>6 DEF FireCBOAck
  <2>2. \A a \in Addr, x \in Alias :
          status'[c][a][x] \in {AfterCBOAck(op, status[c][a][x], privilege[c][a][x]),
                                status[c][a][x]}
    BY <2>1 DEF TypeOK, TypeEntries, PerBlock
  <2> QED BY <1>1, <2>2, NestOps, NestFrame
<1> QED BY <1>3, <1>4, <1>5, <1>6 DEF FireD

\* A Release is asked for when its block is valid.
LEMMA NestFuzz ==
  ASSUME TypeOK, NEW c \in Core, Fuzz(c), NestInvBy(c)
  PROVE  NestInvBy(c)'
<1>1. status' = status
  BY DEF Fuzz, entryVars
<1>2. CASE pendingC' = pendingC
  BY <1>1, <1>2, NestFrame
<1>3. ASSUME NEW i, NEW a, NEW x, DoReleaseDataAuto(c, i, a, x)
      PROVE  NestInvBy(c)'
  <2> PICK perm : perm = privilege[c][a][x]
    OBVIOUS
  <2> PICK toN : toN = IF perm = "TIP" THEN "TtoN" ELSE "BtoN"
    OBVIOUS
  <2> DEFINE request(op, n, v) == [op |-> op, addr |-> a, alias |-> x, param |-> toN,
                                   beats |-> n, data |-> v, source |-> {i}]
  <2>1. \/ pendingC' = [pendingC EXCEPT ![c] = {request("Release", 1, Zero)}]
        \/ \E v \in Data : pendingC' = [pendingC EXCEPT ![c] = {request("ReleaseData", 2, v)}]
    BY <1>3 DEF DoReleaseDataAuto
  <2>2. \/ pendingC'[c] = {request("Release", 1, Zero)}
        \/ \E v \in Data : pendingC'[c] = {request("ReleaseData", 2, v)}
    BY <2>1 DEF TypeOK, TypePending
  <2>3. status[c][a][x] = "S_VALID"
    BY <1>3 DEF DoReleaseDataAuto
  <2> QED BY <1>1, <2>2, <2>3, NestOps DEF NestInvBy
<1>4. ASSUME NEW i, NEW op, NEW a, NEW x, NEW param, DoAcquire(c, i, op, a, x, param)
      PROVE  NestInvBy(c)'
  BY <1>2, <1>4 DEF DoAcquire
<1>5. ASSUME NEW i, NEW op, NEW a, DoCBO(c, i, op, a)
      PROVE  NestInvBy(c)'
  BY <1>2, <1>5 DEF DoCBO
<1> QED BY <1>3, <1>4, <1>5 DEF Fuzz

\* send_c presents r.
LEMMA SentFor ==
  ASSUME TypeOK, NEW c \in Core, NEW st, st = Presented(c), NEW r \in ReqC, SendC(c, st, {r})
  PROVE  /\ pendingC'[c] = {r}
         /\ status'[c][r.addr][r.alias] =
              IF r.op \in ReleaseOp THEN AfterSendRelease(st[r.addr][r.alias])
              ELSE AfterSendProbeAck(r.op, st[r.addr][r.alias])
<1>1. r.addr \in Addr /\ r.alias \in Alias
  BY ReqCFields
<1>2. The({r}) = r
  BY DEF The
<1>3. pendingC'[c] = {r} /\ status'[c] = AfterSendC(st, {r})
  BY DEF SendC, TypeOK, TypePending, TypeEntries, PerBlock
<1>4. st \in [Addr -> [Alias -> Status]]
  BY PresentedType
<1> QED BY <1>1, <1>2, <1>3, <1>4 DEF AfterSendC

\* update_signal: send_c nests a ProbeAck only if it has no data.
LEMMA NestUpdate ==
  ASSUME TypeOK, IdInv, NEW c \in Core, Update(c), StatusInvBy(c), NestInvBy(c)
  PROVE  NestInvBy(c)'
<1> PICK st : st = Presented(c)
  OBVIOUS
<1>1. CASE NoHandleB(c, st)
  <2>1. SendC(c, st, pendingC[c])
    BY <1>1 DEF NoHandleB
  <2>2. pendingC'[c] = pendingC[c]
    BY <2>1 DEF SendC, TypeOK, TypePending
  <2> SUFFICES ASSUME NEW r \in pendingC[c], r.op # "ProbeAck"
               PROVE  status'[c][r.addr][r.alias] \notin Nested
    BY <2>2 DEF NestInvBy
  <2>3. pendingC[c] = {r} /\ r \in ReqC /\ r.addr \in Addr /\ r.alias \in Alias
    BY ReqCFields DEF IdInv, IdInvBy, OnePending, TypeOK, TypePending
  <2> PICK s, t : s = status[c][r.addr][r.alias] /\ t = st[r.addr][r.alias]
    OBVIOUS
  <2>4. status'[c][r.addr][r.alias] = IF r.op \in ReleaseOp THEN AfterSendRelease(t)
                                      ELSE AfterSendProbeAck(r.op, t)
    BY <2>1, <2>3, SentFor
  <2>5. IF r.op \in ReleaseOp THEN t \in SendingC \cup {"S_VALID"} ELSE t \in OnC
    BY StatusSendA
  <2>6. CASE r.op \in ReleaseOp
    BY <2>4, <2>5, <2>6, NestOps
  <2>7. CASE r.op \notin ReleaseOp
    <3>1. r.op = "ProbeAckData"
      BY <2>3, <2>7 DEF ReqC, ProbeAckOp
    <3>2. s \notin Nested /\ s \in OnC
      BY <2>7 DEF NestInvBy, StatusInvBy, TellsC
    <3>3. t \notin Nested
      <4>1. CASE t = s \/ t = AfterSendCBO(s)
        BY <3>2, <4>1, NestOps
      <4>2. ASSUME NEW q \in pendingA[c], q.op \in AcquireOp, q.addr = r.addr, q.alias = r.alias
            PROVE  FALSE
        <5>1. TellsA(c, q) /\ Presents(pendingC[c], r.addr, r.alias)
          BY DEF StatusInvBy, Presents
        <5>2. q.op \notin CBOOp
          BY <4>2 DEF AcquireOp, CBOOp
        <5>3. s \in AcquireFirable
          BY <2>3, <4>2, <5>1, <5>2 DEF TellsA, AskedA
        <5> QED BY <3>2, <5>3, NestOps
      <4> QED BY <2>3, <4>1, <4>2, PresentedAt
    <3> QED BY <2>4, <2>5, <2>7, <3>1, <3>3, NestOps
  <2> QED BY <2>6, <2>7
<1>2. ASSUME NEW b \in pendingB[c], HandleB(c, b, st)
      PROVE  NestInvBy(c)'
  <2>1. pendingC[c] = {} /\ b \in ReqB
    BY <1>2 DEF HandleB, AnswersProbe, TypeOK, TypePending
  <2>2. CASE SendC(c, st, {})
    <3>1. pendingC'[c] = {}
      BY <2>2 DEF SendC, TypeOK, TypePending
    <3> QED BY <3>1 DEF NestInvBy
  <2>3. ASSUME NEW r \in ProbeAnswers(c, b, st), SendC(c, st, {r}), r.op # "ProbeAck"
        PROVE  NestInvBy(c)'
    <3>1. /\ r \in ReqC /\ r.op \in ProbeAckOp /\ r.addr = b.addr /\ r.alias = b.alias
          /\ st[b.addr][b.alias] \notin {"S_SENDING_A", "S_A_WAITING_D"}
      BY <2>1, <2>3, AnswerSays, ProbeAnswersType
    <3>2. r.addr \in Addr /\ r.alias \in Alias /\ r.op \notin ReleaseOp
      BY <3>1, ReqCFields DEF ProbeAckOp, ReleaseOp
    <3> PICK t : t = st[r.addr][r.alias]
      OBVIOUS
    <3>3. t \notin OnC
      BY <2>1, <3>2, StatusSendA DEF Messages, Presents
    <3>4. AfterSendProbeAck(r.op, t) \notin Nested
      BY <3>1, <3>3 DEF AfterSendProbeAck, AfterSendRelease, Nested, OnC
    <3>5. pendingC'[c] = {r} /\ status'[c][r.addr][r.alias] = AfterSendProbeAck(r.op, t)
      BY <2>3, <3>1, <3>2, SentFor
    <3> QED BY <3>4, <3>5 DEF NestInvBy
  <2>4. ASSUME NEW r \in ProbeAnswers(c, b, st), SendC(c, st, {r}), r.op = "ProbeAck"
        PROVE  NestInvBy(c)'
    <3>1. pendingC'[c] = {r}
      BY <2>4 DEF SendC, TypeOK, TypePending
    <3> QED BY <2>4, <3>1 DEF NestInvBy
  <2> QED BY <1>2, <2>2, <2>3, <2>4 DEF HandleB
<1> QED BY <1>1, <1>2 DEF Update

\* Every step keeps the reports nested in Acquires without data.
LEMMA NestStep == TypeOK /\ IdInv /\ StatusInv /\ NestInv /\ [Next]_vars => NestInv'
<1> SUFFICES ASSUME TypeOK, IdInv, StatusInv, NestInv, [Next]_vars, failed' = {}, NEW d \in Core
             PROVE  NestInvBy(d)'
  BY DEF NestInv
<1>1. failed = {} => StatusInvBy(d) /\ NestInvBy(d)
  BY DEF StatusInv, NestInv
<1>2. ASSUME UNCHANGED <<status[d], pendingC[d]>>, failed = {}
      PROVE  NestInvBy(d)'
  BY <1>1, <1>2, NestFrame
<1>3. ASSUME UNCHANGED ownVars(d), failed = {}
      PROVE  NestInvBy(d)'
  BY <1>2, <1>3 DEF ownVars
<1>4. ASSUME NEW a \in Addr, WriteBack(a)
      PROVE  NestInvBy(d)'
  BY <1>2, <1>4 DEF WriteBack, entryVars, pendVars
<1>5. ASSUME NEW c \in Core, FireA(c)
      PROVE  NestInvBy(d)'
  BY <1>1, <1>3, <1>5, ElsewhereA, NestFireA DEF FireA, At, Reach
<1>6. ASSUME NEW c \in Core, FireB(c)
      PROVE  NestInvBy(d)'
  BY <1>2, <1>6 DEF FireB, At, Reach, entryVars
<1>7. ASSUME NEW c \in Core, FireC(c)
      PROVE  NestInvBy(d)'
  BY <1>1, <1>3, <1>7, ElsewhereC, NestFireC DEF FireC, At, Reach
<1>8. ASSUME NEW c \in Core, FireE(c)
      PROVE  NestInvBy(d)'
  BY <1>1, <1>3, <1>8, ElsewhereBE, NestFireE DEF FireE, At, Reach
<1>9. ASSUME NEW c \in Core, FireD(c)
      PROVE  NestInvBy(d)'
  BY <1>1, <1>3, <1>9, ElsewhereD, NestFireD DEF FireD, At, Reach
<1>10. ASSUME NEW c \in Core, Fuzz(c)
       PROVE  NestInvBy(d)'
  BY <1>1, <1>3, <1>10, ElsewhereFuzz, NestFuzz DEF Fuzz, At, Reach
<1>11. ASSUME NEW c \in Core, Update(c)
       PROVE  NestInvBy(d)'
  <2>1. failed = {}
    BY <1>11 DEF Update
  <2> QED BY <1>1, <1>3, <1>11, <2>1, ElsewhereUpdate, NestUpdate
<1>12. CASE UNCHANGED vars
  BY <1>2, <1>12 DEF vars, entryVars, pendVars
<1> QED BY <1>4, <1>5, <1>6, <1>7, <1>8, <1>9, <1>10, <1>11, <1>12 DEF Next

-----------------------------------------------------------------------------
(* Data of a pending block *)

Pending(a) == board[a].status = "PENDING"

\* On a device that answers nothing before a ReleaseAck of the block, nobody holds or
\* is being granted a block with a release that the board still counts as pending. If
\* the device probes holders only, it is the probed agent's own release, and a probed
\* block is TIP nowhere else.
NullInv ==
  Overtake = {} =>
    /\ \A a \in Addr : Pending(a) =>
         /\ \A d \in Core, x \in Alias : dir[d][a][x] = "INVALID"
         /\ \A d \in Core : \A p \in pendingD[d] : p.req.addr # a
    /\ ~Unfiltered => \A c \in Core, a \in Addr : <<c, a>> \in probing =>
         /\ Pending(a) => \E k \in AcksOf(c) : k.addr = a
         /\ \A d \in Core \ {c}, x \in Alias : dir[d][a][x] # "TIP"

\* No block is pending at first.
LEMMA NullInit == Init => NullInv
  BY DEF Init, NullInv, Pending, NoEntry

\* A step that makes no block pending, gives nobody a copy, probes nobody and leaves the
\* ReleaseAcks of pending blocks to come.
LEMMA NullFrame ==
  ASSUME NullInv, \A a \in Addr : Pending(a)' => Pending(a),
         \A d \in Core, a \in Addr, x \in Alias :
           /\ dir[d][a][x] = "INVALID" => dir'[d][a][x] = "INVALID"
           /\ dir'[d][a][x] = "TIP" => dir[d][a][x] = "TIP",
         \A d \in Core : pendingD'[d] \subseteq pendingD[d],
         probing' \subseteq probing,
         \A k \in relAcks : k.addr \in Addr /\ Pending(k.addr)' => k \in relAcks'
  PROVE  NullInv'
<1> SUFFICES ASSUME Overtake = {}
             PROVE  NullInv'
  BY DEF NullInv
<1>1. ASSUME NEW a \in Addr, Pending(a)'
      PROVE  /\ \A d \in Core, x \in Alias : dir'[d][a][x] = "INVALID"
             /\ \A d \in Core : \A p \in pendingD'[d] : p.req.addr # a
  BY <1>1 DEF NullInv
<1>2. ASSUME ~Unfiltered, NEW c \in Core, NEW a \in Addr, <<c, a>> \in probing'
      PROVE  /\ Pending(a)' => \E k \in AcksOf(c)' : k.addr = a
             /\ \A d \in Core \ {c}, x \in Alias : dir'[d][a][x] # "TIP"
  <2>1. /\ Pending(a) => \E k \in AcksOf(c) : k.addr = a
        /\ \A d \in Core \ {c}, x \in Alias : dir[d][a][x] # "TIP"
    BY <1>2 DEF NullInv
  <2> QED BY <2>1 DEF AcksOf
<1> QED BY <1>1, <1>2 DEF NullInv

\* The device probes holders, and nobody holds a pending block.
LEMMA NullFireB ==
  ASSUME TypeOK, CopyInv, NullInv, NEW c \in Core, FireB(c)
  PROVE  NullInv'
<1>1. PICK b \in ReqB : MayProbe(c, b) /\ probing' = probing \cup {<<c, b.addr>>}
  BY DEF FireB
<1>2. UNCHANGED <<board, dir, pendingD, relAcks>> /\ b.addr \in Addr /\ b.alias \in Alias
  BY DEF FireB, boardVars, ReqB
<1> SUFFICES ASSUME Overtake = {}
             PROVE  NullInv'
  BY DEF NullInv
<1>3. \A a \in Addr : Pending(a)' =>
        /\ \A d \in Core, x \in Alias : dir'[d][a][x] = "INVALID"
        /\ \A d \in Core : \A p \in pendingD'[d] : p.req.addr # a
  BY <1>2 DEF NullInv, Pending
<1>4. ASSUME ~Unfiltered, NEW d \in Core, NEW a \in Addr, <<d, a>> \in probing'
      PROVE  /\ Pending(a)' => \E k \in AcksOf(d)' : k.addr = a
             /\ \A e \in Core \ {d}, x \in Alias : dir'[e][a][x] # "TIP"
  <2>1. CASE <<d, a>> \in probing
    BY <1>2, <1>4, <2>1 DEF NullInv, Pending, AcksOf
  <2>2. CASE d = c /\ a = b.addr
    <3>1. dir[c][a][b.alias] # "INVALID"
      BY <1>1, <1>4, <2>2 DEF MayProbe
    <3>2. ~Pending(a)
      BY <1>2, <2>2, <3>1 DEF NullInv
    <3>3. \A e \in Core \ {c}, x \in Alias : dir[e][a][x] # "TIP"
      BY <1>2, <2>2, <3>1 DEF CopyInv, Coherent, Fits
    <3> QED BY <1>2, <2>2, <3>2, <3>3 DEF Pending
  <2> QED BY <1>1, <1>4, <2>1, <2>2
<1> QED BY <1>3, <1>4 DEF NullInv

\* A ReleaseData comes from the block's only holder, which has no request for it.
LEMMA NullRelease ==
  ASSUME TypeOK, IdInv, CopyInv, ReleaseInv, NullInv, NEW c \in Core, StatusInvBy(c),
         FireC(c), NEW r \in pendingC[c], r.op = "ReleaseData", FireRelease(c, r)
  PROVE  NullInv'
<1>1. r.addr \in Addr /\ r.alias \in Alias /\ r.op \in ReleaseOp
  BY ReqCFields DEF TypeOK, TypePending, ReleaseOp
<1>2. Reported(r.param) = "INVALID" /\ dir[c][r.addr][r.alias] = "TIP"
  BY <1>1 DEF CopyInv, CopyInvBy, ReleaseInv, ReleaseInvBy
<1>3. /\ board' = [board EXCEPT ![r.addr] = Released(board[r.addr], r.data)]
      /\ dir' = [dir EXCEPT ![c][r.addr][r.alias] = "INVALID"]
      /\ relAcks' = relAcks \cup {[core |-> c, addr |-> r.addr, source |-> The(r.source)]}
      /\ probing' = probing
  BY <1>2 DEF FireRelease
<1>4. UNCHANGED <<pendingD, reqs>>
  BY DEF FireC
<1>5. \A d \in Core, a \in Addr, x \in Alias :
        dir'[d][a][x] = IF <<d, a, x>> = <<c, r.addr, r.alias>> THEN "INVALID" ELSE dir[d][a][x]
  BY <1>1, <1>3 DEF TypeOK, TypeDevice, PerBlock
<1>6. \A d \in Core, x \in Alias : dir'[d][r.addr][x] = "INVALID"
  BY <1>1, <1>2, <1>5 DEF CopyInv, Coherent, Fits
<1>7. \A a \in Addr \ {r.addr} : Pending(a)' = Pending(a)
  BY <1>3 DEF TypeOK, TypeShared, Pending
<1>8. ASSUME NEW d \in Core, NEW p \in pendingD[d]
      PROVE  p.req.addr # r.addr
  <2> SUFFICES ASSUME p.req.addr = r.addr
               PROVE  FALSE
    OBVIOUS
  <2>0. Fits(d, r.addr, p.req.alias, p.perm)
    BY DEF CopyInv, CopyInvBy
  <2>1. CASE d # c
    BY <1>1, <1>2, <2>0, <2>1 DEF Fits
  <2>2. CASE d = c
    <3>1. p.req \in ReqsOf(c) /\ p.req.op \in AcquireOp /\ p.req.alias \in Alias
      BY <2>2 DEF IdInv, IdInvBy, GrantOwed, TypeOK, TypePending, ReqA, AcquireOp
    <3>2. p.req.alias = r.alias
      BY <1>1, <1>2, <2>0, <2>2, <3>1 DEF Fits
    <3>3. status[c][r.addr][r.alias] \in AWaiting
      BY <1>1, <3>1, <3>2 DEF StatusInvBy, Tells, Messages, AcquireOut
    <3>4. status[c][r.addr][r.alias] \in SendingC \cup {"S_VALID"}
      BY <1>1 DEF StatusInvBy, TellsC
    <3> QED BY <3>3, <3>4 DEF AWaiting, SendingC
  <2> QED BY <2>1, <2>2
<1> SUFFICES ASSUME Overtake = {}
             PROVE  NullInv'
  BY DEF NullInv
<1>9. ASSUME NEW a \in Addr, Pending(a)'
      PROVE  /\ \A d \in Core, x \in Alias : dir'[d][a][x] = "INVALID"
             /\ \A d \in Core : \A p \in pendingD'[d] : p.req.addr # a
  BY <1>4, <1>5, <1>6, <1>7, <1>8, <1>9 DEF NullInv
<1>10. ASSUME ~Unfiltered, NEW d \in Core, NEW a \in Addr, <<d, a>> \in probing'
       PROVE  /\ Pending(a)' => \E k \in AcksOf(d)' : k.addr = a
              /\ \A e \in Core \ {d}, x \in Alias : dir'[e][a][x] # "TIP"
  <2>1. /\ Pending(a) => \E k \in AcksOf(d) : k.addr = a
        /\ \A e \in Core \ {d}, x \in Alias : dir[e][a][x] # "TIP"
    BY <1>3, <1>10 DEF NullInv
  <2>2. \A e \in Core \ {d}, x \in Alias : dir'[e][a][x] # "TIP"
    BY <1>5, <2>1
  <2>3. CASE a # r.addr
    BY <1>3, <1>7, <2>1, <2>2, <2>3 DEF AcksOf
  <2>4. CASE a = r.addr
    <3>1. d = c
      BY <1>1, <1>2, <2>1, <2>4
    <3>2. PICK k : k = [core |-> c, addr |-> r.addr, source |-> The(r.source)]
      OBVIOUS
    <3>3. k \in AcksOf(d)' /\ k.addr = a
      BY <1>3, <2>4, <3>1, <3>2 DEF AcksOf
    <3> QED BY <2>2, <3>3
  <2> QED BY <2>3, <2>4
<1> QED BY <1>9, <1>10 DEF NullInv

\* fire_c: a ReleaseData gives up the only copy, a ProbeAckData makes the block valid.
LEMMA NullFireC ==
  ASSUME TypeOK, IdInv, CopyInv, ReleaseInv, NullInv, NEW c \in Core, StatusInvBy(c), FireC(c)
  PROVE  NullInv'
<1>1. PICK r \in pendingC[c] : FireCBeat(c, r) \/ FireRelease(c, r) \/ FireProbeAck(c, r)
  BY DEF FireC
<1>2. pendingD' = pendingD /\ r.addr \in Addr /\ r.alias \in Alias
  BY ReqCFields DEF FireC, TypeOK, TypePending
<1>3. CASE FireCBeat(c, r)
  <2>1. UNCHANGED <<board, dir, relAcks, probing>>
    BY <1>3 DEF FireCBeat, boardVars
  <2> QED BY <1>2, <2>1, NullFrame DEF Pending
<1>4. ASSUME dir' = [dir EXCEPT ![c][r.addr][r.alias] = Reported(r.param)],
             \A a \in Addr : Pending(a)' => Pending(a),
             probing' \subseteq probing, relAcks \subseteq relAcks'
      PROVE  NullInv'
  <2>1. NotAbove(Reported(r.param), dir[c][r.addr][r.alias])
    BY DEF CopyInv, CopyInvBy
  <2>2. \A d \in Core, a \in Addr, x \in Alias :
          dir'[d][a][x] = IF <<d, a, x>> = <<c, r.addr, r.alias>> THEN Reported(r.param)
                          ELSE dir[d][a][x]
    BY <1>2, <1>4 DEF TypeOK, TypeDevice, PerBlock
  <2>3. Reported(r.param) \in TLPermission
    BY ReportOps, ParamOps DEF TypeOK, TypePending, ReqC
  <2>4. \A d \in Core, a \in Addr, x \in Alias :
          /\ dir[d][a][x] = "INVALID" => dir'[d][a][x] = "INVALID"
          /\ dir'[d][a][x] = "TIP" => dir[d][a][x] = "TIP"
    BY <2>1, <2>2, <2>3 DEF NotAbove, TLPermission
  <2> QED BY <1>2, <1>4, <2>4, NullFrame
<1>5. CASE FireRelease(c, r)
  <2>1. CASE r.op = "ReleaseData"
    BY <1>5, <2>1, NullRelease
  <2>2. CASE r.op # "ReleaseData"
    <3>1. board' = board
      BY <1>5, <2>2 DEF FireRelease, boardVars
    <3> QED BY <1>4, <1>5, <3>1 DEF FireRelease, Pending
  <2> QED BY <2>1, <2>2
<1>6. CASE FireProbeAck(c, r)
  <2>1. board' = board \/ board' = [board EXCEPT ![r.addr] = ProbeWritten(r.data)]
    BY <1>6 DEF FireProbeAck, boardVars
  <2>2. \A a \in Addr : Pending(a)' => Pending(a)
    BY <1>2, <2>1 DEF TypeOK, TypeShared, Pending, ProbeWritten
  <2> QED BY <1>4, <1>6, <2>2 DEF FireProbeAck
<1> QED BY <1>1, <1>3, <1>5, <1>6

\* What the device answers before no ReleaseAck of the block finds no pending block.
LEMMA NotPending ==
  ASSUME TypeOK, BoardInv, Overtake = {}, NEW r \in reqs, MayOvertake(r)
  PROVE  ~Pending(r.addr)
<1>1. \A k \in relAcks : k.addr # r.addr
  BY DEF MayOvertake
<1>2. r.addr \in Addr
  BY DEF TypeOK, TypeDevice, ReqA
<1> QED BY <1>1, <1>2 DEF BoardInv, InvalsWait, BoardInvAt, Pending

\* A block that is granted is pending nowhere and probed nowhere.
LEMMA NullGrant ==
  ASSUME TypeOK, MapInv, NullInv, NEW c \in Core, FireD(c), NEW r \in ReqsOf(c), NEW perm,
         FireGrant(c, r, perm), ~Pending(r.addr), \A d \in Core : <<d, r.addr>> \notin probing
  PROVE  NullInv'
<1>1. r.addr \in Addr /\ r.alias \in Alias
  BY DEF ReqsOf, TypeOK, TypeDevice, ReqA
<1>2. PICK e \in idMap[c][r.source] : pendingD' = [pendingD EXCEPT ![c] = {}]
                                      /\ dir' = [dir EXCEPT ![c][r.addr][r.alias] = perm]
                                      /\ UNCHANGED <<boardVars, relAcks>>
  BY DEF FireGrant
<1>3. \A d \in Core : pendingD'[d] \subseteq pendingD[d]
  BY <1>2 DEF TypeOK, TypePending
<1>4. \A d \in Core, a \in Addr \ {r.addr}, x \in Alias : dir'[d][a][x] = dir[d][a][x]
  BY <1>1, <1>2 DEF TypeOK, TypeDevice, PerBlock
<1>5. \A a \in Addr : Pending(a)' = Pending(a)
  BY <1>2 DEF Pending, boardVars
<1>6. probing' = probing
  BY DEF FireD
<1> SUFFICES ASSUME Overtake = {}
             PROVE  NullInv'
  BY DEF NullInv
<1>7. ASSUME NEW a \in Addr, Pending(a)'
      PROVE  /\ \A d \in Core, x \in Alias : dir'[d][a][x] = "INVALID"
             /\ \A d \in Core : \A p \in pendingD'[d] : p.req.addr # a
  BY <1>3, <1>4, <1>5, <1>7 DEF NullInv
<1>8. ASSUME ~Unfiltered, NEW d \in Core, NEW a \in Addr, <<d, a>> \in probing'
      PROVE  /\ Pending(a)' => \E k \in AcksOf(d)' : k.addr = a
             /\ \A q \in Core \ {d}, x \in Alias : dir'[q][a][x] # "TIP"
  BY <1>2, <1>4, <1>5, <1>6, <1>8 DEF NullInv, AcksOf
<1> QED BY <1>7, <1>8 DEF NullInv

\* The first beat of a GrantData is of a block that is not pending.
LEMMA NullGrantBeat ==
  ASSUME TypeOK, NullInv, NEW c \in Core, FireD(c), NEW r \in reqs, NEW perm,
         FireGrantBeat(c, r, perm), ~Pending(r.addr)
  PROVE  NullInv'
<1>1. /\ pendingD' = [pendingD EXCEPT ![c] = {[req |-> r, perm |-> perm]}]
      /\ UNCHANGED <<board, dir, relAcks, probing>>
  BY DEF FireGrantBeat, FireD, boardVars
<1>2. \A d \in Core : \A p \in pendingD'[d] : p \in pendingD[d] \/ p.req = r
  BY <1>1 DEF TypeOK, TypePending
<1> QED BY <1>1, <1>2 DEF NullInv, Pending, AcksOf

\* fire_d.
LEMMA NullFireD ==
  ASSUME TypeOK, IdInv, MapInv, CopyInv, BoardInv, NullInv, NEW c \in Core, FireD(c)
  PROVE  NullInv'
<1> SUFFICES ASSUME Overtake = {}
             PROVE  NullInv'
  BY DEF NullInv
<1>1. probing' = probing
  BY DEF FireD
<1>2. ASSUME NEW k \in relAcks, FireReleaseAck(c, k)
      PROVE  NullInv'
  <2>1. k \in AcksOf(c) /\ k.addr \in Addr
    BY <1>2 DEF FireReleaseAck, AcksOf, TypeOK, TypeDevice, ReleaseAck
  <2>2. PICK x \in Alias : idMap[c][k.source] = {[addr |-> k.addr, alias |-> x]}
    BY <2>1 DEF MapInv, MapInvBy
  <2>3. PICK e \in idMap[c][k.source] :
          board' = [board EXCEPT ![e.addr] = Unpending(board[e.addr])]
    BY <1>2 DEF FireReleaseAck
  <2>4. board' = [board EXCEPT ![k.addr] = Unpending(board[k.addr])]
    <3>1. e.addr = k.addr
      BY <2>2
    <3> QED BY <2>3, <3>1
  <2>5. UNCHANGED <<dir, pendingD>> /\ relAcks' = relAcks \ {k}
    BY <1>2 DEF FireReleaseAck
  <2>6. board'[k.addr] = Unpending(board[k.addr])
    BY <2>1, <2>4 DEF TypeOK, TypeShared
  <2>7. ~Pending(k.addr)'
    <3>1. Pending(k.addr) => board[k.addr].pending # {}
      BY <2>1 DEF BoardInv, InvalsWait, BoardInvAt, Pending
    <3> QED BY <2>6, <3>1 DEF Pending, Unpending
  <2>8. \A a \in Addr : Pending(a)' => Pending(a) /\ a # k.addr
    BY <2>1, <2>4, <2>7 DEF TypeOK, TypeShared, Pending
  <2> QED BY <1>1, <2>5, <2>8, NullFrame
<1>3. ASSUME NEW p \in pendingD[c], FireGrant(c, p.req, p.perm)
      PROVE  NullInv'
  <2>1. p.req \in ReqsOf(c) /\ p.req.addr \in Addr
    BY DEF IdInv, IdInvBy, GrantOwed, TypeOK, TypePending, ReqA
  <2>2. ~Pending(p.req.addr)
    BY <2>1 DEF NullInv
  <2>3. \A d \in Core : <<d, p.req.addr>> \notin probing
    <3>1. <<c, p.req.addr>> \in granting
      BY DEF CopyInv, CopyInvBy
    <3> QED BY <2>1, <3>1 DEF CopyInv, OneAtATime
  <2> QED BY <1>3, <2>1, <2>2, <2>3, NullGrant
<1>4. ASSUME NEW r \in reqs, NEW perm, r.core = c, MayGrant(r, perm),
             FireGrantBeat(c, r, perm) \/ FireGrant(c, r, perm)
      PROVE  NullInv'
  <2>1. ~Pending(r.addr) /\ \A d \in Core : <<d, r.addr>> \notin probing
    BY <1>4, NotPending DEF MayGrant, Quiet
  <2> QED BY <1>4, <2>1, NullGrantBeat, NullGrant DEF ReqsOf
<1>5. ASSUME NEW r \in reqs, FireCBOAck(c, r)
      PROVE  NullInv'
  <2>1. UNCHANGED <<dir, pendingD, relAcks>>
    BY <1>5 DEF FireCBOAck
  <2>2. PICK A : board' = board \/ board' = [board EXCEPT ![A] = Synced(board[A], mem[A])]
    BY <1>5 DEF FireCBOAck
  <2>3. \A a \in Addr : Pending(a)' => Pending(a)
    <3>1. ASSUME NEW a \in Addr
          PROVE  Synced(board[a], mem[a]).status = board[a].status
      BY DEF Synced, TypeOK, TypeShared, Entry
    <3> QED BY <2>2, <3>1 DEF TypeOK, TypeShared, Pending
  <2> QED BY <1>1, <2>1, <2>3, NullFrame
<1> QED BY <1>2, <1>3, <1>4, <1>5 DEF FireD

\* Every step keeps pending blocks without holders.
LEMMA NullStep ==
  /\ TypeOK /\ IdInv /\ MapInv /\ CopyInv /\ StatusInv /\ ReleaseInv /\ BoardInv /\ NullInv
  /\ [Next]_vars
  => NullInv'
<1> SUFFICES ASSUME TypeOK, IdInv, MapInv, CopyInv, StatusInv, ReleaseInv, BoardInv, NullInv,
                    [Next]_vars
             PROVE  NullInv'
  OBVIOUS
<1>1. ASSUME UNCHANGED <<board, dir, pendingD, probing, relAcks>>
      PROVE  NullInv'
  BY <1>1, NullFrame DEF Pending
<1>2. ASSUME NEW a \in Addr, WriteBack(a)
      PROVE  NullInv'
  BY <1>1, <1>2 DEF WriteBack, boardVars, pendVars, dutVars
<1>3. ASSUME NEW c \in Core, FireA(c) \/ FireE(c)
      PROVE  NullInv'
  BY <1>1, <1>3 DEF FireA, FireE, boardVars
<1>4. ASSUME NEW c \in Core, FireC(c)
      PROVE  NullInv'
  <2>1. StatusInvBy(c)
    BY <1>4 DEF FireC, At, Reach, StatusInv
  <2> QED BY <1>4, <2>1, NullFireC
<1>5. ASSUME NEW c \in Core, Fuzz(c) \/ Update(c)
      PROVE  NullInv'
  BY <1>1, <1>5 DEF Fuzz, Update, boardVars, dutVars
<1>6. CASE UNCHANGED vars
  BY <1>1, <1>6 DEF vars, boardVars, pendVars, dutVars
<1> QED BY <1>2, <1>3, <1>4, <1>5, <1>6, NullFireB, NullFireD DEF Next

\* A device that probes agents without the block finds either one agent, whose own
\* ReleaseAcks hold the answer back, or no block that a CBO alone keeps valid.
DataProbed == Unfiltered => NCore = 1 \/ Ops \cap CBOOp = {}

\* The assertions that a device trips by keeping C or E waiting.
Expected ==
  (IF CStall THEN {"send_c status"} ELSE {}) \cup (IF EStall THEN {"E is pending"} ELSE {})

AssertInv == Overtake = {} /\ ~CleanToT /\ DataProbed => failed \subseteq Expected

\* fire_a finds the status its send_a left, and a CMO that has not been fired.
LEMMA FireAPasses ==
  ASSUME TypeOK, IdInv, CMOInv, NEW c \in Core, FireA(c), StatusInvBy(c)
  PROVE  failed' = {}
<1>1. PICK r \in pendingA[c] : FireA(c)!2!(r)
  BY DEF FireA
<1>2. ~Unpresented(c)
  BY Fired DEF FireA
<1>3. TellsA(c, r) /\ r \in ReqA
  BY DEF StatusInvBy, TypeOK, TypePending
<1>4. CASE r.op \in CBOOp
  <2>1. /\ cmo[c][r.addr].op # "none" /\ ~cmo[c][r.addr].fired
    BY <1>4 DEF CMOInv, CMOInvBy, CBOOp
  <2>2. \A x \in Alias : status[c][r.addr][x] \in CBOSending
    BY <1>2, <1>3, <1>4 DEF TellsA, CBOOp, AcquireOp
  <2> QED BY <1>1, <1>4, <2>1, <2>2 DEF Check
<1>5. CASE r.op \notin CBOOp
  <2>1. status[c][r.addr][r.alias] \in AcquireFirable
    BY <1>2, <1>3, <1>5 DEF TellsA
  <2> QED BY <1>1, <1>5, <2>1 DEF Check
<1> QED BY <1>4, <1>5

\* fire_c finds a status its send_c left.
LEMMA FireCPasses ==
  ASSUME TypeOK, NEW c \in Core, FireC(c), StatusInvBy(c)
  PROVE  failed' = {}
<1>1. PICK r \in pendingC[c] : FireCBeat(c, r) \/ FireRelease(c, r) \/ FireProbeAck(c, r)
  BY DEF FireC
<1>2. ~Unpresented(c) /\ TellsC(c, r) /\ failed = {}
  BY Fired DEF FireC, StatusInvBy, At, Reach
<1>3. CASE FireCBeat(c, r)
  BY <1>2, <1>3 DEF FireCBeat
<1>4. CASE FireRelease(c, r)
  BY <1>2, <1>4 DEF FireRelease, TellsC, ReleaseFirable, Check
<1>5. CASE FireProbeAck(c, r)
  <2>1. r.op \notin ReleaseOp
    BY <1>5 DEF FireProbeAck, ReleaseOp, ProbeAckOp
  <2>2. status[c][r.addr][r.alias] \in ProbeAckFirable
    BY <1>2, <2>1 DEF TellsC, OnC, SendingC, Nested, ProbeAckFirable
  <2> QED BY <1>5, <2>2 DEF FireProbeAck, Check
<1> QED BY <1>1, <1>3, <1>4, <1>5

\* A ReleaseAck finds a block that waits for it, and a stamp.
LEMMA ReleaseAckPasses ==
  ASSUME TypeOK, MapInv, "own" \notin Overtake, StampInv, NEW c \in Core, NEW k \in relAcks,
         FireReleaseAck(c, k), StatusInvBy(c)
  PROVE  failed' = {}
<1>1. PICK e \in idMap[c][k.source] :
        failed' = Check(status[c][e.addr][e.alias] \in AwaitingReleaseAck, "D status")
                  \cup LatencyCheck(c, e.addr)
  BY DEF FireReleaseAck
<1>2. k \in AcksOf(c) /\ k.addr \in Addr
  BY DEF FireReleaseAck, AcksOf, TypeOK, TypeDevice, ReleaseAck
<1>3. PICK x \in Alias : idMap[c][k.source] = {[addr |-> k.addr, alias |-> x]}
  BY <1>2 DEF MapInv, MapInvBy
<1>4. e.addr = k.addr /\ e.alias = x
  BY <1>3
<1>5. AckOwed(c, k.addr, x)
  BY <1>2, <1>3 DEF AckOwed
<1>6. status[c][k.addr][x] \in AwaitingReleaseAck
  BY <1>2, <1>5 DEF StatusInvBy, Tells, Messages
<1>7. k.addr \in stampC[c]
  BY <1>2 DEF StampInv, StampInvBy
<1>8. Check(status[c][e.addr][e.alias] \in AwaitingReleaseAck, "D status") = {}
  BY <1>4, <1>6 DEF Check
<1>9. LatencyCheck(c, e.addr) = {}
  BY <1>4, <1>7 DEF LatencyCheck, Check
<1> QED BY <1>1, <1>8, <1>9

\* No answer to a probe is nested in an Acquire of a block that is not probed.
LEMMA NoProbeNested ==
  ASSUME TypeOK, CopyInv, NEW c \in Core, StatusInvBy(c), NEW a \in Addr, NEW x \in Alias,
         <<c, a>> \notin probing
  PROVE  status[c][a][x] \notin Nested
<1> SUFFICES ASSUME status[c][a][x] \in Nested
             PROVE  FALSE
  OBVIOUS
<1>1. status[c][a][x] \in OnC /\ status[c][a][x] \notin SendingC \cup {"S_VALID"}
  BY DEF Nested, OnC, SendingC
<1>2. PICK r \in pendingC[c] : r.addr = a /\ r.alias = x
  BY <1>1 DEF StatusInvBy, Tells, Messages, Presents
<1>3. r.op \notin ReleaseOp
  BY <1>1, <1>2 DEF StatusInvBy, TellsC
<1>4. r.op \in ProbeAckOp
  BY <1>3 DEF TypeOK, TypePending, ReqC
<1>5. <<c, r.addr>> \in probing
  BY <1>4 DEF CopyInv, CopyInvBy
<1> QED BY <1>2, <1>5

\* An Acquire that is answered while its block is not probed waits for the answer.
LEMMA AcquireWaits ==
  ASSUME TypeOK, CopyInv, NEW c \in Core, StatusInvBy(c), NEW r \in ReqsOf(c),
         r.op \in AcquireOp, <<c, r.addr>> \notin probing
  PROVE  status[c][r.addr][r.alias] = "S_A_WAITING_D"
<1>1. r.addr \in Addr /\ r.alias \in Alias
  BY DEF ReqsOf, TypeOK, TypeDevice, ReqA
<1>2. AcquireOut(c, r.addr, r.alias)
  BY DEF AcquireOut
<1>3. status[c][r.addr][r.alias] \in AWaiting
  BY <1>1, <1>2 DEF StatusInvBy, Tells, Messages
<1>4. status[c][r.addr][r.alias] \notin Nested
  BY <1>1, NoProbeNested
<1> QED BY <1>3, <1>4 DEF AWaiting, Nested

\* The first beat of a GrantData finds its Acquire waiting.
LEMMA GrantBeatPasses ==
  ASSUME TypeOK, CopyInv, NEW c \in Core, NEW r \in ReqsOf(c), NEW perm, MayGrant(r, perm),
         FireGrantBeat(c, r, perm), StatusInvBy(c)
  PROVE  failed' = {}
<1>1. r.op \in AcquireOp /\ <<c, r.addr>> \notin probing
  BY DEF MayGrant, Quiet
<1>2. status[c][r.addr][r.alias] = "S_A_WAITING_D"
  BY <1>1, AcquireWaits
<1> QED BY <1>2 DEF FireGrantBeat, Check

\* A whole Grant finds its Acquire waiting, its stamp, its permission free, data that
\* the scoreboard accepts, and E empty unless the device keeps E waiting.
LEMMA GrantPasses ==
  ASSUME TypeOK, MapInv, CopyInv, "own" \notin Overtake, StampInv, OracleSound,
         NEW c \in Core, At(PosD(c)), WindowInvBy(c), NEW r \in ReqsOf(c), r.op \in AcquireOp,
         NEW perm, <<c, r.addr>> \notin probing, Fits(c, r.addr, r.alias, perm),
         FireGrant(c, r, perm), StatusInvBy(c)
  PROVE  failed' \subseteq Expected
<1>1. r.addr \in Addr /\ r.alias \in Alias
  BY DEF ReqsOf, TypeOK, TypeDevice, ReqA
<1>2. idMap[c][r.source] = {[addr |-> r.addr, alias |-> r.alias]}
  BY DEF MapInv, MapInvBy, Names
<1>3. PICK e \in idMap[c][r.source] :
        failed' = Check(status[c][e.addr][e.alias] \in {"S_A_WAITING_D", "S_A_WAITING_D_INTR"},
                      "D status")
        \cup Check(status[c][e.addr][e.alias] # "S_A_WAITING_D_INTR", "ridiculous probe")
        \cup Check(pendingE[c] = {}, "E is pending")
        \cup Check(r.op = "AcquireBlock" =>
                     line[e.addr] \in Accepted(board[e.addr], memAlt[e.addr], mem[e.addr]),
                   "data mismatch")
        \cup LatencyCheck(c, e.addr)
        \cup GrantEventCheck(c, e.addr, perm)
  BY DEF FireGrant
<1>11. e.addr = r.addr /\ e.alias = r.alias
  BY <1>2
<1>4. status[c][r.addr][r.alias] = "S_A_WAITING_D"
  BY AcquireWaits
<1>5. Check(pendingE[c] = {}, "E is pending") \subseteq Expected
  <2>1. EStall \/ pendingE[c] = {}
    <3>1. pos \in Int /\ pos < PosD(c) /\ PosD(c) \in Int /\ PosE(c) \in Int /\ PosE(c) < PosD(c)
      BY NCoreAssumption DEF At, Reach, TypeOK, Core, PosE, PosD
    <3>2. (~EStall /\ pendingE[c] # {}) => ~(pos < PosE(c) /\ PosE(c) < PosD(c))
      BY DEF At, Reach
    <3>3. EStall \/ pendingE[c] = {} \/ pos < PosE(c) \/ PosD(c) <= pos
      BY DEF WindowInvBy
    <3>4. ~(PosD(c) <= pos)
      BY <3>1
    <3> QED BY <3>1, <3>2, <3>3, <3>4
  <2> QED BY <2>1 DEF Check, Expected
<1>6. line[r.addr] \in Accepted(board[r.addr], memAlt[r.addr], mem[r.addr])
  BY <1>1 DEF OracleSound
<1>7. LatencyCheck(c, r.addr) = {}
  <2>1. r.addr \in stampA[c] \cup stampC[c]
    BY DEF StampInv, StampInvBy
  <2> QED BY <2>1 DEF LatencyCheck, Check
<1>8. GrantEventCheck(c, r.addr, perm) = {}
  <2>1. perm = "TIP" => \A d \in Core \ {c}, y \in Alias : dir[d][r.addr][y] = "INVALID"
    BY DEF Fits
  <2>2. perm = "TIP" => \A d \in Core \ {c} :
          r.addr \in known[d] => \A y \in Alias : privilege[d][r.addr][y] = "INVALID"
    BY <2>1 DEF CopyInv
  <2> QED BY <2>2 DEF GrantEventCheck, Check
<1>9. /\ Check(status[c][r.addr][r.alias] \in {"S_A_WAITING_D", "S_A_WAITING_D_INTR"},
               "D status") = {}
      /\ Check(status[c][r.addr][r.alias] # "S_A_WAITING_D_INTR", "ridiculous probe") = {}
      /\ Check(r.op = "AcquireBlock" =>
                 line[r.addr] \in Accepted(board[r.addr], memAlt[r.addr], mem[r.addr]),
               "data mismatch") = {}
  BY <1>4, <1>6 DEF Check
<1> QED BY <1>3, <1>11, <1>5, <1>7, <1>8, <1>9

\* A CBOAck finds the CMO in flight, its blocks waiting and given up as far as it asks,
\* and for a cbo.inval a scoreboard that lets it.
LEMMA CBOAckPasses ==
  ASSUME TypeOK, CMOInv, AltInv, CopyInv, "own" \notin Overtake, StampInv, cleaned = {},
         NEW c \in Core, NEW r \in ReqsOf(c), MayAckCBO(r), ~Pending(r.addr),
         FireCBOAck(c, r), StatusInvBy(c)
  PROVE  failed' = {}
<1>1. r.addr \in Addr /\ r.op \in CBOOp /\ r.core = c
  BY DEF MayAckCBO, ReqsOf, TypeOK, TypeDevice, ReqA
<1>2. cmo[c][r.addr].op = r.op /\ cmo[c][r.addr].fired = TRUE
  BY <1>1 DEF CMOInv, CMOInvBy
<1>3. failed' = Check(r.op # "none", "zero in-flight CMO")
                \cup CBOAckCheck(c, r.addr, r.op) \cup LatencyCheck(c, r.addr)
  BY <1>2 DEF FireCBOAck
<1>4. CBOOut(c, r.addr)
  BY <1>1 DEF CBOOut
<1>5. \A x \in Alias : status[c][r.addr][x] \in CBOAwaitingD
  BY <1>1, <1>4 DEF StatusInvBy, Tells, Messages
<1>6. ASSUME NEW x \in Alias
      PROVE  privilege[c][r.addr][x] = "INVALID"
             \/ (r.op = "CBOClean" /\ privilege[c][r.addr][x] = "BRANCH")
  <2> SUFFICES ASSUME dir[c][r.addr][x] # "INVALID"
               PROVE  r.op = "CBOClean" /\ dir[c][r.addr][x] = "BRANCH"
    BY DEF CopyInv
  <2> PICK h : h = <<c, x>>
    OBVIOUS
  <2>1. h \in Held(r.addr) /\ h[1] = c /\ h[2] = x
    BY DEF Held
  <2>2. \A k \in Held(r.addr) : r.op = "CBOClean" /\ dir[k[1]][r.addr][k[2]] = "BRANCH"
    BY DEF MayAckCBO
  <2> QED BY <2>1, <2>2
<1>7. r.op = "CBOInval" /\ ~memorySyncStrict => memAlt[r.addr] # 0
  <2> SUFFICES ASSUME r.op = "CBOInval", ~memorySyncStrict
               PROVE  memAlt[r.addr] # 0
    OBVIOUS
  <2>1. ReclaimMemoryAlt(memAlt[r.addr]) # NoAlt
    BY <1>1, <1>2, InvalLives
  <2> QED BY <2>1 DEF ReclaimMemoryAlt, NoAlt
<1>8. CBOAckCheck(c, r.addr, r.op) = {}
  <2>1. \A x \in Alias : privilege[c][r.addr][x] # "TIP"
    BY <1>6
  <2>2. r.op # "CBOClean" => \A x \in Alias : privilege[c][r.addr][x] = "INVALID"
    BY <1>6
  <2>3. r.op = "CBOInval" => IF memorySyncStrict THEN board[r.addr].status # "PENDING"
                             ELSE memAlt[r.addr] # 0
    BY <1>7 DEF Pending
  <2> QED BY <1>5, <2>1, <2>2, <2>3 DEF CBOAckCheck, Check
<1>9. LatencyCheck(c, r.addr) = {}
  <2>1. r.addr \in stampA[c] \cup stampC[c]
    BY DEF StampInv, StampInvBy
  <2> QED BY <2>1 DEF LatencyCheck, Check
<1> QED BY <1>1, <1>3, <1>8, <1>9 DEF Check, CBOOp

\* send_a finds the status of a request that is asked for, or the one it left.
LEMMA SendAPasses ==
  ASSUME TypeOK, NEW c \in Core, StatusInvBy(c)
  PROVE  SendACheck(c) = {}
<1> DEFINE part(r) == LET st == status[c][r.addr] IN
                      IF r.op \in CBOOp
                      THEN Check(\A x \in Alias : st[x] \in CBOSendable, "send_a status")
                      ELSE Check(st[r.alias] \in AcquireSendable, "send_a status")
<1>1. SendACheck(c) = UNION {part(r) : r \in pendingA[c]}
  BY DEF SendACheck
<1>2. ASSUME NEW r \in pendingA[c]
      PROVE  part(r) = {}
  <2>1. TellsA(c, r) /\ r \in ReqA /\ r.alias \in Alias
    BY DEF StatusInvBy, TypeOK, TypePending, ReqA
  <2>2. CASE r.op \in CBOOp
    <3>1. r.op \notin AcquireOp
      BY <2>2 DEF CBOOp, AcquireOp
    <3>2. \A x \in Alias : status[c][r.addr][x] \in CBOSendable
      BY <2>1, <3>1 DEF TellsA, AskedA, CBOSendable
    <3> QED BY <2>2, <3>2 DEF Check
  <2>3. CASE r.op \notin CBOOp
    <3>1. status[c][r.addr][r.alias] \in AcquireSendable
      BY <2>1, <2>3 DEF TellsA, AskedA, AcquireSendable, AcquireFirable
    <3> QED BY <2>3, <3>1 DEF Check
  <2> QED BY <2>2, <2>3
<1> HIDE DEF part
<1> QED BY <1>1, <1>2

\* What update_signal presents again on C: a Release, or a ProbeAck that the device
\* keeps waiting.
LEMMA SendCPasses ==
  ASSUME TypeOK, IdInv, NEW c \in Core, Update(c), StatusInvBy(c), WindowInvBy(c), NestInvBy(c),
         NEW st, st = Presented(c)
  PROVE  SendCCheck(c, st, pendingC[c]) \subseteq Expected
<1> DEFINE part(r) == Check(r.addr \in known[c], "send_c key")
                      \cup Check(r.op \in ProbeAckOp => st[r.addr][r.alias] \in ProbeAckSendable,
                                 "send_c status")
<1>1. SendCCheck(c, st, pendingC[c]) = UNION {part(r) : r \in pendingC[c]}
  BY DEF SendCCheck
<1>2. ASSUME NEW r \in pendingC[c]
      PROVE  part(r) \subseteq Expected
  <2>1. r \in ReqC /\ r.addr \in Addr /\ r.alias \in Alias
    BY ReqCFields DEF TypeOK, TypePending
  <2> PICK s, t : s = status[c][r.addr][r.alias] /\ t = st[r.addr][r.alias]
    OBVIOUS
  <2>2. r.addr \in known[c]
    <3>1. s # "S_INVALID"
      BY DEF StatusInvBy, TellsC, OnC, SendingC, Nested
    <3> QED BY <2>1, <3>1 DEF StatusInvBy, Tells
  <2>3. CASE r.op \in ReleaseOp
    <3>1. r.op \notin ProbeAckOp
      BY <2>3 DEF ProbeAckOp, ReleaseOp
    <3> QED BY <2>2, <3>1 DEF Check
  <2>4. CASE r.op = "ProbeAck"
    <3>1. CStall
      <4>1. /\ IF c = 0 THEN Reach(PosUpdate(0)) ELSE pos = PosUpdate(c - 1)
            /\ pos \in Int /\ PosC(c) \in Int /\ PosUpdate(c) \in Int
            /\ PosC(c) < PosUpdate(c)
        BY NCoreAssumption DEF Update, TypeOK, Core, PosC, PosUpdate
      <4>2. CStall \/ pos < PosC(c) \/ PosUpdate(c) <= pos
        BY <2>4 DEF WindowInvBy
      <4>3. CASE c = 0
        <5>1. /\ pos < PosUpdate(c)
              /\ (~CStall /\ pendingC[c] # {}) => ~(pos < PosC(c) /\ PosC(c) < PosUpdate(c))
          BY <4>1, <4>3 DEF Reach
        <5>2. ~(PosUpdate(c) <= pos)
          BY <4>1, <5>1
        <5> QED BY <4>1, <4>2, <5>1, <5>2
      <4>4. CASE c # 0
        <5>1. PosC(c) <= pos /\ pos < PosUpdate(c)
          BY <4>1, <4>4, NCoreAssumption DEF Core, PosC, PosUpdate
        <5>2. ~(PosUpdate(c) <= pos) /\ ~(pos < PosC(c))
          BY <4>1, <5>1
        <5> QED BY <4>2, <5>2
      <4> QED BY <4>3, <4>4
    <3> QED BY <2>2, <3>1 DEF Check, Expected
  <2>5. CASE r.op = "ProbeAckData"
    <3>1. r.op \notin ReleaseOp /\ r.op # "ProbeAck"
      BY <2>5 DEF ReleaseOp
    <3>2. s \notin Nested /\ s \in OnC
      BY <3>1 DEF NestInvBy, StatusInvBy, TellsC
    <3>3. t \notin Nested
      <4>1. CASE t = s \/ t = AfterSendCBO(s)
        BY <3>2, <4>1, NestOps
      <4>2. ASSUME NEW q \in pendingA[c], q.op \in AcquireOp, q.addr = r.addr, q.alias = r.alias
            PROVE  FALSE
        <5>1. TellsA(c, q) /\ Presents(pendingC[c], r.addr, r.alias)
          BY DEF StatusInvBy, Presents
        <5>2. q.op \notin CBOOp
          BY <4>2 DEF AcquireOp, CBOOp
        <5>3. s \in AcquireFirable
          BY <2>1, <4>2, <5>1, <5>2 DEF TellsA, AskedA
        <5> QED BY <3>2, <5>3, NestOps
      <4> QED BY <2>1, <4>1, <4>2, PresentedAt
    <3>4. t \in OnC
      BY <3>1, StatusSendA
    <3>5. t \in ProbeAckSendable
      BY <3>3, <3>4 DEF OnC, ProbeAckSendable
    <3> QED BY <2>2, <3>5 DEF Check
  <2> QED BY <2>1, <2>3, <2>4, <2>5 DEF ReqC, ReleaseOp, ProbeAckOp
<1> HIDE DEF part
<1> QED BY <1>1, <1>2

\* What handle_b meets in a block it answers for: no report on C, no ReleaseAck to come,
\* no GrantAck to come, and no TIP under an Acquire.
LEMMA ProbedStatus ==
  ASSUME TypeOK, IdInv, CopyInv, NEW c \in Core, StatusInvBy(c), PermInvBy(c),
         NEW st, st = Presented(c), NEW b \in pendingB[c], AnswersProbe(c, b, st)
  PROVE  LET s == st[b.addr][b.alias] IN
         /\ s \in Idle \cup {"S_SENDING_A", "S_A_WAITING_D", "S_CBO_SENDING_A",
                             "S_CBO_A_WAITING_D"}
         /\ PermFits(s, privilege[c][b.addr][b.alias])
<1>1. b.addr \in Addr /\ b.alias \in Alias
  BY DEF TypeOK, TypePending, ReqB
<1> PICK s : s = st[b.addr][b.alias]
  OBVIOUS
<1>2. Messages(c, s, b.addr, b.alias)
  BY <1>1, StatusSendA
<1>3. s \in Status
  BY <1>1, PresentedType
<1>4. s \notin OnC
  BY <1>2 DEF Messages, Presents, AnswersProbe
<1>5. s \notin AwaitingReleaseAck
  BY <1>1 DEF AnswersProbe
<1>6. s # "S_SENDING_E"
  <2> SUFFICES ASSUME s = "S_SENDING_E"
               PROVE  FALSE
    OBVIOUS
  <2>1. PICK e \in pendingE[c] : e.addr = b.addr
    BY <1>2 DEF Messages, Presents
  <2>2. <<c, b.addr>> \in granting
    BY <2>1 DEF CopyInv, CopyInvBy
  <2>3. <<c, b.addr>> \in probing
    BY DEF CopyInv, CopyInvBy
  <2> QED BY <1>1, <2>2, <2>3 DEF CopyInv, OneAtATime
<1>7. PermFits(s, privilege[c][b.addr][b.alias])
  <2> PICK perm : perm = privilege[c][b.addr][b.alias]
    OBVIOUS
  <2> PICK t : t = status[c][b.addr][b.alias]
    OBVIOUS
  <2>1. PermFits(t, perm)
    BY <1>1 DEF PermInvBy
  <2>2. CASE s = t \/ s = AfterSendCBO(t)
    BY <2>1, <2>2, PermOps
  <2>3. ASSUME NEW r \in pendingA[c], r.op \in AcquireOp, r.addr = b.addr, r.alias = b.alias,
               s = AfterSendAcquire(t)
        PROVE  PermFits(s, perm)
    BY <2>1, <2>3, PermOps DEF PermInvBy
  <2> QED BY <1>1, <2>2, <2>3, PresentedAt
<1>8. Status \ (OnC \cup AwaitingReleaseAck \cup {"S_SENDING_E"})
        = Idle \cup {"S_SENDING_A", "S_A_WAITING_D", "S_CBO_SENDING_A", "S_CBO_A_WAITING_D"}
  BY DEF Status, OnC, SendingC, Nested, AwaitingReleaseAck, Idle
<1> QED BY <1>3, <1>4, <1>5, <1>6, <1>7, <1>8

\* handle_b is without an answer only if the board has an entry without data.
LEMMA AnswerFound ==
  ASSUME TypeOK, NEW c \in Core, NEW b \in ReqB, NEW st, ProbeAnswers(c, b, st) = {}
  PROVE  /\ HasKey(board[b.addr]) /\ board[b.addr].data = {}
         /\ st[b.addr][b.alias] \notin {"S_SENDING_A", "S_A_WAITING_D", "S_INVALID"}
<1> DEFINE perm == privilege[c][b.addr][b.alias]
           answer(op, param, d) ==
      [op |-> op, addr |-> b.addr, alias |-> b.alias, param |-> param, data |-> d,
       beats |-> IF op = "ProbeAckData" THEN 2 ELSE 1, source |-> {}]
           par == ProbeAckParam(b.param, perm)
<1>1. ProbeAnswers(c, b, st) =
        CASE st[b.addr][b.alias] \in {"S_SENDING_A", "S_A_WAITING_D"}
               -> {answer("ProbeAck", ProbeAckParam("toN", perm), Zero)}
          [] st[b.addr][b.alias] = "S_INVALID" -> {answer("ProbeAck", "NtoN", Zero)}
          [] OTHER -> UNION {{answer(op, par, d) : d \in ProbedData(op, par, board[b.addr])}
                             : op \in ProbedOp(c, b)}
  BY DEF ProbeAnswers
<1> HIDE DEF answer, perm, par
<1>2. st[b.addr][b.alias] \notin {"S_SENDING_A", "S_A_WAITING_D"}
  BY <1>1
<1>3. st[b.addr][b.alias] # "S_INVALID"
  BY <1>1, <1>2
<1>4. UNION {{answer(op, par, d) : d \in ProbedData(op, par, board[b.addr])}
             : op \in ProbedOp(c, b)} = {}
  BY <1>1, <1>2, <1>3
<1>5. PICK op : op \in ProbedOp(c, b)
  BY DEF ProbedOp
<1> DEFINE sent(o) == {answer(o, par, d) : d \in ProbedData(o, par, board[b.addr])}
<1>6. ProbedData(op, par, board[b.addr]) = {}
  <2> SUFFICES ASSUME NEW d \in ProbedData(op, par, board[b.addr])
               PROVE  FALSE
    OBVIOUS
  <2>1. answer(op, par, d) \in sent(op)
    OBVIOUS
  <2>2. UNION {sent(o) : o \in ProbedOp(c, b)} = {}
    BY <1>4
  <2> HIDE DEF sent
  <2> QED BY <1>5, <2>1, <2>2
<1>7. Data # {}
  BY DataAssumption
<1> QED BY <1>2, <1>3, <1>6, <1>7 DEF ProbedData

\* An agent with a ReleaseAck of the block to come does not answer a probe of it.
LEMMA NoAckOwed ==
  ASSUME TypeOK, IdInv, MapInv, NEW c \in Core, StatusInvBy(c),
         NEW b \in pendingB[c], AnswersProbe(c, b, Presented(c)), NEW k \in AcksOf(c)
  PROVE  k.addr # b.addr
<1> SUFFICES ASSUME k.addr = b.addr
             PROVE  FALSE
  OBVIOUS
<1>1. b.addr \in Addr
  BY DEF TypeOK, TypePending, ReqB
<1>2. PICK x \in Alias : idMap[c][k.source] = {[addr |-> k.addr, alias |-> x]}
  BY DEF MapInv, MapInvBy
<1>3. AckOwed(c, b.addr, x)
  BY <1>2 DEF AckOwed
<1> PICK st : st = Presented(c)
  OBVIOUS
<1>4. Messages(c, st[b.addr][x], b.addr, x)
  BY <1>1, StatusSendA
<1>5. st[b.addr][x] \in AwaitingReleaseAck
  BY <1>3, <1>4 DEF Messages
<1> QED BY <1>5 DEF AnswersProbe

\* handle_b finds data for its answer: the only blocks without are those with a first
\* release to be acknowledged, the prober's own.
LEMMA ProbeFound ==
  ASSUME TypeOK, IdInv, MapInv, CopyInv, Overtake = {}, DataProbed, OpsInv, BoardInv, NullInv,
         NEW c \in Core, StatusInvBy(c), PermInvBy(c), NEW st, st = Presented(c),
         NEW b \in pendingB[c], AnswersProbe(c, b, st)
  PROVE  ProbeAnswers(c, b, st) # {}
<1> SUFFICES ASSUME ProbeAnswers(c, b, st) = {}
             PROVE  FALSE
  OBVIOUS
<1>1. b \in ReqB /\ b.addr \in Addr /\ b.alias \in Alias
  BY DEF TypeOK, TypePending, ReqB
<1> PICK s : s = st[b.addr][b.alias]
  OBVIOUS
<1>2. /\ HasKey(board[b.addr]) /\ board[b.addr].data = {}
      /\ s \notin {"S_SENDING_A", "S_A_WAITING_D", "S_INVALID"}
  BY <1>1, AnswerFound
<1>3. Pending(b.addr)
  <2>1. BoardInvAt(b.addr)
    BY <1>1 DEF BoardInv, InvalsWait
  <2>2. board[b.addr].status \in {"NONE", "VALID", "PENDING"}
    BY <1>1 DEF TypeOK, TypeShared, Entry
  <2> QED BY <1>2, <2>1, <2>2 DEF BoardInvAt, OneValue, HasKey, Pending
<1>4. /\ s \in Idle \cup {"S_SENDING_A", "S_A_WAITING_D", "S_CBO_SENDING_A",
                          "S_CBO_A_WAITING_D"}
      /\ PermFits(s, privilege[c][b.addr][b.alias])
  BY ProbedStatus
<1>5. privilege[c][b.addr][b.alias] = "INVALID"
  BY <1>1, <1>3 DEF NullInv, CopyInv
<1>6. s \in CBOSending \cup CBOAwaitingD
  BY <1>2, <1>4, <1>5 DEF PermFits, Idle, CBOSending, CBOAwaitingD
<1>7. \A k \in AcksOf(c) : k.addr # b.addr
  BY NoAckOwed
<1>8. Unfiltered
  <2>1. <<c, b.addr>> \in probing
    BY DEF CopyInv, CopyInvBy
  <2> QED BY <1>1, <1>3, <1>7, <2>1, ConfigAssumption DEF NullInv
<1>9. CASE NCore = 1
  <2>1. PICK k \in relAcks : k.addr = b.addr
    BY <1>1, <1>3 DEF BoardInv, InvalsWait, BoardInvAt, Pending
  <2>2. k.core = c
    <3>1. k.core \in 0 .. 0 /\ c \in 0 .. 0
      BY <1>9 DEF TypeOK, TypeDevice, ReleaseAck, Core
    <3> QED BY <3>1
  <2> QED BY <1>7, <2>1, <2>2 DEF AcksOf
<1>10. CASE Ops \cap CBOOp = {}
  <2>1. Messages(c, s, b.addr, b.alias)
    BY <1>1, StatusSendA
  <2>2. CBOOn(c, b.addr) \/ CBOOut(c, b.addr)
    BY <1>6, <2>1 DEF Messages
  <2> QED BY <1>10, <2>2 DEF CBOOn, CBOOut, OpsInv, ReqsOf
<1> QED BY <1>8, <1>9, <1>10 DEF DataProbed

\* update_signal.
LEMMA UpdatePasses ==
  ASSUME TypeOK, IdInv, MapInv, CopyInv, Overtake = {}, DataProbed, OpsInv, BoardInv, NullInv,
         NEW c \in Core, StatusInvBy(c), PermInvBy(c), WindowInvBy(c), NestInvBy(c), Update(c)
  PROVE  failed' \subseteq Expected
<1> PICK st : st = Presented(c)
  OBVIOUS
<1>1. SendACheck(c) = {}
  BY SendAPasses
<1>2. CASE NoHandleB(c, st)
  <2>1. SendCCheck(c, st, pendingC[c]) \subseteq Expected
    BY SendCPasses
  <2> QED BY <1>1, <1>2, <2>1 DEF NoHandleB
<1>3. ASSUME NEW b \in pendingB[c], HandleB(c, b, st)
      PROVE  failed' = {}
  <2>1. AnswersProbe(c, b, st) /\ b \in ReqB
    <3>1. b \in ReqB
      BY DEF TypeOK, TypePending
    <3> QED BY <1>3, <3>1 DEF HandleB
  <2> PICK s : s = st[b.addr][b.alias]
    OBVIOUS
  <2>2. /\ s \in Idle \cup {"S_SENDING_A", "S_A_WAITING_D", "S_CBO_SENDING_A",
                            "S_CBO_A_WAITING_D"}
        /\ PermFits(s, privilege[c][b.addr][b.alias])
    BY <2>1, ProbedStatus
  <2>3. b.addr \in known[c]
    BY DEF WindowInvBy
  <2>4. ProbeAnswers(c, b, st) # {}
    BY <2>1, ProbeFound
  <2>5. PICK r \in ProbeAnswers(c, b, st) :
          failed' = SendACheck(c) \cup HandleBCheck(c, b, st) \cup SendCCheck(c, st, {r})
    BY <1>3, <2>4 DEF HandleB
  <2>6. HandleBCheck(c, b, st) = {}
    <3>1. s \notin SendingC
      BY <2>2 DEF SendingC, Idle
    <3>2. s \in {"S_SENDING_A", "S_A_WAITING_D"} => privilege[c][b.addr][b.alias] # "TIP"
      BY <2>2 DEF PermFits, AcquireFirable, AWaiting
    <3> QED BY <2>3, <3>1, <3>2 DEF HandleBCheck, Check
  <2>7. SendCCheck(c, st, {r}) = {}
    <3>1. r.addr = b.addr /\ r.alias = b.alias
      BY <2>1, AnswerSays
    <3>2. s \in ProbeAckSendable
      BY <2>2 DEF ProbeAckSendable, Idle
    <3>3. Check(r.addr \in known[c], "send_c key") = {}
      BY <2>3, <3>1 DEF Check
    <3>4. Check(r.op \in ProbeAckOp => st[r.addr][r.alias] \in ProbeAckSendable,
                "send_c status") = {}
      BY <3>1, <3>2 DEF Check
    <3> DEFINE part(q) == Check(q.addr \in known[c], "send_c key")
          \cup Check(q.op \in ProbeAckOp => st[q.addr][q.alias] \in ProbeAckSendable,
                     "send_c status")
    <3>5. SendCCheck(c, st, {r}) = UNION {part(q) : q \in {r}}
      BY DEF SendCCheck
    <3>6. part(r) = {}
      BY <3>3, <3>4
    <3> HIDE DEF part
    <3> QED BY <3>5, <3>6
  <2> QED BY <1>1, <2>5, <2>6, <2>7
<1> QED BY <1>2, <1>3 DEF Update

\* fire_d.
LEMMA FireDPasses ==
  ASSUME TypeOK, IdInv, MapInv, CMOInv, AltInv, CopyInv, Overtake = {}, StampInv,
         cleaned = {}, BoardInv, NEW c \in Core, FireD(c), WindowInvBy(c), StatusInvBy(c)
  PROVE  failed' \subseteq Expected
<1>1. At(PosD(c)) /\ "own" \notin Overtake /\ InvalsWait
  BY DEF FireD, InvalsWait
<1>2. OracleSound
  <2> SUFFICES ASSUME NEW a \in Addr
               PROVE  line[a] \in Accepted(board[a], memAlt[a], mem[a])
    BY DEF OracleSound
  <2>1. board[a].status \in {"NONE", "VALID", "PENDING"}
    BY DEF TypeOK, TypeShared, Entry
  <2>2. BoardInvAt(a)
    BY <1>1 DEF BoardInv
  <2> QED BY <2>1, <2>2 DEF BoardInvAt, Accepted
<1>3. ASSUME NEW k \in relAcks, FireReleaseAck(c, k)
      PROVE  failed' = {}
  BY <1>1, <1>3, ReleaseAckPasses
<1>4. ASSUME NEW r \in reqs, NEW perm, r.core = c, MayGrant(r, perm),
             FireGrantBeat(c, r, perm)
      PROVE  failed' = {}
  BY <1>4, GrantBeatPasses DEF ReqsOf
<1>5. ASSUME NEW r \in reqs, NEW perm, r.core = c, MayGrant(r, perm), FireGrant(c, r, perm)
      PROVE  failed' \subseteq Expected
  <2>1. r \in ReqA /\ r \in ReqsOf(c) /\ r.op \in AcquireOp
    BY <1>5 DEF TypeOK, TypeDevice, ReqsOf, MayGrant
  <2>2. Fits(c, r.addr, r.alias, perm) /\ <<c, r.addr>> \notin probing
    BY <1>5, <2>1, MayGrantFits DEF Quiet
  <2> QED BY <1>1, <1>2, <1>5, <2>1, <2>2, GrantPasses
<1>6. ASSUME NEW p \in pendingD[c], FireGrant(c, p.req, p.perm)
      PROVE  failed' \subseteq Expected
  <2>1. p.req \in ReqsOf(c) /\ p.req.op \in AcquireOp
    BY DEF IdInv, IdInvBy, GrantOwed, AcquireOp
  <2>2. Fits(c, p.req.addr, p.req.alias, p.perm) /\ <<c, p.req.addr>> \in granting
    BY DEF CopyInv, CopyInvBy
  <2>3. p.req.addr \in Addr
    BY <2>1 DEF ReqsOf, TypeOK, TypeDevice, ReqA
  <2>4. <<c, p.req.addr>> \notin probing
    BY <2>2, <2>3 DEF CopyInv, OneAtATime
  <2> QED BY <1>1, <1>2, <1>6, <2>1, <2>2, <2>4, GrantPasses
<1>7. ASSUME NEW r \in reqs, r.core = c, MayAckCBO(r), FireCBOAck(c, r)
      PROVE  failed' = {}
  <2>1. ~Pending(r.addr)
    BY <1>7, NotPending DEF MayAckCBO
  <2>2. r \in ReqsOf(c)
    BY <1>7 DEF ReqsOf
  <2> QED BY <1>1, <1>7, <2>1, <2>2, CBOAckPasses
<1> QED BY <1>3, <1>4, <1>5, <1>6, <1>7 DEF FireD

\* No assertion has failed at first.
LEMMA AssertInit == Init => AssertInv
  BY DEF Init, AssertInv

\* No handler of the agents, and no update_signal, fails an assertion that the device does
\* not bring about by keeping C or E waiting.
LEMMA AssertStep ==
  /\ TypeOK /\ IdInv /\ MapInv /\ CMOInv /\ AltInv /\ CopyInv /\ StatusInv /\ StampInv
  /\ PermInv /\ WindowInv /\ NestInv /\ NullInv /\ OpsInv /\ BoardInv /\ AssertInv
  /\ [Next]_vars
  => AssertInv'
<1> SUFFICES ASSUME TypeOK, IdInv, MapInv, CMOInv, AltInv, CopyInv, StatusInv, StampInv,
                    PermInv, WindowInv, NestInv, NullInv, OpsInv, BoardInv, AssertInv,
                    [Next]_vars, Overtake = {}, ~CleanToT, DataProbed
             PROVE  failed' \subseteq Expected
  BY DEF AssertInv
<1>1. ASSUME UNCHANGED failed
      PROVE  failed' \subseteq Expected
  BY <1>1 DEF AssertInv
<1>2. ASSUME NEW a \in Addr, WriteBack(a)
      PROVE  UNCHANGED failed
  BY <1>2 DEF WriteBack
<1>3. ASSUME NEW c \in Core, FireB(c) \/ FireE(c) \/ Fuzz(c)
      PROVE  UNCHANGED failed
  BY <1>3 DEF FireB, FireE, Fuzz
<1>4. ASSUME UNCHANGED vars
      PROVE  UNCHANGED failed
  BY <1>4 DEF vars
<1>5. ASSUME NEW c \in Core, FireA(c) \/ FireC(c) \/ FireD(c) \/ Update(c)
      PROVE  failed' \subseteq Expected
  <2>1. failed = {}
    BY <1>5 DEF FireA, FireC, FireD, Update, At, Reach
  <2>2. StatusInvBy(c) /\ PermInvBy(c) /\ WindowInvBy(c) /\ NestInvBy(c) /\ cleaned = {}
    BY <2>1 DEF StatusInv, PermInv, WindowInv, NestInv
  <2>3. CASE FireA(c)
    BY <2>2, <2>3, FireAPasses
  <2>4. CASE FireC(c)
    BY <2>2, <2>4, FireCPasses
  <2>5. CASE FireD(c)
    BY <2>2, <2>5, FireDPasses
  <2>6. CASE Update(c)
    BY <2>2, <2>6, UpdatePasses
  <2> QED BY <1>5, <2>3, <2>4, <2>5, <2>6
<1> QED BY <1>1, <1>2, <1>3, <1>4, <1>5 DEF Next

\* The invariants of the agents hold together.
LEMMA AssertHolds == Spec => []AssertInv
<1>1. Init => WindowInv /\ NestInv /\ NullInv /\ AssertInv
  BY WindowInit, NestInit, NullInit, AssertInit
<1>2. /\ TypeOK /\ IdInv /\ MapInv /\ CMOInv /\ AltInv /\ CopyInv /\ StatusInv /\ ReleaseInv
      /\ StampInv /\ PermInv /\ OpsInv /\ BoardInv
      /\ WindowInv /\ NestInv /\ NullInv /\ AssertInv
      /\ [Next]_vars
      => (WindowInv /\ NestInv /\ NullInv /\ AssertInv)'
  BY WindowStep, NestStep, NullStep, AssertStep
<1> QED BY <1>1, <1>2, PermHolds, BoardHolds, PTL DEF Spec

\* With a device that answers nothing of a block before the block's ReleaseAcks, that
\* leaves nothing TIP that it cleans, and that probes holders only (or drives one agent,
\* or agents without CMOs), the tlc_asserts of the agents fail for two reasons at most: C
\* was kept waiting while a ProbeAck was on it, or E while a Grant came.
THEOREM OnlyStalls ==
  ASSUME Overtake = {}, ~CleanToT, DataProbed
  PROVE  Spec => []OnlyStallsFail
<1>1. AssertInv => OnlyStallsFail
  BY DEF AssertInv, Expected, OnlyStallsFail
<1> QED BY <1>1, AssertHolds, PTL

\* If the device keeps neither C nor E waiting, no tlc_assert of the agents fails at all,
\* however many agents, blocks, aliases and ids there are and whatever the fuzzers do.
THEOREM AssertionsHold ==
  ASSUME Overtake = {}, ~CleanToT, DataProbed, ~CStall, ~EStall
  PROVE  Spec => []NoAssertion
<1>1. AssertInv => NoAssertion
  BY DEF AssertInv, Expected, NoAssertion
<1> QED BY <1>1, AssertHolds, PTL

-----------------------------------------------------------------------------
(* A coherent memory *)

\* A cbo.inval resynchronises the board, or there is none: what the board knows is
\* never older than the block.
BoardFollows == memorySyncStrict \/ "CBOInval" \notin Ops

\* Then no memory alternative is ever alive.
NoAltInv == BoardFollows => \A a \in Addr : memAlt[a] = NoAlt

\* Nobody but c may write the block.
OnlyHere(c, a) == \A d \in Core \ {c}, x \in Alias : dir[d][a][x] # "TIP"

\* A probe that asks for data keeps the block from other writers until it is answered,
\* and what answers it is the block's value even if the agent has given the block up
\* in the meantime.
CarryInvBy(c) ==
  /\ \A b \in pendingB[c] : b.needdata =>
       /\ OnlyHere(c, b.addr)
       /\ Pending(b.addr) => \E k \in AcksOf(c) : k.addr = b.addr
  /\ \A r \in pendingC[c] : r.op = "ProbeAckData" =>
       \/ dir[c][r.addr][r.alias] = "TIP"
       \/ OnlyHere(c, r.addr) /\ r.data = line[r.addr]

CarryInv == Overtake = {} /\ BoardFollows => \A c \in Core : CarryInvBy(c)

\* No alternative is alive at first.
LEMMA NoAltInit == Init => NoAltInv
  BY DEF Init, NoAltInv

\* fire_a makes one for a cbo.inval only.
LEMMA NoAltFireA ==
  ASSUME OpsInv, BoardFollows, NEW c \in Core, FireA(c)
  PROVE  memAlt' = memAlt
<1>1. PICK r \in pendingA[c] :
        memAlt' = IF r.op = "CBOInval" /\ ~memorySyncStrict
             THEN [memAlt EXCEPT ![r.addr] = GrantMemoryAlt(memAlt[r.addr])]
             ELSE memAlt
  BY DEF FireA
<1> QED BY <1>1 DEF OpsInv, BoardFollows

\* fire_c touches one.
LEMMA NoAltFireC ==
  ASSUME NEW c \in Core, FireC(c)
  PROVE  \/ memAlt' = memAlt
         \/ \E a : memAlt' = [memAlt EXCEPT ![a] = TouchMemoryAlt(memAlt[a])]
<1>1. PICK r \in pendingC[c] : FireCBeat(c, r) \/ FireRelease(c, r) \/ FireProbeAck(c, r)
  BY DEF FireC
<1>2. CASE FireCBeat(c, r)
  BY <1>2 DEF FireCBeat, boardVars
<1>3. CASE FireRelease(c, r)
  <2>1. CASE r.op = "ReleaseData"
    BY <1>3, <2>1 DEF FireRelease
  <2>2. CASE r.op # "ReleaseData"
    BY <1>3, <2>2 DEF FireRelease, boardVars
  <2> QED BY <2>1, <2>2
<1>4. CASE FireProbeAck(c, r)
  <2>1. CASE r.op = "ProbeAckData"
    BY <1>4, <2>1 DEF FireProbeAck
  <2>2. CASE r.op # "ProbeAckData"
    BY <1>4, <2>2 DEF FireProbeAck, boardVars
  <2> QED BY <2>1, <2>2
<1> QED BY <1>1, <1>2, <1>3, <1>4

\* fire_d touches or reclaims one.
LEMMA NoAltFireD ==
  ASSUME NEW c \in Core, FireD(c)
  PROVE  \/ memAlt' = memAlt
         \/ \E a : memAlt' = [memAlt EXCEPT ![a] = TouchMemoryAlt(memAlt[a])]
         \/ \E a : memAlt' = [memAlt EXCEPT ![a] = ReclaimMemoryAlt(memAlt[a])]
<1>1. ASSUME NEW k \in relAcks, FireReleaseAck(c, k)
      PROVE  \/ memAlt' = memAlt
             \/ \E a : memAlt' = [memAlt EXCEPT ![a] = TouchMemoryAlt(memAlt[a])]
  <2>1. PICK e \in idMap[c][k.source] :
          memAlt' = IF board[e.addr].pending = {} THEN memAlt
                    ELSE [memAlt EXCEPT ![e.addr] = TouchMemoryAlt(memAlt[e.addr])]
    BY <1>1 DEF FireReleaseAck
  <2> QED BY <2>1
<1>2. ASSUME NEW r, NEW perm, FireGrantBeat(c, r, perm) \/ FireGrant(c, r, perm)
      PROVE  memAlt' = memAlt
  <2>1. UNCHANGED boardVars
    BY <1>2 DEF FireGrantBeat, FireGrant
  <2> QED BY <2>1 DEF boardVars
<1>3. ASSUME NEW r, FireCBOAck(c, r)
      PROVE  \/ memAlt' = memAlt
             \/ \E a : memAlt' = [memAlt EXCEPT ![a] = ReclaimMemoryAlt(memAlt[a])]
  <2>1. memAlt' = IF cmo[c][r.addr].op = "CBOInval" /\ ~memorySyncStrict
          THEN [memAlt EXCEPT ![r.addr] = ReclaimMemoryAlt(memAlt[r.addr])] ELSE memAlt
    BY <1>3 DEF FireCBOAck
  <2> QED BY <2>1
<1> QED BY <1>1, <1>2, <1>3 DEF FireD

\* Without a cbo.inval to grant one, none is made.
LEMMA NoAltStep == TypeOK /\ OpsInv /\ NoAltInv /\ [Next]_vars => NoAltInv'
<1> SUFFICES ASSUME TypeOK, OpsInv, NoAltInv, [Next]_vars, BoardFollows
             PROVE  \A a \in Addr : memAlt'[a] = NoAlt
  BY DEF NoAltInv, BoardFollows
<1>1. \A a \in Addr : memAlt[a] = NoAlt
  BY DEF NoAltInv
<1>2. memAlt \in [Addr -> MemoryAlt]
  BY DEF TypeOK, TypeShared
<1>3. TouchMemoryAlt(NoAlt) = NoAlt /\ ReclaimMemoryAlt(NoAlt) = NoAlt
  BY DEF TouchMemoryAlt, ReclaimMemoryAlt, NoAlt
<1>4. CASE memAlt' = memAlt
  BY <1>1, <1>4
<1>5. ASSUME NEW a, memAlt' = [memAlt EXCEPT ![a] = TouchMemoryAlt(memAlt[a])]
                    \/ memAlt' = [memAlt EXCEPT ![a] = ReclaimMemoryAlt(memAlt[a])]
      PROVE  \A b \in Addr : memAlt'[b] = NoAlt
  BY <1>1, <1>2, <1>3, <1>5
<1>6. ASSUME NEW c \in Core, FireA(c) \/ FireC(c) \/ FireD(c)
      PROVE  \A b \in Addr : memAlt'[b] = NoAlt
  BY <1>4, <1>5, <1>6, NoAltFireA, NoAltFireC, NoAltFireD
<1>7. ASSUME \/ \E c \in Core : FireB(c) \/ FireE(c) \/ Fuzz(c) \/ Update(c)
             \/ \E a \in Addr : WriteBack(a)
             \/ UNCHANGED vars
      PROVE  memAlt' = memAlt
  BY <1>7 DEF FireB, FireE, Fuzz, Update, WriteBack, vars, boardVars
<1> QED BY <1>4, <1>6, <1>7 DEF Next

\* A ProbeAckData for less than a TIP answers a probe that asks for data, with what
\* the board has.
LEMMA AnswerCarries ==
  ASSUME TypeOK, NEW c \in Core, NEW b \in ReqB, NEW st, NEW r \in ProbeAnswers(c, b, st),
         r.op = "ProbeAckData", privilege[c][b.addr][b.alias] # "TIP"
  PROVE  /\ b.needdata
         /\ r.data \in (IF HasKey(board[b.addr]) THEN board[b.addr].data ELSE {Zero})
<1> DEFINE answer(op, param, d) ==
      [op |-> op, addr |-> b.addr, alias |-> b.alias, param |-> param, data |-> d,
       beats |-> IF op = "ProbeAckData" THEN 2 ELSE 1, source |-> {}]
<1> PICK perm : perm = privilege[c][b.addr][b.alias]
  OBVIOUS
<1> PICK s : s = st[b.addr][b.alias]
  OBVIOUS
<1> PICK par : par = ProbeAckParam(b.param, perm)
  OBVIOUS
<1>1. perm \in {"INVALID", "BRANCH"}
  BY DEF TypeOK, TypeEntries, PerBlock, ReqB, TLPermission
<1>2. par \notin {"TtoT", "TtoB", "TtoN"}
  BY <1>1 DEF ProbeAckParam
<1>3. ProbeAnswers(c, b, st) =
        CASE s \in {"S_SENDING_A", "S_A_WAITING_D"}
               -> {answer("ProbeAck", ProbeAckParam("toN", perm), Zero)}
          [] s = "S_INVALID" -> {answer("ProbeAck", "NtoN", Zero)}
          [] OTHER -> UNION {{answer(op, par, d) : d \in ProbedData(op, par, board[b.addr])}
                             : op \in ProbedOp(c, b)}
  BY DEF ProbeAnswers
<1>4. \A op, param, d : answer(op, param, d).op = op /\ answer(op, param, d).data = d
  OBVIOUS
<1> HIDE DEF answer
<1>5. s \notin {"S_SENDING_A", "S_A_WAITING_D"}
  BY <1>3, <1>4
<1>6. s # "S_INVALID"
  BY <1>3, <1>4, <1>5
<1>7. PICK op \in ProbedOp(c, b) :
        \E d \in ProbedData(op, par, board[b.addr]) : r = answer(op, par, d)
  BY <1>3, <1>5, <1>6
<1> PICK d \in ProbedData(op, par, board[b.addr]) : r = answer(op, par, d)
  BY <1>7
<1>8. op = "ProbeAckData" /\ r.data = d
  BY <1>4
<1>9. b.needdata
  BY <1>1, <1>8 DEF ProbedOp
<1> QED BY <1>2, <1>8, <1>9 DEF ProbedData

\* Nothing is probed at first.
LEMMA CarryInit == Init => CarryInv
  BY DEF Init, CarryInv, CarryInvBy

\* What disturbs neither an agent's probes and answers nor the blocks it is probed for.
LEMMA CarryFrame ==
  ASSUME TypeOK, NEW c \in Core, CopyInvBy(c), CarryInvBy(c),
         pendingB'[c] \subseteq pendingB[c],
         \A r \in pendingC'[c] : r \in pendingC[c] \/ r.op # "ProbeAckData",
         \A a \in Addr : <<c, a>> \in probing =>
           /\ dir'[c][a] = dir[c][a] /\ line'[a] = line[a]
           /\ \A d \in Core \ {c}, x \in Alias : dir'[d][a][x] = "TIP" => dir[d][a][x] = "TIP"
           /\ Pending(a)' => Pending(a) /\ \A k \in AcksOf(c) : k.addr = a => k \in AcksOf(c)'
  PROVE  CarryInvBy(c)'
<1>1. ASSUME NEW b \in pendingB'[c], b.needdata
      PROVE  /\ OnlyHere(c, b.addr)'
             /\ Pending(b.addr)' => \E k \in AcksOf(c)' : k.addr = b.addr
  <2>1. b \in pendingB[c] /\ b.addr \in Addr /\ <<c, b.addr>> \in probing
    BY DEF CopyInvBy, TypeOK, TypePending, ReqB
  <2>2. OnlyHere(c, b.addr) /\ (Pending(b.addr) => \E k \in AcksOf(c) : k.addr = b.addr)
    BY <1>1, <2>1 DEF CarryInvBy
  <2> QED BY <2>1, <2>2 DEF OnlyHere
<1>2. ASSUME NEW r \in pendingC'[c], r.op = "ProbeAckData"
      PROVE  \/ dir'[c][r.addr][r.alias] = "TIP"
             \/ OnlyHere(c, r.addr)' /\ r.data = line'[r.addr]
  <2>1. r \in pendingC[c] /\ r.op \in ProbeAckOp
    BY <1>2 DEF ProbeAckOp
  <2>2. r.addr \in Addr /\ <<c, r.addr>> \in probing
    BY <2>1 DEF CopyInvBy, TypeOK, TypePending, ReqC
  <2>3. dir[c][r.addr][r.alias] = "TIP" \/ (OnlyHere(c, r.addr) /\ r.data = line[r.addr])
    BY <1>2, <2>1 DEF CarryInvBy
  <2> QED BY <2>2, <2>3 DEF OnlyHere
<1> QED BY <1>1, <1>2 DEF CarryInvBy

\* fire_b: data are asked of a TIP, which nobody else has and no release is pending of.
LEMMA CarryFireB ==
  ASSUME TypeOK, CopyInv, NullInv, Overtake = {}, NEW e \in Core, FireB(e),
         NEW c \in Core, CarryInvBy(c)
  PROVE  CarryInvBy(c)'
<1>1. PICK b \in ReqB : MayProbe(e, b) /\ pendingB' = [pendingB EXCEPT ![e] = {b}]
  BY DEF FireB
<1>2. UNCHANGED <<pendingC, board, dir, line, relAcks>>
  BY DEF FireB, boardVars
<1>3. CopyInvBy(c)
  BY DEF CopyInv
<1>4. CASE c # e
  <2>1. pendingB'[c] = pendingB[c]
    BY <1>1, <1>4 DEF TypeOK, TypePending
  <2> QED BY <1>2, <1>3, <2>1, CarryFrame DEF Pending, AcksOf
<1>5. CASE c = e
  <2>1. pendingB'[c] = {b} /\ b.addr \in Addr /\ b.alias \in Alias
    BY <1>1, <1>5 DEF TypeOK, TypePending, ReqB
  <2>2. ASSUME b.needdata
        PROVE  OnlyHere(c, b.addr)' /\ ~Pending(b.addr)'
    <3>1. dir[c][b.addr][b.alias] = "TIP"
      BY <1>1, <1>5, <2>2 DEF MayProbe
    <3>2. OnlyHere(c, b.addr)
      BY <2>1, <3>1 DEF CopyInv, Coherent, Fits, OnlyHere
    <3>3. ~Pending(b.addr)
      BY <2>1, <3>1 DEF NullInv
    <3> QED BY <1>2, <3>2, <3>3 DEF OnlyHere, Pending
  <2> QED BY <1>2, <2>1, <2>2 DEF CarryInvBy, OnlyHere
<1> QED BY <1>4, <1>5

\* fire_c: the writer hands over its data, which nobody else may then be asked for.
LEMMA CarryFireC ==
  ASSUME TypeOK, CopyInv, ReleaseInv, NEW e \in Core, FireC(e),
         NEW c \in Core, CarryInvBy(c)
  PROVE  CarryInvBy(c)'
<1>1. PICK r \in pendingC[e] : FireCBeat(e, r) \/ FireRelease(e, r) \/ FireProbeAck(e, r)
  BY DEF FireC
<1>2. /\ pendingB' = pendingB
      /\ r.addr \in Addr /\ r.alias \in Alias /\ r.param \in TLPermDemotion
  BY ReqCFields DEF FireC, TypeOK, TypePending, ReqC
<1>3. CASE FireCBeat(e, r)
  <2>1. pendingC' = [pendingC EXCEPT ![e] = {LessABeat(r)}]
        /\ UNCHANGED <<boardVars, line, dir, relAcks>>
    BY <1>3 DEF FireCBeat
  <2>2. \A q \in pendingC'[c] : \E p \in pendingC[c] :
          q.op = p.op /\ q.addr = p.addr /\ q.alias = p.alias /\ q.data = p.data
    BY <2>1 DEF TypeOK, TypePending, LessABeat
  <2> QED BY <1>2, <2>1, <2>2 DEF CarryInvBy, OnlyHere, Pending, AcksOf, boardVars
<1>4. ASSUME pendingC' = [pendingC EXCEPT ![e] = {}],
             dir' = [dir EXCEPT ![e][r.addr][r.alias] = Reported(r.param)],
             relAcks \subseteq relAcks',
             \A a \in Addr : Pending(a)' =>
               Pending(a) \/ (r.op = "ReleaseData" /\ \E k \in AcksOf(e)' : k.addr = a /\ a = r.addr),
             \A a \in Addr : line'[a] = line[a]
               \/ (a = r.addr /\ r.op \in {"ReleaseData", "ProbeAckData"})
      PROVE  CarryInvBy(c)'
  <2>1. \A d \in Core, a \in Addr, x \in Alias :
          dir'[d][a][x] = IF <<d, a, x>> = <<e, r.addr, r.alias>> THEN Reported(r.param)
                          ELSE dir[d][a][x]
    BY <1>2, <1>4 DEF TypeOK, TypeDevice, PerBlock
  <2>2. \A a \in Addr : OnlyHere(c, a) => OnlyHere(c, a)'
    <3>1. NotAbove(Reported(r.param), dir[e][r.addr][r.alias])
      BY DEF CopyInv, CopyInvBy
    <3> QED BY <2>1, <3>1 DEF OnlyHere, NotAbove
  <2>3. r.op = "ReleaseData" => dir[e][r.addr][r.alias] = "TIP"
    BY DEF ReleaseInv, ReleaseInvBy, ReleaseOp
  <2>4. AcksOf(c) \subseteq AcksOf(c)'
    BY <1>4 DEF AcksOf
  <2>5. ASSUME NEW b \in pendingB'[c], b.needdata
        PROVE  /\ OnlyHere(c, b.addr)'
               /\ Pending(b.addr)' => \E k \in AcksOf(c)' : k.addr = b.addr
    <3>1. b \in pendingB[c] /\ b.addr \in Addr
      BY <1>2 DEF TypeOK, TypePending, ReqB
    <3>2. OnlyHere(c, b.addr) /\ (Pending(b.addr) => \E k \in AcksOf(c) : k.addr = b.addr)
      BY <2>5, <3>1 DEF CarryInvBy
    <3>3. r.op = "ReleaseData" /\ b.addr = r.addr => c = e
      BY <1>2, <2>3, <3>2 DEF OnlyHere
    <3> QED BY <1>4, <2>2, <2>4, <3>1, <3>2, <3>3
  <2>6. ASSUME NEW q \in pendingC'[c], q.op = "ProbeAckData"
        PROVE  \/ dir'[c][q.addr][q.alias] = "TIP"
               \/ OnlyHere(c, q.addr)' /\ q.data = line'[q.addr]
    <3>1. c # e /\ q \in pendingC[c] /\ q.addr \in Addr /\ q.alias \in Alias
      BY <1>4, ReqCFields DEF TypeOK, TypePending
    <3>2. dir[c][q.addr][q.alias] = "TIP" \/ (OnlyHere(c, q.addr) /\ q.data = line[q.addr])
      BY <2>6, <3>1 DEF CarryInvBy
    <3>3. CASE dir[c][q.addr][q.alias] = "TIP"
      BY <2>1, <3>1, <3>3
    <3>4. CASE OnlyHere(c, q.addr) /\ q.data = line[q.addr]
      <4>1. r.op = "ReleaseData" => q.addr # r.addr
        BY <1>2, <2>3, <3>1, <3>4 DEF OnlyHere
      <4>2. r.op = "ProbeAckData" => q.addr # r.addr
        <5>1. r.op = "ProbeAckData" => <<e, r.addr>> \in probing
          BY DEF CopyInv, CopyInvBy, ProbeAckOp
        <5>2. <<c, q.addr>> \in probing
          BY <2>6, <3>1 DEF CopyInv, CopyInvBy, ProbeAckOp
        <5> QED BY <1>2, <3>1, <5>1, <5>2 DEF CopyInv, OneAtATime
      <4> QED BY <1>4, <2>2, <3>1, <3>4, <4>1, <4>2
    <3> QED BY <3>2, <3>3, <3>4
  <2> QED BY <2>5, <2>6 DEF CarryInvBy
<1>5. CASE FireRelease(e, r)
  <2>1. /\ pendingC' = [pendingC EXCEPT ![e] = {}]
        /\ dir' = [dir EXCEPT ![e][r.addr][r.alias] = Reported(r.param)]
        /\ relAcks' = relAcks \cup {[core |-> e, addr |-> r.addr, source |-> The(r.source)]}
    BY <1>5 DEF FireRelease
  <2>2. PICK k : k = [core |-> e, addr |-> r.addr, source |-> The(r.source)]
    OBVIOUS
  <2>3. k \in AcksOf(e)' /\ k.addr = r.addr
    BY <2>1, <2>2 DEF AcksOf
  <2>4. CASE r.op = "ReleaseData"
    <3>1. /\ board' = [board EXCEPT ![r.addr] = Released(board[r.addr], r.data)]
          /\ line' = [line EXCEPT ![r.addr] = r.data]
      BY <1>5, <2>4 DEF FireRelease
    <3>2. \A a \in Addr : a # r.addr => board'[a] = board[a] /\ line'[a] = line[a]
      BY <3>1 DEF TypeOK, TypeShared, TypeDevice
    <3> QED BY <1>4, <2>1, <2>3, <2>4, <3>2 DEF Pending
  <2>5. CASE r.op # "ReleaseData"
    <3>1. board' = board /\ line' = line
      BY <1>5, <2>5 DEF FireRelease, boardVars
    <3> QED BY <1>4, <2>1, <3>1 DEF Pending
  <2> QED BY <2>4, <2>5
<1>6. CASE FireProbeAck(e, r)
  <2>1. /\ pendingC' = [pendingC EXCEPT ![e] = {}]
        /\ dir' = [dir EXCEPT ![e][r.addr][r.alias] = Reported(r.param)]
        /\ relAcks' = relAcks
    BY <1>6 DEF FireProbeAck
  <2>2. CASE r.op = "ProbeAckData"
    <3>1. /\ board' = [board EXCEPT ![r.addr] = ProbeWritten(r.data)]
          /\ line' = [line EXCEPT ![r.addr] = r.data]
      BY <1>6, <2>2 DEF FireProbeAck
    <3>2. /\ board'[r.addr].status = "VALID"
          /\ \A a \in Addr : a # r.addr => board'[a] = board[a] /\ line'[a] = line[a]
      BY <1>2, <3>1 DEF TypeOK, TypeShared, TypeDevice, ProbeWritten
    <3> QED BY <1>4, <2>1, <2>2, <3>2 DEF Pending
  <2>3. CASE r.op # "ProbeAckData"
    <3>1. board' = board /\ line' = line
      BY <1>6, <2>3 DEF FireProbeAck, boardVars
    <3> QED BY <1>4, <2>1, <3>1 DEF Pending
  <2> QED BY <2>2, <2>3
<1> QED BY <1>1, <1>3, <1>5, <1>6

\* fire_d: no block that is probed is granted, and no CBO of it is acknowledged.
LEMMA CarryFireD ==
  ASSUME TypeOK, IdInv, MapInv, CopyInv, BoardInv, Overtake = {}, NEW e \in Core, FireD(e),
         NEW c \in Core, CarryInvBy(c)
  PROVE  CarryInvBy(c)'
<1>1. UNCHANGED <<pendingB, pendingC>> /\ CopyInvBy(c)
  BY DEF FireD, CopyInv
<1>2. ASSUME NEW k \in relAcks, FireReleaseAck(e, k)
      PROVE  CarryInvBy(c)'
  <2>1. k \in AcksOf(e) /\ k.addr \in Addr
    BY <1>2 DEF FireReleaseAck, AcksOf, TypeOK, TypeDevice, ReleaseAck
  <2>2. PICK x \in Alias : idMap[e][k.source] = {[addr |-> k.addr, alias |-> x]}
    BY <2>1 DEF MapInv, MapInvBy
  <2>3. PICK n \in idMap[e][k.source] :
          board' = [board EXCEPT ![n.addr] = Unpending(board[n.addr])]
    BY <1>2 DEF FireReleaseAck
  <2>4. board' = [board EXCEPT ![k.addr] = Unpending(board[k.addr])]
    <3>1. n.addr = k.addr
      BY <2>2
    <3> QED BY <2>3, <3>1
  <2>5. UNCHANGED <<dir, line>> /\ relAcks' = relAcks \ {k}
    BY <1>2 DEF FireReleaseAck
  <2>6. board'[k.addr] = Unpending(board[k.addr])
    BY <2>1, <2>4 DEF TypeOK, TypeShared
  <2>7. ~Pending(k.addr)'
    <3>1. Pending(k.addr) => board[k.addr].pending # {}
      BY <2>1 DEF BoardInv, InvalsWait, BoardInvAt, Pending
    <3> QED BY <2>6, <3>1 DEF Pending, Unpending
  <2>8. \A a \in Addr : Pending(a)' => Pending(a) /\ a # k.addr
    BY <2>1, <2>4, <2>7 DEF TypeOK, TypeShared, Pending
  <2>9. \A j \in AcksOf(c) : j # k => j \in AcksOf(c)'
    BY <2>5 DEF AcksOf
  <2> QED BY <1>1, <2>5, <2>8, <2>9, CarryFrame
<1>3. ASSUME NEW a \in Addr, NEW x, NEW perm, dir' = [dir EXCEPT ![e][a][x] = perm],
             UNCHANGED <<board, line, relAcks>>, <<c, a>> \notin probing
      PROVE  CarryInvBy(c)'
  <2>1. \A d \in Core, q \in Addr : q # a => dir'[d][q] = dir[d][q]
    BY <1>3 DEF TypeOK, TypeDevice, PerBlock
  <2> QED BY <1>1, <1>3, <2>1, CarryFrame DEF Pending, AcksOf
<1>4. ASSUME NEW p \in pendingD[e], FireGrant(e, p.req, p.perm)
      PROVE  CarryInvBy(c)'
  <2>1. p.req.addr \in Addr /\ <<e, p.req.addr>> \in granting
    BY DEF CopyInv, CopyInvBy, TypeOK, TypePending, ReqA
  <2>2. <<c, p.req.addr>> \notin probing
    BY <2>1 DEF CopyInv, OneAtATime
  <2>3. /\ dir' = [dir EXCEPT ![e][p.req.addr][p.req.alias] = p.perm]
        /\ UNCHANGED <<boardVars, line, relAcks>>
    BY <1>4 DEF FireGrant
  <2> QED BY <1>3, <2>1, <2>2, <2>3 DEF boardVars
<1>5. ASSUME NEW r \in reqs, NEW perm, r.core = e, MayGrant(r, perm), FireGrant(e, r, perm)
      PROVE  CarryInvBy(c)'
  <2>1. r.addr \in Addr /\ <<c, r.addr>> \notin probing
    BY <1>5 DEF MayGrant, Quiet, TypeOK, TypeDevice, ReqA
  <2>2. /\ dir' = [dir EXCEPT ![e][r.addr][r.alias] = perm]
        /\ UNCHANGED <<boardVars, line, relAcks>>
    BY <1>5 DEF FireGrant
  <2> QED BY <1>3, <2>1, <2>2 DEF boardVars
<1>6. ASSUME NEW r \in reqs, NEW perm, FireGrantBeat(e, r, perm)
      PROVE  CarryInvBy(c)'
  <2>1. UNCHANGED <<boardVars, line, dir, relAcks>>
    BY <1>6 DEF FireGrantBeat
  <2> QED BY <1>1, <2>1, CarryFrame DEF Pending, AcksOf, boardVars
<1>7. ASSUME NEW r \in reqs, MayAckCBO(r), FireCBOAck(e, r)
      PROVE  CarryInvBy(c)'
  <2>1. r.addr \in Addr /\ <<c, r.addr>> \notin probing
    BY <1>7 DEF MayAckCBO, Quiet, TypeOK, TypeDevice, ReqA
  <2>2. UNCHANGED <<dir, relAcks>>
    BY <1>7 DEF FireCBOAck
  <2>3. PICK A : board' = board \/ board' = [board EXCEPT ![r.addr] = A]
    BY <1>7 DEF FireCBOAck
  <2>4. PICK v : line' = line \/ line' = [line EXCEPT ![r.addr] = v]
    BY <1>7 DEF FireCBOAck
  <2>5. \A a \in Addr : a # r.addr => line'[a] = line[a] /\ board'[a] = board[a]
    BY <2>3, <2>4 DEF TypeOK, TypeShared, TypeDevice
  <2> QED BY <1>1, <2>1, <2>2, <2>5, CarryFrame DEF Pending, AcksOf
<1> QED BY <1>2, <1>4, <1>5, <1>6, <1>7 DEF FireD

\* The fuzzer presents nothing but Releases on C.
LEMMA FuzzReleases ==
  ASSUME NEW c \in Core, Fuzz(c)
  PROVE  \/ pendingC' = pendingC
         \/ \E r : r.op \in ReleaseOp /\ pendingC' = [pendingC EXCEPT ![c] = {r}]
<1> DEFINE G == \/ pendingC' = pendingC
                \/ \E r : r.op \in ReleaseOp /\ pendingC' = [pendingC EXCEPT ![c] = {r}]
<1>1. ASSUME NEW i, NEW op, NEW a, NEW x, NEW param, DoAcquire(c, i, op, a, x, param)
      PROVE  G
  BY <1>1 DEF DoAcquire
<1>2. ASSUME NEW i, NEW a, NEW x, DoReleaseDataAuto(c, i, a, x)
      PROVE  G
  <2> DEFINE toN == IF privilege[c][a][x] = "TIP" THEN "TtoN" ELSE "BtoN"
             request(op, n, d) == [op |-> op, addr |-> a, alias |-> x, param |-> toN,
                                   beats |-> n, data |-> d, source |-> {i}]
  <2>1. \/ pendingC' = [pendingC EXCEPT ![c] = {request("Release", 1, Zero)}]
        \/ \E d \in Data : pendingC' = [pendingC EXCEPT ![c] = {request("ReleaseData", 2, d)}]
    BY <1>2 DEF DoReleaseDataAuto
  <2>2. \A op, n, d : request(op, n, d).op = op
    OBVIOUS
  <2> HIDE DEF request
  <2> QED BY <2>1, <2>2 DEF ReleaseOp
<1>3. ASSUME NEW i, NEW op, NEW a, DoCBO(c, i, op, a)
      PROVE  G
  BY <1>3 DEF DoCBO
<1> QED BY <1>1, <1>2, <1>3 DEF Fuzz

\* handle_b: a ProbeAckData for less than a TIP carries what the board has of a block no
\* release is pending of: its value.
LEMMA CarryUpdate ==
  ASSUME TypeOK, IdInv, MapInv, CopyInv, BoardInv, NoAltInv, Overtake = {}, BoardFollows,
         NEW e \in Core, StatusInvBy(e), Update(e), NEW c \in Core, CarryInvBy(c)
  PROVE  CarryInvBy(c)'
<1> PICK st : st = Presented(e)
  OBVIOUS
<1>1. UNCHANGED <<board, dir, line, relAcks>> /\ CopyInvBy(c)
  BY DEF Update, boardVars, dutVars, CopyInv
<1>2. CASE NoHandleB(e, st)
  <2>1. pendingC' = [pendingC EXCEPT ![e] = pendingC[e]] /\ pendingB' = pendingB
    BY <1>2 DEF NoHandleB, SendC
  <2>2. pendingC'[c] = pendingC[c]
    BY <2>1 DEF TypeOK, TypePending
  <2> QED BY <1>1, <2>1, <2>2, CarryFrame DEF Pending, AcksOf
<1>3. ASSUME NEW b \in pendingB[e], HandleB(e, b, st)
      PROVE  CarryInvBy(c)'
  <2>1. AnswersProbe(e, b, st) /\ pendingB' = [pendingB EXCEPT ![e] = {}]
    BY <1>3 DEF HandleB
  <2>2. PICK C : /\ pendingC' = [pendingC EXCEPT ![e] = C]
                 /\ C = {} \/ \E r \in ProbeAnswers(e, b, st) : C = {r}
    BY <1>3 DEF HandleB, SendC
  <2>3. b \in ReqB /\ b.addr \in Addr /\ b.alias \in Alias
    BY DEF TypeOK, TypePending, ReqB
  <2>4. CASE c # e
    <3>1. pendingC'[c] = pendingC[c] /\ pendingB'[c] = pendingB[c]
      BY <2>1, <2>2, <2>4 DEF TypeOK, TypePending
    <3> QED BY <1>1, <3>1, CarryFrame DEF Pending, AcksOf
  <2>5. CASE c = e
    <3>1. pendingC'[c] = C /\ pendingB'[c] = {}
      BY <2>1, <2>2, <2>5 DEF TypeOK, TypePending
    <3>2. ASSUME NEW r \in ProbeAnswers(c, b, st), r.op = "ProbeAckData",
                 dir[c][b.addr][b.alias] # "TIP"
          PROVE  OnlyHere(c, b.addr) /\ r.data = line[b.addr]
      <4>1. /\ b.needdata
            /\ r.data \in (IF HasKey(board[b.addr]) THEN board[b.addr].data ELSE {Zero})
        BY <2>3, <3>2, AnswerCarries DEF CopyInv
      <4>2. /\ OnlyHere(c, b.addr)
            /\ Pending(b.addr) => \E k \in AcksOf(c) : k.addr = b.addr
        BY <2>5, <4>1 DEF CarryInvBy
      <4>3. ~Pending(b.addr)
        BY <2>1, <2>5, <4>2, NoAckOwed
      <4>4. BoardInvAt(b.addr) /\ memAlt[b.addr] = NoAlt
        BY <2>3 DEF BoardInv, InvalsWait, NoAltInv
      <4>5. board[b.addr].status \in {"NONE", "VALID"}
        BY <2>3, <4>3 DEF TypeOK, TypeShared, Entry, Pending
      <4>6. r.data = line[b.addr]
        BY <4>1, <4>4, <4>5 DEF BoardInvAt, OneValue, HasKey
      <4> QED BY <4>2, <4>6
    <3>3. \A r \in ProbeAnswers(c, b, st) : r.addr = b.addr /\ r.alias = b.alias
      BY <2>3, AnswerSays
    <3> QED BY <1>1, <2>2, <2>5, <3>1, <3>2, <3>3 DEF CarryInvBy, OnlyHere
  <2> QED BY <2>4, <2>5
<1> QED BY <1>2, <1>3 DEF Update

\* Every step keeps answers to probes current.
LEMMA CarryStep ==
  /\ TypeOK /\ IdInv /\ MapInv /\ CopyInv /\ StatusInv /\ ReleaseInv /\ BoardInv /\ NullInv
  /\ NoAltInv /\ CarryInv /\ [Next]_vars
  => CarryInv'
<1> SUFFICES ASSUME TypeOK, IdInv, MapInv, CopyInv, StatusInv, ReleaseInv, BoardInv, NullInv,
                    NoAltInv, CarryInv, [Next]_vars, Overtake = {}, BoardFollows,
                    NEW c \in Core
             PROVE  CarryInvBy(c)'
  BY DEF CarryInv, BoardFollows
<1>1. CarryInvBy(c) /\ CopyInvBy(c)
  BY DEF CarryInv, CopyInv
<1>2. ASSUME UNCHANGED <<pendingB, board, dir, line, relAcks>>,
             \A r \in pendingC'[c] : r \in pendingC[c] \/ r.op # "ProbeAckData"
      PROVE  CarryInvBy(c)'
  BY <1>1, <1>2, CarryFrame DEF Pending, AcksOf
<1>3. ASSUME NEW a \in Addr, WriteBack(a)
      PROVE  CarryInvBy(c)'
  BY <1>2, <1>3 DEF WriteBack, boardVars, pendVars, dutVars
<1>4. ASSUME NEW e \in Core, FireA(e) \/ FireE(e)
      PROVE  CarryInvBy(c)'
  BY <1>2, <1>4 DEF FireA, FireE, boardVars
<1>5. ASSUME NEW e \in Core, Fuzz(e)
      PROVE  CarryInvBy(c)'
  <2>1. UNCHANGED <<pendingB, board, dir, line, relAcks>>
    BY <1>5 DEF Fuzz, boardVars, dutVars
  <2>2. pendingC' = pendingC \/ \E r : r.op \in ReleaseOp /\ pendingC' = [pendingC EXCEPT ![e] = {r}]
    BY <1>5, FuzzReleases
  <2>3. \A r \in pendingC'[c] : r \in pendingC[c] \/ r.op # "ProbeAckData"
    BY <2>2 DEF TypeOK, TypePending, ReleaseOp
  <2> QED BY <1>2, <2>1, <2>3
<1>6. ASSUME NEW e \in Core, Update(e)
      PROVE  CarryInvBy(c)'
  <2>1. StatusInvBy(e)
    BY <1>6 DEF Update, StatusInv
  <2> QED BY <1>1, <1>6, <2>1, CarryUpdate
<1>7. CASE UNCHANGED vars
  BY <1>2, <1>7 DEF vars, boardVars, pendVars, dutVars
<1> QED BY <1>1, <1>3, <1>4, <1>5, <1>6, <1>7, CarryFireB, CarryFireC, CarryFireD DEF Next

\* Nothing of what answers a probe is out of date in any reachable state.
LEMMA CarryHolds ==
  Spec => [](/\ TypeOK /\ IdInv /\ MapInv /\ CMOInv /\ CopyInv /\ StatusInv /\ ReleaseInv
             /\ PermInv /\ CarryInv)
<1>1. Init => NullInv /\ NoAltInv /\ CarryInv
  BY NullInit, NoAltInit, CarryInit
<1>2. /\ TypeOK /\ IdInv /\ MapInv /\ CMOInv /\ AltInv /\ CopyInv /\ StatusInv /\ ReleaseInv
      /\ StampInv /\ PermInv /\ OpsInv /\ BoardInv
      /\ NullInv /\ NoAltInv /\ CarryInv
      /\ [Next]_vars
      => (NullInv /\ NoAltInv /\ CarryInv)'
  BY NullStep, NoAltStep, CarryStep
<1> QED BY <1>1, <1>2, PermHolds, BoardHolds, PTL DEF Spec

\* An agent that has a block under one alias only has what it has under that one.
LEMMA HasOf ==
  ASSUME CopyInv, NEW c \in Core, NEW a \in Addr, NEW x \in Alias,
         privilege[c][a][x] \in TLPermission,
         \/ privilege[c][a][x] # "INVALID"
         \/ \A y \in Alias \ {x} : privilege[c][a][y] = "INVALID"
  PROVE  Has(c, a) = privilege[c][a][x]
<1>1. \A y \in Alias \ {x} : privilege[c][a][y] = "INVALID"
  BY DEF CopyInv, Coherent, Fits
<1> QED BY <1>1 DEF Has, TLPermission

\* What an agent has of a block is what the directory has for one of its aliases.
LEMMA HasSome ==
  ASSUME CopyInv, NEW c \in Core, NEW a \in Addr, Has(c, a) # "INVALID"
  PROVE  \E x \in Alias : dir[c][a][x] = Has(c, a)
  BY DEF CopyInv, Has

\* Agents whose permissions stay have what they had.
LEMMA CopiesStay ==
  ASSUME privilege' = privilege
  PROVE  Copies' = Copies
  BY DEF Copies, Has

\* The permission of one alias becomes p.
Becomes(c, a, x, p) == privilege' = [privilege EXCEPT ![c][a][x] = p]

\* The one alias of a block that changes changes what the agent has of it.
LEMMA CopiesChange ==
  ASSUME TypeOK, CopyInv, NEW c \in Core, NEW a \in Addr, NEW x \in Alias,
         NEW p \in TLPermission, Becomes(c, a, x, p),
         \A y \in Alias \ {x} : privilege[c][a][y] = "INVALID"
  PROVE  /\ Copies' = [Copies EXCEPT ![c][a] = p]
         /\ Copies[c][a] = privilege[c][a][x]
<1>1. \A d \in Core, b \in Addr, y \in Alias :
        privilege'[d][b][y] = IF <<d, b, y>> = <<c, a, x>> THEN p ELSE privilege[d][b][y]
  BY DEF Becomes, TypeOK, TypeEntries, PerBlock
<1>2. ASSUME NEW d \in Core, NEW b \in Addr, <<d, b>> # <<c, a>>
      PROVE  Has(d, b)' = Has(d, b)
  BY <1>1, <1>2 DEF Has
<1>3. Has(c, a)' = p
  <2>1. \A y \in Alias : privilege'[c][a][y] = IF y = x THEN p ELSE "INVALID"
    BY <1>1
  <2> QED BY <2>1 DEF Has, TLPermission
<1>4. Has(c, a) = privilege[c][a][x]
  <2>1. privilege[c][a][x] \in TLPermission
    BY DEF TypeOK, TypeEntries, PerBlock
  <2> QED BY <2>1, HasOf
<1>5. /\ Copies = [d \in Core |-> [b \in Addr |-> Has(d, b)]]
      /\ Copies' = [d \in Core |-> [b \in Addr |-> Has(d, b)']]
  BY DEF Copies
<1>6. [Copies EXCEPT ![c][a] = p]
        = [d \in Core |-> [b \in Addr |-> IF <<d, b>> = <<c, a>> THEN p ELSE Has(d, b)]]
  BY <1>5
<1>7. \A d \in Core, b \in Addr : Has(d, b)' = IF <<d, b>> = <<c, a>> THEN p ELSE Has(d, b)
  BY <1>2, <1>3
<1>8. Copies' = [Copies EXCEPT ![c][a] = p]
  BY <1>5, <1>6, <1>7
<1>9. Copies[c][a] = privilege[c][a][x]
  BY <1>4, <1>5
<1> QED BY <1>8, <1>9

\* At first nobody has anything.
LEMMA CachesInit == Init => Caches!Init
<1> SUFFICES ASSUME Init PROVE Caches!Init
  OBVIOUS
<1>1. \A c \in Core, a \in Addr : Has(c, a) = "INVALID"
  <2>1. \A c \in Core, a \in Addr, x \in Alias : privilege[c][a][x] = "INVALID"
    BY DEF Init
  <2> QED BY <2>1 DEF Has
<1>2. Copies = [c \in Core |-> [a \in Addr |-> "INVALID"]]
  BY <1>1 DEF Copies
<1> QED BY <1>2 DEF Init, Caches!Init

\* fire_c: a TIP hands over its data, anything else only shrinks.
LEMMA CachesFireC ==
  ASSUME TypeOK, TypeOK', CopyInv, ReleaseInv, NEW c \in Core, CarryInvBy(c), FireC(c)
  PROVE  [Caches!Next]_Caches!vars
<1>1. PICK r \in pendingC[c] : FireCBeat(c, r) \/ FireRelease(c, r) \/ FireProbeAck(c, r)
  BY DEF FireC
<1>2. /\ mem' = mem /\ r.addr \in Addr /\ r.alias \in Alias
      /\ r.param \in TLPermDemotion /\ r.data \in Data
  BY ReqCFields DEF FireC, TypeOK, TypePending
<1>3. CASE FireCBeat(c, r)
  <2>1. privilege' = privilege /\ line' = line
    BY <1>3 DEF FireCBeat
  <2> QED BY <1>2, <2>1, CopiesStay DEF Caches!vars
<1>4. PICK p : p = ShrinkGenPriv(r.param)
  OBVIOUS
<1>5. /\ p \in TLPermission
      /\ NotAbove(p, privilege[c][r.addr][r.alias])
  <2>1. p = Reported(r.param) /\ p \in TLPermission
    BY <1>2, <1>4 DEF Reported, ShrinkGenPriv, TLPermDemotion, TLPermission
  <2>2. NotAbove(Reported(r.param), privilege[c][r.addr][r.alias])
    BY DEF CopyInv, CopyInvBy
  <2> QED BY <2>1, <2>2
<1>6. ASSUME privilege' = [privilege EXCEPT ![c][r.addr][r.alias] = p],
             \/ line' = line
             \/ /\ line' = [line EXCEPT ![r.addr] = r.data]
                /\ dir[c][r.addr][r.alias] = "TIP" \/ r.data = line[r.addr]
      PROVE  [Caches!Next]_Caches!vars
  <2>1. privilege[c][r.addr][r.alias] \in TLPermission
    BY <1>2 DEF TypeOK, TypeEntries, PerBlock
  <2>2. privilege[c][r.addr][r.alias] # "TIP" => line' = line
    <3>1. r.data = line[r.addr] => [line EXCEPT ![r.addr] = r.data] = line
      BY <1>2 DEF TypeOK, TypeDevice
    <3> QED BY <1>6, <3>1 DEF CopyInv
  <2>3. CASE privilege[c][r.addr][r.alias] = "INVALID"
    <3>1. p = "INVALID"
      BY <1>5, <2>3 DEF NotAbove, TLPermission
    <3>2. privilege' = privilege
      <4>1. privilege' = [privilege EXCEPT ![c][r.addr][r.alias] = privilege[c][r.addr][r.alias]]
        BY <1>6, <2>3, <3>1
      <4>2. privilege \in [Core -> [Addr -> [Alias -> TLPermission]]]
        BY DEF TypeOK, TypeEntries, PerBlock
      <4> QED BY <1>2, <4>1, <4>2
    <3> QED BY <1>2, <2>2, <2>3, <3>2, CopiesStay DEF Caches!vars
  <2>4. CASE privilege[c][r.addr][r.alias] # "INVALID"
    <3>1. \A y \in Alias \ {r.alias} : privilege[c][r.addr][y] = "INVALID"
      BY <1>2, <2>4 DEF CopyInv, Coherent, Fits
    <3>2. /\ Copies' = [Copies EXCEPT ![c][r.addr] = p]
          /\ Copies[c][r.addr] = privilege[c][r.addr][r.alias]
      <4>1. Becomes(c, r.addr, r.alias, p)
        BY <1>6 DEF Becomes
      <4> QED BY <1>2, <1>5, <3>1, <4>1, CopiesChange
    <3>3. CASE privilege[c][r.addr][r.alias] = "TIP" /\ line' # line
      <4>1. Caches!Write(c, r.addr, p, r.data)
        BY <1>2, <1>6, <3>2, <3>3 DEF Caches!Write
      <4>2. p \in Caches!Permission
        BY <1>5 DEF Caches!Permission, TLPermission
      <4> QED BY <1>2, <4>1, <4>2 DEF Caches!Next
    <3>4. CASE line' = line
      <4>1. p \in Caches!Permission /\ p \in Caches!AtMost(Copies[c][r.addr])
        BY <1>5, <2>1, <2>4, <3>2
           DEF Caches!Permission, Caches!AtMost, TLPermission, NotAbove
      <4>2. Caches!Shrink(c, r.addr, p)
        BY <1>2, <3>2, <3>4, <4>1 DEF Caches!Shrink
      <4> QED BY <1>2, <4>1, <4>2 DEF Caches!Next
    <3> QED BY <2>2, <3>3, <3>4
  <2> QED BY <2>3, <2>4
<1>7. CASE FireRelease(c, r)
  <2>1. r.op = "ReleaseData" => dir[c][r.addr][r.alias] = "TIP"
    BY DEF ReleaseInv, ReleaseInvBy, ReleaseOp
  <2>2. privilege' = [privilege EXCEPT ![c][r.addr][r.alias] = p]
    BY <1>4, <1>7 DEF FireRelease
  <2>3. CASE r.op = "ReleaseData"
    BY <1>6, <1>7, <2>1, <2>2, <2>3 DEF FireRelease
  <2>4. CASE r.op # "ReleaseData"
    BY <1>6, <1>7, <2>2, <2>4 DEF FireRelease
  <2> QED BY <2>3, <2>4
<1>8. CASE FireProbeAck(c, r)
  <2>1. r.op = "ProbeAckData" =>
          dir[c][r.addr][r.alias] = "TIP" \/ r.data = line[r.addr]
    BY DEF CarryInvBy
  <2>2. privilege' = [privilege EXCEPT ![c][r.addr][r.alias] = p]
    BY <1>4, <1>8 DEF FireProbeAck
  <2>3. CASE r.op = "ProbeAckData"
    BY <1>6, <1>8, <2>1, <2>2, <2>3 DEF FireProbeAck
  <2>4. CASE r.op # "ProbeAckData"
    BY <1>6, <1>8, <2>2, <2>4 DEF FireProbeAck
  <2> QED BY <2>3, <2>4
<1> QED BY <1>1, <1>3, <1>7, <1>8

\* A Grant gives its agent a copy that all the others leave room for.
LEMMA CachesGrant ==
  ASSUME TypeOK, MapInv, CopyInv, NEW c \in Core, NEW r \in ReqsOf(c), r.op \in AcquireOp,
         NEW perm \in TLPermission, perm # "INVALID", FireGrant(c, r, perm),
         Fits(c, r.addr, r.alias, perm), StatusInvBy(c), PermInvBy(c)
  PROVE  Caches!Next
<1>1. r.addr \in Addr /\ r.alias \in Alias
  BY DEF ReqsOf, TypeOK, TypeDevice, ReqA
<1>2. idMap[c][r.source] = {[addr |-> r.addr, alias |-> r.alias]}
  BY DEF MapInv, MapInvBy, Names
<1>3. PICK e \in idMap[c][r.source] :
        privilege' = [privilege EXCEPT ![c][e.addr][e.alias] = perm]
  BY DEF FireGrant
<1>4. e.addr = r.addr /\ e.alias = r.alias
  BY <1>2
<1>5. UNCHANGED <<line, mem>>
  BY DEF FireGrant
<1>6. \A d \in Core, y \in Alias :
        <<d, y>> # <<c, r.alias>> /\ privilege[d][r.addr][y] # "INVALID"
          => d # c /\ perm = "BRANCH" /\ privilege[d][r.addr][y] = "BRANCH"
  BY DEF Fits, CopyInv
<1>7. /\ Copies' = [Copies EXCEPT ![c][r.addr] = perm]
      /\ Copies[c][r.addr] = privilege[c][r.addr][r.alias]
  <2>1. Becomes(c, r.addr, r.alias, perm)
    BY <1>3, <1>4 DEF Becomes
  <2>2. \A y \in Alias \ {r.alias} : privilege[c][r.addr][y] = "INVALID"
    BY <1>6
  <2> QED BY <1>1, <2>1, <2>2, CopiesChange
<1>8. privilege[c][r.addr][r.alias] # "TIP"
  <2>1. AcquireOut(c, r.addr, r.alias)
    BY DEF AcquireOut
  <2>2. status[c][r.addr][r.alias] \in AWaiting
    BY <1>1, <2>1 DEF StatusInvBy, Tells, Messages
  <2> QED BY <1>1, <2>2 DEF PermInvBy, PermFits
<1>9. \A d \in Core \ {c} :
        Copies[d][r.addr] # "INVALID" => Copies[d][r.addr] = "BRANCH" /\ perm = "BRANCH"
  <2> SUFFICES ASSUME NEW d \in Core \ {c}, Has(d, r.addr) # "INVALID"
               PROVE  Has(d, r.addr) = "BRANCH" /\ perm = "BRANCH"
    BY <1>1 DEF Copies
  <2>1. PICK y \in Alias : dir[d][r.addr][y] = Has(d, r.addr)
    BY <1>1, HasSome
  <2> QED BY <1>6, <2>1 DEF CopyInv
<1>10. Caches!Acquire(c, r.addr, perm)
  BY <1>5, <1>7, <1>8, <1>9 DEF Caches!Acquire
<1>11. perm \in Caches!Permission
  BY DEF Caches!Permission, TLPermission
<1> QED BY <1>1, <1>10, <1>11 DEF Caches!Next

\* A CBOAck writes the block back, or finds it with nobody and drops its value.
LEMMA CachesCBOAck ==
  ASSUME TypeOK, CMOInv, CopyInv, NEW c \in Core, NEW r \in ReqsOf(c), MayAckCBO(r),
         FireCBOAck(c, r)
  PROVE  Caches!Next
<1>1. r.addr \in Addr /\ r \in reqs
  BY DEF ReqsOf, TypeOK, TypeDevice, ReqA
<1>2. cmo[c][r.addr].op = r.op
  BY DEF CMOInv, CMOInvBy, MayAckCBO
<1>3. /\ mem' = IF r.op = "CBOInval" THEN mem ELSE [mem EXCEPT ![r.addr] = line[r.addr]]
      /\ line' = IF r.op = "CBOInval" THEN [line EXCEPT ![r.addr] = mem[r.addr]] ELSE line
      /\ privilege' = privilege
  BY <1>2 DEF FireCBOAck
<1>4. Copies' = Copies
  BY <1>3, CopiesStay
<1>5. CASE r.op # "CBOInval"
  <2>1. Caches!Clean(r.addr)
    BY <1>3, <1>4, <1>5 DEF Caches!Clean
  <2> QED BY <1>1, <2>1 DEF Caches!Next
<1>6. CASE r.op = "CBOInval"
  <2>1. \A d \in Core, y \in Alias : dir[d][r.addr][y] = "INVALID"
    <3>1. Held(r.addr) = {}
      BY <1>6 DEF MayAckCBO
    <3>2. \A d \in Core, y \in Alias :
            dir[d][r.addr][y] # "INVALID" => <<d, y>> \in Held(r.addr)
      BY DEF Held
    <3> QED BY <3>1, <3>2
  <2>2. \A d \in Core : Has(d, r.addr) = "INVALID"
    BY <1>1, <2>1, HasSome
  <2>3. \A d \in Core : Copies[d][r.addr] = "INVALID"
    BY <1>1, <2>2 DEF Copies
  <2>4. Caches!Invalidate(r.addr)
    BY <1>3, <1>4, <1>6, <2>3 DEF Caches!Invalidate
  <2> QED BY <1>1, <2>4 DEF Caches!Next
<1> QED BY <1>5, <1>6

\* fire_d grants, acknowledges, or leaves the copies alone.
LEMMA CachesFireD ==
  ASSUME TypeOK, IdInv, MapInv, CMOInv, CopyInv, NEW c \in Core, FireD(c),
         StatusInvBy(c), PermInvBy(c)
  PROVE  [Caches!Next]_Caches!vars
<1>1. ASSUME UNCHANGED <<privilege, line, mem>>
      PROVE  [Caches!Next]_Caches!vars
  BY <1>1, CopiesStay DEF Caches!vars
<1>2. ASSUME NEW k \in relAcks, FireReleaseAck(c, k)
      PROVE  UNCHANGED <<privilege, line, mem>>
  BY <1>2 DEF FireReleaseAck
<1>3. ASSUME NEW r, NEW perm, FireGrantBeat(c, r, perm)
      PROVE  UNCHANGED <<privilege, line, mem>>
  BY <1>3 DEF FireGrantBeat
<1>4. ASSUME NEW r \in reqs, NEW perm \in TLPermission, r.core = c, MayGrant(r, perm),
             FireGrant(c, r, perm)
      PROVE  Caches!Next
  <2>1. r \in ReqsOf(c) /\ r \in ReqA
    BY <1>4 DEF ReqsOf, TypeOK, TypeDevice
  <2>2. r.op \in AcquireOp /\ perm # "INVALID"
    BY <1>4 DEF MayGrant, GrantPerm
  <2>3. Fits(c, r.addr, r.alias, perm)
    BY <1>4, <2>1, MayGrantFits
  <2> QED BY <1>4, <2>1, <2>2, <2>3, CachesGrant
<1>5. ASSUME NEW p \in pendingD[c], FireGrant(c, p.req, p.perm)
      PROVE  Caches!Next
  <2>1. p.req \in ReqsOf(c) /\ p.req.op \in AcquireOp
    BY DEF IdInv, IdInvBy, GrantOwed, AcquireOp
  <2>2. p.perm \in TLPermission /\ p.perm # "INVALID"
    BY DEF TypeOK, TypePending, PermInvBy
  <2>3. Fits(c, p.req.addr, p.req.alias, p.perm)
    BY DEF CopyInv, CopyInvBy
  <2> QED BY <1>5, <2>1, <2>2, <2>3, CachesGrant
<1>6. ASSUME NEW r \in reqs, r.core = c, MayAckCBO(r), FireCBOAck(c, r)
      PROVE  Caches!Next
  BY <1>6, CachesCBOAck DEF ReqsOf
<1> QED BY <1>1, <1>2, <1>3, <1>4, <1>5, <1>6 DEF FireD

\* Every step of the agents is one of the coherent memory, or none.
LEMMA CachesStep ==
  ASSUME Overtake = {}, ~CleanToT, BoardFollows,
         TypeOK, TypeOK', IdInv, MapInv, CMOInv, CopyInv, StatusInv, ReleaseInv, PermInv,
         CarryInv, [Next]_vars
  PROVE  [Caches!Next]_Caches!vars
<1>1. ASSUME UNCHANGED <<privilege, line, mem>>
      PROVE  [Caches!Next]_Caches!vars
  BY <1>1, CopiesStay DEF Caches!vars
<1>2. ASSUME NEW a \in Addr, WriteBack(a)
      PROVE  [Caches!Next]_Caches!vars
  <2>1. UNCHANGED <<privilege, line>> /\ mem' = [mem EXCEPT ![a] = line[a]]
    BY <1>2 DEF WriteBack, entryVars, dutVars
  <2>2. Caches!Clean(a)
    BY <2>1, CopiesStay DEF Caches!Clean
  <2> QED BY <2>2 DEF Caches!Next
<1>3. ASSUME NEW c \in Core, FireA(c) \/ FireB(c) \/ FireE(c) \/ Fuzz(c) \/ Update(c)
      PROVE  UNCHANGED <<privilege, line, mem>>
  BY <1>3 DEF FireA, FireB, FireE, Fuzz, Update, entryVars, dutVars
<1>4. ASSUME UNCHANGED vars
      PROVE  UNCHANGED <<privilege, line, mem>>
  BY <1>4 DEF vars, entryVars, dutVars
<1>5. ASSUME NEW c \in Core, FireC(c)
      PROVE  [Caches!Next]_Caches!vars
  BY <1>5, CachesFireC DEF CarryInv
<1>6. ASSUME NEW c \in Core, FireD(c)
      PROVE  [Caches!Next]_Caches!vars
  <2>1. failed = {}
    BY <1>6 DEF FireD, At, Reach
  <2>2. StatusInvBy(c) /\ PermInvBy(c)
    BY <2>1 DEF StatusInv, PermInv
  <2> QED BY <1>6, <2>2, CachesFireD
<1> QED BY <1>1, <1>2, <1>3, <1>4, <1>5, <1>6 DEF Next

\* The agents are caches of one coherent memory, however many there are: a block has one
\* writer or any number of readers, changes only by the hand of its writer, who hands
\* over what it wrote on C, and falls back to memory's value only when nobody has it.
\* What answers a probe late brings back no older value, as long as a cbo.inval
\* resynchronises the scoreboard the answer is taken from, or there is none.
THEOREM ImplementsCoherentMemory ==
  ASSUME Overtake = {}, ~CleanToT, BoardFollows
  PROVE  Spec => IsCoherentMemory
<1>1. /\ TypeOK /\ IdInv /\ MapInv /\ CMOInv /\ CopyInv /\ StatusInv /\ ReleaseInv
      /\ PermInv /\ CarryInv /\ TypeOK' /\ [Next]_vars
      => [Caches!Next]_Caches!vars
  BY CachesStep
<1> QED BY <1>1, CachesInit, CarryHolds, PTL DEF Spec, IsCoherentMemory, Caches!Spec
=============================================================================
