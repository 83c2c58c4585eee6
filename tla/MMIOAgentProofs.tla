-------------------------- MODULE MMIOAgentProofs --------------------------
(***************************************************************************)
(* Proofs about MMIOAgent for every number of agents, words, bytes and     *)
(* ids: types, and, on a device that never keeps channel A waiting, that   *)
(* the table of addresses in flight neither leaks a mark nor frees one     *)
(* twice, and that the tester's copy follows the device and no Get is      *)
(* reported falsely but at bytes where operations at two addresses of a    *)
(* word have crossed.                                                      *)
(***************************************************************************)
EXTENDS MMIOAgent, TLAPS

\* Between an agent's fire_a and its update_signal nothing is on its port.
PresentedWindow(c) ==
  valid[c] => pendingA[c] # {} /\ (pos < PosA(c) \/ PosUpdate(c) <= pos)

\* One request is pending; its id is in use, and localStatus knows it if and
\* only if it is presented.
OnePending(c) ==
  /\ \A q, r \in pendingA[c] : q = r
  /\ \A r \in pendingA[c] :
       /\ r.source \notin idle[c] \cup freeSlot[c]
       /\ ~valid[c] => localStatus[c][r.source] = {}
       /\ valid[c] => \E e \in localStatus[c][r.source] : e.status = "S_SENDING_A"

\* localStatus holds one operation per id, and none for an id not in use.
OneEntry(c) ==
  /\ idle[c] \cap freeSlot[c] = {}
  /\ \A i \in SourceID :
       /\ \A e, f \in localStatus[c][i] : e = f
       /\ i \in idle[c] \cup freeSlot[c] => localStatus[c][i] = {}

\* The device owes one answer per id, to an operation that waits for it.
SameId(q, r) == q.core = r.core /\ q.req.source = r.req.source

OwedOnce ==
  /\ \A q, r \in reqs : SameId(q, r) => q = r
  /\ \A a, b \in answers : SameId(a, b) => a = b
  /\ \A q \in reqs, a \in answers : ~SameId(q, a)
  /\ \A o \in reqs \cup answers :
       \E e \in localStatus[o.core][o.req.source] : e.status = "S_A_WAITING_D"

\* The inductive strengthening of MarkHasOwner.
MarkInv ==
  /\ \A c \in Core : PresentedWindow(c) /\ OnePending(c) /\ OneEntry(c)
  /\ OwedOnce
  /\ MarkHasOwner

-----------------------------------------------------------------------------
(* Types *)

\* The handlers keep to their places in the cycle.
LEMMA Places ==
  ASSUME NEW c \in Core
  PROVE  /\ {PosA(c), PosD(c), PosFuzz(c), PosUpdate(c)} \subseteq 0 .. 4 * NCore
         /\ NCore \in Nat
  BY MMIOCoreAssumption DEF Core, PosA, PosD, PosFuzz, PosUpdate

\* Writing a Put's bytes gives a word again.
LEMMA WordOps ==
  ASSUME NEW bytes \in [Byte -> Data], NEW r \in Req
  PROVE  Written(bytes, r) \in [Byte -> Data]
  BY DEF Written, Req

LEMMA CrossedType ==
  ASSUME TypeOK, NEW r \in Req
  PROVE  Crossed(r) \subseteq Word \X Byte
<1>1. Bytes(r) \subseteq Word \X Byte
  BY DEF Bytes, Req, Address
<1> QED BY <1>1 DEF Crossed, Meeting, TypeOK

LEMMA TypeInit == Init => TypeOK
<1> SUFFICES ASSUME Init PROVE TypeOK
  OBVIOUS
<1>1. pos \in 0 .. 4 * NCore
  BY MMIOCoreAssumption DEF Init
<1> QED BY <1>1, MMIOWordAssumption DEF Init, TypeOK

LEMMA TypePerform ==
  ASSUME TypeOK, NEW q \in reqs, Perform(q)
  PROVE  TypeOK'
<1>1. q.req \in Req /\ q.req.addr[1] \in Word /\ q.core \in Core
  BY DEF TypeOK, Req, Address
<1>2. word' \in [Word -> [Byte -> Data]]
  BY <1>1, WordOps DEF Perform, TypeOK
<1>3. [core |-> q.core, req |-> q.req, read |-> ReadFor(q.req)]
        \in [core : Core, req : Req, read : [Byte -> Data]]
  BY <1>1, MMIOWordAssumption DEF TypeOK, ReadFor
<1>4. answers' \subseteq [core : Core, req : Req, read : [Byte -> Data]]
  BY <1>3 DEF Perform, TypeOK
<1>5. reqs' \subseteq [core : Core, req : Req]
  BY DEF Perform, TypeOK
<1> QED BY <1>2, <1>4, <1>5 DEF Perform, TypeOK, portVars, idVars, globalVars

LEMMA TypeFireA ==
  ASSUME TypeOK, NEW c \in Core, FireA(c)
  PROVE  TypeOK'
<1>1. PICK r \in pendingA[c] :
       /\ reqs' = reqs \cup {[core |-> c, req |-> r]}
       /\ localStatus' = [localStatus EXCEPT ![c][r.source] =
            {[dataCheck |-> e.dataCheck, status |-> "S_A_WAITING_D", req |-> e.req] : e \in @}]
  BY DEF FireA
<1>2. r \in Req /\ r.source \in SourceID
  BY DEF TypeOK, Req
<1>3. {[dataCheck |-> e.dataCheck, status |-> "S_A_WAITING_D", req |-> e.req]
         : e \in localStatus[c][r.source]} \subseteq Inflight
  BY <1>2 DEF TypeOK, Inflight
<1>4. localStatus' \in [Core -> [SourceID -> SUBSET Inflight]]
  BY <1>1, <1>2, <1>3 DEF TypeOK
<1>5. reqs' \subseteq [core : Core, req : Req]
  BY <1>1, <1>2 DEF TypeOK
<1>6. pos' \in 0 .. 4 * NCore
  BY Places DEF FireA, At
<1> QED BY <1>4, <1>5, <1>6 DEF FireA, TypeOK, idVars, globalVars

LEMMA TypeFireD ==
  ASSUME TypeOK, NEW c \in Core, FireD(c)
  PROVE  TypeOK'
<1>1. PICK a \in answers :
       /\ answers' = answers \ {a}
       /\ \/ \E e \in localStatus[c][a.req.source] : AnswerD(c, a, e)
          \/ UNCHANGED globalVars
       /\ localStatus' = [localStatus EXCEPT ![c][a.req.source] = {}]
       /\ freeSlot' = [freeSlot EXCEPT ![c] = {a.req.source}]
  BY DEF FireD
<1>2. a.req.source \in SourceID
  BY DEF TypeOK, Req
<1>3. data' \in [Word -> [Byte -> Data]] /\ inflightAddress' \subseteq Address
  <2>1. CASE UNCHANGED globalVars
    BY <2>1 DEF globalVars, TypeOK
  <2>2. CASE \E e \in localStatus[c][a.req.source] : AnswerD(c, a, e)
    <3>1. PICK e \in localStatus[c][a.req.source] : AnswerD(c, a, e)
      BY <2>2
    <3>2. e.req \in Req /\ e.req.addr[1] \in Word
      BY <1>2 DEF TypeOK, Inflight, Req, Address
    <3>3. UpdateData(e.req) \in [Word -> [Byte -> Data]]
      BY <3>2 DEF UpdateData, TypeOK, Req
    <3> QED BY <3>1, <3>3 DEF AnswerD, FreedInflight, TypeOK
  <2> QED BY <1>1, <2>1, <2>2
<1>4. localStatus' \in [Core -> [SourceID -> SUBSET Inflight]]
  BY <1>1, <1>2 DEF TypeOK
<1>5. freeSlot' \in [Core -> SUBSET SourceID]
  BY <1>1, <1>2 DEF TypeOK
<1>6. pos' \in 0 .. 4 * NCore
  BY Places DEF FireD, At
<1> QED BY <1>1, <1>3, <1>4, <1>5, <1>6 DEF FireD, TypeOK, portVars

LEMMA TypeFuzz ==
  ASSUME TypeOK, NEW c \in Core, Fuzz(c)
  PROVE  TypeOK'
<1>1. pos' \in 0 .. 4 * NCore
  BY Places DEF Fuzz, At
<1> QED BY <1>1 DEF Fuzz, TypeOK, globalVars, dutVars

LEMMA TypeUpdate ==
  ASSUME TypeOK, NEW c \in Core, Update(c)
  PROVE  TypeOK'
<1>1. pos' \in 0 .. 4 * NCore
  BY Places, MMIOCoreAssumption DEF Update
<1>2. /\ localStatus' \in [Core -> [SourceID -> SUBSET Inflight]]
      /\ valid' \in [Core -> BOOLEAN]
      /\ inflightAddress' \subseteq Address
      /\ crossed' \subseteq Word \X Byte
  <2>1. CASE pendingA[c] = {} /\ valid' = [valid EXCEPT ![c] = FALSE]
               /\ UNCHANGED <<localStatus, inflightAddress, crossed>>
    BY <2>1 DEF TypeOK
  <2>2. CASE \E r \in pendingA[c] : SendA(c, r)
    <3>1. PICK r \in pendingA[c] : SendA(c, r)
      BY <2>2
    <3>2. r \in Req /\ r.source \in SourceID /\ r.addr \in Address
      BY DEF TypeOK, Req
    <3>3. [dataCheck |-> Verified(r), status |-> "S_SENDING_A", req |-> r] \in Inflight
      BY <3>2 DEF Inflight, Verified
    <3>4. CASE UNCHANGED <<localStatus, valid, crossed>>
      BY <3>1, <3>2, <3>4 DEF SendA, TypeOK
    <3>5. CASE /\ localStatus' = [localStatus EXCEPT ![c][r.source] =
                    {[dataCheck |-> Verified(r), status |-> "S_SENDING_A", req |-> r]}]
               /\ valid' = [valid EXCEPT ![c] = TRUE]
               /\ crossed' = Crossed(r)
      <4> DEFINE entry == {[dataCheck |-> Verified(r), status |-> "S_SENDING_A", req |-> r]}
      <4>1. entry \in SUBSET Inflight
        BY <3>3
      <4> HIDE DEF entry
      <4>2. localStatus' = [localStatus EXCEPT ![c][r.source] = entry]
        BY <3>5 DEF entry
      <4> QED BY <3>1, <3>2, <3>5, <4>1, <4>2, CrossedType DEF SendA, TypeOK
    <3> QED BY <3>1, <3>4, <3>5 DEF SendA
  <2> QED BY <2>1, <2>2 DEF Update
<1>3. idle' \in [Core -> SUBSET SourceID] /\ freeSlot' \in [Core -> SUBSET SourceID]
  BY DEF Update, TypeOK
<1> QED BY <1>1, <1>2, <1>3 DEF Update, TypeOK, dutVars

LEMMA TypeStep == TypeOK /\ [Next]_vars => TypeOK'
<1> SUFFICES ASSUME TypeOK, [Next]_vars PROVE TypeOK'
  OBVIOUS
<1>1. CASE \E q \in reqs : Perform(q)
  BY <1>1, TypePerform
<1>2. CASE \E c \in Core : FireA(c) \/ FireD(c) \/ Fuzz(c) \/ Update(c)
  BY <1>2, TypeFireA, TypeFireD, TypeFuzz, TypeUpdate
<1>3. CASE UNCHANGED vars
  BY <1>3 DEF vars, TypeOK, portVars, idVars, globalVars, dutVars
<1> QED BY <1>1, <1>2, <1>3 DEF Next

\* In every run the tables of the MMIO agents hold values of their kinds.
THEOREM MMIOTypeCorrect == Spec => []TypeOK
  BY TypeInit, TypeStep, PTL DEF Spec

-----------------------------------------------------------------------------
(* Marks *)

\* A step that leaves the owners and the marks alone keeps them matched.
LEMMA MarksStill ==
  ASSUME MarkHasOwner, inflightAddress' = inflightAddress,
         \A a \in Address : Owners(a)' = Owners(a)
  PROVE  MarkHasOwner'
  BY DEF MarkHasOwner

\* No handler passes a request the device has to take: a presented request stays
\* in its window.
LEMMA WindowStays ==
  ASSUME TypeOK, ~AStall, NEW c \in Core, NEW d \in Core, PresentedWindow(d),
         valid'[d] = valid[d], pendingA'[d] = pendingA[d],
         NEW p \in {PosA(c), PosD(c), PosFuzz(c)}, p # PosA(d), At(p)
  PROVE  PresentedWindow(d)'
<1> SUFFICES ASSUME valid[d] PROVE pos' < PosA(d) \/ PosUpdate(d) <= pos'
  BY DEF PresentedWindow, PosA, PosUpdate
<1>1. /\ c \in Int /\ d \in Int /\ NCore \in Int /\ pos \in Int /\ pos' = p /\ pos < p
      /\ 0 <= c /\ c < NCore /\ 0 <= d /\ d < NCore
  BY MMIOCoreAssumption DEF Core, TypeOK, At, Reach
<1>2. ~(pos < PosA(d) /\ PosA(d) < p)
  BY DEF At, Reach
<1>3. pos < PosA(d) \/ PosUpdate(d) <= pos
  BY DEF PresentedWindow
<1> QED BY <1>1, <1>2, <1>3 DEF PosA, PosD, PosFuzz, PosUpdate

\* An agent whose ids, port and entries a step leaves alone keeps its part.
LEMMA AgentStill ==
  ASSUME NEW d \in Core, OnePending(d), OneEntry(d),
         pendingA'[d] = pendingA[d], valid'[d] = valid[d],
         localStatus'[d] = localStatus[d],
         idle'[d] = idle[d], freeSlot'[d] = freeSlot[d]
  PROVE  OnePending(d)' /\ OneEntry(d)'
  BY DEF OnePending, OneEntry

LEMMA MarkInit == Init => MarkInv
<1> SUFFICES ASSUME Init PROVE MarkInv
  OBVIOUS
<1>1. ASSUME NEW c \in Core PROVE PresentedWindow(c) /\ OnePending(c) /\ OneEntry(c)
  BY DEF Init, PresentedWindow, OnePending, OneEntry
<1>2. OwedOnce
  BY DEF Init, OwedOnce
<1>3. ASSUME NEW a \in Address PROVE Owners(a) = {}
  BY DEF Init, Owners
<1>4. MarkHasOwner
  BY <1>3 DEF Init, MarkHasOwner
<1> QED BY <1>1, <1>2, <1>4 DEF MarkInv

\* The device performs a request: what it owes is now an answer.
LEMMA MarkPerform ==
  ASSUME TypeOK, MarkInv, NEW q \in reqs, Perform(q)
  PROVE  MarkInv'
<1>1. UNCHANGED <<pos, pendingA, valid, localStatus, idle, freeSlot, inflightAddress>>
  BY DEF Perform, portVars, idVars, globalVars
<1>2. ASSUME NEW c \in Core PROVE PresentedWindow(c)' /\ OnePending(c)' /\ OneEntry(c)'
  BY <1>1 DEF MarkInv, PresentedWindow, OnePending, OneEntry, PosA, PosUpdate
<1>3. PICK a : /\ a.core = q.core /\ a.req = q.req
               /\ reqs' = reqs \ {q} /\ answers' = answers \cup {a}
  BY DEF Perform
<1>4. OwedOnce
  BY DEF MarkInv
<1>5. OwedOnce'
  BY <1>1, <1>3, <1>4 DEF OwedOnce, SameId
<1>6. MarkHasOwner'
  BY <1>1 DEF MarkInv, MarkHasOwner, Owners
<1> QED BY <1>2, <1>5, <1>6 DEF MarkInv

\* fire_a: the operation waits for its answer; marks and owners stay.
LEMMA MarkFireA ==
  ASSUME TypeOK, MarkInv, ~AStall, NEW c \in Core, FireA(c)
  PROVE  MarkInv'
<1> DEFINE waiting(e) ==
      [dataCheck |-> e.dataCheck, status |-> "S_A_WAITING_D", req |-> e.req]
<1>1. PICK r \in pendingA[c] :
       /\ reqs' = reqs \cup {[core |-> c, req |-> r]}
       /\ localStatus' = [localStatus EXCEPT ![c][r.source] = {waiting(e) : e \in @}]
  BY DEF FireA
<1>2. r.source \in SourceID /\ valid[c] /\ valid'[c] = FALSE /\ pendingA'[c] = {}
  BY DEF TypeOK, Req, FireA
<1>3. UNCHANGED <<idle, freeSlot, inflightAddress, answers>>
  BY DEF FireA, idVars, globalVars
<1>4. PICK e \in localStatus[c][r.source] : e.status = "S_SENDING_A"
  BY <1>2 DEF MarkInv, OnePending
<1>5. localStatus[c][r.source] = {e} /\ localStatus'[c][r.source] = {waiting(e)}
  BY <1>1, <1>2, <1>4 DEF MarkInv, OneEntry, TypeOK
<1>6. ASSUME NEW d \in Core, NEW i \in SourceID, <<d, i>> # <<c, r.source>>
      PROVE  localStatus'[d][i] = localStatus[d][i]
  BY <1>1, <1>2, <1>6 DEF TypeOK
<1>7. ASSUME NEW d \in Core
      PROVE  PresentedWindow(d)' /\ OnePending(d)' /\ OneEntry(d)'
  <2>1. CASE d # c
    <3>1. pendingA'[d] = pendingA[d] /\ valid'[d] = valid[d]
             /\ localStatus'[d] = localStatus[d]
      BY <1>1, <2>1 DEF FireA, TypeOK
    <3>2. OnePending(d)' /\ OneEntry(d)'
      BY <1>3, <3>1, AgentStill DEF MarkInv
    <3>3. PosA(c) # PosA(d)
      BY <2>1, MMIOCoreAssumption DEF PosA, Core
    <3>4. PresentedWindow(d)'
      BY <3>1, <3>3, WindowStays DEF FireA, MarkInv
    <3> QED BY <3>2, <3>4
  <2>2. CASE d = c
    <3>1. PresentedWindow(c)' /\ OnePending(c)'
      BY <1>2 DEF PresentedWindow, OnePending
    <3>2. ASSUME NEW i \in SourceID
          PROVE  /\ \A f, g \in localStatus'[c][i] : f = g
                 /\ i \in idle'[c] \cup freeSlot'[c] => localStatus'[c][i] = {}
      BY <1>3, <1>5, <1>6 DEF MarkInv, OneEntry
    <3>3. OneEntry(c)'
      BY <1>3, <3>2 DEF MarkInv, OneEntry
    <3> QED BY <2>2, <3>1, <3>3
  <2> QED BY <2>1, <2>2
<1>8. OwedOnce'
  <2>1. ASSUME NEW o \in reqs \cup answers
        PROVE  /\ ~(o.core = c /\ o.req.source = r.source)
               /\ \E f \in localStatus'[o.core][o.req.source] : f.status = "S_A_WAITING_D"
    <3>1. o.core \in Core /\ o.req.source \in SourceID
      BY DEF TypeOK, Req
    <3>2. \E f \in localStatus[o.core][o.req.source] : f.status = "S_A_WAITING_D"
      BY DEF MarkInv, OwedOnce
    <3>3. <<o.core, o.req.source>> # <<c, r.source>>
      BY <1>4, <1>5, <3>2
    <3> QED BY <1>6, <3>1, <3>2, <3>3
  <2>2. \E f \in localStatus'[c][r.source] : f.status = "S_A_WAITING_D"
    BY <1>5
  <2>3. OwedOnce
    BY DEF MarkInv
  <2> QED BY <1>1, <1>3, <2>1, <2>2, <2>3 DEF OwedOnce, SameId
<1>9. MarkHasOwner'
  <2>1. ASSUME NEW a \in Address, NEW o \in Core \X SourceID
        PROVE  (\E f \in localStatus'[o[1]][o[2]] : f.dataCheck /\ f.req.addr = a)
                 <=> (\E f \in localStatus[o[1]][o[2]] : f.dataCheck /\ f.req.addr = a)
    <3>1. CASE o = <<c, r.source>>
      <4>1. waiting(e).dataCheck = e.dataCheck /\ waiting(e).req = e.req
        OBVIOUS
      <4>2. o[1] = c /\ o[2] = r.source
        BY <3>1
      <4> HIDE DEF waiting
      <4> QED BY <1>5, <4>1, <4>2
    <3>2. CASE o # <<c, r.source>>
      BY <1>6, <3>2
    <3> QED BY <3>1, <3>2
  <2>2. \A a \in Address : Owners(a)' = Owners(a)
    BY <2>1 DEF Owners
  <2> QED BY <1>3, <2>2, MarksStill DEF MarkInv
<1> QED BY <1>7, <1>8, <1>9 DEF MarkInv

\* fire_d: the answer frees its id, and its mark if it owns one.
LEMMA MarkFireD ==
  ASSUME TypeOK, MarkInv, ~AStall, NEW c \in Core, FireD(c)
  PROVE  MarkInv'
<1>1. PICK a \in answers :
       /\ a.core = c
       /\ answers' = answers \ {a}
       /\ \/ \E e \in localStatus[c][a.req.source] : AnswerD(c, a, e)
          \/ localStatus[c][a.req.source] = {}
       /\ localStatus' = [localStatus EXCEPT ![c][a.req.source] = {}]
       /\ freeSlot' = [freeSlot EXCEPT ![c] = {a.req.source}]
  BY DEF FireD
<1> DEFINE i == a.req.source
<1>2. i \in SourceID
  BY DEF TypeOK, Req
<1>3. UNCHANGED <<pendingA, valid, idle, reqs>>
  BY DEF FireD, portVars
<1>4. PICK e \in localStatus[c][i] : e.status = "S_A_WAITING_D"
  BY <1>1 DEF MarkInv, OwedOnce
<1>5. localStatus[c][i] = {e} /\ localStatus'[c][i] = {}
  BY <1>1, <1>2, <1>4 DEF MarkInv, OneEntry, TypeOK
<1>6. inflightAddress' = FreedInflight(e)
  BY <1>1, <1>5 DEF AnswerD
<1>7. ASSUME NEW d \in Core, NEW j \in SourceID, <<d, j>> # <<c, i>>
      PROVE  localStatus'[d][j] = localStatus[d][j]
  BY <1>1, <1>2, <1>7 DEF TypeOK
<1> HIDE DEF i
<1>8. freeSlot'[c] = {i} /\ i \notin idle[c]
  BY <1>1, <1>2, <1>4 DEF TypeOK, MarkInv, OneEntry, i
<1>9. ASSUME NEW d \in Core
      PROVE  PresentedWindow(d)' /\ OnePending(d)' /\ OneEntry(d)'
  <2>1. PosD(c) # PosA(d)
    BY MMIOCoreAssumption DEF PosA, PosD, Core
  <2>2. PresentedWindow(d)'
    BY <1>3, <2>1, WindowStays DEF FireD, MarkInv
  <2>3. CASE d # c
    <3>1. freeSlot'[d] = freeSlot[d] /\ localStatus'[d] = localStatus[d]
      BY <1>1, <2>3 DEF TypeOK
    <3> QED BY <1>3, <2>2, <3>1, AgentStill DEF MarkInv
  <2>4. CASE d = c
    <3>1. ASSUME NEW r \in pendingA[c] PROVE r.source # i /\ r.source \in SourceID
      <4>1. /\ ~valid[c] => localStatus[c][r.source] = {}
            /\ valid[c] => \E f \in localStatus[c][r.source] : f.status = "S_SENDING_A"
        BY DEF MarkInv, OnePending
      <4>2. \A f \in localStatus[c][i] : f.status = "S_A_WAITING_D"
        BY <1>4, <1>5
      <4>3. "S_SENDING_A" # "S_A_WAITING_D"
        OBVIOUS
      <4>4. r.source # i
        BY <1>4, <4>1, <4>2, <4>3
      <4> QED BY <4>4 DEF TypeOK, Req
    <3>2. ASSUME NEW r \in pendingA[c] PROVE localStatus'[c][r.source] = localStatus[c][r.source]
      BY <1>7, <3>1
    <3>3. OnePending(c)'
      <4>1. OnePending(c)
        BY DEF MarkInv
      <4>2. ASSUME NEW r \in pendingA[c] PROVE r.source \notin idle'[c] \cup freeSlot'[c]
        BY <1>3, <1>8, <3>1, <4>1 DEF OnePending
      <4> QED BY <1>3, <3>2, <4>1, <4>2 DEF OnePending
    <3>4. ASSUME NEW j \in SourceID
          PROVE  /\ \A f, g \in localStatus'[c][j] : f = g
                 /\ j \in idle'[c] \cup freeSlot'[c] => localStatus'[c][j] = {}
      BY <1>3, <1>5, <1>7, <1>8 DEF MarkInv, OneEntry
    <3>5. OneEntry(c)'
      BY <1>3, <1>8, <3>4 DEF OneEntry
    <3> QED BY <2>2, <2>4, <3>3, <3>5
  <2> QED BY <2>3, <2>4
<1>10. OwedOnce'
  <2>1. OwedOnce
    BY DEF MarkInv
  <2>2. ASSUME NEW o \in reqs' \cup answers'
        PROVE  \E f \in localStatus'[o.core][o.req.source] : f.status = "S_A_WAITING_D"
    <3>1. o \in reqs \cup answers /\ ~(o.core = c /\ o.req.source = i)
      BY <1>1, <1>3, <2>1 DEF OwedOnce, SameId, i
    <3>2. o.core \in Core /\ o.req.source \in SourceID
      BY <3>1 DEF TypeOK, Req
    <3>3. localStatus'[o.core][o.req.source] = localStatus[o.core][o.req.source]
      BY <1>7, <3>1, <3>2
    <3> QED BY <2>1, <3>1, <3>3 DEF OwedOnce
  <2> QED BY <1>1, <1>3, <2>1, <2>2 DEF OwedOnce
<1>11. MarkHasOwner'
  <2>1. ASSUME NEW x \in Address PROVE Owners(x)' = Owners(x) \ {<<c, i>>}
    <3>1. ASSUME NEW o \in Core \X SourceID
          PROVE  (\E f \in localStatus'[o[1]][o[2]] : f.dataCheck /\ f.req.addr = x)
                   <=> /\ o # <<c, i>>
                       /\ \E f \in localStatus[o[1]][o[2]] : f.dataCheck /\ f.req.addr = x
      <4>1. CASE o = <<c, i>>
        BY <1>5, <4>1
      <4>2. CASE o # <<c, i>>
        BY <1>7, <4>2
      <4> QED BY <4>1, <4>2
    <3> QED BY <3>1 DEF Owners
  <2>2. ASSUME NEW x \in Address
        PROVE  <<c, i>> \in Owners(x) <=> e.dataCheck /\ e.req.addr = x
    BY <1>2, <1>5 DEF Owners, i
  <2>3. ASSUME NEW x \in Address
        PROVE  /\ x \in inflightAddress' <=> Owners(x)' # {}
               /\ \A o, p \in Owners(x)' : o = p
    <3>1. /\ x \in inflightAddress <=> Owners(x) # {}
          /\ \A o, p \in Owners(x) : o = p
      BY DEF MarkInv, MarkHasOwner
    <3>2. CASE e.dataCheck /\ e.req.addr = x
      BY <1>6, <2>1, <2>2, <3>1, <3>2 DEF FreedInflight
    <3>3. CASE ~(e.dataCheck /\ e.req.addr = x)
      BY <1>6, <2>1, <2>2, <3>1, <3>3 DEF FreedInflight
    <3> QED BY <3>2, <3>3
  <2> QED BY <2>3 DEF MarkHasOwner
<1> QED BY <1>9, <1>10, <1>11 DEF MarkInv

\* The fuzzer's request takes an idle id; nothing of it is presented yet.
LEMMA MarkFuzz ==
  ASSUME TypeOK, MarkInv, ~AStall, NEW c \in Core, Fuzz(c)
  PROVE  MarkInv'
<1>1. PICK r \in Req :
       /\ NextID(c, r.source)
       /\ pendingA' = [pendingA EXCEPT ![c] = {r}]
       /\ idle' = [idle EXCEPT ![c] = @ \ {r.source}]
  BY DEF Fuzz
<1>2. UNCHANGED <<valid, localStatus, freeSlot, inflightAddress, reqs, answers>>
  BY DEF Fuzz, globalVars, dutVars
<1>3. ASSUME NEW d \in Core
      PROVE  PresentedWindow(d)' /\ OnePending(d)' /\ OneEntry(d)'
  <2>1. CASE d # c
    <3>1. pendingA'[d] = pendingA[d] /\ idle'[d] = idle[d]
      BY <1>1, <2>1 DEF TypeOK
    <3>2. PosFuzz(c) # PosA(d)
      BY MMIOCoreAssumption DEF PosA, PosFuzz, Core
    <3>3. PresentedWindow(d)'
      BY <1>2, <3>1, <3>2, WindowStays DEF Fuzz, MarkInv
    <3> QED BY <1>2, <3>1, <3>3, AgentStill DEF MarkInv
  <2>2. CASE d = c
    <3>1. ~valid[c]
      BY DEF Fuzz, MarkInv, PresentedWindow
    <3>2. pendingA'[c] = {r} /\ idle'[c] = idle[c] \ {r.source} /\ r.source \in idle[c]
      BY <1>1 DEF TypeOK, NextID
    <3>3. localStatus[c][r.source] = {} /\ r.source \notin freeSlot[c]
      BY <3>2 DEF MarkInv, OneEntry, TypeOK
    <3>4. PresentedWindow(c)' /\ OnePending(c)'
      BY <1>2, <3>1, <3>2, <3>3 DEF PresentedWindow, OnePending
    <3>5. OneEntry(c)'
      BY <1>2, <3>2 DEF MarkInv, OneEntry
    <3> QED BY <2>2, <3>4, <3>5
  <2> QED BY <2>1, <2>2
<1>4. OwedOnce'
  BY <1>2 DEF MarkInv, OwedOnce
<1>5. MarkHasOwner'
  BY <1>2 DEF MarkInv, MarkHasOwner, Owners
<1> QED BY <1>3, <1>4, <1>5 DEF MarkInv

\* At its update_signal an agent has nothing on its port, for the device has taken
\* what it presented; the others stay in their windows.
LEMMA UpdateWindow ==
  ASSUME TypeOK, ~AStall, NEW c \in Core, NEW d \in Core, PresentedWindow(d), Update(c)
  PROVE  /\ d = c => ~valid[d]
         /\ valid[d] => pos' < PosA(d) \/ PosUpdate(d) <= pos'
         /\ pos' < PosA(c) \/ PosUpdate(c) <= pos'
<1>1. /\ c \in Int /\ d \in Int /\ NCore \in Int /\ pos \in Int
      /\ 0 <= c /\ c < NCore /\ 0 <= d /\ d < NCore
  BY MMIOCoreAssumption DEF Core, TypeOK
<1>2. pos' = 0 \/ pos' = PosUpdate(c)
  BY DEF Update
<1>3. valid[d] => pos < PosA(d) \/ PosUpdate(d) <= pos
  BY DEF PresentedWindow
<1>4. CASE c = 0
  <2>1. pos < PosUpdate(0) /\ (valid[d] => ~(pos < PosA(d) /\ PosA(d) < PosUpdate(0)))
    BY <1>4 DEF Update, Reach
  <2>2. ~valid[d]
    BY <1>1, <1>3, <2>1 DEF PosA, PosUpdate
  <2> QED BY <1>1, <1>2, <2>2 DEF PosA, PosUpdate
<1>5. CASE c # 0
  <2>1. pos = PosUpdate(c - 1)
    BY <1>5 DEF Update
  <2>2. d = c => ~valid[d]
    BY <1>1, <1>3, <2>1 DEF PosA, PosUpdate
  <2>3. valid[d] => pos' < PosA(d) \/ PosUpdate(d) <= pos'
    BY <1>1, <1>2, <1>3, <2>1 DEF PosA, PosUpdate
  <2> QED BY <1>1, <1>2, <2>2, <2>3 DEF PosA, PosUpdate
<1> QED BY <1>4, <1>5

\* The agents a presentation does not concern.
LEMMA MarkUpdateOthers ==
  ASSUME TypeOK, MarkInv, ~AStall, NEW c \in Core, Update(c),
         NEW d \in Core, d # c, valid'[d] = valid[d], localStatus'[d] = localStatus[d]
  PROVE  PresentedWindow(d)' /\ OnePending(d)' /\ OneEntry(d)'
<1>1. pendingA'[d] = pendingA[d] /\ idle'[d] = idle[d] /\ freeSlot'[d] = freeSlot[d]
  BY DEF Update, TypeOK
<1>2. PresentedWindow(d)
  BY DEF MarkInv
<1>3. valid[d] => pos' < PosA(d) \/ PosUpdate(d) <= pos'
  BY <1>2, UpdateWindow
<1>4. PresentedWindow(d)'
  BY <1>1, <1>2, <1>3 DEF PresentedWindow, PosA, PosUpdate
<1> QED BY <1>1, <1>4, AgentStill DEF MarkInv

\* send_a has nothing to present, or a Put that finds its address in flight.
LEMMA MarkUpdateSilent ==
  ASSUME TypeOK, MarkInv, ~AStall, NEW c \in Core, Update(c),
         valid' = valid \/ valid' = [valid EXCEPT ![c] = FALSE],
         UNCHANGED <<localStatus, inflightAddress>>
  PROVE  MarkInv'
<1>1. UNCHANGED <<pendingA, reqs, answers>>
  BY DEF Update, dutVars
<1>2. ~valid[c]
  BY UpdateWindow DEF MarkInv
<1>3. \A d \in Core : valid'[d] = valid[d]
  BY <1>2 DEF TypeOK
<1>4. ASSUME NEW d \in Core
      PROVE  PresentedWindow(d)' /\ OnePending(d)' /\ OneEntry(d)'
  <2>1. CASE d # c
    BY <1>3, <2>1, MarkUpdateOthers
  <2>2. CASE d = c
    <3>1. idle'[c] = idle[c] \cup freeSlot[c] /\ freeSlot'[c] = {}
      BY DEF Update, TypeOK
    <3>2. PresentedWindow(c)'
      BY <1>2, <1>3 DEF PresentedWindow
    <3>3. OnePending(c)'
      BY <1>1, <1>2, <1>3, <3>1 DEF MarkInv, OnePending
    <3>4. OneEntry(c)'
      BY <3>1 DEF MarkInv, OneEntry
    <3> QED BY <2>2, <3>2, <3>3, <3>4
  <2> QED BY <2>1, <2>2
<1>5. OwedOnce'
  BY <1>1 DEF MarkInv, OwedOnce
<1>6. MarkHasOwner'
  BY DEF MarkInv, MarkHasOwner, Owners
<1> QED BY <1>4, <1>5, <1>6 DEF MarkInv

\* send_a presents a request: it marks its address, and owns the mark, unless the
\* address is in flight.
LEMMA MarkUpdatePresent ==
  ASSUME TypeOK, MarkInv, ~AStall, NEW c \in Core, Update(c), NEW r \in pendingA[c],
         inflightAddress' = inflightAddress \cup {r.addr},
         localStatus' = [localStatus EXCEPT ![c][r.source] =
           {[dataCheck |-> Verified(r), status |-> "S_SENDING_A", req |-> r]}],
         valid' = [valid EXCEPT ![c] = TRUE]
  PROVE  MarkInv'
<1>1. UNCHANGED <<pendingA, reqs, answers>>
  BY DEF Update, dutVars
<1>2. ~valid[c] /\ r.source \in SourceID /\ r.addr \in Address
  BY UpdateWindow DEF MarkInv, TypeOK, Req
<1>3. localStatus[c][r.source] = {} /\ r.source \notin idle[c] \cup freeSlot[c]
  BY <1>2 DEF MarkInv, OnePending
<1> DEFINE e == [dataCheck |-> Verified(r), status |-> "S_SENDING_A", req |-> r]
<1>4. /\ e.dataCheck = Verified(r) /\ e.status = "S_SENDING_A" /\ e.req = r
      /\ localStatus'[c][r.source] = {e}
  BY <1>2 DEF TypeOK
<1> HIDE DEF e
<1>5. ASSUME NEW d \in Core, NEW i \in SourceID, <<d, i>> # <<c, r.source>>
      PROVE  localStatus'[d][i] = localStatus[d][i]
  BY <1>2, <1>5 DEF TypeOK
<1>6. ASSUME NEW d \in Core
      PROVE  PresentedWindow(d)' /\ OnePending(d)' /\ OneEntry(d)'
  <2>1. CASE d # c
    <3>1. valid'[d] = valid[d] /\ localStatus'[d] = localStatus[d]
      BY <1>2, <2>1 DEF TypeOK
    <3> QED BY <2>1, <3>1, MarkUpdateOthers
  <2>2. CASE d = c
    <3>1. idle'[c] = idle[c] \cup freeSlot[c] /\ freeSlot'[c] = {} /\ valid'[c] = TRUE
      BY DEF Update, TypeOK
    <3>2. pos' < PosA(c) \/ PosUpdate(c) <= pos'
      BY UpdateWindow DEF MarkInv
    <3>3. PresentedWindow(c)'
      BY <1>1, <3>2 DEF PresentedWindow, PosA, PosUpdate
    <3>4. pendingA[c] = {r}
      BY DEF MarkInv, OnePending
    <3>5. OnePending(c)'
      BY <1>1, <1>3, <1>4, <3>1, <3>4 DEF OnePending
    <3>6. ASSUME NEW i \in SourceID
          PROVE  /\ \A f, g \in localStatus'[c][i] : f = g
                 /\ i \in idle'[c] \cup freeSlot'[c] => localStatus'[c][i] = {}
      <4>1. CASE i = r.source
        BY <1>3, <1>4, <3>1, <4>1
      <4>2. CASE i # r.source
        BY <1>5, <3>1, <4>2 DEF MarkInv, OneEntry
      <4> QED BY <4>1, <4>2
    <3>7. OneEntry(c)'
      BY <3>1, <3>6 DEF OneEntry
    <3> QED BY <2>2, <3>3, <3>5, <3>7
  <2> QED BY <2>1, <2>2
<1>7. OwedOnce'
  <2>1. ASSUME NEW o \in reqs \cup answers
        PROVE  localStatus'[o.core][o.req.source] = localStatus[o.core][o.req.source]
    <3>1. o.core \in Core /\ o.req.source \in SourceID
      BY DEF TypeOK, Req
    <3>2. localStatus[o.core][o.req.source] # {}
      BY DEF MarkInv, OwedOnce
    <3>3. <<o.core, o.req.source>> # <<c, r.source>>
      BY <1>3, <3>2
    <3> QED BY <1>5, <3>1, <3>3
  <2> QED BY <1>1, <2>1 DEF MarkInv, OwedOnce
<1>8. MarkHasOwner'
  <2>1. ASSUME NEW x \in Address
        PROVE  Owners(x)' = Owners(x) \cup {o \in {<<c, r.source>>} : Verified(r) /\ r.addr = x}
    <3>1. ASSUME NEW o \in Core \X SourceID
          PROVE  (\E f \in localStatus'[o[1]][o[2]] : f.dataCheck /\ f.req.addr = x)
                   <=> \/ o = <<c, r.source>> /\ Verified(r) /\ r.addr = x
                       \/ \E f \in localStatus[o[1]][o[2]] : f.dataCheck /\ f.req.addr = x
      <4>1. CASE o = <<c, r.source>>
        BY <1>3, <1>4, <4>1
      <4>2. CASE o # <<c, r.source>>
        BY <1>5, <4>2
      <4> QED BY <4>1, <4>2
    <3> QED BY <1>2, <3>1 DEF Owners
  <2>2. ASSUME NEW x \in Address
        PROVE  /\ x \in inflightAddress' <=> Owners(x)' # {}
               /\ \A o, p \in Owners(x)' : o = p
    <3>1. /\ x \in inflightAddress <=> Owners(x) # {}
          /\ \A o, p \in Owners(x) : o = p
      BY DEF MarkInv, MarkHasOwner
    <3>2. CASE r.addr = x /\ x \notin inflightAddress
      BY <2>1, <3>1, <3>2 DEF Verified
    <3>3. CASE r.addr = x /\ x \in inflightAddress
      BY <2>1, <3>1, <3>3 DEF Verified
    <3>4. CASE r.addr # x
      BY <2>1, <3>1, <3>4
    <3> QED BY <3>2, <3>3, <3>4
  <2> QED BY <2>2 DEF MarkHasOwner
<1> QED BY <1>6, <1>7, <1>8 DEF MarkInv

LEMMA MarkUpdate ==
  ASSUME TypeOK, MarkInv, ~AStall, NEW c \in Core, Update(c)
  PROVE  MarkInv'
<1>1. CASE pendingA[c] = {}
  <2>1. ~\E r \in pendingA[c] : SendA(c, r)
    BY <1>1
  <2> QED BY <2>1, MarkUpdateSilent DEF Update
<1>2. CASE \E r \in pendingA[c] : SendA(c, r)
  <2>1. PICK r \in pendingA[c] : SendA(c, r)
    BY <1>2
  <2>2. CASE r.op \in PutOp /\ r.addr \in inflightAddress
    <3>1. inflightAddress' = inflightAddress /\ UNCHANGED <<localStatus, valid>>
      BY <2>1, <2>2 DEF SendA
    <3> QED BY <3>1, MarkUpdateSilent
  <2>3. CASE ~(r.op \in PutOp /\ r.addr \in inflightAddress)
    BY <2>1, <2>3, MarkUpdatePresent DEF SendA
  <2> QED BY <2>2, <2>3
<1> QED BY <1>1, <1>2 DEF Update

LEMMA MarkStep == TypeOK /\ MarkInv /\ ~AStall /\ [Next]_vars => MarkInv'
<1> SUFFICES ASSUME TypeOK, MarkInv, ~AStall, [Next]_vars PROVE MarkInv'
  OBVIOUS
<1>1. CASE \E q \in reqs : Perform(q)
  BY <1>1, MarkPerform
<1>2. CASE \E c \in Core : FireA(c) \/ FireD(c) \/ Fuzz(c) \/ Update(c)
  BY <1>2, MarkFireA, MarkFireD, MarkFuzz, MarkUpdate
<1>3. CASE UNCHANGED vars
  BY <1>3 DEF vars, portVars, idVars, globalVars, dutVars, MarkInv, PresentedWindow,
     OnePending, OneEntry, OwedOnce, SameId, MarkHasOwner, Owners, PosA, PosUpdate
<1> QED BY <1>1, <1>2, <1>3 DEF Next

\* On a device that takes every MMIO request in the cycle it is presented, an
\* address is in flight exactly while one operation owns it: no answer frees the
\* mark of another agent's operation and no mark is left behind.
THEOREM MarksOwned == ~AStall /\ Spec => []MarkHasOwner
<1>1. Init => MarkInv
  BY MarkInit
<1>2. TypeOK /\ MarkInv /\ ~AStall /\ [Next]_vars => MarkInv'
  BY MarkStep
<1>3. MarkInv => MarkHasOwner
  BY DEF MarkInv
<1>4. CASE ~AStall
  BY <1>1, <1>2, <1>3, <1>4, MMIOTypeCorrect, PTL DEF Spec
<1> QED BY <1>4

-----------------------------------------------------------------------------
(* Values *)

Status(o) == localStatus[o.core][o.req.source]

\* Every Put owns the mark of its address.
PutsMarked(c) ==
  \A i \in SourceID : \A e \in localStatus[c][i] : e.req.op \in PutOp => e.dataCheck

\* What is presented, taken or performed is the request localStatus knows.
Known ==
  /\ \A c \in Core : valid[c] =>
       \A r \in pendingA[c] : \A e \in localStatus[c][r.source] : e.req = r
  /\ \A o \in reqs \cup answers : \A e \in Status(o) : e.req = o.req

\* Owners of marks at two addresses are crossed at the bytes they share.
CrossedInv ==
  \A c, d \in Core, i, j \in SourceID :
    \A e \in localStatus[c][i], f \in localStatus[d][j] :
      e.dataCheck /\ f.dataCheck /\ Unseen(e.req, f.req) =>
        Bytes(e.req) \cap Bytes(f.req) \subseteq crossed

\* At a byte that is not crossed, a Put that is performed has its value in the word
\* until it is answered, and a verified Get read the copy.
ByteInv(a, e, b) ==
  /\ a.req.op \in PutOp => word[a.req.addr[1]][b] = a.req.value
  /\ a.req.op = "Get" /\ e.dataCheck => data[a.req.addr[1]][b] = a.read[b]

AnswerInv(a) ==
  \A e \in Status(a), b \in a.req.mask :
    <<a.req.addr[1], b>> \in crossed \/ ByteInv(a, e, b)

\* The inductive strengthening of OnlyCrossedMismatch and CopyCurrent, on top of MarkInv.
DataInv ==
  /\ failed \subseteq {"data mismatch"}
  /\ \A c \in Core : PutsMarked(c)
  /\ Known
  /\ CrossedInv
  /\ \A a \in answers : AnswerInv(a)
  /\ CopyCurrent

\* Entries that lose nothing but their status, or go, leave what is crossed crossed.
LEMMA CrossedStill ==
  ASSUME CrossedInv, crossed' = crossed,
         \A c \in Core, i \in SourceID : \A e \in localStatus'[c][i] :
           \E f \in localStatus[c][i] : e.dataCheck = f.dataCheck /\ e.req = f.req
  PROVE  CrossedInv'
<1> SUFFICES ASSUME NEW c \in Core, NEW d \in Core, NEW i \in SourceID, NEW j \in SourceID,
                    NEW e \in localStatus'[c][i], NEW f \in localStatus'[d][j],
                    e.dataCheck, f.dataCheck, Unseen(e.req, f.req)
             PROVE  Bytes(e.req) \cap Bytes(f.req) \subseteq crossed
  BY Zenon DEF CrossedInv
<1>1. PICK g \in localStatus[c][i] : e.dataCheck = g.dataCheck /\ e.req = g.req
  OBVIOUS
<1>2. PICK h \in localStatus[d][j] : f.dataCheck = h.dataCheck /\ f.req = h.req
  OBVIOUS
<1> QED BY <1>1, <1>2 DEF CrossedInv

\* Owners of marks that share a byte, one of them a Put, are the same operation
\* unless the byte is crossed.
LEMMA Alone ==
  ASSUME TypeOK, MarkInv, DataInv,
         NEW c \in Core, NEW i \in SourceID, NEW e \in localStatus[c][i], e.dataCheck,
         NEW d \in Core, NEW j \in SourceID, NEW f \in localStatus[d][j], f.dataCheck,
         e.req.op \in PutOp \/ f.req.op \in PutOp,
         NEW b \in e.req.mask \cap f.req.mask,
         e.req.addr[1] = f.req.addr[1], <<e.req.addr[1], b>> \notin crossed
  PROVE  c = d /\ i = j /\ e = f
<1>1. e.req.addr \in Address
  BY DEF TypeOK, Inflight, Req
<1>2. e.req.addr = f.req.addr
  <2> SUFFICES ASSUME e.req.addr # f.req.addr PROVE FALSE
    OBVIOUS
  <2>1. Unseen(e.req, f.req)
    BY DEF Unseen
  <2>2. <<e.req.addr[1], b>> \in Bytes(e.req) \cap Bytes(f.req)
    BY DEF Bytes
  <2> QED BY <2>1, <2>2 DEF DataInv, CrossedInv
<1>3. <<c, i>> \in Owners(e.req.addr) /\ <<d, j>> \in Owners(e.req.addr)
  BY <1>2 DEF Owners
<1>4. <<c, i>> = <<d, j>>
  BY <1>1, <1>3 DEF MarkInv, MarkHasOwner
<1> QED BY <1>4 DEF MarkInv, OneEntry

\* What the device owes belongs to an operation that localStatus knows.
LEMMA OwedKnown ==
  ASSUME TypeOK, MarkInv, DataInv, NEW o \in reqs \cup answers
  PROVE  /\ o.core \in Core /\ o.req.source \in SourceID /\ o.req \in Req
         /\ o.req.addr[1] \in Word /\ o.req.mask \subseteq Byte
         /\ \E e \in Status(o) : e.req = o.req /\ Status(o) = {e} /\ e.status = "S_A_WAITING_D"
<1>1. o.core \in Core /\ o.req \in Req
  BY DEF TypeOK
<1>2. o.req.source \in SourceID /\ o.req.addr[1] \in Word /\ o.req.mask \subseteq Byte
  BY <1>1 DEF Req, Address
<1>3. PICK e \in Status(o) : e.status = "S_A_WAITING_D"
  BY DEF MarkInv, OwedOnce, Status
<1>4. Status(o) = {e}
  BY <1>1, <1>2, <1>3 DEF MarkInv, OneEntry, Status
<1>5. e.req = o.req
  BY <1>3 DEF DataInv, Known
<1> QED BY <1>1, <1>2, <1>3, <1>4, <1>5

LEMMA DataInit == Init => DataInv
<1> SUFFICES ASSUME Init PROVE DataInv
  OBVIOUS
<1>1. CopyCurrent
  BY DEF Init, CopyCurrent
<1>2. Known /\ \A a \in answers : AnswerInv(a)
  BY DEF Init, Known
<1>3. CrossedInv /\ \A c \in Core : PutsMarked(c)
  BY DEF Init, CrossedInv, PutsMarked
<1> QED BY <1>1, <1>2, <1>3 DEF Init, DataInv

\* The device performs a request: where its bytes are not crossed nobody else's Put is.
LEMMA DataPerform ==
  ASSUME TypeOK, MarkInv, DataInv, NEW q \in reqs, Perform(q)
  PROVE  DataInv'
<1> DEFINE w == q.req.addr[1]
<1> PICK a : a = [core |-> q.core, req |-> q.req, read |-> ReadFor(q.req)]
  OBVIOUS
<1>1. /\ UNCHANGED <<failed, pendingA, valid, localStatus, data, crossed>>
      /\ reqs' = reqs \ {q} /\ answers' = answers \cup {a}
      /\ word' = IF q.req.op \in PutOp THEN [word EXCEPT ![w] = Written(@, q.req)] ELSE word
  BY DEF Perform, portVars, globalVars
<1>2. a.core = q.core /\ a.req = q.req /\ a.read = ReadFor(q.req)
  OBVIOUS
<1>3. PICK e \in Status(q) : e.req = q.req /\ Status(q) = {e}
  BY OwedKnown
<1>4. /\ q.core \in Core /\ q.req.source \in SourceID /\ q.req \in Req /\ w \in Word
      /\ q.req.mask \subseteq Byte
  BY OwedKnown
<1> HIDE DEF w
<1>5. /\ e \in localStatus[q.core][q.req.source]
      /\ q.req.op \in PutOp => e.dataCheck
  BY <1>3, <1>4 DEF DataInv, PutsMarked, Status
<1>6. /\ \A v \in Word : v # w => word'[v] = word[v]
      /\ q.req.op \notin PutOp => word' = word
      /\ q.req.op \in PutOp => word'[w] = Written(word[w], q.req)
  BY <1>1, <1>4 DEF TypeOK
<1>7. (\A c \in Core : PutsMarked(c))' /\ CrossedInv'
  <2>1. (\A c \in Core : PutsMarked(c))'
    BY <1>1 DEF DataInv, PutsMarked
  <2>2. CrossedInv'
    <3>1. localStatus' = localStatus /\ crossed' = crossed
      BY <1>1
    <3> QED BY <3>1, CrossedStill DEF DataInv
  <2> QED BY <2>1, <2>2
<1>8. Known'
  <2>1. ASSUME NEW o \in reqs' \cup answers', NEW f \in Status(o)'
        PROVE  f.req = o.req
    <3>1. PICK p \in reqs \cup answers : o.core = p.core /\ o.req = p.req
      BY <1>1, <1>2
    <3> QED BY <1>1, <3>1 DEF DataInv, Known, Status
  <2> QED BY <1>1, <2>1 DEF DataInv, Known
<1>9. ASSUME NEW b \in Byte, PutsAt(w, b) = {}
      PROVE  b \notin q.req.mask \/ q.req.op \notin PutOp
  <2> SUFFICES ASSUME b \in q.req.mask, q.req.op \in PutOp PROVE FALSE
    OBVIOUS
  <2>1. <<q.core, q.req.source>> \in PutsAt(w, b)
    BY <1>3, <1>4, <1>5 DEF PutsAt, w
  <2> QED BY <1>9, <2>1
<1>10. CopyCurrent'
  <2> SUFFICES ASSUME NEW v \in Word, NEW b \in Byte, PutsAt(v, b)' = {},
                      <<v, b>> \notin crossed
               PROVE  data'[v][b] = word'[v][b]
    BY <1>1 DEF CopyCurrent
  <2>1. data[v][b] = word[v][b]
    BY <1>1 DEF DataInv, CopyCurrent, PutsAt
  <2>2. word'[v][b] = word[v][b]
    <3>1. CASE v # w \/ q.req.op \notin PutOp
      BY <1>6, <3>1
    <3>2. CASE v = w /\ q.req.op \in PutOp
      <4>1. b \notin q.req.mask
        BY <1>1, <1>9, <3>2 DEF PutsAt
      <4> QED BY <1>6, <3>2, <4>1 DEF Written
    <3> QED BY <3>1, <3>2
  <2> QED BY <1>1, <2>1, <2>2
<1>11. ASSUME NEW x \in answers
       PROVE  AnswerInv(x)'
  <2>1. PICK f \in Status(x) : f.req = x.req /\ Status(x) = {f}
    BY OwedKnown
  <2>2. /\ x.core \in Core /\ x.req.source \in SourceID /\ x.req.addr[1] \in Word
        /\ x.req.mask \subseteq Byte
    BY OwedKnown
  <2>3. Status(x)' = {f}
    BY <1>1, <2>1 DEF Status
  <2> SUFFICES ASSUME NEW b \in x.req.mask, <<x.req.addr[1], b>> \notin crossed
               PROVE  ByteInv(x, f, b)'
    BY <1>1, <2>3 DEF AnswerInv
  <2>4. ByteInv(x, f, b)
    BY <2>1 DEF DataInv, AnswerInv
  <2>5. word'[x.req.addr[1]][b] = word[x.req.addr[1]][b] \/ x.req.op \notin PutOp
    <3> SUFFICES ASSUME x.req.op \in PutOp, x.req.addr[1] = w, q.req.op \in PutOp
                 PROVE  word'[w][b] = word[w][b]
      BY <1>6, <2>2
    <3>1. f.dataCheck /\ f \in localStatus[x.core][x.req.source]
      BY <2>1, <2>2 DEF DataInv, PutsMarked, Status
    <3>2. CASE b \in q.req.mask
      <4>1. b \in e.req.mask \cap f.req.mask /\ e.req.addr[1] = f.req.addr[1]
        BY <1>3, <2>1, <3>2 DEF w
      <4>2. e.dataCheck /\ e.req.op \in PutOp /\ <<e.req.addr[1], b>> \notin crossed
        BY <1>3, <1>5 DEF w
      <4>3. q.core = x.core /\ q.req.source = x.req.source
        BY <1>4, <1>5, <2>2, <3>1, <4>1, <4>2, Alone
      <4> QED BY <4>3 DEF MarkInv, OwedOnce, SameId
    <3>3. CASE b \notin q.req.mask
      BY <1>6, <2>2, <3>3 DEF Written
    <3> QED BY <3>2, <3>3
  <2> QED BY <1>1, <2>4, <2>5 DEF ByteInv
<1>12. AnswerInv(a)'
  <2>1. Status(a)' = {e}
    BY <1>1, <1>2, <1>3 DEF Status
  <2> SUFFICES ASSUME NEW b \in q.req.mask, <<w, b>> \notin crossed
               PROVE  ByteInv(a, e, b)'
    BY <1>1, <1>2, <2>1 DEF AnswerInv, w
  <2>2. q.req.op \in PutOp => word'[w][b] = q.req.value
    BY <1>4, <1>6 DEF Written
  <2>3. q.req.op = "Get" /\ e.dataCheck => data[w][b] = word[w][b]
    <3> SUFFICES ASSUME q.req.op = "Get", e.dataCheck PROVE PutsAt(w, b) = {}
      BY <1>4 DEF DataInv, CopyCurrent
    <3> SUFFICES ASSUME NEW o \in Core \X SourceID, NEW f \in localStatus[o[1]][o[2]],
                        f.req.op \in PutOp, f.req.addr[1] = w, b \in f.req.mask
                 PROVE  FALSE
      BY DEF PutsAt
    <3>1. o[1] \in Core /\ o[2] \in SourceID
      OBVIOUS
    <3>2. f.dataCheck
      BY <3>1 DEF DataInv, PutsMarked
    <3>3. b \in e.req.mask \cap f.req.mask /\ e.req.addr[1] = f.req.addr[1]
      BY <1>3 DEF w
    <3>4. e = f
      BY <1>3, <1>4, <1>5, <3>1, <3>2, <3>3, Alone
    <3> QED BY <1>3, <3>4 DEF PutOp
  <2> QED BY <1>1, <1>2, <2>2, <2>3 DEF ByteInv, ReadFor, w
<1> QED BY <1>1, <1>7, <1>8, <1>10, <1>11, <1>12 DEF DataInv

\* fire_a: the operation keeps its request and its mark.
LEMMA DataFireA ==
  ASSUME TypeOK, MarkInv, DataInv, NEW c \in Core, FireA(c)
  PROVE  DataInv'
<1> DEFINE waiting(e) ==
      [dataCheck |-> e.dataCheck, status |-> "S_A_WAITING_D", req |-> e.req]
<1>1. PICK r \in pendingA[c] :
       /\ reqs' = reqs \cup {[core |-> c, req |-> r]}
       /\ failed' = Check(localStatus[c][r.source] # {}, "query")
       /\ localStatus' = [localStatus EXCEPT ![c][r.source] = {waiting(e) : e \in @}]
  BY DEF FireA
<1>2. /\ valid[c] /\ r \in Req /\ r.source \in SourceID
      /\ pendingA' = [pendingA EXCEPT ![c] = {}] /\ valid' = [valid EXCEPT ![c] = FALSE]
      /\ UNCHANGED <<data, crossed, answers, word>>
  BY DEF TypeOK, Req, FireA, globalVars
<1>3. ASSUME NEW d \in Core, NEW i \in SourceID
      PROVE  localStatus'[d][i] = IF d = c /\ i = r.source
               THEN {waiting(e) : e \in localStatus[d][i]} ELSE localStatus[d][i]
  BY <1>1, <1>2 DEF TypeOK
<1>4. \A e : waiting(e).dataCheck = e.dataCheck /\ waiting(e).req = e.req
  OBVIOUS
<1> HIDE DEF waiting
<1>5. ASSUME NEW d \in Core, NEW i \in SourceID
      PROVE  /\ \A e \in localStatus'[d][i] : \E f \in localStatus[d][i] :
                  e.dataCheck = f.dataCheck /\ e.req = f.req
             /\ \A f \in localStatus[d][i] : \E e \in localStatus'[d][i] :
                  e.dataCheck = f.dataCheck /\ e.req = f.req
  <2>1. CASE d = c /\ i = r.source
    <3>1. localStatus'[d][i] = {waiting(e) : e \in localStatus[d][i]}
      BY <1>3, <2>1
    <3> QED BY <1>4, <3>1
  <2>2. CASE ~(d = c /\ i = r.source)
    <3>1. localStatus'[d][i] = localStatus[d][i]
      BY <1>3, <2>2
    <3> QED BY <3>1
  <2> QED BY <2>1, <2>2
<1>6. failed' \subseteq {"data mismatch"}
  <2>1. OnePending(c)
    BY DEF MarkInv
  <2>2. localStatus[c][r.source] # {}
    BY <1>2, <2>1 DEF OnePending
  <2> QED BY <1>1, <2>2 DEF Check
<1>7. ASSUME NEW d \in Core
      PROVE  PutsMarked(d)'
  <2> SUFFICES ASSUME NEW i \in SourceID, NEW e \in localStatus'[d][i], e.req.op \in PutOp
               PROVE  e.dataCheck
    BY DEF PutsMarked
  <2>1. PICK f \in localStatus[d][i] : e.dataCheck = f.dataCheck /\ e.req = f.req
    BY <1>5
  <2> QED BY <2>1 DEF DataInv, PutsMarked
<1>8. CrossedInv'
  BY <1>2, <1>5, CrossedStill DEF DataInv
<1>9. Known'
  <2>1. ASSUME NEW d \in Core, valid'[d], NEW q \in pendingA'[d], NEW e \in localStatus'[d][q.source]
        PROVE  e.req = q
    <3>1. d # c /\ valid[d] /\ q \in pendingA[d]
      BY <1>2, <2>1 DEF TypeOK
    <3>2. q.source \in SourceID
      BY <3>1 DEF TypeOK, Req
    <3>3. localStatus'[d][q.source] = localStatus[d][q.source]
      BY <1>3, <3>1, <3>2
    <3> QED BY <2>1, <3>1, <3>3 DEF DataInv, Known
  <2>2. ASSUME NEW o \in reqs \cup answers, NEW e \in Status(o)'
        PROVE  e.req = o.req
    <3>1. PICK f \in Status(o) : e.req = f.req
      BY <1>5, OwedKnown DEF Status
    <3> QED BY <3>1 DEF DataInv, Known
  <2>3. ASSUME NEW e \in localStatus'[c][r.source]
        PROVE  e.req = r
    <3>1. PICK f \in localStatus[c][r.source] : e.req = f.req
      BY <1>2, <1>5
    <3> QED BY <1>2, <3>1 DEF DataInv, Known
  <2>4. [core |-> c, req |-> r].core = c /\ [core |-> c, req |-> r].req = r
    OBVIOUS
  <2> QED BY <1>1, <1>2, <2>1, <2>2, <2>3, <2>4 DEF Known, Status
<1>10. ASSUME NEW a \in answers'
       PROVE  AnswerInv(a)'
  <2>1. a \in answers /\ a.core \in Core /\ a.req.source \in SourceID
    BY <1>2, OwedKnown
  <2> SUFFICES ASSUME NEW e \in Status(a)', NEW b \in a.req.mask,
                      <<a.req.addr[1], b>> \notin crossed
               PROVE  ByteInv(a, e, b)'
    BY <1>2 DEF AnswerInv
  <2>2. PICK f \in Status(a) : e.dataCheck = f.dataCheck
    BY <1>5, <2>1 DEF Status
  <2>3. ByteInv(a, f, b)
    BY <2>1 DEF DataInv, AnswerInv
  <2> QED BY <1>2, <2>2, <2>3 DEF ByteInv
<1>11. CopyCurrent'
  <2>1. ASSUME NEW w \in Word, NEW b \in Byte
        PROVE  PutsAt(w, b)' = PutsAt(w, b)
    <3>1. ASSUME NEW o \in Core \X SourceID
          PROVE  (\E e \in localStatus'[o[1]][o[2]] :
                    e.req.op \in PutOp /\ e.req.addr[1] = w /\ b \in e.req.mask)
                 <=> (\E e \in localStatus[o[1]][o[2]] :
                        e.req.op \in PutOp /\ e.req.addr[1] = w /\ b \in e.req.mask)
      <4>1. o[1] \in Core /\ o[2] \in SourceID
        OBVIOUS
      <4> QED BY <1>5, <4>1
    <3> QED BY <3>1 DEF PutsAt
  <2> QED BY <1>2, <2>1 DEF DataInv, CopyCurrent
<1> QED BY <1>6, <1>7, <1>8, <1>9, <1>10, <1>11 DEF DataInv

\* fire_d: a verified Get may differ from the copy, and then ends the run; a Put leaves
\* the device's bytes in the copy.
LEMMA DataFireD ==
  ASSUME TypeOK, MarkInv, DataInv, NEW c \in Core, FireD(c)
  PROVE  DataInv'
<1>1. PICK a \in answers :
       /\ a.core = c
       /\ answers' = answers \ {a}
       /\ \/ \E e \in localStatus[c][a.req.source] : AnswerD(c, a, e)
          \/ localStatus[c][a.req.source] = {}
       /\ localStatus' = [localStatus EXCEPT ![c][a.req.source] = {}]
  BY DEF FireD
<1> DEFINE i == a.req.source
           w == a.req.addr[1]
<1>2. UNCHANGED <<pendingA, valid, reqs, crossed, word>>
  BY DEF FireD, portVars
<1>3. i \in SourceID /\ a.req \in Req /\ w \in Word /\ a.req.mask \subseteq Byte
  BY OwedKnown
<1>4. PICK e \in localStatus[c][i] :
        e.req = a.req /\ localStatus[c][i] = {e} /\ e.status = "S_A_WAITING_D"
  BY <1>1, OwedKnown DEF Status
<1> HIDE DEF i
<1>5. AnswerD(c, a, e)
  BY <1>1, <1>4 DEF i
<1>6. ASSUME NEW d \in Core, NEW j \in SourceID
      PROVE  localStatus'[d][j] = IF d = c /\ j = i THEN {} ELSE localStatus[d][j]
  BY <1>1, <1>3 DEF TypeOK, i
<1>7. e.req.op \in PutOp => e.dataCheck
  BY <1>3, <1>4 DEF DataInv, PutsMarked
<1>8. AnswerInv(a) /\ Status(a) = {e}
  BY <1>1, <1>4 DEF DataInv, Status, i
<1>9. failed' \subseteq {"data mismatch"}
  <2>1. e.dataCheck => e.req.addr \in inflightAddress
    <3> SUFFICES ASSUME e.dataCheck PROVE e.req.addr \in inflightAddress
      OBVIOUS
    <3>1. <<c, i>> \in Owners(e.req.addr)
      BY <1>3, <1>4 DEF Owners
    <3>2. e.req.addr \in Address
      BY <1>3, <1>4 DEF Req
    <3> QED BY <3>1, <3>2 DEF MarkInv, MarkHasOwner
  <2> QED BY <1>4, <1>5, <2>1 DEF AnswerD, Check
<1>10. /\ \A v \in Word : v # w => data'[v] = data[v]
       /\ e.req.op \notin PutOp => data' = data
       /\ e.req.op \in PutOp => data'[w] =
            [b \in Byte |-> IF b \in e.req.mask THEN e.req.value ELSE data[w][b]]
  BY <1>3, <1>4, <1>5 DEF AnswerD, UpdateData, TypeOK
<1>11. \A d \in Core : PutsMarked(d)'
  BY <1>6 DEF DataInv, PutsMarked
<1>12. CrossedInv'
  BY <1>2, <1>6, CrossedStill DEF DataInv
<1>13. Known'
  <2>1. ASSUME NEW d \in Core, valid[d], NEW q \in pendingA[d], NEW f \in localStatus'[d][q.source]
        PROVE  f.req = q
    <3>1. q.source \in SourceID
      BY DEF TypeOK, Req
    <3> QED BY <1>6, <2>1, <3>1 DEF DataInv, Known
  <2>2. ASSUME NEW o \in reqs \cup answers, NEW f \in Status(o)'
        PROVE  f.req = o.req
    <3>1. f \in Status(o)
      BY <1>6, OwedKnown DEF Status
    <3> QED BY <3>1 DEF DataInv, Known
  <2> QED BY <1>1, <1>2, <2>1, <2>2 DEF Known
<1>14. ASSUME NEW x \in answers'
       PROVE  AnswerInv(x)'
  <2>1. x \in answers /\ x # a
    BY <1>1
  <2>2. PICK f \in Status(x) : f.req = x.req /\ Status(x) = {f}
    BY <2>1, OwedKnown
  <2>3. /\ x.core \in Core /\ x.req.source \in SourceID /\ x.req.addr[1] \in Word
        /\ x.req.mask \subseteq Byte
    BY <2>1, OwedKnown
  <2>4. Status(x)' = {f}
    BY <1>1, <1>6, <2>1, <2>2, <2>3 DEF MarkInv, OwedOnce, SameId, Status, i
  <2> SUFFICES ASSUME NEW b \in x.req.mask, <<x.req.addr[1], b>> \notin crossed
               PROVE  ByteInv(x, f, b)'
    BY <1>2, <2>4 DEF AnswerInv
  <2>5. ByteInv(x, f, b)
    BY <2>1, <2>2 DEF DataInv, AnswerInv
  <2>6. data'[x.req.addr[1]][b] = data[x.req.addr[1]][b] \/ ~f.dataCheck
    <3> SUFFICES ASSUME f.dataCheck, x.req.addr[1] = w, e.req.op \in PutOp
                 PROVE  data'[w][b] = data[w][b]
      BY <1>10, <2>3
    <3>1. f \in localStatus[x.core][x.req.source] /\ e.req.addr[1] = f.req.addr[1]
      BY <1>4, <2>2 DEF Status
    <3>2. CASE b \in e.req.mask
      <4>1. b \in e.req.mask \cap f.req.mask /\ <<e.req.addr[1], b>> \notin crossed
        BY <1>4, <2>2, <3>2
      <4>2. x.core = c /\ x.req.source = i
        BY <1>3, <1>7, <2>3, <3>1, <4>1, Alone
      <4> QED BY <1>1, <2>1, <4>2 DEF MarkInv, OwedOnce, SameId, i
    <3>3. CASE b \notin e.req.mask
      BY <1>10, <2>3, <3>3
    <3> QED BY <3>2, <3>3
  <2> QED BY <1>2, <2>5, <2>6 DEF ByteInv
<1>15. CopyCurrent'
  <2> SUFFICES ASSUME NEW v \in Word, NEW b \in Byte, PutsAt(v, b)' = {},
                      <<v, b>> \notin crossed
               PROVE  data'[v][b] = word[v][b]
    BY <1>2 DEF CopyCurrent
  <2>1. CASE v = w /\ e.req.op \in PutOp /\ b \in e.req.mask
    <3>1. ByteInv(a, e, b)
      BY <1>4, <1>8, <2>1 DEF AnswerInv
    <3> QED BY <1>4, <1>10, <2>1, <3>1 DEF ByteInv
  <2>2. CASE ~(v = w /\ e.req.op \in PutOp /\ b \in e.req.mask)
    <3>1. ASSUME NEW o \in PutsAt(v, b)
          PROVE  FALSE
      <4>1. o[1] \in Core /\ o[2] \in SourceID /\ o \in Core \X SourceID
        BY DEF PutsAt
      <4>2. PICK f \in localStatus[o[1]][o[2]] :
              f.req.op \in PutOp /\ f.req.addr[1] = v /\ b \in f.req.mask
        BY DEF PutsAt
      <4>3. ~(o[1] = c /\ o[2] = i)
        BY <1>4, <2>2, <4>2
      <4>4. f \in localStatus'[o[1]][o[2]]
        BY <1>6, <4>1, <4>3
      <4>5. o \in PutsAt(v, b)'
        BY <4>1, <4>2, <4>4 DEF PutsAt
      <4> QED BY <4>5
    <3>2. data[v][b] = word[v][b]
      BY <3>1 DEF DataInv, CopyCurrent
    <3> QED BY <1>10, <2>2, <3>2
  <2> QED BY <2>1, <2>2
<1> QED BY <1>9, <1>11, <1>12, <1>13, <1>14, <1>15 DEF DataInv

\* The fuzzer asks; nothing is presented yet.
LEMMA DataFuzz ==
  ASSUME TypeOK, MarkInv, DataInv, NEW c \in Core, Fuzz(c)
  PROVE  DataInv'
<1>1. PICK r \in Req : pendingA' = [pendingA EXCEPT ![c] = {r}]
  BY DEF Fuzz
<1>2. UNCHANGED <<failed, valid, localStatus, data, crossed, reqs, answers, word>>
  BY DEF Fuzz, globalVars, dutVars
<1>3. ~valid[c]
  BY DEF Fuzz, MarkInv, PresentedWindow
<1>4. Known'
  BY <1>1, <1>2, <1>3 DEF DataInv, Known, Status, TypeOK
<1>5. ASSUME NEW a \in answers
      PROVE  AnswerInv(a)'
  <2>1. AnswerInv(a)
    BY DEF DataInv
  <2> QED BY <1>2, <2>1 DEF AnswerInv, ByteInv, Status
<1>6. CopyCurrent'
  BY <1>2 DEF DataInv, CopyCurrent, PutsAt
<1>7. CrossedInv'
  BY <1>2, CrossedStill DEF DataInv
<1>8. (\A d \in Core : PutsMarked(d))'
  BY <1>2 DEF DataInv, PutsMarked
<1> QED BY <1>2, <1>4, <1>5, <1>6, <1>7, <1>8 DEF DataInv

\* send_a: a Put presented is alone with its bytes, or they are crossed.
LEMMA DataUpdatePresent ==
  ASSUME TypeOK, MarkInv, DataInv, ~AStall, NEW c \in Core, Update(c), NEW r \in pendingA[c],
         ~(r.op \in PutOp /\ r.addr \in inflightAddress),
         localStatus' = [localStatus EXCEPT ![c][r.source] =
           {[dataCheck |-> Verified(r), status |-> "S_SENDING_A", req |-> r]}],
         valid' = [valid EXCEPT ![c] = TRUE],
         crossed' = Crossed(r)
  PROVE  DataInv'
<1>1. UNCHANGED <<failed, pendingA, data, reqs, answers, word>>
  BY DEF Update, dutVars
<1>2. ~valid[c] /\ r.source \in SourceID /\ r.addr \in Address
  BY UpdateWindow DEF MarkInv, TypeOK, Req
<1>3. localStatus[c][r.source] = {}
  BY <1>2 DEF MarkInv, OnePending
<1> PICK e : e = [dataCheck |-> Verified(r), status |-> "S_SENDING_A", req |-> r]
  OBVIOUS
<1>4. e.dataCheck = Verified(r) /\ e.req = r
  OBVIOUS
<1>5. ASSUME NEW d \in Core, NEW i \in SourceID
      PROVE  localStatus'[d][i] = IF d = c /\ i = r.source THEN {e} ELSE localStatus[d][i]
  BY <1>2 DEF TypeOK
<1>6. r.op \in PutOp => e.dataCheck
  BY <1>4 DEF Verified
<1>7. ASSUME NEW d \in Core
      PROVE  PutsMarked(d)'
  <2> SUFFICES ASSUME NEW i \in SourceID, NEW f \in localStatus'[d][i], f.req.op \in PutOp
               PROVE  f.dataCheck
    BY DEF PutsMarked
  <2>1. f = e \/ f \in localStatus[d][i]
    BY <1>5
  <2> QED BY <1>4, <1>6, <2>1 DEF DataInv, PutsMarked
<1>8. \A o \in reqs \cup answers : Status(o)' = Status(o)
  BY <1>3, <1>5, OwedKnown DEF Status
<1>9. Known'
  <2>1. ASSUME NEW d \in Core, valid'[d], NEW q \in pendingA[d], NEW f \in localStatus'[d][q.source]
        PROVE  f.req = q
    <3>1. q.source \in SourceID
      BY DEF TypeOK, Req
    <3>2. CASE d = c
      <4>1. q = r
        BY <3>2 DEF MarkInv, OnePending
      <4> QED BY <1>4, <1>5, <2>1, <3>1, <3>2, <4>1
    <3>3. CASE d # c
      <4>1. valid[d]
        BY <2>1, <3>3 DEF TypeOK
      <4>2. f \in localStatus[d][q.source]
        BY <1>5, <3>1, <3>3
      <4> QED BY <4>1, <4>2 DEF DataInv, Known
    <3> QED BY <3>2, <3>3
  <2> QED BY <1>1, <1>8, <2>1 DEF DataInv, Known
\* An operation in flight with a mark in the word of r, and a byte it shares with r.
<1>10. ASSUME NEW d \in Core, NEW i \in SourceID, NEW f \in localStatus[d][i], f.dataCheck,
              NEW x \in Bytes(f.req), r.op \in PutOp \/ Unseen(f.req, r)
       PROVE  x \in crossed => x \in crossed'
  <2> SUFFICES ASSUME r.op \in PutOp, x \in Bytes(r) PROVE x \in crossed'
    BY DEF Crossed
  <2>1. f.req.addr \in inflightAddress
    <3>1. <<d, i>> \in Owners(f.req.addr) /\ f.req.addr \in Address
      BY <1>10 DEF Owners, TypeOK, Inflight, Req
    <3> QED BY <3>1 DEF MarkInv, MarkHasOwner
  <2>2. Unseen(f.req, r)
    BY <2>1 DEF Unseen
  <2>3. x \in Meeting(r)
    BY <1>10, <2>2 DEF Meeting
  <2> QED BY <1>4, <1>6, <2>3 DEF Crossed
<1>11. ASSUME NEW d \in Core, NEW i \in SourceID, NEW f \in localStatus[d][i], f.dataCheck,
              e.dataCheck, Unseen(f.req, r)
       PROVE  Bytes(f.req) \cap Bytes(r) \subseteq crossed'
  BY <1>4, <1>11 DEF Meeting, Crossed
<1>12. ASSUME NEW x \in crossed
       PROVE  x \in crossed' \/ (r.op \in PutOp /\ x \in Bytes(r))
  BY DEF Crossed
<1>13. CrossedInv'
  <2> SUFFICES ASSUME NEW d \in Core, NEW k \in Core, NEW i \in SourceID, NEW j \in SourceID,
                      NEW f \in localStatus'[d][i], NEW g \in localStatus'[k][j],
                      f.dataCheck, g.dataCheck, Unseen(f.req, g.req)
               PROVE  Bytes(f.req) \cap Bytes(g.req) \subseteq crossed'
    BY DEF CrossedInv
  <2>1. CASE f = e /\ g = e
    BY <2>1 DEF Unseen
  <2>2. CASE f = e /\ g \in localStatus[k][j]
    <3>1. Unseen(g.req, r)
      BY <1>4, <2>2 DEF Unseen
    <3> QED BY <1>4, <1>11, <2>2, <3>1
  <2>3. CASE f \in localStatus[d][i] /\ g = e
    BY <1>4, <1>11, <2>3
  <2>4. CASE f \in localStatus[d][i] /\ g \in localStatus[k][j]
    <3> SUFFICES ASSUME NEW x \in Bytes(f.req) \cap Bytes(g.req)
                 PROVE  x \in crossed'
      OBVIOUS
    <3>1. x \in crossed
      BY <2>4 DEF DataInv, CrossedInv
    <3>2. CASE r.op \in PutOp
      BY <1>10, <2>4, <3>1, <3>2
    <3>3. CASE r.op \notin PutOp
      BY <1>12, <3>1, <3>3
    <3> QED BY <3>2, <3>3
  <2> QED BY <1>5, <2>1, <2>2, <2>3, <2>4
<1>14. ASSUME NEW a \in answers
       PROVE  AnswerInv(a)'
  <2>1. PICK f \in Status(a) : f.req = a.req /\ Status(a) = {f}
    BY OwedKnown
  <2>2. a.core \in Core /\ a.req.source \in SourceID /\ a.req \in Req
    BY OwedKnown
  <2> SUFFICES ASSUME NEW b \in a.req.mask, <<a.req.addr[1], b>> \notin crossed'
               PROVE  ByteInv(a, f, b)'
    BY <1>1, <1>8, <2>1 DEF AnswerInv
  <2>3. CASE <<a.req.addr[1], b>> \notin crossed
    <3>1. ByteInv(a, f, b)
      BY <2>1, <2>3 DEF DataInv, AnswerInv
    <3> QED BY <1>1, <3>1 DEF ByteInv
  <2>4. CASE <<a.req.addr[1], b>> \in crossed
    <3>1. r.op \in PutOp
      BY <1>12, <2>4
    <3>2. <<a.req.addr[1], b>> \in Bytes(f.req) /\ f \in localStatus[a.core][a.req.source]
      BY <2>1 DEF Bytes, Status
    <3>3. ~f.dataCheck
      BY <1>10, <2>2, <2>4, <3>1, <3>2
    <3>4. a.req.op \notin PutOp
      BY <2>1, <2>2, <3>2, <3>3 DEF DataInv, PutsMarked
    <3> QED BY <3>3, <3>4 DEF ByteInv
  <2> QED BY <2>3, <2>4
<1>15. CopyCurrent'
  <2> SUFFICES ASSUME NEW w \in Word, NEW b \in Byte, PutsAt(w, b)' = {},
                      <<w, b>> \notin crossed'
               PROVE  data[w][b] = word[w][b]
    BY <1>1 DEF CopyCurrent
  <2>1. ASSUME NEW o \in PutsAt(w, b)
        PROVE  FALSE
    <3>1. o[1] \in Core /\ o[2] \in SourceID /\ o \in Core \X SourceID
      BY DEF PutsAt
    <3>2. localStatus'[o[1]][o[2]] = localStatus[o[1]][o[2]]
      BY <1>3, <1>5, <3>1 DEF PutsAt
    <3>3. o \in PutsAt(w, b)'
      BY <3>1, <3>2 DEF PutsAt
    <3> QED BY <3>3
  <2>2. <<w, b>> \notin crossed
    <3> SUFFICES ASSUME r.op \in PutOp, <<w, b>> \in Bytes(r) PROVE FALSE
      BY <1>12
    <3>1. r.addr[1] = w /\ b \in r.mask
      BY DEF Bytes
    <3>2. <<c, r.source>> \in Core \X SourceID /\ e \in localStatus'[c][r.source]
      BY <1>2, <1>5
    <3>3. <<c, r.source>> \in PutsAt(w, b)'
      BY <1>4, <3>1, <3>2 DEF PutsAt
    <3> QED BY <3>3
  <2> QED BY <2>1, <2>2 DEF DataInv, CopyCurrent
<1> QED BY <1>1, <1>7, <1>9, <1>13, <1>14, <1>15 DEF DataInv

LEMMA DataUpdateSilent ==
  ASSUME TypeOK, MarkInv, DataInv, NEW c \in Core, Update(c),
         valid' = valid \/ valid' = [valid EXCEPT ![c] = FALSE],
         UNCHANGED <<localStatus, crossed>>
  PROVE  DataInv'
<1>1. UNCHANGED <<failed, pendingA, data, reqs, answers, word>>
  BY DEF Update, dutVars
<1>2. \A d \in Core : valid'[d] => valid[d]
  BY DEF TypeOK
<1>3. Known'
  BY <1>1, <1>2 DEF DataInv, Known, Status
<1>4. ASSUME NEW a \in answers
      PROVE  AnswerInv(a)'
  <2>1. AnswerInv(a)
    BY DEF DataInv
  <2> QED BY <1>1, <2>1 DEF AnswerInv, ByteInv, Status
<1>5. CopyCurrent'
  BY <1>1 DEF DataInv, CopyCurrent, PutsAt
<1>6. CrossedInv'
  BY CrossedStill DEF DataInv
<1>7. (\A d \in Core : PutsMarked(d))'
  BY <1>1 DEF DataInv, PutsMarked
<1> QED BY <1>1, <1>3, <1>4, <1>5, <1>6, <1>7 DEF DataInv

LEMMA DataUpdate ==
  ASSUME TypeOK, MarkInv, DataInv, ~AStall, NEW c \in Core, Update(c)
  PROVE  DataInv'
<1>1. CASE pendingA[c] = {}
  BY <1>1, DataUpdateSilent DEF Update
<1>2. CASE \E r \in pendingA[c] : SendA(c, r)
  <2>1. PICK r \in pendingA[c] : SendA(c, r)
    BY <1>2
  <2>2. CASE r.op \in PutOp /\ r.addr \in inflightAddress
    BY <2>1, <2>2, DataUpdateSilent DEF SendA
  <2>3. CASE ~(r.op \in PutOp /\ r.addr \in inflightAddress)
    BY <2>1, <2>3, DataUpdatePresent DEF SendA
  <2> QED BY <2>2, <2>3
<1> QED BY <1>1, <1>2 DEF Update

LEMMA DataStep ==
  ~AStall /\ TypeOK /\ MarkInv /\ DataInv /\ [Next]_vars => DataInv'
<1> SUFFICES ASSUME ~AStall, TypeOK, MarkInv, DataInv, [Next]_vars PROVE DataInv'
  OBVIOUS
<1>1. CASE \E q \in reqs : Perform(q)
  BY <1>1, DataPerform
<1>2. CASE \E c \in Core : FireA(c) \/ FireD(c) \/ Fuzz(c) \/ Update(c)
  BY <1>2, DataFireA, DataFireD, DataFuzz, DataUpdate
<1>3. CASE UNCHANGED vars
  <2>1. UNCHANGED <<failed, pendingA, valid, localStatus, data, crossed, reqs, answers, word>>
    BY <1>3 DEF vars, portVars, globalVars, dutVars
  <2>2. ASSUME NEW a \in answers PROVE AnswerInv(a)'
    <3>1. AnswerInv(a)
      BY DEF DataInv
    <3> QED BY <2>1, <3>1 DEF AnswerInv, ByteInv, Status
  <2>3. CrossedInv'
    BY <2>1, CrossedStill DEF DataInv
  <2>4. Known' /\ CopyCurrent' /\ (\A c \in Core : PutsMarked(c))'
    BY <2>1 DEF DataInv, Known, Status, CopyCurrent, PutsAt, PutsMarked
  <2> QED BY <2>1, <2>2, <2>3, <2>4 DEF DataInv
<1> QED BY <1>1, <1>2, <1>3 DEF Next

LEMMA DataHolds ==
  ASSUME ~AStall
  PROVE  Spec => [](TypeOK /\ MarkInv /\ DataInv)
<1>1. Init => TypeOK /\ MarkInv /\ DataInv
  BY TypeInit, MarkInit, DataInit
<1>2. TypeOK /\ MarkInv /\ DataInv /\ [Next]_vars => (TypeOK /\ MarkInv /\ DataInv)'
  BY TypeStep, MarkStep, DataStep
<1> QED BY <1>1, <1>2, PTL DEF Spec

\* On a device that takes every request in the cycle it is presented, performs the
\* requests one at a time and answers in any order, no assertion of the MMIO agents fails
\* but verifyData's, and that one only at bytes where operations at two addresses of the
\* word have crossed: whatever whole words and parts of words the agents use.
THEOREM NoFalseMismatch ==
  ASSUME ~AStall
  PROVE  Spec => []OnlyCrossedMismatch
<1>1. ASSUME TypeOK, MarkInv, DataInv PROVE OnlyCrossedMismatch
  <2> SUFFICES ASSUME NEW a \in answers, NEW e \in localStatus[a.core][a.req.source],
                      e.dataCheck, e.req.op = "Get", NEW b \in e.req.mask,
                      <<e.req.addr[1], b>> \notin crossed
               PROVE  data[e.req.addr[1]][b] = a.read[b]
    BY <1>1 DEF OnlyCrossedMismatch, DataInv
  <2>1. e \in Status(a) /\ e.req = a.req
    BY <1>1, OwedKnown DEF Status
  <2>2. ByteInv(a, e, b)
    BY <1>1, <2>1 DEF DataInv, AnswerInv
  <2> QED BY <2>1, <2>2 DEF ByteInv
<1> QED BY <1>1, DataHolds, PTL

\* On such a device the shared copy is the device's word wherever no Put is under way
\* and no operations have crossed since the last Put that was alone with the byte.
THEOREM CopyFollowsDevice ==
  ASSUME ~AStall
  PROVE  Spec => []CopyCurrent
<1>1. DataInv => CopyCurrent
  BY DEF DataInv
<1> QED BY <1>1, DataHolds, PTL
=============================================================================
