---------------------------- MODULE ULAgentProofs ----------------------------
(***************************************************************************)
(* The TL-UL agents beside the TL-C agent.  Their Gets are accounted for:  *)
(* whatever the TL-C agent and the device do in between, the uncached      *)
(* board has one entry for each Get in flight and none else, and an id is  *)
(* idle, parked or of one Get.  The values on the entries are the right    *)
(* ones: no answer of a correct device is reported as a mismatch, and the  *)
(* one assertion of either kind of agent that fails is the time-out of a   *)
(* Get the device has kept for longer than TIMEOUT_INTERVAL.               *)
(***************************************************************************)
EXTENDS ULAgent, CAgentAssertionProofs, FunctionTheorems

Get == [ul : UL, addr : Addr, source : ULSourceID]
LocalEntry == [addr : Addr, status : {"S_SENDING_A", "S_A_WAITING_D"}, age : Nat]

\* The ids of the Gets in flight, and of the Get asked for and not sent.
Used(u) == {g.source : g \in {h \in InFlightGets : h.ul = u}}
Asked(u) == {g.source : g \in getA[u]}

GetsType ==
  /\ upos \in Nat
  /\ getA \in [UL -> SUBSET Get]
  /\ \A u \in UL : \A g, h \in getA[u] : g.ul = u /\ g = h
  /\ localBoard \in [UL -> [ULSourceID -> SUBSET LocalEntry]]
  /\ ulIdle \in [UL -> SUBSET ULSourceID]
  /\ ulFree \in [UL -> SUBSET ULSourceID]
  /\ gets \subseteq Get
  /\ waited \in [UL -> [ULSourceID -> Nat]]

\* The device has each Get once, performed or not.
DeviceGets ==
  /\ IsFiniteSet(InFlightGets)
  /\ InFlightGets \subseteq Get
  /\ \A g, h \in InFlightGets : g.ul = h.ul /\ g.source = h.source => g = h
  /\ \A a \in answers : a.get \notin gets
  /\ \A a, b \in answers : a.get = b.get => a = b

BoardOfGets ==
  /\ \A e \in uncachedBoard : e = [get |-> e.get, data |-> e.data]
  /\ \A e, f \in uncachedBoard : e.get = f.get => e = f
  /\ {e.get : e \in uncachedBoard} = InFlightGets

\* An id waits in pending_freeid from the last beat to the end of the cycle.
IdsOfGets(u) ==
  /\ Used(u) \cap Asked(u) = {}
  /\ ulFree[u] \cap (Used(u) \cup Asked(u)) = {}
  /\ ulIdle[u] = (ULSourceID \ (Used(u) \cup Asked(u))) \ ulFree[u]
  /\ ulFree[u] # {} => upos >= PosULD(u)

LocalOfGets(u) ==
  \A i \in ULSourceID :
    \/ localBoard[u][i] = {[addr |-> a, status |-> "S_A_WAITING_D", age |-> waited[u][i]] :
         a \in {g.addr : g \in {h \in InFlightGets : h.ul = u /\ h.source = i}}}
    \/ i \in Asked(u)

GetsInv ==
  failed = {} =>
    /\ GetsType
    /\ DeviceGets
    /\ BoardOfGets
    /\ \A u \in UL : IdsOfGets(u) /\ LocalOfGets(u)

-----------------------------------------------------------------------------
(* The properties from the invariant *)

\* One entry for each Get in flight makes as many entries as Gets.
LEMMA BoardCounted ==
  ASSUME DeviceGets, BoardOfGets
  PROVE  Cardinality(uncachedBoard) = Cardinality(InFlightGets)
<1> DEFINE E(g) == CHOOSE e \in uncachedBoard : e.get = g
           F == [g \in InFlightGets |-> E(g)]
<1>1. \A g \in InFlightGets : E(g) \in uncachedBoard /\ E(g).get = g
  BY DEF BoardOfGets
<1>2. \A e \in uncachedBoard : e.get \in InFlightGets /\ E(e.get) = e
  <2>1. SUFFICES ASSUME NEW e \in uncachedBoard
                 PROVE  e.get \in InFlightGets /\ E(e.get) = e
    OBVIOUS
  <2>2. e.get \in InFlightGets
    BY <2>1 DEF BoardOfGets
  <2> QED BY <2>1, <2>2, <1>1 DEF BoardOfGets
<1> HIDE DEF E
<1>3. F \in [InFlightGets -> uncachedBoard]
  BY <1>1
<1>4. \A g, h \in InFlightGets : F[g] = F[h] => g = h
  BY <1>1
<1>5. \A e \in uncachedBoard : \E g \in InFlightGets : F[g] = e
  BY <1>2
<1>6. F \in Bijection(InFlightGets, uncachedBoard)
  BY <1>3, <1>4, <1>5, Fun_IsBij
<1>7. ExistsBijection(InFlightGets, uncachedBoard)
  BY <1>6 DEF ExistsBijection
<1> QED BY <1>7, FS_Bijection DEF DeviceGets

\* The invariant is a strengthening of GetsAccounted.
LEMMA InvAccounts == GetsInv => GetsAccounted
<1> SUFFICES ASSUME GetsInv, failed = {}
             PROVE  GetsAccounted
  BY DEF GetsAccounted
<1>1. DeviceGets /\ BoardOfGets /\ \A u \in UL : IdsOfGets(u) /\ LocalOfGets(u)
  BY DEF GetsInv
<1>2. Cardinality(uncachedBoard) = Cardinality(InFlightGets)
  BY <1>1, BoardCounted
<1>3. {e.get : e \in uncachedBoard} = InFlightGets
  BY <1>1 DEF BoardOfGets
<1>4. ASSUME NEW u \in UL
      PROVE  /\ Used(u) \cap Asked(u) = {}
             /\ ulIdle[u] = (ULSourceID \ (Used(u) \cup Asked(u))) \ ulFree[u]
             /\ ulFree[u] \cap (Used(u) \cup Asked(u)) = {}
  BY <1>1 DEF IdsOfGets
<1>5. ASSUME NEW u \in UL, NEW i \in ULSourceID
      PROVE  (localBoard[u][i] = {[addr |-> a, status |-> "S_A_WAITING_D", age |-> waited[u][i]] :
                 a \in {g.addr : g \in {h \in InFlightGets : h.ul = u /\ h.source = i}}})
             \/ i \in Asked(u)
  BY <1>1 DEF LocalOfGets
<1> QED BY <1>2, <1>3, <1>4, <1>5 DEF GetsAccounted, Used, Asked

\* No Get is in flight at first.
LEMMA GetsInit == ULInit => GetsInv
<1> SUFFICES ASSUME ULInit PROVE GetsType /\ DeviceGets /\ BoardOfGets
                                 /\ \A u \in UL : IdsOfGets(u) /\ LocalOfGets(u)
  BY DEF GetsInv
<1>1. InFlightGets = {}
  BY DEF ULInit, InFlightGets
<1>2. GetsType
  BY DEF ULInit, GetsType
<1>3. DeviceGets
  BY <1>1, FS_EmptySet DEF ULInit, DeviceGets
<1>4. BoardOfGets
  BY <1>1 DEF ULInit, BoardOfGets
<1>5. ASSUME NEW u \in UL PROVE IdsOfGets(u) /\ LocalOfGets(u)
  <2>1. Used(u) = {} /\ Asked(u) = {}
    BY <1>1 DEF Used, Asked, ULInit
  <2>2. IdsOfGets(u)
    BY <2>1 DEF IdsOfGets, ULInit
  <2>3. LocalOfGets(u)
    BY <1>1 DEF LocalOfGets, ULInit
  <2> QED BY <2>2, <2>3
<1> QED BY <1>2, <1>3, <1>4, <1>5

-----------------------------------------------------------------------------
(* The steps of the TL-C agent *)

\* A write in its last beat adds a value to entries, and takes no entry.
LEMMA AppendKeepsGets ==
  ASSUME BoardOfGets, NEW x, NEW d,
         uncachedBoard' = AppendAll(uncachedBoard, x, d),
         gets' = gets, answers' = answers
  PROVE  BoardOfGets'
<1> DEFINE App(e) == [e EXCEPT !.data = IF e.get.addr = x THEN @ \cup {d} ELSE @]
<1>1. uncachedBoard' = {App(e) : e \in uncachedBoard}
  BY DEF AppendAll
<1>2. ASSUME NEW e \in uncachedBoard
      PROVE  App(e) = [get |-> e.get, data |-> App(e).data] /\ App(e).get = e.get
  <2>1. e = [get |-> e.get, data |-> e.data]
    BY DEF BoardOfGets
  <2>2. PICK g, v : e = [get |-> g, data |-> v]
    BY <2>1
  <2>3. e.get = g /\ e.data = v
    BY <2>2
  <2>4. PICK w : w = IF g.addr = x THEN v \cup {d} ELSE v
    OBVIOUS
  <2>5. App(e) = [get |-> g, data |-> w]
    BY <2>2, <2>3, <2>4
  <2> HIDE DEF App
  <2> QED BY <2>3, <2>5
<1> HIDE DEF App
<1>3. InFlightGets' = InFlightGets
  BY DEF InFlightGets
<1>4. \A e \in uncachedBoard' : e = [get |-> e.get, data |-> e.data]
  BY <1>1, <1>2
<1>5. \A e, f \in uncachedBoard' : e.get = f.get => e = f
  BY <1>1, <1>2 DEF BoardOfGets
<1>6. {e.get : e \in uncachedBoard'} = {e.get : e \in uncachedBoard}
  BY <1>1, <1>2
<1> QED BY <1>3, <1>4, <1>5, <1>6 DEF BoardOfGets

\* fire_c takes no entry.
LEMMA GetsCFireC ==
  ASSUME GetsInv, failed = {}, NEW c \in Core, CFireC(c)
  PROVE  GetsInv'
<1>1. /\ GetsType /\ DeviceGets /\ BoardOfGets
      /\ \A u \in UL : IdsOfGets(u) /\ LocalOfGets(u)
  BY DEF GetsInv
<1>2. UNCHANGED <<upos, getA, getD, localBoard, ulIdle, ulFree, gets, answers, waited>>
  BY DEF CFireC
<1>3. BoardOfGets'
  <2>1. CASE uncachedBoard' = uncachedBoard
    BY <1>1, <1>2, <2>1 DEF BoardOfGets, InFlightGets
  <2>2. CASE uncachedBoard' # uncachedBoard
    <3>1. PICK x, d : uncachedBoard' = AppendAll(uncachedBoard, x, d)
      BY <2>2 DEF CFireC
    <3> QED BY <1>1, <1>2, <3>1, AppendKeepsGets
  <2> QED BY <2>1, <2>2
<1>4. InFlightGets' = InFlightGets
  BY <1>2 DEF InFlightGets
<1>5. GetsType' /\ DeviceGets'
  BY <1>1, <1>2, <1>4 DEF GetsType, DeviceGets
<1>6. ASSUME NEW u \in UL PROVE IdsOfGets(u)' /\ LocalOfGets(u)'
  BY <1>1, <1>2, <1>4 DEF IdsOfGets, LocalOfGets, Used, Asked
<1> QED BY <1>3, <1>5, <1>6 DEF GetsInv

\* The other steps that leave the TL-UL agents alone.
LEMMA GetsFrame ==
  ASSUME GetsInv, failed = {}, UNCHANGED ulVars
  PROVE  GetsInv'
<1>1. /\ GetsType /\ DeviceGets /\ BoardOfGets
      /\ \A u \in UL : IdsOfGets(u) /\ LocalOfGets(u)
  BY DEF GetsInv
<1>2. UNCHANGED <<upos, getA, getD, localBoard, uncachedBoard, ulIdle, ulFree, gets, answers, waited>>
  BY DEF ulVars, ulOwn
<1>4. InFlightGets' = InFlightGets
  BY <1>2 DEF InFlightGets
<1>5. GetsType' /\ DeviceGets' /\ BoardOfGets'
  BY <1>1, <1>2, <1>4 DEF GetsType, DeviceGets, BoardOfGets
<1>6. ASSUME NEW u \in UL PROVE IdsOfGets(u)' /\ LocalOfGets(u)'
  BY <1>1, <1>2, <1>4 DEF IdsOfGets, LocalOfGets, Used, Asked
<1> QED BY <1>5, <1>6 DEF GetsInv

\* The TL-C agent's update_signal is followed by those of the TL-UL agents.
LEMMA GetsCUpdate ==
  ASSUME GetsInv, failed = {}, NEW c \in Core, CUpdate(c)
  PROVE  GetsInv'
<1>1. /\ GetsType /\ DeviceGets /\ BoardOfGets
      /\ \A u \in UL : IdsOfGets(u) /\ LocalOfGets(u)
  BY DEF GetsInv
<1>2. /\ UNCHANGED <<getA, getD, localBoard, uncachedBoard, ulIdle, ulFree, gets, answers, waited>>
      /\ upos' = PosULUpdate
  BY DEF CUpdate, ulOwn
<1>3. InFlightGets' = InFlightGets
  BY <1>2 DEF InFlightGets
<1>4. upos' \in Nat /\ \A u \in UL : upos' >= PosULD(u)
  BY <1>2, NULAssumption DEF PosULUpdate, PosULD, UL
<1>5. GetsType' /\ DeviceGets' /\ BoardOfGets'
  BY <1>1, <1>2, <1>3, <1>4 DEF GetsType, DeviceGets, BoardOfGets
<1>6. ASSUME NEW u \in UL PROVE IdsOfGets(u)' /\ LocalOfGets(u)'
  <2>1. upos' >= PosULD(u)'
    BY <1>4 DEF PosULD
  <2> QED BY <1>1, <1>2, <1>3, <2>1 DEF IdsOfGets, LocalOfGets, Used, Asked
<1> QED BY <1>5, <1>6 DEF GetsInv

\* Ages are numbers, and only grow.
LEMMA Ages ==
  ASSUME NEW n \in Nat, NEW m \in BOOLEAN
  PROVE  Aged(n, m) \in Nat /\ ~TooOld(Aged(0, m))
  BY DEF Aged, TooOld

\* What update_signal leaves in the local board: a Get presented, or a Get in flight,
\* as old as it has been in flight.
LEMMA ULUpdateLocal ==
  ASSUME GetsInv, failed = {}, NEW m \in BOOLEAN, NEW u \in UL, NEW i \in ULSourceID
  PROVE  /\ ULSendA(u, i) \subseteq LocalEntry
         /\ i \in Asked(u) => \A e \in ULSendA(u, i) : e.age = 0
         /\ i \notin Asked(u) =>
              ULSendA(u, i) = {[addr |-> a, status |-> "S_A_WAITING_D", age |-> waited[u][i]] :
                 a \in {g.addr : g \in {h \in InFlightGets : h.ul = u /\ h.source = i}}}
<1>1. GetsType /\ LocalOfGets(u)
  BY DEF GetsInv
<1>2. ToSend(u, i) = {} <=> i \notin Asked(u)
  BY DEF Asked, ToSend
<1>3. ToSend(u, i) \subseteq Get
  BY <1>1 DEF GetsType, ToSend
<1>4. CASE i \in Asked(u)
  <2>1. ULSendA(u, i) = {[addr |-> g.addr, status |-> "S_SENDING_A", age |-> 0] : g \in ToSend(u, i)}
    BY <1>2, <1>4 DEF ULSendA
  <2> QED BY <1>3, <1>4, <2>1 DEF Get, LocalEntry
<1>5. CASE i \notin Asked(u)
  <2>1. ULSendA(u, i) = localBoard[u][i]
    BY <1>2, <1>5 DEF ULSendA
  <2> QED BY <1>1, <1>5, <2>1 DEF LocalOfGets, GetsType
<1> QED BY <1>4, <1>5

\* send_a, the ages and IDPool::update at the end of the cycle.
LEMMA GetsULUpdate ==
  ASSUME GetsInv, failed = {}, ULUpdate
  PROVE  GetsInv'
<1>1. /\ GetsType /\ DeviceGets /\ BoardOfGets
      /\ \A u \in UL : IdsOfGets(u) /\ LocalOfGets(u)
  BY DEF GetsInv
<1>2. /\ upos' = 0
      /\ ulIdle' = [u \in UL |-> ulIdle[u] \cup ulFree[u]]
      /\ ulFree' = [u \in UL |-> {}]
      /\ UNCHANGED <<getA, getD, uncachedBoard, gets, answers>>
  BY DEF ULUpdate
<1> DEFINE L(u, i, m) == {[addr |-> e.addr, status |-> e.status, age |-> Aged(e.age, m)]
                            : e \in ULSendA(u, i)}
           W(u, i, m) == IF \E g \in InFlightGets : g.ul = u /\ g.source = i
                         THEN Aged(waited[u][i], m) ELSE 0
<1>3. PICK m \in BOOLEAN :
        /\ localBoard' = [u \in UL |-> [i \in ULSourceID |-> L(u, i, m)]]
        /\ waited' = [u \in UL |-> [i \in ULSourceID |-> W(u, i, m)]]
  BY DEF ULUpdate
<1>4. InFlightGets' = InFlightGets /\ \A u \in UL : Used(u)' = Used(u) /\ Asked(u)' = Asked(u)
  BY <1>2 DEF InFlightGets, Used, Asked
<1>5. ASSUME NEW u \in UL, NEW i \in ULSourceID
      PROVE  L(u, i, m) \subseteq LocalEntry /\ W(u, i, m) \in Nat
  <2>1. ULSendA(u, i) \subseteq LocalEntry
    BY ULUpdateLocal
  <2>2. ASSUME NEW e \in ULSendA(u, i)
        PROVE  [addr |-> e.addr, status |-> e.status, age |-> Aged(e.age, m)] \in LocalEntry
    BY <2>1, Ages DEF LocalEntry
  <2>3. waited[u][i] \in Nat
    BY <1>1 DEF GetsType
  <2> QED BY <2>2, <2>3, Ages
<1> HIDE DEF L, W
<1>6. /\ localBoard' \in [UL -> [ULSourceID -> SUBSET LocalEntry]]
      /\ waited' \in [UL -> [ULSourceID -> Nat]]
  BY <1>3, <1>5
<1>7. GetsType'
  BY <1>1, <1>2, <1>6 DEF GetsType
<1>8. DeviceGets' /\ BoardOfGets'
  BY <1>1, <1>2, <1>4 DEF DeviceGets, BoardOfGets
<1>9. ASSUME NEW u \in UL PROVE IdsOfGets(u)'
  <2>1. IdsOfGets(u) /\ ulFree[u] \subseteq ULSourceID
    BY <1>1 DEF GetsType
  <2>2. ulIdle'[u] = ulIdle[u] \cup ulFree[u] /\ ulFree'[u] = {}
    BY <1>2
  <2> QED BY <1>4, <2>1, <2>2 DEF IdsOfGets
<1>10. ASSUME NEW u \in UL PROVE LocalOfGets(u)'
  <2> SUFFICES ASSUME NEW i \in ULSourceID, i \notin Asked(u)
               PROVE  localBoard'[u][i] =
                        {[addr |-> a, status |-> "S_A_WAITING_D", age |-> waited'[u][i]] :
                 a \in {g.addr : g \in {h \in InFlightGets : h.ul = u /\ h.source = i}}}
    BY <1>4 DEF LocalOfGets
  <2> DEFINE A == {g.addr : g \in {h \in InFlightGets : h.ul = u /\ h.source = i}}
  <2>1. localBoard'[u][i] = L(u, i, m) /\ waited'[u][i] = W(u, i, m)
    BY <1>3
  <2>2. ULSendA(u, i) = {[addr |-> a, status |-> "S_A_WAITING_D", age |-> waited[u][i]] : a \in A}
    BY ULUpdateLocal
  <2>3. A # {} => W(u, i, m) = Aged(waited[u][i], m)
    BY DEF W
  <2> HIDE DEF A
  <2>4. L(u, i, m) = {[addr |-> a, status |-> "S_A_WAITING_D", age |-> Aged(waited[u][i], m)] : a \in A}
    <3> DEFINE G(a) == [addr |-> a, status |-> "S_A_WAITING_D", age |-> waited[u][i]]
               F(e) == [addr |-> e.addr, status |-> e.status, age |-> Aged(e.age, m)]
               H(a) == [addr |-> a, status |-> "S_A_WAITING_D", age |-> Aged(waited[u][i], m)]
    <3>1. \A a : F(G(a)) = H(a)
      OBVIOUS
    <3>2. L(u, i, m) = {F(e) : e \in ULSendA(u, i)} /\ ULSendA(u, i) = {G(a) : a \in A}
      BY <2>2 DEF L
    <3> HIDE DEF F, G, H
    <3>3. L(u, i, m) = {H(a) : a \in A}
      BY <3>1, <3>2
    <3> QED BY <3>3 DEF H
  <2>5. L(u, i, m) = {[addr |-> a, status |-> "S_A_WAITING_D", age |-> W(u, i, m)] : a \in A}
    BY <2>3, <2>4
  <2> QED BY <2>1, <2>5 DEF A
<1> QED BY <1>7, <1>8, <1>9, <1>10 DEF GetsInv

-----------------------------------------------------------------------------
(* The device performs a Get *)

\* A performed Get is still in flight.
LEMMA GetsPerform ==
  ASSUME GetsInv, NEW g, Perform(g)
  PROVE  GetsInv'
<1>1. failed = {} /\ g \in gets /\ gets' = gets \ {g}
  BY DEF Perform
<1>2. UNCHANGED <<upos, getA, getD, localBoard, uncachedBoard, ulIdle, ulFree, waited>>
  BY DEF Perform
<1>3. PICK ans : ans = [get |-> g, data |-> line[g.addr]] /\ answers' = answers \cup {ans}
  BY DEF Perform
<1>4. ans.get = g
  BY <1>3
<1>5. /\ GetsType /\ DeviceGets /\ BoardOfGets
      /\ \A u \in UL : IdsOfGets(u) /\ LocalOfGets(u)
  BY <1>1 DEF GetsInv
<1>6. InFlightGets' = InFlightGets
  <2>1. {a.get : a \in answers'} = {a.get : a \in answers} \cup {g}
    BY <1>3, <1>4
  <2> QED BY <1>1, <2>1 DEF InFlightGets
<1>7. GetsType'
  BY <1>1, <1>2, <1>5 DEF GetsType
<1>8. DeviceGets'
  <2>1. \A a \in answers : a.get # g
    BY <1>1, <1>5 DEF DeviceGets
  <2>2. \A a \in answers' : a.get \notin gets'
    BY <1>1, <1>3, <1>4, <1>5 DEF DeviceGets
  <2>3. \A a, b \in answers' : a.get = b.get => a = b
    BY <1>3, <1>4, <1>5, <2>1 DEF DeviceGets
  <2> QED BY <1>5, <1>6, <2>2, <2>3 DEF DeviceGets
<1>9. BoardOfGets'
  BY <1>2, <1>5, <1>6 DEF BoardOfGets
<1>10. ASSUME NEW u \in UL PROVE IdsOfGets(u)' /\ LocalOfGets(u)'
  BY <1>2, <1>5, <1>6 DEF IdsOfGets, LocalOfGets, Used, Asked
<1> QED BY <1>7, <1>8, <1>9, <1>10 DEF GetsInv

-----------------------------------------------------------------------------
(* fire_a *)

\* The new entry is the Get's, with whatever values.
LEMMA AllocatedGets ==
  ASSUME BoardOfGets, NEW g, g \notin InFlightGets
  PROVE  /\ \A e \in Allocated(g) : e = [get |-> e.get, data |-> e.data]
         /\ \A e, f \in Allocated(g) : e.get = f.get => e = f
         /\ {e.get : e \in Allocated(g)} = InFlightGets \cup {g}
<1>1. PICK x : x = [get |-> g, data |-> BoardValue(g.addr)]
  OBVIOUS
<1>2. x.get = g /\ x = [get |-> x.get, data |-> x.data]
  BY <1>1
<1>3. PICK S : S = uncachedBoard \cup {x}
  OBVIOUS
<1>4. \A e \in S : e = [get |-> e.get, data |-> e.data]
  BY <1>2, <1>3 DEF BoardOfGets
<1>5. \A e \in uncachedBoard : e.get # g
  BY DEF BoardOfGets
<1>6. \A e, f \in S : e.get = f.get => e = f
  BY <1>2, <1>3, <1>5 DEF BoardOfGets
<1>7. {e.get : e \in S} = InFlightGets \cup {g}
  BY <1>2, <1>3 DEF BoardOfGets
<1>8. CASE memAlt[g.addr] = NoAlt
  <2>1. Allocated(g) = S
    BY <1>1, <1>3, <1>8 DEF Allocated
  <2> QED BY <1>4, <1>6, <1>7, <2>1
<1>9. CASE memAlt[g.addr] # NoAlt
  <2> DEFINE App(e) == [e EXCEPT !.data = IF e.get.addr = g.addr THEN @ \cup {mem[g.addr]} ELSE @]
  <2>1. Allocated(g) = {App(e) : e \in S}
    BY <1>1, <1>3, <1>9 DEF Allocated, AppendAll
  <2>2. ASSUME NEW e \in S
        PROVE  App(e) = [get |-> e.get, data |-> App(e).data] /\ App(e).get = e.get
    <3>1. PICK h, v : e = [get |-> h, data |-> v]
      BY <1>4
    <3>2. e.get = h /\ e.data = v
      BY <3>1
    <3>3. PICK w : w = IF h.addr = g.addr THEN v \cup {mem[g.addr]} ELSE v
      OBVIOUS
    <3>4. App(e) = [get |-> h, data |-> w]
      BY <3>1, <3>2, <3>3
    <3> HIDE DEF App
    <3> QED BY <3>2, <3>4
  <2> HIDE DEF App
  <2>3. \A e \in Allocated(g) : e = [get |-> e.get, data |-> e.data]
    BY <2>1, <2>2
  <2>4. \A e, f \in Allocated(g) : e.get = f.get => e = f
    BY <1>6, <2>1, <2>2
  <2>5. {e.get : e \in Allocated(g)} = {e.get : e \in S}
    BY <2>1, <2>2
  <2> QED BY <1>7, <2>3, <2>4, <2>5
<1> QED BY <1>8, <1>9

\* The Get sent comes to be in flight, with its entries and its id.
LEMMA GetsFireGet ==
  ASSUME GetsInv, NEW u \in UL, FireGet(u)
  PROVE  GetsInv'
<1>1. failed = {} /\ upos < PosULA(u) /\ upos' = PosULA(u)
  BY DEF FireGet, AtChannel, Reach
<1>2. PICK g \in getA[u] :
        /\ getA' = [getA EXCEPT ![u] = {}]
        /\ localBoard' = [localBoard EXCEPT ![u][g.source] =
             {[addr |-> g.addr, status |-> "S_A_WAITING_D", age |-> 0]}]
        /\ waited' = [waited EXCEPT ![u][g.source] = 0]
        /\ uncachedBoard' = Allocated(g)
        /\ gets' = gets \cup {g}
  BY DEF FireGet
<1>3. UNCHANGED <<getD, ulIdle, ulFree, answers>>
  BY DEF FireGet
<1>4. /\ GetsType /\ DeviceGets /\ BoardOfGets
      /\ \A v \in UL : IdsOfGets(v) /\ LocalOfGets(v)
  BY <1>1 DEF GetsInv
<1>5. g \in Get /\ g.ul = u /\ getA[u] = {g} /\ g.source \in ULSourceID /\ g.addr \in Addr
  BY <1>4 DEF GetsType, Get
<1>6. Asked(u) = {g.source} /\ g.source \notin Used(u)
  BY <1>4, <1>5 DEF Asked, IdsOfGets
<1>7. g \notin InFlightGets
  BY <1>5, <1>6 DEF Used
<1>8. InFlightGets' = InFlightGets \cup {g}
  BY <1>2, <1>3 DEF InFlightGets
<1>9. \A h \in InFlightGets : ~(h.ul = u /\ h.source = g.source)
  BY <1>6 DEF Used
<1>10. PICK l : l = {[addr |-> g.addr, status |-> "S_A_WAITING_D", age |-> 0]}
  OBVIOUS
<1>11. l \subseteq LocalEntry
  BY <1>5, <1>10 DEF LocalEntry
<1>12. localBoard' = [localBoard EXCEPT ![u] = [localBoard[u] EXCEPT ![g.source] = l]]
  BY <1>2, <1>10
<1>13. localBoard \in [UL -> [ULSourceID -> SUBSET LocalEntry]] /\ getA \in [UL -> SUBSET Get]
  BY <1>4 DEF GetsType
<1>14. localBoard' \in [UL -> [ULSourceID -> SUBSET LocalEntry]]
  BY <1>5, <1>11, <1>12, <1>13
<1>15. /\ localBoard'[u][g.source] = l
       /\ \A v \in UL, i \in ULSourceID :
            v # u \/ i # g.source => localBoard'[v][i] = localBoard[v][i]
  BY <1>5, <1>12, <1>13
<1>16. getA'[u] = {} /\ \A v \in UL : v # u => getA'[v] = getA[v]
  BY <1>2, <1>13
<1>23. /\ waited' \in [UL -> [ULSourceID -> Nat]] /\ waited'[u][g.source] = 0
       /\ \A v \in UL, i \in ULSourceID :
            v # u \/ i # g.source => waited'[v][i] = waited[v][i]
  <2>1. waited \in [UL -> [ULSourceID -> Nat]]
    BY <1>4 DEF GetsType
  <2>2. waited' = [waited EXCEPT ![u] = [waited[u] EXCEPT ![g.source] = 0]]
    BY <1>2
  <2> QED BY <1>5, <2>1, <2>2
<1>17. GetsType'
  <2>1. getA' \in [UL -> SUBSET Get]
    BY <1>2, <1>13
  <2>2. upos' \in Nat
    BY <1>1, NULAssumption DEF PosULA, UL
  <2> QED BY <1>2, <1>3, <1>4, <1>5, <1>14, <1>16, <1>23, <2>1, <2>2 DEF GetsType
<1>18. DeviceGets'
  <2>1. IsFiniteSet(InFlightGets')
    BY <1>4, <1>8, FS_AddElement DEF DeviceGets
  <2>2. \A a \in answers : a.get # g
    BY <1>7 DEF InFlightGets
  <2>3. \A a \in answers' : a.get \notin gets'
    BY <1>2, <1>3, <1>4, <2>2 DEF DeviceGets
  <2>4. \A h, k \in InFlightGets' : h.ul = k.ul /\ h.source = k.source => h = k
    BY <1>4, <1>5, <1>8, <1>9 DEF DeviceGets
  <2> QED BY <1>3, <1>4, <1>5, <1>8, <2>1, <2>3, <2>4 DEF DeviceGets
<1>19. BoardOfGets'
  BY <1>2, <1>4, <1>7, <1>8, AllocatedGets DEF BoardOfGets
<1>20. ASSUME NEW v \in UL, v # u PROVE IdsOfGets(v)' /\ LocalOfGets(v)'
  <2>1. {h \in InFlightGets' : h.ul = v} = {h \in InFlightGets : h.ul = v}
    BY <1>5, <1>8, <1>20
  <2>2. Used(v)' = Used(v) /\ Asked(v)' = Asked(v)
    BY <1>16, <1>20, <2>1 DEF Used, Asked
  <2>3. ulFree[v] # {} => upos' >= PosULD(v)
    <3>1. ulFree[v] # {} => upos >= PosULD(v)
      BY <1>4 DEF IdsOfGets
    <3> QED BY <1>1, <1>4, <3>1, NULAssumption DEF GetsType, PosULA, PosULD, UL
  <2>4. IdsOfGets(v)'
    BY <1>3, <1>4, <2>2, <2>3 DEF IdsOfGets
  <2>5. ASSUME NEW i \in ULSourceID
        PROVE  {h \in InFlightGets' : h.ul = v /\ h.source = i}
                 = {h \in InFlightGets : h.ul = v /\ h.source = i}
    BY <2>1
  <2>6. LocalOfGets(v)'
    BY <1>4, <1>15, <1>20, <1>23, <2>2, <2>5 DEF LocalOfGets
  <2> QED BY <2>4, <2>6
<1>21. IdsOfGets(u)'
  <2>1. Asked(u)' = {}
    BY <1>16 DEF Asked
  <2>2. Used(u)' = Used(u) \cup {g.source}
    <3>1. {h \in InFlightGets' : h.ul = u} = {h \in InFlightGets : h.ul = u} \cup {g}
      BY <1>5, <1>8
    <3> QED BY <3>1 DEF Used
  <2>3. ulFree[u] # {} => upos' >= PosULD(u)
    <3>1. ulFree[u] # {} => upos >= PosULD(u)
      BY <1>4 DEF IdsOfGets
    <3> QED BY <1>1, <1>4, <3>1, NULAssumption DEF GetsType, PosULA, PosULD, UL
  <2> QED BY <1>3, <1>4, <1>6, <2>1, <2>2, <2>3 DEF IdsOfGets
<1>22. LocalOfGets(u)'
  <2>1. SUFFICES ASSUME NEW i \in ULSourceID
                 PROVE  localBoard'[u][i] =
                        {[addr |-> a, status |-> "S_A_WAITING_D", age |-> waited'[u][i]] :
                          a \in {h.addr : h \in {k \in InFlightGets' : k.ul = u /\ k.source = i}}}
    BY DEF LocalOfGets
  <2>2. CASE i = g.source
    <3>1. {k \in InFlightGets' : k.ul = u /\ k.source = i} = {g}
      BY <1>5, <1>8, <1>9, <2>2
    <3>2. {h.addr : h \in {k \in InFlightGets' : k.ul = u /\ k.source = i}} = {g.addr}
      BY <3>1
    <3>3. PICK n : n = waited'[u][i] /\ n = 0
      BY <1>23, <2>2
    <3>4. {[addr |-> a, status |-> "S_A_WAITING_D", age |-> n] : a \in {g.addr}} = l
      BY <1>10, <3>3
    <3> QED BY <1>15, <2>2, <3>2, <3>3, <3>4
  <2>3. CASE i # g.source
    <3>1. {k \in InFlightGets' : k.ul = u /\ k.source = i}
            = {k \in InFlightGets : k.ul = u /\ k.source = i}
      BY <1>8, <2>3
    <3>2. i \notin Asked(u)
      BY <1>6, <2>3
    <3> QED BY <1>4, <1>15, <1>23, <2>3, <3>1, <3>2 DEF LocalOfGets
  <2> QED BY <2>2, <2>3
<1> QED BY <1>17, <1>18, <1>19, <1>20, <1>21, <1>22 DEF GetsInv

-----------------------------------------------------------------------------
(* fire_d *)

\* After the first beat only the handler reached has changed.
LEMMA GetsBeat ==
  ASSUME GetsInv, NEW u \in UL, AtChannel(PosULD(u)),
         UNCHANGED <<getA, localBoard, uncachedBoard, ulIdle, ulFree, gets, answers, waited>>
  PROVE  GetsInv'
<1>1. failed = {} /\ upos < PosULD(u) /\ upos' = PosULD(u)
  BY DEF AtChannel, Reach
<1>2. /\ GetsType /\ DeviceGets /\ BoardOfGets
      /\ \A v \in UL : IdsOfGets(v) /\ LocalOfGets(v)
  BY <1>1 DEF GetsInv
<1>3. InFlightGets' = InFlightGets
  BY DEF InFlightGets
<1>4. upos' \in Nat
  BY <1>1, NULAssumption DEF PosULD, UL
<1>5. GetsType' /\ DeviceGets' /\ BoardOfGets'
  BY <1>2, <1>3, <1>4 DEF GetsType, DeviceGets, BoardOfGets
<1>6. ASSUME NEW v \in UL PROVE IdsOfGets(v)' /\ LocalOfGets(v)'
  <2>1. Used(v)' = Used(v) /\ Asked(v)' = Asked(v)
    BY <1>3 DEF Used, Asked
  <2>2. ulFree[v] # {} => upos' >= PosULD(v)
    <3>1. ulFree[v] # {} => upos >= PosULD(v)
      BY <1>2 DEF IdsOfGets
    <3> QED BY <1>1, <1>2, <3>1, NULAssumption DEF GetsType, PosULD, UL
  <2>3. IdsOfGets(v)'
    BY <1>2, <2>1, <2>2 DEF IdsOfGets
  <2>4. LocalOfGets(v)'
    BY <1>2, <1>3, <2>1 DEF LocalOfGets
  <2> QED BY <2>3, <2>4
<1> QED BY <1>5, <1>6 DEF GetsInv

\* The last beat takes the Get's entries out of both boards and parks its id,
\* which finds no other id parked.
LEMMA GetsFinish ==
  ASSUME GetsInv, NEW u \in UL, AtChannel(PosULD(u)),
         NEW ans \in answers, ans.get.ul = u, FinishGet(u, ans),
         UNCHANGED <<getA, ulIdle, gets, waited>>
  PROVE  GetsInv'
<1>1. failed = {} /\ upos < PosULD(u) /\ upos' = PosULD(u)
  BY DEF AtChannel, Reach
<1>2. PICK g : g = ans.get
  OBVIOUS
<1>3. /\ localBoard' = [localBoard EXCEPT ![u][g.source] = {}]
      /\ uncachedBoard' = Finished(g)
      /\ ulFree' = [ulFree EXCEPT ![u] = {g.source}]
      /\ answers' = answers \ {ans}
  BY <1>2 DEF FinishGet
<1>4. /\ GetsType /\ DeviceGets /\ BoardOfGets
      /\ \A v \in UL : IdsOfGets(v) /\ LocalOfGets(v)
  BY <1>1 DEF GetsInv
<1>5. g \in InFlightGets /\ g.ul = u
  BY <1>2 DEF InFlightGets
<1>6. g \in Get /\ g.source \in ULSourceID
  BY <1>4, <1>5 DEF DeviceGets, Get
<1>7. InFlightGets' = InFlightGets \ {g}
  <2>1. {a.get : a \in answers'} = {a.get : a \in answers} \ {g}
    BY <1>2, <1>3, <1>4 DEF DeviceGets
  <2>2. g \notin gets
    BY <1>2, <1>4 DEF DeviceGets
  <2> QED BY <2>1, <2>2 DEF InFlightGets
<1>8. \A h \in InFlightGets' : ~(h.ul = u /\ h.source = g.source)
  BY <1>4, <1>5, <1>7 DEF DeviceGets
<1>9. /\ localBoard \in [UL -> [ULSourceID -> SUBSET LocalEntry]]
      /\ ulFree \in [UL -> SUBSET ULSourceID]
  BY <1>4 DEF GetsType
<1>10. localBoard' = [localBoard EXCEPT ![u] = [localBoard[u] EXCEPT ![g.source] = {}]]
  BY <1>3
<1>11. localBoard' \in [UL -> [ULSourceID -> SUBSET LocalEntry]]
  BY <1>6, <1>9, <1>10
<1>12. /\ localBoard'[u][g.source] = {}
       /\ \A v \in UL, i \in ULSourceID :
            v # u \/ i # g.source => localBoard'[v][i] = localBoard[v][i]
  BY <1>6, <1>9, <1>10
<1>13. ulFree'[u] = {g.source} /\ \A v \in UL : v # u => ulFree'[v] = ulFree[v]
  BY <1>3, <1>9
<1>14. GetsType'
  <2>1. ulFree' \in [UL -> SUBSET ULSourceID]
    BY <1>3, <1>6, <1>9
  <2>2. upos' \in Nat
    BY <1>1, NULAssumption DEF PosULD, UL
  <2> QED BY <1>4, <1>11, <2>1, <2>2 DEF GetsType
<1>15. DeviceGets'
  <2>1. IsFiniteSet(InFlightGets')
    BY <1>4, <1>7, FS_Subset DEF DeviceGets
  <2> QED BY <1>3, <1>4, <1>7, <2>1 DEF DeviceGets
<1>16. BoardOfGets'
  <2>1. uncachedBoard' = {e \in uncachedBoard : e.get # g}
    BY <1>3 DEF Finished, EntryOf
  <2>2. {e.get : e \in uncachedBoard'} = {e.get : e \in uncachedBoard} \ {g}
    BY <2>1
  <2> QED BY <1>4, <1>7, <2>1, <2>2 DEF BoardOfGets
<1>17. ulFree[u] = {}
  BY <1>1, <1>4, NULAssumption DEF IdsOfGets, GetsType, PosULD, UL
<1>18. ASSUME NEW v \in UL, v # u PROVE IdsOfGets(v)' /\ LocalOfGets(v)'
  <2>1. {h \in InFlightGets' : h.ul = v} = {h \in InFlightGets : h.ul = v}
    BY <1>5, <1>7, <1>18
  <2>2. Used(v)' = Used(v) /\ Asked(v)' = Asked(v)
    BY <2>1 DEF Used, Asked
  <2>3. ulFree[v] # {} => upos' >= PosULD(v)
    <3>1. ulFree[v] # {} => upos >= PosULD(v)
      BY <1>4 DEF IdsOfGets
    <3> QED BY <1>1, <1>4, <3>1, NULAssumption DEF GetsType, PosULD, UL
  <2>4. IdsOfGets(v)'
    BY <1>4, <1>13, <1>18, <2>2, <2>3 DEF IdsOfGets
  <2>5. ASSUME NEW i \in ULSourceID
        PROVE  {h \in InFlightGets' : h.ul = v /\ h.source = i}
                 = {h \in InFlightGets : h.ul = v /\ h.source = i}
    BY <2>1
  <2>6. LocalOfGets(v)'
    BY <1>4, <1>12, <1>18, <2>2, <2>5 DEF LocalOfGets
  <2> QED BY <2>4, <2>6
<1>19. IdsOfGets(u)'
  <2>1. Asked(u)' = Asked(u)
    BY DEF Asked
  <2>2. Used(u)' = Used(u) \ {g.source} /\ g.source \in Used(u)
    BY <1>5, <1>7, <1>8 DEF Used
  <2>3. upos' >= PosULD(u)
    BY <1>1, NULAssumption DEF PosULD, UL
  <2> QED BY <1>4, <1>6, <1>13, <1>17, <2>1, <2>2, <2>3 DEF IdsOfGets
<1>20. LocalOfGets(u)'
  <2>1. Asked(u)' = Asked(u)
    BY DEF Asked
  <2>2. ASSUME NEW i \in ULSourceID, i \notin Asked(u)
        PROVE  localBoard'[u][i] =
                 {[addr |-> a, status |-> "S_A_WAITING_D", age |-> waited[u][i]] :
                 a \in {h.addr : h \in {k \in InFlightGets' : k.ul = u /\ k.source = i}}}
    <3>1. CASE i = g.source
      <4>1. {k \in InFlightGets' : k.ul = u /\ k.source = i} = {}
        BY <1>8, <3>1
      <4>2. {h.addr : h \in {k \in InFlightGets' : k.ul = u /\ k.source = i}} = {}
        BY <4>1
      <4> QED BY <1>12, <3>1, <4>2
    <3>2. CASE i # g.source
      <4>1. {k \in InFlightGets' : k.ul = u /\ k.source = i}
              = {k \in InFlightGets : k.ul = u /\ k.source = i}
        BY <1>7, <3>2
      <4> QED BY <1>4, <1>12, <2>2, <3>2, <4>1 DEF LocalOfGets
    <3> QED BY <3>1, <3>2
  <2> QED BY <2>1, <2>2 DEF LocalOfGets
<1> QED BY <1>14, <1>15, <1>16, <1>18, <1>19, <1>20 DEF GetsInv

\* fire_d takes a beat of an answer.
LEMMA GetsFireD ==
  ASSUME GetsInv, NEW u \in UL, FireAccessAckData(u)
  PROVE  GetsInv'
<1>1. AtChannel(PosULD(u)) /\ UNCHANGED <<getA, ulIdle, gets, waited>>
  BY DEF FireAccessAckData
<1>2. PICK ans \in answers : ans.get.ul = u /\ (FireGetBeat(u, ans) \/ FinishGet(u, ans))
  BY DEF FireAccessAckData
<1>3. CASE FireGetBeat(u, ans)
  BY <1>1, <1>3, GetsBeat DEF FireGetBeat
<1>4. CASE FinishGet(u, ans)
  BY <1>1, <1>2, <1>4, GetsFinish
<1> QED BY <1>2, <1>3, <1>4

-----------------------------------------------------------------------------
(* tick *)

\* An id taken from the pool is of the Get asked for.
LEMMA GetsAuto ==
  ASSUME GetsInv, NEW u \in UL, DoGetAuto(u)
  PROVE  GetsInv'
<1>1. failed = {} /\ upos < PosULFuzz(u) /\ upos' = PosULFuzz(u)
  BY DEF DoGetAuto, AtFuzz
<1>2. PICK i \in ulIdle[u], a \in Addr :
        /\ getA' = [getA EXCEPT ![u] = {[ul |-> u, addr |-> a, source |-> i]}]
        /\ ulIdle' = [ulIdle EXCEPT ![u] = @ \ {i}]
  BY DEF DoGetAuto
<1>3. getA[u] = {} /\ UNCHANGED <<getD, localBoard, uncachedBoard, ulFree, gets, answers, waited>>
  BY DEF DoGetAuto
<1>4. /\ GetsType /\ DeviceGets /\ BoardOfGets
      /\ \A v \in UL : IdsOfGets(v) /\ LocalOfGets(v)
  BY <1>1 DEF GetsInv
<1>5. PICK g : g = [ul |-> u, addr |-> a, source |-> i]
  OBVIOUS
<1>6. /\ getA \in [UL -> SUBSET Get]
      /\ ulIdle \in [UL -> SUBSET ULSourceID]
  BY <1>4 DEF GetsType
<1>7. g \in Get /\ g.ul = u /\ g.source = i
  BY <1>2, <1>5, <1>6 DEF Get
<1>8. getA'[u] = {g} /\ \A v \in UL : v # u => getA'[v] = getA[v]
  BY <1>2, <1>5, <1>6
<1>9. ulIdle'[u] = ulIdle[u] \ {i} /\ \A v \in UL : v # u => ulIdle'[v] = ulIdle[v]
  BY <1>2, <1>6
<1>10. InFlightGets' = InFlightGets
  BY <1>3 DEF InFlightGets
<1>11. upos' \in Nat /\ \A v \in UL : PosULFuzz(u) >= PosULD(v)
  BY <1>1, NULAssumption DEF PosULFuzz, PosULD, UL
<1>12. GetsType'
  <2>1. getA' \in [UL -> SUBSET Get]
    BY <1>2, <1>5, <1>6, <1>7
  <2>2. ulIdle' \in [UL -> SUBSET ULSourceID]
    BY <1>2, <1>6
  <2> QED BY <1>3, <1>4, <1>7, <1>8, <1>11, <2>1, <2>2 DEF GetsType
<1>13. DeviceGets' /\ BoardOfGets'
  BY <1>3, <1>4, <1>10 DEF DeviceGets, BoardOfGets
<1>14. ASSUME NEW v \in UL PROVE IdsOfGets(v)' /\ LocalOfGets(v)'
  <2>1. Used(v)' = Used(v)
    BY <1>10 DEF Used
  <2>2. ulFree'[v] # {} => upos' >= PosULD(v)
    BY <1>1, <1>11
  <2>3. CASE v = u
    <3>1. Asked(v) = {} /\ Asked(v)' = {i}
      BY <1>3, <1>7, <1>8, <2>3 DEF Asked
    <3>2. IdsOfGets(v)'
      BY <1>3, <1>4, <1>9, <2>1, <2>2, <2>3, <3>1 DEF IdsOfGets
    <3>3. LocalOfGets(v)'
      BY <1>3, <1>4, <1>10, <3>1 DEF LocalOfGets
    <3> QED BY <3>2, <3>3
  <2>4. CASE v # u
    <3>1. Asked(v)' = Asked(v)
      BY <1>8, <2>4 DEF Asked
    <3>2. IdsOfGets(v)'
      BY <1>3, <1>4, <1>9, <2>1, <2>2, <2>4, <3>1 DEF IdsOfGets
    <3>3. LocalOfGets(v)'
      BY <1>3, <1>4, <1>10, <3>1 DEF LocalOfGets
    <3> QED BY <3>2, <3>3
  <2> QED BY <2>3, <2>4
<1> QED BY <1>12, <1>13, <1>14 DEF GetsInv

-----------------------------------------------------------------------------
(* The theorem *)

\* The steps of the TL-C agent.
LEMMA GetsCNext ==
  ASSUME GetsInv, failed = {}, NEW c \in Core, CNext(c)
  PROVE  GetsInv'
<1>1. CASE (FireA(c) \/ FireB(c) \/ FireE(c) \/ Fuzz(c)) /\ UNCHANGED ulVars
  BY <1>1, GetsFrame
<1>2. CASE FireD(c) /\ MayOvertakeGets /\ UNCHANGED ulVars
  BY <1>2, GetsFrame
<1>3. CASE CFireC(c)
  BY <1>3, GetsCFireC
<1>4. CASE CUpdate(c)
  BY <1>4, GetsCUpdate
<1> QED BY <1>1, <1>2, <1>3, <1>4 DEF CNext

\* Every step keeps the Gets accounted for.
LEMMA GetsNext == GetsInv /\ [ULNext]_allVars => GetsInv'
<1> SUFFICES ASSUME GetsInv, [ULNext]_allVars
             PROVE  GetsInv'
  OBVIOUS
<1>1. CASE UNCHANGED allVars
  <2>1. UNCHANGED ulVars /\ failed' = failed
    BY <1>1 DEF allVars, vars
  <2>2. CASE failed = {}
    BY <2>1, <2>2, GetsFrame
  <2>3. CASE failed # {}
    BY <2>1, <2>3 DEF GetsInv
  <2> QED BY <2>2, <2>3
<1>2. ASSUME NEW a \in Addr, WriteBack(a) /\ UNCHANGED ulVars
      PROVE  GetsInv'
  BY <1>2, GetsFrame DEF WriteBack
<1>3. ASSUME NEW c \in Core, CNext(c)
      PROVE  GetsInv'
  <2>1. failed = {}
    BY <1>3 DEF CNext, CUpdate, FireA, FireB, FireE, Fuzz, FireD, CFireC, FireC, Update, At, Reach
  <2> QED BY <1>3, <2>1, GetsCNext
<1>4. ASSUME NEW g \in gets, Perform(g)
      PROVE  GetsInv'
  BY <1>4, GetsPerform
<1>5. ASSUME NEW u \in UL, FireGet(u) \/ FireAccessAckData(u) \/ DoGetAuto(u)
      PROVE  GetsInv'
  BY <1>5, GetsFireGet, GetsFireD, GetsAuto
<1>6. CASE ULUpdate
  BY <1>6, GetsULUpdate DEF ULUpdate
<1> QED BY <1>1, <1>2, <1>3, <1>4, <1>5, <1>6 DEF ULNext

\* The uncached board has one entry for each Get in flight, from fire_a to the
\* last beat of its answer, and an id is idle, parked or of one Get: what the
\* allocations, UncachedBoard::finish and the two pools of ULAgent.cpp keep
\* together, whatever the TL-C agent writes in between.
THEOREM EveryGetAccounted == ULSpec => []GetsAccounted
<1>1. ULInit => GetsInv
  BY GetsInit
<1>2. GetsInv /\ [ULNext]_allVars => GetsInv'
  BY GetsNext
<1>3. GetsInv => GetsAccounted
  BY InvAccounts
<1> QED BY <1>1, <1>2, <1>3, PTL DEF ULSpec

-----------------------------------------------------------------------------
(* What a Get may return: the cached agent's side *)

\* Where a cbo.inval may be issued, no answer of the device overtakes a ReleaseAck, no
\* Get's answer a grant, and the board is not resynchronised behind the Gets.
InvalsCareful ==
  "CBOInval" \in Ops => Overtake = {} /\ ~memorySyncStrict /\ ~InvalRace

\* An alternative whose last cbo.inval has been answered does not wait for a touch while
\* a release is pending; without cbo.inval there is none.
AltKept ==
  /\ \A a \in Addr : Pending(a) => memAlt[a] # 0
  /\ "CBOInval" \notin Ops => \A a \in Addr : memAlt[a] = NoAlt

\* The memory's value is the block's, and the oracle takes it for one.
Backed(a) == memAlt[a] # NoAlt /\ line[a] = mem[a]

\* No agent can write the block before it is granted it anew.
Unwritable(a) ==
  \A c \in Core :
    /\ <<c, a>> \notin granting
    /\ \A x \in Alias : dir[c][a][x] # "TIP"
    /\ \A b \in pendingB[c] : b.addr = a => ~b.needdata
    /\ \A r \in pendingC[c] : r.addr = a => r.op \notin {"ReleaseData", "ProbeAckData"}

\* No alternative at first.
LEMMA AltKeptInit == Init => AltKept
  BY DEF Init, AltKept, Pending, NoEntry, NoAlt

\* fire_a of a cbo.inval gives a life.
LEMMA AltKeptFireA ==
  ASSUME TypeOK, OpsInv, AltKept, NEW c \in Core, FireA(c)
  PROVE  AltKept'
<1>1. PICK r \in pendingA[c] :
        memAlt' = IF r.op = "CBOInval" /\ ~memorySyncStrict
             THEN [memAlt EXCEPT ![r.addr] = GrantMemoryAlt(memAlt[r.addr])]
             ELSE memAlt
  BY DEF FireA
<1>2. board' = board
  BY DEF FireA
<1>3. r.op \in Ops
  BY DEF OpsInv
<1>4. \A a \in Addr : memAlt[a] # 0 => memAlt'[a] # 0
  BY <1>1 DEF TypeOK, TypeShared, MemoryAlt, GrantMemoryAlt, NoAlt
<1>5. "CBOInval" \notin Ops => memAlt' = memAlt
  BY <1>1, <1>3
<1> QED BY <1>2, <1>4, <1>5 DEF AltKept, Pending

\* A touch removes an alternative without lives.
LEMMA AltKeptTouched ==
  ASSUME TypeOK, AltKept, NEW b \in Addr, NEW e,
         board' = [board EXCEPT ![b] = e],
         memAlt' = [memAlt EXCEPT ![b] = TouchMemoryAlt(memAlt[b])]
  PROVE  AltKept'
<1>1. board'[b] = e /\ memAlt'[b] = TouchMemoryAlt(memAlt[b])
  BY DEF TypeOK, TypeShared
<1>2. \A a \in Addr \ {b} : board'[a] = board[a] /\ memAlt'[a] = memAlt[a]
  BY DEF TypeOK, TypeShared
<1>3. TouchMemoryAlt(memAlt[b]) # 0
  BY DEF TouchMemoryAlt, NoAlt
<1>4. memAlt[b] = NoAlt => TouchMemoryAlt(memAlt[b]) = NoAlt
  BY DEF TouchMemoryAlt, NoAlt
<1> QED BY <1>1, <1>2, <1>3, <1>4 DEF AltKept, Pending

\* fire_c touches the alternative of the block it writes.
LEMMA AltKeptFireC ==
  ASSUME TypeOK, AltKept, NEW c \in Core, FireC(c)
  PROVE  AltKept'
<1>1. PICK r \in pendingC[c] : FireCBeat(c, r) \/ FireRelease(c, r) \/ FireProbeAck(c, r)
  BY DEF FireC
<1>2. r.addr \in Addr
  BY DEF TypeOK, TypePending, ReqC
<1>3. CASE UNCHANGED boardVars
  BY <1>3 DEF boardVars, AltKept, Pending
<1>4. CASE FireRelease(c, r) /\ r.op = "ReleaseData"
  <2>1. /\ board' = [board EXCEPT ![r.addr] = Released(board[r.addr], r.data)]
        /\ memAlt' = [memAlt EXCEPT ![r.addr] = TouchMemoryAlt(memAlt[r.addr])]
    BY <1>4 DEF FireRelease
  <2> QED BY <1>2, <2>1, AltKeptTouched
<1>5. CASE FireProbeAck(c, r) /\ r.op = "ProbeAckData"
  <2>1. /\ board' = [board EXCEPT ![r.addr] = ProbeWritten(r.data)]
        /\ memAlt' = [memAlt EXCEPT ![r.addr] = TouchMemoryAlt(memAlt[r.addr])]
    BY <1>5 DEF FireProbeAck
  <2> QED BY <1>2, <2>1, AltKeptTouched
<1> QED BY <1>1, <1>3, <1>4, <1>5 DEF FireCBeat, FireRelease, FireProbeAck

\* A ReleaseAck leaves no alternative without lives, and takes away none that is alive.
LEMMA AltKeptReleaseAck ==
  ASSUME TypeOK, MapInv, BoardInv, InvalsCareful, AltKept,
         NEW c \in Core, NEW k \in relAcks, FireReleaseAck(c, k)
  PROVE  AltKept' /\ memAlt' = memAlt
<1>1. k \in AcksOf(c) /\ k.addr \in Addr /\ k.source \in SourceID
  BY DEF FireReleaseAck, AcksOf, TypeOK, TypeDevice, ReleaseAck
<1>2. PICK e \in idMap[c][k.source] :
        /\ board' = [board EXCEPT ![e.addr] = Unpending(board[e.addr])]
        /\ memAlt' = IF board[e.addr].pending = {} THEN memAlt
                     ELSE [memAlt EXCEPT ![e.addr] = TouchMemoryAlt(memAlt[e.addr])]
  BY DEF FireReleaseAck
<1>3. e.addr \in Addr
  BY <1>1 DEF TypeOK, TypeIds, Block
<1>4. board'[e.addr] = Unpending(board[e.addr])
      /\ \A a \in Addr \ {e.addr} : board'[a] = board[a]
  BY <1>2, <1>3 DEF TypeOK, TypeShared
<1>5. memAlt' = memAlt
  <2> SUFFICES ASSUME board[e.addr].pending # {}
               PROVE  TouchMemoryAlt(memAlt[e.addr]) = memAlt[e.addr]
    BY <1>2, <1>3 DEF TypeOK, TypeShared
  <2>1. CASE "CBOInval" \notin Ops
    BY <1>3, <2>1 DEF AltKept, TouchMemoryAlt, NoAlt
  <2>2. CASE "CBOInval" \in Ops
    <3>1. BoardInvAt(e.addr)
      BY <1>3, <2>2 DEF InvalsCareful, InvalsWait, BoardInv
    <3>2. board[e.addr].status \in {"NONE", "VALID", "PENDING"}
      BY <1>3 DEF TypeOK, TypeShared, Entry
    <3>3. Pending(e.addr)
      BY <3>1, <3>2 DEF BoardInvAt, Pending
    <3> QED BY <1>3, <3>3 DEF AltKept, TouchMemoryAlt
  <2> QED BY <2>1, <2>2
<1>6. Unpending(board[e.addr]).status = "PENDING" => Pending(e.addr)
  BY DEF Unpending, Pending
<1> QED BY <1>3, <1>4, <1>5, <1>6 DEF AltKept, Pending

\* The CBO answered is the one that localCMOStatus knows.
LEMMA CBOAckOf ==
  ASSUME TypeOK, CMOInv, OpsInv, InvalsCareful, NEW c \in Core, NEW r \in reqs, r.core = c,
         MayAckCBO(r), FireCBOAck(c, r)
  PROVE  /\ r.addr \in Addr /\ r.op \in Ops
         /\ cmo[c][r.addr].op = r.op /\ cmo[c][r.addr].fired = TRUE
         /\ board' = IF r.op = "CBOInval" /\ memorySyncStrict
              THEN [board EXCEPT ![r.addr] = Synced(board[r.addr], mem[r.addr])] ELSE board
         /\ r.op # "CBOInval" =>
              /\ UNCHANGED <<memAlt, line>>
              /\ mem' = [mem EXCEPT ![r.addr] = line[r.addr]]
         /\ r.op = "CBOInval" =>
              /\ ~memorySyncStrict /\ Overtake = {}
              /\ memAlt' = [memAlt EXCEPT ![r.addr] = ReclaimMemoryAlt(memAlt[r.addr])]
              /\ mem' = mem
              /\ line' = [line EXCEPT ![r.addr] = mem[r.addr]]
<1>1. r.addr \in Addr /\ r \in ReqsOf(c) /\ r.op \in Ops
  BY DEF ReqsOf, TypeOK, TypeDevice, ReqA, OpsInv
<1>2. r.op \in CBOOp
  BY DEF MayAckCBO
<1>3. cmo[c][r.addr].op = r.op /\ cmo[c][r.addr].fired = TRUE
  BY <1>1, <1>2 DEF CMOInv, CMOInvBy
<1> QED BY <1>1, <1>3 DEF FireCBOAck, InvalsCareful

\* A CBOAck ends no life beside a pending release.
LEMMA AltKeptCBOAck ==
  ASSUME TypeOK, CMOInv, AltInv, OpsInv, BoardInv, InvalsCareful, AltKept,
         NEW c \in Core, NEW r \in reqs, r.core = c, MayAckCBO(r), FireCBOAck(c, r)
  PROVE  AltKept'
<1>1. CASE r.op # "CBOInval"
  <2>1. board' = board /\ memAlt' = memAlt
    BY <1>1, CBOAckOf
  <2> QED BY <2>1 DEF AltKept, Pending
<1>2. CASE r.op = "CBOInval"
  <2>1. /\ r.addr \in Addr /\ board' = board /\ Overtake = {} /\ "CBOInval" \in Ops
        /\ memAlt' = [memAlt EXCEPT ![r.addr] = ReclaimMemoryAlt(memAlt[r.addr])]
    BY <1>2, CBOAckOf
  <2>2. \A k \in relAcks : k.addr # r.addr
    BY <2>1 DEF MayAckCBO, MayOvertake
  <2>3. ~Pending(r.addr)
    BY <2>1, <2>2 DEF BoardInv, InvalsWait, BoardInvAt, Pending
  <2>4. \A a \in Addr \ {r.addr} : memAlt'[a] = memAlt[a]
    BY <2>1 DEF TypeOK, TypeShared
  <2> QED BY <2>1, <2>3, <2>4 DEF AltKept, Pending
<1> QED BY <1>1, <1>2

\* Every step of the cached agent keeps the alternatives so.
LEMMA AltKeptStep ==
  ASSUME TypeOK, MapInv, CMOInv, AltInv, OpsInv, BoardInv, InvalsCareful, AltKept, [Next]_vars
  PROVE  AltKept'
<1>1. ASSUME UNCHANGED boardVars
      PROVE  AltKept'
  BY <1>1 DEF boardVars, AltKept, Pending
<1>2. ASSUME NEW c \in Core, FireB(c) \/ FireE(c) \/ Fuzz(c) \/ Update(c)
      PROVE  UNCHANGED boardVars
  BY <1>2 DEF FireB, FireE, Fuzz, Update
<1>3. ASSUME NEW a \in Addr, WriteBack(a)
      PROVE  UNCHANGED boardVars
  BY <1>3 DEF WriteBack
<1>4. ASSUME NEW c \in Core, FireD(c)
      PROVE  AltKept'
  <2>1. ASSUME NEW r, NEW perm, FireGrantBeat(c, r, perm) \/ FireGrant(c, r, perm)
        PROVE  UNCHANGED boardVars
    BY <2>1 DEF FireGrantBeat, FireGrant, boardVars
  <2> QED BY <1>1, <1>4, <2>1, AltKeptReleaseAck, AltKeptCBOAck DEF FireD
<1>5. CASE UNCHANGED vars
  BY <1>1, <1>5 DEF vars
<1> QED BY <1>1, <1>2, <1>3, <1>4, <1>5, AltKeptFireA, AltKeptFireC DEF Next

\* A step writes the block, or leaves its value, or gives it memory's; a value that the
\* memory backs stays backed until the block is written.
StaysBacked(a) ==
  /\ Backed(a) => mem'[a] = mem[a]
  /\ Backed(a)' \/ (~Backed(a) /\ line'[a] = line[a])
Writes(c, a) == \E r \in WrittenBy(c) : r.addr = a /\ line'[a] = r.data

\* A step that leaves the values of a block leaves it backed or not.
LEMMA BackedFrame ==
  ASSUME NEW a, memAlt'[a] = memAlt[a], line'[a] = line[a], mem'[a] = mem[a]
  PROVE  StaysBacked(a)
  BY DEF StaysBacked, Backed

\* The device writes a block back.
LEMMA BackedWriteBack ==
  ASSUME TypeOK, NEW b \in Addr, WriteBack(b), NEW a \in Addr
  PROVE  StaysBacked(a)
<1>1. mem' = [mem EXCEPT ![b] = line[b]] /\ UNCHANGED <<memAlt, line>>
  BY DEF WriteBack, boardVars, dutVars
<1>2. mem'[a] = IF a = b THEN line[a] ELSE mem[a]
  BY <1>1 DEF TypeOK, TypeShared
<1> QED BY <1>1, <1>2 DEF StaysBacked, Backed

\* fire_a ends no alternative.
LEMMA BackedFireA ==
  ASSUME TypeOK, NEW c \in Core, FireA(c), NEW a \in Addr
  PROVE  StaysBacked(a)
<1>1. PICK r \in pendingA[c] :
        memAlt' = IF r.op = "CBOInval" /\ ~memorySyncStrict
             THEN [memAlt EXCEPT ![r.addr] = GrantMemoryAlt(memAlt[r.addr])]
             ELSE memAlt
  BY DEF FireA
<1>2. mem' = mem /\ line' = line
  BY DEF FireA
<1>3. memAlt[a] # NoAlt => memAlt'[a] # NoAlt
  BY <1>1 DEF TypeOK, TypeShared, MemoryAlt, GrantMemoryAlt, NoAlt
<1> QED BY <1>2, <1>3 DEF StaysBacked, Backed

\* fire_c writes what C carries.
LEMMA BackedFireC ==
  ASSUME TypeOK, NEW c \in Core, FireC(c), NEW a \in Addr
  PROVE  StaysBacked(a) \/ Writes(c, a)
<1>1. PICK r \in pendingC[c] : FireCBeat(c, r) \/ FireRelease(c, r) \/ FireProbeAck(c, r)
  BY DEF FireC
<1>2. mem' = mem
  BY DEF FireC
<1>3. CASE UNCHANGED <<boardVars, line>>
  BY <1>2, <1>3, BackedFrame DEF boardVars
<1>4. ASSUME r.beats = 1, r.op \in {"ReleaseData", "ProbeAckData"},
             memAlt' = [memAlt EXCEPT ![r.addr] = TouchMemoryAlt(memAlt[r.addr])],
             line' = [line EXCEPT ![r.addr] = r.data]
      PROVE  StaysBacked(a) \/ Writes(c, a)
  <2>1. CASE r.addr = a
    <3>1. r \in WrittenBy(c) /\ line'[a] = r.data
      BY <1>4, <2>1 DEF WrittenBy, TypeOK, TypeDevice
    <3> QED BY <2>1, <3>1 DEF Writes
  <2>2. CASE r.addr # a
    <3>1. line'[a] = line[a] /\ memAlt'[a] = memAlt[a]
      BY <1>4, <2>2 DEF TypeOK, TypeDevice, TypeShared
    <3> QED BY <1>2, <3>1, BackedFrame
  <2> QED BY <2>1, <2>2
<1>5. CASE FireCBeat(c, r)
  BY <1>3, <1>5 DEF FireCBeat
<1>6. CASE FireRelease(c, r)
  <2>1. CASE r.op = "ReleaseData"
    BY <1>4, <1>6, <2>1 DEF FireRelease
  <2>2. CASE r.op # "ReleaseData"
    BY <1>3, <1>6, <2>2 DEF FireRelease
  <2> QED BY <2>1, <2>2
<1>7. CASE FireProbeAck(c, r)
  <2>1. CASE r.op = "ProbeAckData"
    BY <1>4, <1>7, <2>1 DEF FireProbeAck
  <2>2. CASE r.op # "ProbeAckData"
    BY <1>3, <1>7, <2>2 DEF FireProbeAck
  <2> QED BY <2>1, <2>2
<1> QED BY <1>1, <1>5, <1>6, <1>7

\* A CBOAck makes the block's value memory's, or memory's the block's.
LEMMA BackedCBOAck ==
  ASSUME TypeOK, CMOInv, AltInv, OpsInv, InvalsCareful, NEW a \in Addr,
         NEW c \in Core, NEW r \in reqs, r.core = c, MayAckCBO(r), FireCBOAck(c, r)
  PROVE  StaysBacked(a)
<1>1. r.addr \in Addr
  BY CBOAckOf
<1>2. CASE r.op # "CBOInval"
  <2>1. UNCHANGED <<memAlt, line>> /\ mem' = [mem EXCEPT ![r.addr] = line[r.addr]]
    BY <1>2, CBOAckOf
  <2>2. mem'[a] \in {mem[a], line[a]}
    BY <1>1, <2>1 DEF TypeOK, TypeShared
  <2> QED BY <2>1, <2>2 DEF StaysBacked, Backed
<1>3. CASE r.op = "CBOInval"
  <2>1. /\ ~memorySyncStrict
        /\ memAlt' = [memAlt EXCEPT ![r.addr] = ReclaimMemoryAlt(memAlt[r.addr])]
        /\ mem' = mem
        /\ line' = [line EXCEPT ![r.addr] = mem[r.addr]]
        /\ cmo[c][r.addr].op = "CBOInval" /\ cmo[c][r.addr].fired = TRUE
    BY <1>3, CBOAckOf
  <2>2. CASE a = r.addr
    <3>1. ReclaimMemoryAlt(memAlt[a]) # NoAlt
      BY <2>1, <2>2, InvalLives
    <3>2. memAlt'[a] # NoAlt /\ line'[a] = mem'[a]
      BY <2>1, <2>2, <3>1 DEF TypeOK, TypeShared, TypeDevice
    <3> QED BY <2>1, <3>2 DEF StaysBacked, Backed
  <2>3. CASE a # r.addr
    <3>1. line'[a] = line[a] /\ memAlt'[a] = memAlt[a]
      BY <2>1, <2>3 DEF TypeOK, TypeDevice, TypeShared
    <3> QED BY <2>1, <3>1, BackedFrame
  <2> QED BY <2>2, <2>3
<1> QED BY <1>2, <1>3

\* Every handler but fire_c, tick and update_signal leave a backed value backed.
LEMMA BackedElse ==
  ASSUME TypeOK, MapInv, CMOInv, AltInv, OpsInv, BoardInv, InvalsCareful, AltKept,
         NEW c \in Core, FireA(c) \/ FireB(c) \/ FireE(c) \/ FireD(c) \/ Fuzz(c) \/ Update(c),
         NEW a \in Addr
  PROVE  StaysBacked(a)
<1>1. ASSUME UNCHANGED <<memAlt, mem, line>>
      PROVE  StaysBacked(a)
  BY <1>1, BackedFrame
<1>2. ASSUME FireB(c) \/ FireE(c) \/ Fuzz(c) \/ Update(c)
      PROVE  UNCHANGED <<memAlt, mem, line>>
  BY <1>2 DEF FireB, FireE, Fuzz, Update, boardVars, dutVars
<1>3. ASSUME FireD(c)
      PROVE  StaysBacked(a)
  <2>1. ASSUME NEW r, NEW perm, FireGrantBeat(c, r, perm) \/ FireGrant(c, r, perm)
        PROVE  UNCHANGED <<memAlt, mem, line>>
    BY <2>1 DEF FireGrantBeat, FireGrant, boardVars
  <2>2. ASSUME NEW k \in relAcks, FireReleaseAck(c, k)
        PROVE  UNCHANGED <<memAlt, mem, line>>
    <3>1. memAlt' = memAlt
      BY <2>2, AltKeptReleaseAck
    <3> QED BY <2>2, <3>1 DEF FireReleaseAck
  <2> QED BY <1>1, <1>3, <2>1, <2>2, BackedCBOAck DEF FireD
<1> QED BY <1>1, <1>2, <1>3, BackedFireA

\* An answer to a probe carries data if they are asked for or the block is TIP.
LEMMA AnswersWithData ==
  ASSUME NEW c, NEW b, NEW st, NEW r \in ProbeAnswers(c, b, st), r.op = "ProbeAckData"
  PROVE  b.needdata \/ privilege[c][b.addr][b.alias] = "TIP"
<1> DEFINE perm == privilege[c][b.addr][b.alias]
           answer(op, param, d) ==
      [op |-> op, addr |-> b.addr, alias |-> b.alias, param |-> param, data |-> d,
       beats |-> IF op = "ProbeAckData" THEN 2 ELSE 1, source |-> {}]
           par == ProbeAckParam(b.param, perm)
<1>1. \A op, param, d : answer(op, param, d).op = op
  OBVIOUS
<1>2. ProbeAnswers(c, b, st) =
        CASE st[b.addr][b.alias] \in {"S_SENDING_A", "S_A_WAITING_D"}
               -> {answer("ProbeAck", ProbeAckParam("toN", perm), Zero)}
          [] st[b.addr][b.alias] = "S_INVALID" -> {answer("ProbeAck", "NtoN", Zero)}
          [] OTHER -> UNION {{answer(op, par, d) : d \in ProbedData(op, par, board[b.addr])}
                             : op \in ProbedOp(c, b)}
  BY DEF ProbeAnswers
<1> HIDE DEF answer, par
<1>3. "ProbeAckData" \in ProbedOp(c, b)
  BY <1>1, <1>2
<1> QED BY <1>3 DEF ProbedOp

\* What an agent has of a block lets it write none.
UnwritableBy(c, a) ==
  /\ \A x \in Alias : dir[c][a][x] # "TIP"
  /\ \A b \in pendingB[c] : b.addr = a => ~b.needdata
  /\ \A r \in pendingC[c] : r.addr = a => r.op \notin {"ReleaseData", "ProbeAckData"}

LEMMA UnwritableParts ==
  ASSUME NEW a
  PROVE  Unwritable(a) <=> \A c \in Core : <<c, a>> \notin granting /\ UnwritableBy(c, a)
  BY DEF Unwritable, UnwritableBy

\* The device asks an agent for data of a TIP only.
LEMMA UnwritableFireB ==
  ASSUME TypeOK, NEW c \in Core, NEW a \in Addr, FireB(c), UnwritableBy(c, a)
  PROVE  UnwritableBy(c, a)'
<1>1. PICK b \in ReqB : MayProbe(c, b) /\ pendingB' = [pendingB EXCEPT ![c] = {b}]
  BY DEF FireB
<1>2. pendingB'[c] = {b} /\ UNCHANGED <<dir, pendingC>>
  BY <1>1 DEF FireB, TypeOK, TypePending
<1>3. b.needdata => dir[c][b.addr][b.alias] = "TIP" /\ b.alias \in Alias
  BY <1>1 DEF MayProbe, ReqB
<1> QED BY <1>2, <1>3 DEF UnwritableBy

\* fire_c gives up permissions.
LEMMA UnwritableFireC ==
  ASSUME TypeOK, CopyInv, NEW c \in Core, NEW a \in Addr, FireC(c), UnwritableBy(c, a)
  PROVE  UnwritableBy(c, a)'
<1>1. PICK r \in pendingC[c] : FireCBeat(c, r) \/ FireRelease(c, r) \/ FireProbeAck(c, r)
  BY DEF FireC
<1>2. pendingB' = pendingB
  BY DEF FireC
<1>3. CASE FireCBeat(c, r)
  <2>1. pendingC'[c] = {LessABeat(r)} /\ dir' = dir
    BY <1>3 DEF FireCBeat, TypeOK, TypePending
  <2>2. LessABeat(r).addr = r.addr /\ LessABeat(r).op = r.op
    BY DEF LessABeat
  <2> QED BY <1>2, <2>1, <2>2 DEF UnwritableBy
<1>4. CASE FireRelease(c, r) \/ FireProbeAck(c, r)
  <2>1. pendingC'[c] = {}
    BY <1>4 DEF FireRelease, FireProbeAck, TypeOK, TypePending
  <2>2. dir' = [dir EXCEPT ![c][r.addr][r.alias] = Reported(r.param)]
    BY <1>4 DEF FireRelease, FireProbeAck
  <2>3. Reported(r.param) = "TIP" => dir[c][r.addr][r.alias] = "TIP"
    BY DEF CopyInv, CopyInvBy, NotAbove
  <2>4. r.addr \in Addr /\ r.alias \in Alias
    BY ReqCFields DEF TypeOK, TypePending
  <2>5. \A x \in Alias : dir'[c][a][x] \in {dir[c][a][x], Reported(r.param)}
                         /\ (dir'[c][a][x] # dir[c][a][x] => a = r.addr)
    BY <2>2, <2>4 DEF TypeOK, TypeDevice, PerBlock
  <2>6. \A x \in Alias : dir'[c][a][x] # "TIP"
    <3> SUFFICES ASSUME NEW x \in Alias, dir'[c][a][x] = "TIP"
                 PROVE  FALSE
      OBVIOUS
    <3>1. dir[c][a][x] # "TIP"
      BY DEF UnwritableBy
    <3>2. a = r.addr /\ Reported(r.param) = "TIP"
      BY <2>5, <3>1
    <3> QED BY <2>3, <2>4, <3>2 DEF UnwritableBy
  <2> QED BY <1>2, <2>1, <2>6 DEF UnwritableBy
<1> QED BY <1>1, <1>3, <1>4

\* A Grant is of a block that waits for the GrantAck.
LEMMA UnwritableFireD ==
  ASSUME TypeOK, NEW c \in Core, NEW a \in Addr, FireD(c), UnwritableBy(c, a),
         <<c, a>> \notin granting'
  PROVE  UnwritableBy(c, a)'
<1>1. UNCHANGED <<pendingB, pendingC>>
  BY DEF FireD
<1>2. CASE dir' = dir
  BY <1>1, <1>2 DEF UnwritableBy
<1>3. ASSUME NEW r, NEW perm, FireGrant(c, r, perm)
      PROVE  UnwritableBy(c, a)'
  <2>1. /\ <<c, r.addr>> \in granting'
        /\ dir' = [dir EXCEPT ![c][r.addr][r.alias] = perm]
    BY <1>3 DEF FireGrant
  <2>2. r.addr # a
    BY <2>1
  <2>3. dir'[c][a] = dir[c][a]
    BY <2>1, <2>2 DEF TypeOK, TypeDevice, PerBlock
  <2> QED BY <1>1, <2>3 DEF UnwritableBy
<1>4. ASSUME NEW r, NEW perm, FireGrantBeat(c, r, perm)
      PROVE  dir' = dir
  BY <1>4 DEF FireGrantBeat
<1>5. ASSUME NEW k, FireReleaseAck(c, k)
      PROVE  dir' = dir
  BY <1>5 DEF FireReleaseAck
<1>6. ASSUME NEW r, FireCBOAck(c, r)
      PROVE  dir' = dir
  BY <1>6 DEF FireCBOAck
<1> QED BY <1>2, <1>3, <1>4, <1>5, <1>6 DEF FireD

\* do_releaseDataAuto releases data of a TIP only.
LEMMA UnwritableFuzz ==
  ASSUME TypeOK, CopyInv, NEW c \in Core, NEW a \in Addr, Fuzz(c), UnwritableBy(c, a)
  PROVE  UnwritableBy(c, a)'
<1>1. UNCHANGED <<dir, pendingB>> /\ privilege = dir
  BY DEF Fuzz, dutVars, CopyInv
<1>2. CASE pendingC' = pendingC
  BY <1>1, <1>2 DEF UnwritableBy
<1>3. ASSUME NEW i, NEW b \in Addr, NEW x \in Alias, DoReleaseDataAuto(c, i, b, x)
      PROVE  UnwritableBy(c, a)'
  <2>1. PICK toN : toN = IF privilege[c][b][x] = "TIP" THEN "TtoN" ELSE "BtoN"
    OBVIOUS
  <2> DEFINE request(op, n, v) == [op |-> op, addr |-> b, alias |-> x, param |-> toN,
                                   beats |-> n, data |-> v, source |-> {i}]
  <2>2. \/ pendingC' = [pendingC EXCEPT ![c] = {request("Release", 1, Zero)}]
        \/ /\ privilege[c][b][x] = "TIP"
           /\ \E v \in Data : pendingC' = [pendingC EXCEPT ![c] = {request("ReleaseData", 2, v)}]
    BY <1>3, <2>1 DEF DoReleaseDataAuto
  <2>3. \/ pendingC'[c] = {request("Release", 1, Zero)}
        \/ /\ dir[c][b][x] = "TIP"
           /\ \E v \in Data : pendingC'[c] = {request("ReleaseData", 2, v)}
    BY <1>1, <2>2 DEF TypeOK, TypePending
  <2>4. \A op, n, v : request(op, n, v).op = op /\ request(op, n, v).addr = b
    OBVIOUS
  <2> HIDE DEF request
  <2> QED BY <1>1, <2>3, <2>4 DEF UnwritableBy
<1>4. ASSUME NEW i, NEW op, NEW b, NEW x, NEW param, DoAcquire(c, i, op, b, x, param)
      PROVE  pendingC' = pendingC
  BY <1>4 DEF DoAcquire
<1>5. ASSUME NEW i, NEW op, NEW b, DoCBO(c, i, op, b)
      PROVE  pendingC' = pendingC
  BY <1>5 DEF DoCBO
<1> QED BY <1>2, <1>3, <1>4, <1>5 DEF Fuzz

\* handle_b answers with data if they are asked for or the block is TIP.
LEMMA UnwritableUpdate ==
  ASSUME TypeOK, CopyInv, NEW c \in Core, NEW a \in Addr, Update(c), UnwritableBy(c, a)
  PROVE  UnwritableBy(c, a)'
<1>1. dir' = dir /\ privilege = dir
  BY DEF Update, dutVars, CopyInv
<1>2. PICK st : st = Presented(c)
  OBVIOUS
<1>3. CASE NoHandleB(c, st)
  <2>1. pendingC'[c] = pendingC[c] /\ pendingB' = pendingB
    BY <1>3 DEF NoHandleB, SendC, TypeOK, TypePending
  <2> QED BY <1>1, <2>1 DEF UnwritableBy
<1>4. ASSUME NEW b \in pendingB[c], HandleB(c, b, st)
      PROVE  UnwritableBy(c, a)'
  <2>1. PICK C : /\ SendC(c, st, C)
                 /\ C = {} \/ \E r \in ProbeAnswers(c, b, st) : C = {r}
    BY <1>4 DEF HandleB
  <2>2. pendingC'[c] = C /\ pendingB'[c] = {}
    BY <1>4, <2>1 DEF HandleB, SendC, TypeOK, TypePending
  <2>3. b \in ReqB /\ b.alias \in Alias
    BY DEF TypeOK, TypePending, ReqB
  <2>4. ASSUME NEW r \in ProbeAnswers(c, b, st), r.addr = a
        PROVE  r.op \notin {"ReleaseData", "ProbeAckData"}
    <3>1. r.op \in ProbeAckOp /\ b.addr = a
      BY <2>3, <2>4, AnswerGivesUp
    <3>2. ~b.needdata /\ privilege[c][b.addr][b.alias] # "TIP"
      BY <1>1, <2>3, <3>1 DEF UnwritableBy
    <3>3. r.op # "ProbeAckData"
      BY <3>2, AnswersWithData
    <3> QED BY <3>1, <3>3 DEF ProbeAckOp
  <2> QED BY <1>1, <2>1, <2>2, <2>4 DEF UnwritableBy
<1> QED BY <1>2, <1>3, <1>4 DEF Update

\* A block that nobody can write stays so until it is granted.
LEMMA UnwritableStep ==
  ASSUME TypeOK, IdInv, CopyInv, [Next]_vars, NEW a \in Addr, Unwritable(a),
         \A c \in Core : <<c, a>> \notin granting'
  PROVE  Unwritable(a)'
<1>1. (\A c \in Core : <<c, a>> \notin granting' /\ UnwritableBy(c, a)') => Unwritable(a)'
  BY DEF Unwritable, UnwritableBy
<1> SUFFICES ASSUME NEW d \in Core
             PROVE  UnwritableBy(d, a)'
  BY <1>1
<1>2. UnwritableBy(d, a)
  BY UnwritableParts
<1>3. ASSUME UNCHANGED <<dir[d], pendingB[d], pendingC[d]>>
      PROVE  UnwritableBy(d, a)'
  BY <1>2, <1>3 DEF UnwritableBy
<1>4. ASSUME UNCHANGED ownVars(d)
      PROVE  UnwritableBy(d, a)'
  BY <1>3, <1>4 DEF ownVars
<1>5. ASSUME NEW b \in Addr, WriteBack(b)
      PROVE  UnwritableBy(d, a)'
  BY <1>3, <1>5 DEF WriteBack, pendVars, dutVars
<1>6. ASSUME NEW c \in Core, FireA(c) \/ FireE(c)
      PROVE  UnwritableBy(d, a)'
  BY <1>3, <1>6 DEF FireA, FireE
<1>7. ASSUME NEW c \in Core, FireB(c)
      PROVE  UnwritableBy(d, a)'
  BY <1>2, <1>4, <1>7, ElsewhereBE, UnwritableFireB
<1>8. ASSUME NEW c \in Core, FireC(c)
      PROVE  UnwritableBy(d, a)'
  BY <1>2, <1>4, <1>8, ElsewhereC, UnwritableFireC
<1>9. ASSUME NEW c \in Core, FireD(c)
      PROVE  UnwritableBy(d, a)'
  BY <1>2, <1>4, <1>9, ElsewhereD, UnwritableFireD
<1>10. ASSUME NEW c \in Core, Fuzz(c)
       PROVE  UnwritableBy(d, a)'
  BY <1>2, <1>4, <1>10, ElsewhereFuzz, UnwritableFuzz
<1>11. ASSUME NEW c \in Core, Update(c)
       PROVE  UnwritableBy(d, a)'
  BY <1>2, <1>4, <1>11, ElsewhereUpdate, UnwritableUpdate
<1>12. CASE UNCHANGED vars
  BY <1>3, <1>12 DEF vars, pendVars, dutVars
<1> QED BY <1>5, <1>6, <1>7, <1>8, <1>9, <1>10, <1>11, <1>12 DEF Next

-----------------------------------------------------------------------------
(* The cached agent beside the TL-UL agents *)

\* The invariants of the TL-C agent.
AgentInv ==
  /\ TypeOK /\ IdInv /\ MapInv /\ CMOInv /\ AltInv /\ CopyInv /\ StatusInv
  /\ ReleaseInv /\ StampInv /\ PermInv /\ OpsInv /\ BoardInv
  /\ WindowInv /\ NestInv /\ NullInv
  /\ InvalsCareful => AltKept

\* A handler, a fuzzer or the update_signal of the TL-UL agents has its turn in the cycle.
Beside ==
  \/ pos' = pos
  \/ Reach(PosFuzz(0)) /\ pos' = PosD(0)
  \/ Reach(PosUpdate(0)) /\ pos' = PosFuzz(0)

AgentOwn == <<entryVars, pendVars, idVars, timeVars, boardVars, mem, dutVars>>

\* The TL-C agent begins as it does alone.
LEMMA AgentInit == Init => AgentInv
  BY TypeInit, IdInit, MapInit, CMOInit, AltInit, CopyInit, StatusInit, ReleaseInit,
     StampInit, PermInit, OpsInit, BoardInit, WindowInit, NestInit, NullInit, AltKeptInit
     DEF AgentInv

\* The agent's own steps.
LEMMA AgentStep == AgentInv /\ [Next]_vars => AgentInv'
<1> SUFFICES ASSUME AgentInv, [Next]_vars
             PROVE  AgentInv'
  OBVIOUS
<1>1. TypeOK' /\ IdInv'
  BY TypeStep, IdStep DEF AgentInv
<1>2. MapInv' /\ CMOInv' /\ AltInv' /\ CopyInv' /\ OpsInv' /\ BoardInv'
  BY <1>1, MapStep, CMOStep, AltStep, CopyStep, OpsStep, BoardStep DEF AgentInv
<1>3. StatusInv' /\ ReleaseInv' /\ StampInv' /\ PermInv'
  BY <1>1, StatusStep, ReleaseStep, StampStep, PermStep DEF AgentInv
<1>4. WindowInv' /\ NestInv' /\ NullInv'
  BY WindowStep, NestStep, NullStep DEF AgentInv
<1>5. InvalsCareful => AltKept'
  BY AltKeptStep DEF AgentInv
<1>6. InvalsCareful' => InvalsCareful
  BY DEF InvalsCareful
<1> QED BY <1>1, <1>2, <1>3, <1>4, <1>5, <1>6 DEF AgentInv

\* A turn of the TL-UL agents comes when the TL-C agent has nothing on C and E that the
\* device may not stall, and moves no window of the cycle past its end; their
\* update_signal comes when the TL-C agent's cycle is over.
LEMMA BesideWindows ==
  ASSUME TypeOK, IdInv, WindowInv, Beside, failed = {}, UNCHANGED AgentOwn, NEW d \in Core
  PROVE  /\ pos' \in 0 .. 7 * NCore
         /\ SlotWindow(d)' /\ WindowInvBy(d)'
         /\ Unpresented(d) => Unpresented(d)'
<1>1. NCore = 1 /\ d = 0
  BY OneCoreAssumption DEF Core
<1>2. /\ PosC(d) = 3 /\ PosE(d) = 4 /\ PosD(d) = 5 /\ PosFuzz(d) = 6 /\ PosUpdate(d) = 7
      /\ UNCHANGED <<PosC(d), PosE(d), PosD(d), PosFuzz(d), PosUpdate(d)>>
  BY <1>1 DEF PosC, PosE, PosD, PosFuzz, PosUpdate
<1>3. /\ pos \in Int /\ failed = {}
      /\ \/ pos' = pos
         \/ /\ (pos < 6 /\ pos' = 5) \/ (pos < 7 /\ pos' = 6)
            /\ (~CStall /\ pendingC[d] # {}) => 3 <= pos
  BY <1>1, <1>2 DEF Beside, Reach, TypeOK
<1>4. UNCHANGED <<freeSlot, known, pendingB, pendingC, pendingE>>
  BY DEF AgentOwn, idVars, entryVars, pendVars
<1>5. SlotWindow(d)'
  BY <1>2, <1>3, <1>4 DEF IdInv, IdInvBy, SlotWindow
<1>6. Unpresented(d) => Unpresented(d)'
  BY <1>2, <1>3 DEF Unpresented
<1>7. WindowInvBy(d)'
  <2>1. WindowInvBy(d)
    BY DEF WindowInv
  <2>2. CASE pos' = pos
    BY <1>2, <1>4, <2>1, <2>2 DEF WindowInvBy
  <2>3. CASE pos' # pos
    <3>1. ASSUME NEW r \in pendingC[d], r.op = "ProbeAck"
          PROVE  r.beats = 1 /\ CStall
      BY <1>2, <1>3, <2>1, <2>3, <3>1, ConfigAssumption DEF WindowInvBy
    <3> QED BY <1>2, <1>3, <1>4, <2>1, <2>3, <3>1 DEF WindowInvBy
  <2> QED BY <2>2, <2>3
<1>8. pos' \in 0 .. 7 * NCore
  BY <1>1, <1>3 DEF TypeOK
<1> QED BY <1>5, <1>6, <1>7, <1>8

\* The steps of the TL-UL agents leave the TL-C agent as it is.
LEMMA AgentBeside ==
  ASSUME AgentInv, failed = {}, Beside, UNCHANGED AgentOwn
  PROVE  AgentInv'
<1>1. /\ UNCHANGED <<known, status, privilege, dirty, cmoProbed, acquirePerm>>
      /\ UNCHANGED <<pendingA, pendingB, pendingC, pendingD, pendingE>>
      /\ UNCHANGED <<idMap, idle, freeSlot, probePool, cmo, stampA, stampC>>
      /\ UNCHANGED <<board, memAlt, mem, reqs, relAcks, probing, granting, cleaned, dir, line>>
  BY DEF AgentOwn, entryVars, pendVars, idVars, timeVars, boardVars, dutVars
<1>2. /\ TypeOK /\ IdInv /\ MapInv /\ CMOInv /\ AltInv /\ CopyInv
      /\ \A d \in Core : StatusInvBy(d) /\ NestInvBy(d)
      /\ ReleaseInv /\ StampInv /\ PermInv /\ OpsInv /\ BoardInv /\ WindowInv /\ NullInv
      /\ InvalsCareful => AltKept
  BY DEF AgentInv, StatusInv, NestInv
<1>3. \A d \in Core : /\ pos' \in 0 .. 7 * NCore
                      /\ SlotWindow(d)' /\ WindowInvBy(d)'
                      /\ Unpresented(d) => Unpresented(d)'
  BY <1>2, BesideWindows
<1>4. \A d \in Core : UNCHANGED <<ReqsOf(d), AcksOf(d)>>
  BY <1>1 DEF ReqsOf, AcksOf
<1>5. TypeOK'
  <2>1. 0 \in Core
    BY OneCoreAssumption DEF Core
  <2> QED BY <1>1, <1>2, <1>3, <2>1
          DEF TypeOK, TypeEntries, TypePending, TypeIds, TypeShared, TypeDevice
<1>6. IdInv'
  <2> SUFFICES ASSUME NEW d \in Core PROVE IdInvBy(d)'
    BY DEF IdInv
  <2> QED BY <1>1, <1>2, <1>3, <1>4, IdFrame DEF IdInv
<1>7. MapInv'
  <2> SUFFICES ASSUME NEW d \in Core PROVE MapInvBy(d)'
    BY DEF MapInv
  <2> QED BY <1>1, <1>2, <1>3, <1>4, MapFrame DEF MapInv
<1>8. CMOInv' /\ AltInv'
  BY <1>1, <1>2, <1>4 DEF CMOInv, CMOInvBy, AltInv, Invals
<1>9. CopyInv'
  BY <1>1, <1>2, CopyFrame
<1>10. StatusInv'
  <2> SUFFICES ASSUME NEW d \in Core PROVE StatusInvBy(d)'
    BY DEF StatusInv
  <2> QED BY <1>1, <1>2, <1>3, <1>4, StatusFrame
<1>11. ReleaseInv' /\ StampInv'
  BY <1>1, <1>2, <1>4 DEF ReleaseInv, ReleaseInvBy, StampInv, StampInvBy
<1>12. PermInv'
  BY <1>1, <1>2 DEF PermInv, PermInvBy, ProbeAckSays, AgentInv
<1>13. OpsInv' /\ BoardInv'
  BY <1>1, <1>2, BoardFrame DEF OpsInv
<1>14. WindowInv'
  BY <1>3 DEF WindowInv
<1>15. NestInv'
  BY <1>1, <1>2 DEF NestInv, NestInvBy
<1>16. NullInv'
  BY <1>1, <1>2, <1>4 DEF NullInv, Pending
<1>17. (InvalsCareful => AltKept)'
  BY <1>1, <1>2 DEF InvalsCareful, AltKept, Pending
<1> QED BY <1>5, <1>6, <1>7, <1>8, <1>9, <1>10, <1>11, <1>12, <1>13, <1>14, <1>15, <1>16, <1>17
        DEF AgentInv

\* A step of the whole is one of the TL-C agent or one beside it.
LEMMA ULSteps ==
  ASSUME [ULNext]_allVars
  PROVE  [Next]_vars \/ (failed = {} /\ Beside /\ UNCHANGED AgentOwn)
<1>1. ASSUME NEW a \in Addr, WriteBack(a)
      PROVE  Next
  BY <1>1 DEF Next
<1>2. ASSUME NEW c \in Core, CNext(c)
      PROVE  Next
  BY <1>2 DEF CNext, CFireC, CUpdate, Next
<1>3. ASSUME NEW g \in gets, Perform(g)
      PROVE  UNCHANGED vars
  BY <1>3 DEF Perform
<1>4. ASSUME NEW u \in UL, FireGet(u) \/ FireAccessAckData(u) \/ DoGetAuto(u)
      PROVE  failed = {} /\ Beside /\ UNCHANGED AgentOwn
  BY <1>4 DEF FireGet, FireAccessAckData, DoGetAuto, AtChannel, AtFuzz, Reach, Beside, AgentOwn
<1>5. CASE UNCHANGED allVars
  BY <1>5 DEF allVars
<1>6. CASE ULUpdate
  BY <1>6 DEF ULUpdate, Beside, AgentOwn
<1> QED BY <1>1, <1>2, <1>3, <1>4, <1>5, <1>6 DEF ULNext

\* Every step keeps the invariants of the TL-C agent.
LEMMA AgentNext == AgentInv /\ [ULNext]_allVars => AgentInv'
  BY ULSteps, AgentStep, AgentBeside

\* What is proved of the TL-C agent alone holds beside the TL-UL agents.
LEMMA AgentHolds == ULSpec => []AgentInv
<1>1. ULInit => AgentInv
  BY AgentInit DEF ULInit
<1> QED BY <1>1, AgentNext, PTL DEF ULSpec

-----------------------------------------------------------------------------
(* What a Get may return *)

\* A Get that is not performed may return the block's value; one that is performed
\* returns a value of its entry, or memory's, that nobody can replace any more.
ReturnInv ==
  failed = {} =>
    /\ \A g \in gets : \A e \in EntryOf(g) : line[g.addr] \in e.data \/ Backed(g.addr)
    /\ \A ans \in answers : \A e \in EntryOf(ans.get) :
         LET a == ans.get.addr IN
         ans.data \in e.data \/ (Backed(a) /\ Unwritable(a) /\ ans.data = mem[a])

\* The entry comes from one with no more values.
Grown(e) == \E f \in uncachedBoard : f.get = e.get /\ f.data \subseteq e.data

\* No Get is in flight at first.
LEMMA ReturnInit == ULInit => ReturnInv
  BY DEF ULInit, ReturnInv

\* The Gets in flight are of known blocks.
LEMMA GetsKnown ==
  ASSUME GetsInv, failed = {}
  PROVE  /\ \A g \in gets : g.addr \in Addr
         /\ \A ans \in answers : ans.get.addr \in Addr
  BY DEF GetsInv, DeviceGets, InFlightGets, Get

\* Steps that leave the blocks alone and answer nothing.
LEMMA ReturnKept ==
  ASSUME ReturnInv, failed = {}, UNCHANGED <<memAlt, mem, line, dir, granting, pendingB, pendingC>>,
         gets' \subseteq gets, answers' \subseteq answers, \A e \in uncachedBoard' : Grown(e)
  PROVE  ReturnInv'
<1>1. \A a : Backed(a)' = Backed(a) /\ Unwritable(a)' = Unwritable(a)
  BY DEF Backed, Unwritable
<1>2. ASSUME NEW g \in gets', NEW e \in EntryOf(g)'
      PROVE  line'[g.addr] \in e.data \/ Backed(g.addr)'
  <2>1. PICK f \in uncachedBoard : f.get = g /\ f.data \subseteq e.data
    BY <1>2 DEF EntryOf, Grown
  <2>2. line[g.addr] \in f.data \/ Backed(g.addr)
    BY <2>1 DEF ReturnInv, EntryOf
  <2> QED BY <1>1, <2>1, <2>2
<1>3. ASSUME NEW ans \in answers', NEW e \in EntryOf(ans.get)', NEW a, a = ans.get.addr
      PROVE  ans.data \in e.data \/ (Backed(a)' /\ Unwritable(a)' /\ ans.data = mem'[a])
  <2>1. PICK f \in uncachedBoard : f.get = ans.get /\ f.data \subseteq e.data
    BY <1>3 DEF EntryOf, Grown
  <2>2. ans.data \in f.data \/ (Backed(a) /\ Unwritable(a) /\ ans.data = mem[a])
    BY <1>3, <2>1 DEF ReturnInv, EntryOf
  <2> QED BY <1>1, <2>1, <2>2
<1> QED BY <1>2, <1>3 DEF ReturnInv

\* A step of the TL-C agent: what it writes is put on the entries, and no block is
\* granted anew whose Get is answered with memory's value.
LEMMA ReturnAgent ==
  ASSUME AgentInv, GetsInv, ReturnInv, failed = {}, [Next]_vars,
         UNCHANGED <<gets, answers>>,
         \A e \in uncachedBoard' : Grown(e),
         \A a \in Addr :
           \/ StaysBacked(a)
           \/ /\ \E c \in Core : Writes(c, a)
              /\ \A e \in uncachedBoard' : e.get.addr = a => line'[a] \in e.data,
         \A k \in granting' \ granting, ans \in answers :
           k[2] = ans.get.addr => memAlt[k[2]] = NoAlt
  PROVE  ReturnInv'
<1>1. ASSUME NEW g \in gets', NEW e \in EntryOf(g)'
      PROVE  line'[g.addr] \in e.data \/ Backed(g.addr)'
  <2>1. PICK f \in uncachedBoard : f.get = g /\ f.data \subseteq e.data
    BY <1>1 DEF EntryOf, Grown
  <2>2. line[g.addr] \in f.data \/ Backed(g.addr)
    BY <2>1 DEF ReturnInv, EntryOf
  <2>3. e.get = g /\ e \in uncachedBoard' /\ g.addr \in Addr
    BY <1>1, GetsKnown DEF EntryOf
  <2>4. CASE StaysBacked(g.addr)
    BY <2>1, <2>2, <2>4 DEF StaysBacked
  <2> QED BY <2>3, <2>4
<1>2. ASSUME NEW ans \in answers', NEW e \in EntryOf(ans.get)', NEW a, a = ans.get.addr
      PROVE  ans.data \in e.data \/ (Backed(a)' /\ Unwritable(a)' /\ ans.data = mem'[a])
  <2>1. PICK f \in uncachedBoard : f.get = ans.get /\ f.data \subseteq e.data
    BY <1>2 DEF EntryOf, Grown
  <2>2. CASE ans.data \in f.data
    BY <2>1, <2>2
  <2>3. CASE Backed(a) /\ Unwritable(a) /\ ans.data = mem[a]
    <3>1. e.get.addr = a /\ e \in uncachedBoard' /\ a \in Addr
      BY <1>2, GetsKnown DEF EntryOf
    <3>2. \A c \in Core : ~Writes(c, a)
      BY <2>3 DEF Unwritable, Writes, WrittenBy
    <3>3. StaysBacked(a)
      BY <3>1, <3>2
    <3>4. \A c \in Core : <<c, a>> \notin granting'
      <4> SUFFICES ASSUME NEW c \in Core, <<c, a>> \in granting'
                   PROVE  FALSE
        OBVIOUS
      <4>1. <<c, a>> \in granting' \ granting /\ <<c, a>>[2] = a
        BY <2>3 DEF Unwritable
      <4>2. memAlt[a] = NoAlt
        BY <1>2, <4>1
      <4> QED BY <2>3, <4>2 DEF Backed
    <3>5. Unwritable(a)'
      BY <2>3, <3>1, <3>4, UnwritableStep DEF AgentInv
    <3> QED BY <2>3, <3>3, <3>5 DEF StaysBacked
  <2> QED BY <1>2, <2>1, <2>2, <2>3 DEF ReturnInv, EntryOf
<1> QED BY <1>1, <1>2 DEF ReturnInv

\* A write in its last beat reaches every entry of its block.
LEMMA AppendGrows ==
  ASSUME BoardOfGets, NEW x, NEW d, NEW e \in AppendAll(uncachedBoard, x, d)
  PROVE  Grown(e) /\ (e.get.addr = x => d \in e.data)
<1>1. PICK f \in uncachedBoard :
        e = [f EXCEPT !.data = IF f.get.addr = x THEN @ \cup {d} ELSE @]
  BY DEF AppendAll
<1>2. f = [get |-> f.get, data |-> f.data]
  BY DEF BoardOfGets
<1>3. PICK g, v : f = [get |-> g, data |-> v] /\ f.get = g /\ f.data = v
  BY <1>2
<1>4. PICK w : w = IF g.addr = x THEN v \cup {d} ELSE v
  OBVIOUS
<1>5. e = [get |-> g, data |-> w]
  BY <1>1, <1>3, <1>4
<1>6. e.get = g /\ e.data = w
  BY <1>5
<1> QED BY <1>3, <1>4, <1>6 DEF Grown

\* fire_c puts what it writes on the entries.
LEMMA ReturnCFireC ==
  ASSUME AgentInv, GetsInv, ReturnInv, failed = {}, NEW c \in Core, CFireC(c)
  PROVE  ReturnInv'
<1>1. FireC(c) /\ [Next]_vars /\ UNCHANGED <<gets, answers, granting>>
  BY DEF CFireC, FireC, Next
<1>2. BoardOfGets
  BY DEF GetsInv
<1>3. ASSUME NEW r \in WrittenBy(c)
      PROVE  uncachedBoard' = AppendAll(uncachedBoard, r.addr, r.data)
  <2>1. \A q \in WrittenBy(c) : q = r
    BY DEF WrittenBy, AgentInv, IdInv, IdInvBy, OnePending
  <2>2. The(WrittenBy(c)) = r
    BY <2>1 DEF The
  <2> QED BY <2>2 DEF CFireC
<1>4. \A e \in uncachedBoard' : Grown(e)
  <2>1. CASE WrittenBy(c) = {}
    BY <2>1 DEF CFireC, Grown
  <2>2. CASE WrittenBy(c) # {}
    BY <1>2, <1>3, <2>2, AppendGrows
  <2> QED BY <2>1, <2>2
<1>5. ASSUME NEW a \in Addr, ~StaysBacked(a)
      PROVE  Writes(c, a) /\ \A e \in uncachedBoard' : e.get.addr = a => line'[a] \in e.data
  <2>1. Writes(c, a)
    BY <1>1, <1>5, BackedFireC DEF AgentInv
  <2>2. PICK r \in WrittenBy(c) : r.addr = a /\ line'[a] = r.data
    BY <2>1 DEF Writes
  <2> QED BY <1>2, <1>3, <2>1, <2>2, AppendGrows
<1> QED BY <1>1, <1>4, <1>5, ReturnAgent

\* The other steps of the TL-C agent.
LEMMA ReturnElse ==
  ASSUME AgentInv, GetsInv, ReturnInv, failed = {}, [Next]_vars,
         UNCHANGED <<gets, answers, uncachedBoard>>, \A a \in Addr : StaysBacked(a),
         \A k \in granting' \ granting, ans \in answers :
           k[2] = ans.get.addr => memAlt[k[2]] = NoAlt
  PROVE  ReturnInv'
<1>1. \A e \in uncachedBoard' : Grown(e)
  BY DEF Grown
<1> QED BY <1>1, ReturnAgent

\* The steps of the TL-C agent.
LEMMA ReturnCNext ==
  ASSUME AgentInv, InvalsCareful, GetsInv, ReturnInv, failed = {}, NEW c \in Core, CNext(c)
  PROVE  ReturnInv'
<1>1. CASE CFireC(c)
  BY <1>1, ReturnCFireC
<1>2. CASE ~CFireC(c)
  <2>1. /\ FireA(c) \/ FireB(c) \/ FireE(c) \/ FireD(c) \/ Fuzz(c) \/ Update(c)
        /\ UNCHANGED <<gets, answers, uncachedBoard>>
    BY <1>2 DEF CNext, CUpdate, ulVars, ulOwn
  <2>2. [Next]_vars
    BY <2>1 DEF Next
  <2>3. \A a \in Addr : StaysBacked(a)
    BY <2>1, BackedElse DEF AgentInv
  <2>4. ASSUME NEW k \in granting' \ granting, NEW ans \in answers, k[2] = ans.get.addr
        PROVE  memAlt[k[2]] = NoAlt
    <3>1. CASE FireD(c)
      <4>1. MayOvertakeGets
        BY <1>2, <3>1, <2>1
           DEF CNext, CUpdate, FireA, FireB, FireC, FireD, FireE, Fuzz, Update, dutVars
      <4>2. CASE InvalRace
        <5>1. k[2] \in Addr
          BY <2>4, GetsKnown
        <5> QED BY <4>2, <5>1 DEF InvalsCareful, AgentInv, AltKept
      <4> QED BY <2>4, <4>1, <4>2 DEF MayOvertakeGets
    <3>2. CASE ~FireD(c)
      BY <2>1, <3>2 DEF FireA, FireB, FireE, Fuzz, Update, dutVars
    <3> QED BY <3>1, <3>2
  <2> QED BY <2>1, <2>2, <2>3, <2>4, ReturnElse
<1> QED BY <1>1, <1>2

\* The device writes a block back.
LEMMA ReturnWriteBack ==
  ASSUME AgentInv, GetsInv, ReturnInv, NEW b \in Addr, WriteBack(b), UNCHANGED ulVars
  PROVE  ReturnInv'
<1>1. failed = {} /\ UNCHANGED granting /\ UNCHANGED <<gets, answers, uncachedBoard>>
  BY DEF WriteBack, dutVars, ulVars, ulOwn
<1>2. [Next]_vars
  BY DEF Next
<1>3. \A a \in Addr : StaysBacked(a)
  BY BackedWriteBack DEF AgentInv
<1> QED BY <1>1, <1>2, <1>3, ReturnElse

\* The device reads a block that nobody can be writing.
LEMMA ReturnPerform ==
  ASSUME AgentInv, GetsInv, ReturnInv, NEW g, Perform(g)
  PROVE  ReturnInv'
<1>1. /\ failed = {} /\ g \in gets /\ g.addr \in Addr
      /\ Quiet(g.addr)
      /\ \A h \in Held(g.addr) : dir[h[1]][g.addr][h[2]] = "BRANCH"
      /\ UNCHANGED <<vars, uncachedBoard>>
  BY GetsKnown DEF Perform
<1>2. PICK n : n = [get |-> g, data |-> line[g.addr]] /\ answers' = answers \cup {n}
  BY DEF Perform
<1>3. gets' = gets \ {g} /\ n.get = g /\ n.data = line[g.addr]
  BY <1>2 DEF Perform
<1>4. UNCHANGED <<memAlt, mem, line, dir, granting, pendingB, pendingC>>
  BY <1>1 DEF vars, boardVars, dutVars, pendVars
<1>5. \A a : Backed(a)' = Backed(a) /\ Unwritable(a)' = Unwritable(a)
  BY <1>4 DEF Backed, Unwritable
<1>6. Unwritable(g.addr)
  <2> SUFFICES ASSUME NEW c \in Core
               PROVE  <<c, g.addr>> \notin granting /\ UnwritableBy(c, g.addr)
    BY UnwritableParts
  <2>1. <<c, g.addr>> \notin granting /\ <<c, g.addr>> \notin probing
    BY <1>1 DEF Quiet
  <2>2. ASSUME NEW x \in Alias
        PROVE  dir[c][g.addr][x] # "TIP"
    <3>1. <<c, x>> \in Held(g.addr) => dir[c][g.addr][x] = "BRANCH"
      BY <1>1
    <3> QED BY <3>1 DEF Held
  <2>3. \A b \in pendingB[c] : b.addr # g.addr
    BY <2>1 DEF AgentInv, CopyInv, CopyInvBy
  <2>4. ASSUME NEW r \in pendingC[c], r.addr = g.addr
        PROVE  r.op \notin {"ReleaseData", "ProbeAckData"}
    <3>1. r.op \notin ProbeAckOp
      BY <2>1, <2>4 DEF AgentInv, CopyInv, CopyInvBy
    <3>2. r.alias \in Alias
      BY ReqCFields DEF AgentInv, TypeOK, TypePending
    <3>3. r.op # "ReleaseData"
      BY <2>2, <2>4, <3>2 DEF AgentInv, ReleaseInv, ReleaseInvBy, ReleaseOp
    <3> QED BY <3>1, <3>3 DEF ProbeAckOp
  <2> QED BY <2>1, <2>2, <2>3, <2>4 DEF UnwritableBy
<1>7. EntryOf(g)' = EntryOf(g) /\ \A ans : EntryOf(ans.get)' = EntryOf(ans.get)
  BY <1>1 DEF EntryOf
<1>8. ASSUME NEW h \in gets', NEW e \in EntryOf(h)'
      PROVE  line'[h.addr] \in e.data \/ Backed(h.addr)'
  <2>1. h \in gets /\ e \in EntryOf(h)
    BY <1>1, <1>3, <1>8 DEF EntryOf
  <2> QED BY <1>1, <1>4, <1>5, <2>1 DEF ReturnInv
<1>9. ASSUME NEW ans \in answers', NEW e \in EntryOf(ans.get)', NEW a, a = ans.get.addr
      PROVE  ans.data \in e.data \/ (Backed(a)' /\ Unwritable(a)' /\ ans.data = mem'[a])
  <2>1. CASE ans \in answers
    BY <1>1, <1>4, <1>5, <1>7, <1>9, <2>1 DEF ReturnInv
  <2>2. CASE ans = n
    <3>1. e \in EntryOf(g) /\ a = g.addr
      BY <1>3, <1>7, <1>9, <2>2
    <3>2. line[a] \in e.data \/ Backed(a)
      BY <1>1, <3>1 DEF ReturnInv
    <3> QED BY <1>3, <1>4, <1>5, <1>6, <2>2, <3>1, <3>2 DEF Backed
  <2> QED BY <1>2, <2>1, <2>2
<1> QED BY <1>8, <1>9 DEF ReturnInv

\* The board has the block's value, or memory has.
LEMMA BoardKnows ==
  ASSUME AgentInv, InvalsCareful, NEW a \in Addr
  PROVE  line[a] \in BoardValue(a) \/ Backed(a)
<1>1. InvalsWait
  BY DEF InvalsCareful, InvalsWait
<1>2. BoardInvAt(a)
  BY <1>1 DEF AgentInv, BoardInv
<1>3. board[a].status \in {"NONE", "VALID", "PENDING"}
  BY DEF AgentInv, TypeOK, TypeShared, Entry
<1>4. CASE board[a].status = "NONE"
  BY <1>2, <1>4 DEF BoardInvAt, BoardValue
<1>5. CASE board[a].status = "VALID"
  <2>1. BoardValue(a) = board[a].data
    BY <1>5 DEF BoardValue
  <2> QED BY <1>2, <1>5, <2>1 DEF BoardInvAt, Backed
<1>6. CASE board[a].status = "PENDING"
  <2>1. BoardValue(a) = board[a].pending
    BY <1>6 DEF BoardValue
  <2> QED BY <1>2, <1>6, <2>1 DEF BoardInvAt
<1> QED BY <1>3, <1>4, <1>5, <1>6

\* The entries of fire_a are the old ones and one that has what the board knows.
LEMMA AllocatedGrows ==
  ASSUME BoardOfGets, NEW g, NEW e \in Allocated(g)
  PROVE  Grown(e) \/ (e.get = g /\ BoardValue(g.addr) \subseteq e.data)
<1>1. PICK n : n = [get |-> g, data |-> BoardValue(g.addr)]
  OBVIOUS
<1>2. n.get = g /\ n.data = BoardValue(g.addr)
  BY <1>1
<1>3. CASE memAlt[g.addr] = NoAlt
  BY <1>1, <1>2, <1>3 DEF Allocated, Grown
<1>4. CASE memAlt[g.addr] # NoAlt
  <2>1. PICK f \in uncachedBoard \cup {n} :
          e = [f EXCEPT !.data = IF f.get.addr = g.addr THEN @ \cup {mem[g.addr]} ELSE @]
    BY <1>1, <1>4 DEF Allocated, AppendAll
  <2>2. PICK h, v : f = [get |-> h, data |-> v] /\ f.get = h /\ f.data = v
    BY <1>1, <1>2 DEF BoardOfGets
  <2>3. PICK w : w = IF h.addr = g.addr THEN v \cup {mem[g.addr]} ELSE v
    OBVIOUS
  <2>4. e = [get |-> h, data |-> w]
    BY <2>1, <2>2, <2>3
  <2>5. e.get = f.get /\ f.data \subseteq e.data
    BY <2>2, <2>3, <2>4
  <2> QED BY <1>2, <2>1, <2>5 DEF Grown
<1> QED BY <1>3, <1>4

\* fire_a.
LEMMA ReturnFireGet ==
  ASSUME AgentInv, InvalsCareful, GetsInv, ReturnInv, NEW u \in UL, FireGet(u)
  PROVE  ReturnInv'
<1>1. failed = {} /\ answers' = answers
      /\ UNCHANGED <<memAlt, mem, line, dir, granting, pendingB, pendingC>>
  BY DEF FireGet, AtChannel, Reach, boardVars, dutVars, pendVars
<1>2. PICK g \in getA[u] : uncachedBoard' = Allocated(g) /\ gets' = gets \cup {g}
  BY DEF FireGet
<1>3. /\ BoardOfGets /\ g \in Get /\ g.ul = u /\ g.source \notin Used(u)
  BY <1>1 DEF GetsInv, GetsType, IdsOfGets, Asked
<1>4. g \notin InFlightGets /\ g.addr \in Addr
  BY <1>3 DEF Used, Get
<1>5. \A a : Backed(a)' = Backed(a) /\ Unwritable(a)' = Unwritable(a)
  BY <1>1 DEF Backed, Unwritable
<1>6. ASSUME NEW e \in uncachedBoard', e.get # g
      PROVE  Grown(e)
  BY <1>2, <1>3, <1>6, AllocatedGrows
<1>7. ASSUME NEW e \in uncachedBoard', e.get = g
      PROVE  line[g.addr] \in e.data \/ Backed(g.addr)
  <2>1. ~Grown(e)
    BY <1>3, <1>4, <1>7 DEF Grown, BoardOfGets
  <2>2. BoardValue(g.addr) \subseteq e.data
    BY <1>2, <1>3, <2>1, AllocatedGrows
  <2> QED BY <1>4, <2>2, BoardKnows
<1>8. ASSUME NEW h \in gets', NEW e \in EntryOf(h)'
      PROVE  line'[h.addr] \in e.data \/ Backed(h.addr)'
  <2>1. e \in uncachedBoard' /\ e.get = h
    BY <1>8 DEF EntryOf
  <2>2. CASE h = g
    BY <1>1, <1>5, <1>7, <2>1, <2>2
  <2>3. CASE h # g
    <3>1. h \in gets
      BY <1>2, <2>3
    <3>2. PICK f \in uncachedBoard : f.get = h /\ f.data \subseteq e.data
      BY <1>6, <2>1, <2>3 DEF Grown
    <3>3. line[h.addr] \in f.data \/ Backed(h.addr)
      BY <1>1, <3>1, <3>2 DEF ReturnInv, EntryOf
    <3> QED BY <1>1, <1>5, <3>2, <3>3
  <2> QED BY <2>2, <2>3
<1>9. ASSUME NEW ans \in answers', NEW e \in EntryOf(ans.get)', NEW a, a = ans.get.addr
      PROVE  ans.data \in e.data \/ (Backed(a)' /\ Unwritable(a)' /\ ans.data = mem'[a])
  <2>1. ans \in answers /\ e \in uncachedBoard' /\ e.get = ans.get
    BY <1>1, <1>9 DEF EntryOf
  <2>2. ans.get # g
    BY <1>4, <2>1 DEF InFlightGets
  <2>3. PICK f \in uncachedBoard : f.get = ans.get /\ f.data \subseteq e.data
    BY <1>6, <2>1, <2>2 DEF Grown
  <2>4. ans.data \in f.data \/ (Backed(a) /\ Unwritable(a) /\ ans.data = mem[a])
    BY <1>1, <1>9, <2>1, <2>3 DEF ReturnInv, EntryOf
  <2> QED BY <1>1, <1>5, <2>3, <2>4
<1> QED BY <1>8, <1>9 DEF ReturnInv

\* fire_d takes an answer and its entry; tick asks for one.
LEMMA ReturnULElse ==
  ASSUME AgentInv, ReturnInv, NEW u \in UL, FireAccessAckData(u) \/ DoGetAuto(u)
  PROVE  ReturnInv'
<1>1. failed = {} /\ UNCHANGED <<memAlt, mem, line, dir, granting, pendingB, pendingC>>
  BY DEF FireAccessAckData, DoGetAuto, AtChannel, AtFuzz, Reach, boardVars, dutVars, pendVars
<1>2. gets' = gets /\ answers' \subseteq answers /\ uncachedBoard' \subseteq uncachedBoard
  BY DEF FireAccessAckData, FireGetBeat, FinishGet, Finished, DoGetAuto
<1>3. \A e \in uncachedBoard' : Grown(e)
  BY <1>2 DEF Grown
<1> QED BY <1>1, <1>2, <1>3, ReturnKept

\* Every step leaves each Get its value.
LEMMA ReturnNext ==
  InvalsCareful /\ AgentInv /\ GetsInv /\ ReturnInv /\ [ULNext]_allVars => ReturnInv'
<1> SUFFICES ASSUME InvalsCareful, AgentInv, GetsInv, ReturnInv, [ULNext]_allVars
             PROVE  ReturnInv'
  OBVIOUS
<1>1. ASSUME NEW a \in Addr, WriteBack(a) /\ UNCHANGED ulVars
      PROVE  ReturnInv'
  BY <1>1, ReturnWriteBack
<1>2. ASSUME NEW c \in Core, CNext(c)
      PROVE  ReturnInv'
  <2>1. failed = {}
    BY <1>2 DEF CNext, CUpdate, FireA, FireB, FireE, Fuzz, FireD, CFireC, FireC, Update, At, Reach
  <2> QED BY <1>2, <2>1, ReturnCNext
<1>3. ASSUME NEW g \in gets, Perform(g)
      PROVE  ReturnInv'
  BY <1>3, ReturnPerform
<1>4. ASSUME NEW u \in UL, FireGet(u) \/ FireAccessAckData(u) \/ DoGetAuto(u)
      PROVE  ReturnInv'
  BY <1>4, ReturnFireGet, ReturnULElse
<1>6. CASE ULUpdate
  <2>1. failed = {} /\ UNCHANGED <<memAlt, mem, line, dir, granting, pendingB, pendingC>>
    BY <1>6 DEF ULUpdate, boardVars, dutVars, pendVars
  <2>2. UNCHANGED <<gets, answers, uncachedBoard>>
    BY <1>6 DEF ULUpdate
  <2>3. \A e \in uncachedBoard' : Grown(e)
    BY <2>2 DEF Grown
  <2> QED BY <2>1, <2>2, <2>3, ReturnKept
<1>5. CASE UNCHANGED allVars
  BY <1>5 DEF allVars, vars, ulVars, ulOwn, boardVars, dutVars, pendVars, ReturnInv, EntryOf, Backed,
              Unwritable
<1> QED BY <1>1, <1>2, <1>3, <1>4, <1>5, <1>6 DEF ULNext

\* The invariant is a strengthening of GetMayReturn.
LEMMA ReturnReads ==
  ASSUME ReturnInv
  PROVE  GetMayReturn
<1> SUFFICES ASSUME failed = {}
             PROVE  GetMayReturn
  BY DEF GetMayReturn
<1>1. ASSUME NEW g \in gets, NEW e \in EntryOf(g)
      PROVE  line[g.addr] \in e.data
               \cup (IF memAlt[g.addr] = NoAlt THEN {} ELSE {mem[g.addr]})
  BY DEF ReturnInv, Backed
<1>2. ASSUME NEW ans \in answers, NEW e \in EntryOf(ans.get)
      PROVE  ans.data \in e.data
               \cup (IF memAlt[ans.get.addr] = NoAlt THEN {} ELSE {mem[ans.get.addr]})
  BY DEF ReturnInv, Backed
<1> QED BY <1>1, <1>2 DEF GetMayReturn

\* The Gets are accounted for.
LEMMA GetsHold == ULSpec => []GetsInv
  BY GetsInit, GetsNext, PTL DEF ULSpec

\* Each Get keeps a value it may return.
LEMMA ReturnHolds ==
  ASSUME InvalsCareful
  PROVE  ULSpec => []ReturnInv
<1>1. AgentInv /\ GetsInv /\ ReturnInv /\ [ULNext]_allVars => ReturnInv'
  BY ReturnNext
<1> QED BY <1>1, ReturnInit, AgentHolds, GetsHold, PTL DEF ULSpec

\* What a Get in flight will be answered with is on its entry of the uncached board, or is
\* memory's while the oracle takes that: no write of the TL-C agent and no cbo.inval in
\* between makes UncachedBoard::verify report a correct device, however many Gets, blocks
\* and values there are. Where cbo.inval may be issued the device is to answer Gets before
\* it grants and CBOs after the ReleaseAcks, and the board is not to be resynchronised.
THEOREM GetsReturnRight ==
  ASSUME InvalsCareful
  PROVE  ULSpec => []GetMayReturn
  BY ReturnHolds, ReturnReads, PTL
-----------------------------------------------------------------------------
(* The assertions *)

\* A Get on channel A has been presented, unless its fuzzer has just asked for it.
SentInv ==
  failed = {} =>
    \A u \in UL : upos < PosULFuzz(u) =>
      \A g \in getA[u] : localBoard[u][g.source] # {}

\* No Get is asked for at first.
LEMMA SentInit == ULInit => SentInv
  BY DEF ULInit, SentInv

\* Handlers and fuzzers come in the order of the agents, the fuzzers last.
LEMMA ULPlaces ==
  ASSUME NEW u \in UL, NEW v \in UL
  PROVE  /\ PosULA(u) \in Int /\ PosULD(u) \in Int /\ PosULFuzz(u) \in Int
         /\ PosULA(u) < PosULFuzz(v) /\ PosULD(u) < PosULFuzz(v)
         /\ PosULUpdate \in Int /\ PosULFuzz(v) < PosULUpdate
  BY NULAssumption DEF UL, PosULA, PosULD, PosULFuzz, PosULUpdate

\* fire_a and fire_d touch entries of Gets that have left channel A.
LEMMA SentHandler ==
  ASSUME GetsInv, SentInv, failed = {}, NEW u \in UL, FireGet(u) \/ FireAccessAckData(u)
  PROVE  SentInv'
<1> SUFFICES ASSUME NEW v \in UL, NEW g \in getA'[v]
             PROVE  localBoard'[v][g.source] # {}
  BY DEF SentInv
<1>1. /\ getA \in [UL -> SUBSET Get]
      /\ localBoard \in [UL -> [ULSourceID -> SUBSET LocalEntry]]
      /\ upos \in Nat /\ DeviceGets /\ IdsOfGets(v) /\ IdsOfGets(u)
  BY DEF GetsInv, GetsType
<1>2. upos < PosULFuzz(v)
  <2>1. upos < PosULA(u) \/ upos < PosULD(u)
    BY DEF FireGet, FireAccessAckData, AtChannel
  <2> QED BY <1>1, <2>1, ULPlaces
<1>3. CASE FireGet(u)
  <2>1. PICK h \in getA[u] :
          /\ getA' = [getA EXCEPT ![u] = {}]
          /\ localBoard' = [localBoard EXCEPT ![u][h.source] =
               {[addr |-> h.addr, status |-> "S_A_WAITING_D", age |-> 0]}]
    BY <1>3 DEF FireGet
  <2>2. v # u /\ g \in getA[v]
    BY <1>1, <2>1
  <2>3. localBoard'[v] = localBoard[v]
    BY <1>1, <2>1, <2>2
  <2> QED BY <1>2, <2>2, <2>3 DEF SentInv
<1>4. CASE FireAccessAckData(u)
  <2>1. getA' = getA /\ localBoard[v][g.source] # {}
    BY <1>2, <1>4 DEF FireAccessAckData, SentInv
  <2>2. PICK ans \in answers : ans.get.ul = u /\ (FireGetBeat(u, ans) \/ FinishGet(u, ans))
    BY <1>4 DEF FireAccessAckData
  <2>3. CASE FireGetBeat(u, ans)
    BY <2>1, <2>3 DEF FireGetBeat
  <2>4. CASE FinishGet(u, ans)
    <3>1. localBoard' = [localBoard EXCEPT ![u][ans.get.source] = {}]
      BY <2>4 DEF FinishGet
    <3>2. ans.get.source \in Used(u)
      BY <2>2 DEF Used, InFlightGets
    <3>3. v = u => g.source # ans.get.source
      BY <1>1, <2>1, <3>2 DEF IdsOfGets, Asked
    <3>4. localBoard'[v][g.source] = localBoard[v][g.source]
      BY <1>1, <3>1, <3>3
    <3> QED BY <2>1, <3>4
  <2> QED BY <2>2, <2>3, <2>4
<1> QED BY <1>3, <1>4

\* tick asks for a Get in the place of its own fuzzer.
LEMMA SentAuto ==
  ASSUME GetsInv, SentInv, NEW u \in UL, DoGetAuto(u)
  PROVE  SentInv'
<1>1. failed = {} /\ upos < PosULFuzz(u) /\ upos' = PosULFuzz(u) /\ localBoard' = localBoard
  BY DEF DoGetAuto, AtFuzz
<1>2. upos \in Nat /\ getA \in [UL -> SUBSET Get]
  BY <1>1 DEF GetsInv, GetsType
<1>3. PICK S : getA' = [getA EXCEPT ![u] = S]
  BY DEF DoGetAuto
<1>4. ASSUME NEW v \in UL, upos' < PosULFuzz(v)'
      PROVE  v # u /\ upos < PosULFuzz(v)
  <2>1. PosULFuzz(v)' = PosULFuzz(v)
    BY DEF PosULFuzz
  <2> QED BY <1>1, <1>2, <1>4, <2>1, ULPlaces
<1> QED BY <1>1, <1>2, <1>3, <1>4 DEF SentInv

\* The update_signal that presents the Gets asked for comes after every fuzzer.
LEMMA SentCUpdate ==
  ASSUME NEW c \in Core, CUpdate(c)
  PROVE  SentInv'
<1> SUFFICES ASSUME NEW u \in UL, upos' < PosULFuzz(u)'
             PROVE  FALSE
  BY DEF SentInv
<1>1. upos' = PosULUpdate /\ PosULFuzz(u)' = PosULFuzz(u)
  BY DEF CUpdate, PosULFuzz
<1> QED BY <1>1, ULPlaces

\* update_signal presents the Gets asked for.
LEMMA SentUpdate ==
  ASSUME GetsInv, failed = {}, ULUpdate
  PROVE  SentInv'
<1> SUFFICES ASSUME NEW u \in UL, NEW g \in getA[u]
             PROVE  localBoard'[u][g.source] # {}
  BY DEF SentInv, ULUpdate
<1>1. g.source \in ULSourceID
  BY DEF GetsInv, GetsType, Get
<1>2. ToSend(u, g.source) # {}
  BY DEF ToSend
<1>3. ULSendA(u, g.source) # {}
  BY <1>2 DEF ULSendA
<1>4. PICK m \in BOOLEAN : localBoard' = [v \in UL |-> [i \in ULSourceID |->
        {[addr |-> e.addr, status |-> e.status, age |-> Aged(e.age, m)] : e \in ULSendA(v, i)}]]
  BY DEF ULUpdate
<1>5. localBoard'[u][g.source] =
        {[addr |-> e.addr, status |-> e.status, age |-> Aged(e.age, m)] : e \in ULSendA(u, g.source)}
  BY <1>1, <1>4
<1> QED BY <1>3, <1>5

\* Every step leaves the Gets presented.
LEMMA SentNext == GetsInv /\ SentInv /\ [ULNext]_allVars => SentInv'
<1> SUFFICES ASSUME GetsInv, SentInv, [ULNext]_allVars
             PROVE  SentInv'
  OBVIOUS
<1>1. ASSUME failed = {}, UNCHANGED <<upos, getA, localBoard>>
      PROVE  SentInv'
  BY <1>1 DEF SentInv, PosULFuzz
<1>2. ASSUME NEW a \in Addr, WriteBack(a) /\ UNCHANGED ulVars
      PROVE  SentInv'
  BY <1>1, <1>2 DEF WriteBack, ulVars, ulOwn
<1>3. ASSUME NEW c \in Core, CNext(c)
      PROVE  SentInv'
  <2>1. failed = {}
    BY <1>3 DEF CNext, CUpdate, FireA, FireB, FireE, Fuzz, FireD, CFireC, FireC, Update, At, Reach
  <2> QED BY <1>1, <1>3, <2>1, SentCUpdate DEF CNext, CFireC, ulVars, ulOwn
<1>4. ASSUME NEW g \in gets, Perform(g)
      PROVE  SentInv'
  BY <1>1, <1>4 DEF Perform
<1>5. ASSUME NEW u \in UL, FireGet(u) \/ FireAccessAckData(u)
      PROVE  SentInv'
  BY <1>5, SentHandler DEF FireGet, FireAccessAckData, AtChannel, Reach
<1>6. ASSUME NEW u \in UL, DoGetAuto(u)
      PROVE  SentInv'
  BY <1>6, SentAuto
<1>7. CASE UNCHANGED allVars
  BY <1>7 DEF allVars, vars, ulVars, ulOwn, SentInv, PosULFuzz
<1>8. CASE ULUpdate
  BY <1>8, SentUpdate DEF ULUpdate
<1> QED BY <1>2, <1>3, <1>4, <1>5, <1>6, <1>7, <1>8 DEF ULNext

\* fire_a finds the Get's entry in its local board and none in the uncached board.
LEMMA GetPasses ==
  ASSUME GetsInv, SentInv, NEW u \in UL, FireGet(u)
  PROVE  failed' = {}
<1>1. failed = {} /\ upos < PosULA(u)
  BY DEF FireGet, AtChannel, Reach
<1>2. PICK g \in getA[u] :
        failed' = Check(localBoard[u][g.source] # {}, "no entry for the Get")
             \cup Check(EntryOf(g) = {}, "duplicated uncached entry")
  BY DEF FireGet
<1>3. upos \in Nat /\ BoardOfGets /\ IdsOfGets(u) /\ g.ul = u
  BY <1>1 DEF GetsInv, GetsType
<1>4. localBoard[u][g.source] # {}
  <2>1. upos < PosULFuzz(u)
    BY <1>1, <1>3, ULPlaces
  <2> QED BY <1>1, <2>1 DEF SentInv
<1>5. g \notin InFlightGets
  BY <1>3 DEF IdsOfGets, Used, Asked
<1>6. EntryOf(g) = {}
  BY <1>3, <1>5 DEF EntryOf, BoardOfGets
<1> QED BY <1>2, <1>4, <1>6 DEF Check

\* fire_d finds the Get waiting, and its value on the board or in memory.
LEMMA AccessAckPasses ==
  ASSUME GetsInv, ReturnInv, NEW u \in UL, FireAccessAckData(u)
  PROVE  failed' = {}
<1>1. failed = {}
  BY DEF FireAccessAckData, AtChannel, Reach
<1>2. PICK ans \in answers :
        ans.get.ul = u /\ ((FireGetBeat(u, ans) /\ UNCHANGED failed) \/ FinishGet(u, ans))
  BY DEF FireAccessAckData
<1>3. CASE FinishGet(u, ans)
  <2>1. PICK g : g = ans.get
    OBVIOUS
  <2>2. failed' = Check(\A e \in localBoard[u][g.source] : e.status = "S_A_WAITING_D", "D status")
          \cup Check(EntryOf(g) # {}, "no uncached entry")
          \cup Check((memAlt[g.addr] # NoAlt /\ ans.data = mem[g.addr])
                        \/ \E e \in EntryOf(g) : ans.data \in e.data, "uncached data mismatch")
    BY <1>3, <2>1 DEF FinishGet
  <2>3. /\ g \in InFlightGets /\ g \in Get /\ g.ul = u
        /\ BoardOfGets /\ IdsOfGets(u) /\ LocalOfGets(u)
    BY <1>1, <1>2, <2>1 DEF InFlightGets, GetsInv, DeviceGets
  <2>4. g.source \in ULSourceID /\ g.source \in Used(u) /\ g.source \notin Asked(u)
    BY <2>3 DEF Get, Used, IdsOfGets
  <2>5. \A e \in localBoard[u][g.source] : e.status = "S_A_WAITING_D"
    BY <2>3, <2>4 DEF LocalOfGets
  <2>6. PICK e \in uncachedBoard : e.get = g
    BY <2>3 DEF BoardOfGets
  <2>7. ans.data \in e.data \/ (memAlt[g.addr] # NoAlt /\ ans.data = mem[g.addr])
    BY <1>1, <2>1, <2>6 DEF ReturnInv, EntryOf, Backed
  <2> QED BY <2>2, <2>5, <2>6, <2>7 DEF Check, EntryOf
<1> QED BY <1>1, <1>2, <1>3

Late(g) == TooOld(waited[g.ul][g.source])

\* timeout_check fails when the device has kept a Get too long, and only then: an entry
\* of a Get that waits for channel A is new, any other is as old as its Get.
LEMMA TimeoutIsLate ==
  ASSUME GetsInv, failed = {}, ULUpdate
  PROVE  OnlyLateGetsFail'
<1>1. PICK m \in BOOLEAN :
        /\ failed' = TimeoutCheck(m)
        /\ waited' = [u \in UL |-> [i \in ULSourceID |->
             IF \E g \in InFlightGets : g.ul = u /\ g.source = i
             THEN Aged(waited[u][i], m) ELSE 0]]
  BY DEF ULUpdate
<1>2. InFlightGets' = InFlightGets /\ InFlightGets \subseteq Get
  BY DEF ULUpdate, InFlightGets, GetsInv, DeviceGets
<1>3. ASSUME NEW g \in InFlightGets
      PROVE  /\ g.ul \in UL /\ g.source \in ULSourceID
             /\ Late(g)' <=> TooOld(Aged(waited[g.ul][g.source], m))
  <2>1. g.ul \in UL /\ g.source \in ULSourceID
    BY <1>2 DEF Get
  <2>2. waited'[g.ul][g.source] = Aged(waited[g.ul][g.source], m)
    BY <1>1, <2>1
  <2> QED BY <2>1, <2>2 DEF Late, TooOld
<1>4. ASSUME NEW g \in InFlightGets, Late(g)'
      PROVE  \E u \in UL, i \in ULSourceID : \E e \in ULSendA(u, i) : TooOld(Aged(e.age, m))
  <2>1. g.ul \in UL /\ g.source \in ULSourceID
    BY <1>3
  <2>2. g.source \notin Asked(g.ul)
    BY <2>1 DEF GetsInv, IdsOfGets, Used
  <2>3. [addr |-> g.addr, status |-> "S_A_WAITING_D", age |-> waited[g.ul][g.source]]
          \in ULSendA(g.ul, g.source)
    BY <2>1, <2>2, ULUpdateLocal
  <2> QED BY <1>3, <1>4, <2>1, <2>3
<1>5. ASSUME NEW u \in UL, NEW i \in ULSourceID, NEW e \in ULSendA(u, i), TooOld(Aged(e.age, m))
      PROVE  \E g \in InFlightGets : Late(g)'
  <2>1. CASE i \in Asked(u)
    <3>1. e.age = 0
      BY <2>1, ULUpdateLocal
    <3> QED BY <1>5, <3>1, Ages
  <2>2. CASE i \notin Asked(u)
    <3>1. PICK g \in InFlightGets : g.ul = u /\ g.source = i /\
            e = [addr |-> g.addr, status |-> "S_A_WAITING_D", age |-> waited[u][i]]
      BY <2>2, ULUpdateLocal
    <3>2. e.age = waited[u][i]
      BY <3>1
    <3> QED BY <1>3, <1>5, <3>1, <3>2
  <2> QED BY <2>1, <2>2
<1>6. failed' = IF \E g \in InFlightGets : Late(g)' THEN {"Transaction time out"} ELSE {}
  BY <1>1, <1>4, <1>5 DEF TimeoutCheck, Check
<1> QED BY <1>2, <1>6 DEF OnlyLateGetsFail, Late

\* Elsewhere a Get is sent, or answered, or stays as old as it is.
LEMMA LateStays ==
  ASSUME OnlyLateGetsFail, failed = {}, failed' = {},
         \A g \in InFlightGets' :
           \/ g \in InFlightGets /\ waited'[g.ul][g.source] = waited[g.ul][g.source]
           \/ waited'[g.ul][g.source] = 0
  PROVE  OnlyLateGetsFail'
<1>1. ~\E g \in InFlightGets : TooOld(waited[g.ul][g.source])
  BY DEF OnlyLateGetsFail
<1>2. ASSUME NEW g \in InFlightGets'
      PROVE  ~TooOld(waited'[g.ul][g.source])
  BY <1>1 DEF TooOld
<1> QED BY <1>2 DEF OnlyLateGetsFail, TooOld

\* No handler of either kind of agent fails an assertion.
LEMMA PassNext ==
  ASSUME Overtake = {}, ~CleanToT, ~CStall, ~EStall,
         AgentInv, GetsInv, ReturnInv, SentInv, OnlyLateGetsFail, [ULNext]_allVars
  PROVE  OnlyLateGetsFail'
<1>1. ASSUME failed = {}, [Next]_vars
      PROVE  failed' = {}
  <2>1. DataProbed
    BY OneCoreAssumption DEF DataProbed
  <2>2. AssertInv
    BY <1>1 DEF AssertInv
  <2>3. AssertInv'
    BY <1>1, <2>2, AssertStep DEF AgentInv
  <2>4. failed' \subseteq Expected
    BY <2>1, <2>3 DEF AssertInv, DataProbed, Expected
  <2> QED BY <2>4 DEF Expected
<1>2. ASSUME failed = {}, [Next]_vars, UNCHANGED <<gets, answers, waited>>
      PROVE  OnlyLateGetsFail'
  <2>1. InFlightGets' = InFlightGets
    BY <1>2 DEF InFlightGets
  <2> QED BY <1>1, <1>2, <2>1, LateStays
<1>3. ASSUME NEW a \in Addr, WriteBack(a) /\ UNCHANGED ulVars
      PROVE  OnlyLateGetsFail'
  BY <1>2, <1>3 DEF WriteBack, ulVars, ulOwn, Next
<1>4. ASSUME NEW c \in Core, CNext(c)
      PROVE  OnlyLateGetsFail'
  <2>1. failed = {}
    BY <1>4 DEF CNext, CUpdate, FireA, FireB, FireE, Fuzz, FireD, CFireC, FireC, Update, At, Reach
  <2> QED BY <1>2, <1>4, <2>1 DEF CNext, CFireC, CUpdate, ulVars, ulOwn, Next
<1>5. ASSUME NEW g \in gets, Perform(g)
      PROVE  OnlyLateGetsFail'
  <2>1. failed = {} /\ UNCHANGED vars /\ waited' = waited /\ failed' = failed
    BY <1>5 DEF Perform, vars
  <2>2. \A ans \in answers' : ans \in answers \/ ans.get = g
    BY <1>5 DEF Perform
  <2>3. InFlightGets' \subseteq InFlightGets
    BY <1>5, <2>2 DEF Perform, InFlightGets
  <2> QED BY <2>1, <2>3, LateStays
<1>6. ASSUME NEW u \in UL, FireGet(u)
      PROVE  OnlyLateGetsFail'
  <2>1. failed = {} /\ failed' = {}
    BY <1>6, GetPasses DEF FireGet, AtChannel, Reach
  <2>2. PICK g \in getA[u] :
          waited' = [waited EXCEPT ![u][g.source] = 0] /\ gets' = gets \cup {g}
    BY <1>6 DEF FireGet
  <2>3. /\ waited \in [UL -> [ULSourceID -> Nat]] /\ g.ul = u /\ g.source \in ULSourceID
        /\ InFlightGets \subseteq Get
    BY <2>1 DEF GetsInv, GetsType, DeviceGets, Get
  <2>4. answers' = answers
    BY <1>6 DEF FireGet
  <2>5. InFlightGets' = InFlightGets \cup {g}
    BY <2>2, <2>4 DEF InFlightGets
  <2>6. ASSUME NEW h \in InFlightGets'
        PROVE  \/ h \in InFlightGets /\ waited'[h.ul][h.source] = waited[h.ul][h.source]
               \/ waited'[h.ul][h.source] = 0
    <3>1. CASE h.ul = u /\ h.source = g.source
      BY <2>2, <2>3, <3>1
    <3>2. CASE ~(h.ul = u /\ h.source = g.source)
      <4>1. h \in InFlightGets
        BY <2>3, <2>5, <3>2
      <4>2. h.ul \in UL /\ h.source \in ULSourceID
        BY <2>3, <4>1 DEF Get
      <4> QED BY <2>2, <2>3, <3>2, <4>1, <4>2
    <3> QED BY <3>1, <3>2
  <2> QED BY <2>1, <2>6, LateStays
<1>7. ASSUME NEW u \in UL, FireAccessAckData(u)
      PROVE  OnlyLateGetsFail'
  <2>1. failed = {} /\ failed' = {}
    BY <1>7, AccessAckPasses DEF FireAccessAckData, AtChannel, Reach
  <2>2. gets' = gets /\ answers' \subseteq answers /\ waited' = waited
    BY <1>7 DEF FireAccessAckData, FireGetBeat, FinishGet
  <2>3. InFlightGets' \subseteq InFlightGets
    BY <2>2 DEF InFlightGets
  <2> QED BY <2>1, <2>2, <2>3, LateStays
<1>8. ASSUME NEW u \in UL, DoGetAuto(u)
      PROVE  OnlyLateGetsFail'
  <2>1. failed = {} /\ failed' = {} /\ UNCHANGED <<gets, answers, waited>>
    BY <1>8 DEF DoGetAuto, AtFuzz
  <2>2. InFlightGets' = InFlightGets
    BY <2>1 DEF InFlightGets
  <2> QED BY <2>1, <2>2, LateStays
<1>9. CASE ULUpdate
  BY <1>9, TimeoutIsLate DEF ULUpdate
<1>10. CASE UNCHANGED allVars
  BY <1>10 DEF allVars, vars, ulVars, ulOwn, OnlyLateGetsFail, InFlightGets, TooOld
<1> QED BY <1>3, <1>4, <1>5, <1>6, <1>7, <1>8, <1>9, <1>10 DEF ULNext

\* The only tlc_assert of ULAgent.cpp or CAgent.cpp that fails, on a device that keeps
\* neither C nor E waiting, answers nothing of a block before its ReleaseAcks and leaves
\* nothing TIP that it cleans, with the cbo.inval answered as above, is the time-out of a
\* Get: whatever time the device takes, it fails exactly when a Get has been with the
\* device for more than TIMEOUT_INTERVAL.
THEOREM ULAssertionsHold ==
  ASSUME Overtake = {}, ~CleanToT, ~CStall, ~EStall, InvalsCareful
  PROVE  ULSpec => []OnlyLateGetsFail
<1>1. ULInit => OnlyLateGetsFail
  BY DEF ULInit, Init, OnlyLateGetsFail, InFlightGets
<1>2. AgentInv /\ GetsInv /\ ReturnInv /\ SentInv /\ OnlyLateGetsFail /\ [ULNext]_allVars
      => OnlyLateGetsFail'
  BY PassNext
<1> QED BY <1>1, <1>2, SentInit, SentNext, AgentHolds, GetsHold, ReturnHolds, PTL DEF ULSpec
=============================================================================
