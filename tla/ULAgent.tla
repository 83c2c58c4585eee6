------------------------------ MODULE ULAgent -------------------------------
(***************************************************************************)
(* The TL-UL agents (ULAgent.cpp) beside one TL-C agent: uncached masters  *)
(* that only read (Get), and the board of what each Get in flight may      *)
(* return (ULScoreBoard.h), which the TL-C agent's writes extend.  In      *)
(* TLSequencer::Tock every handler of the TL-UL agents follows the TL-C    *)
(* agent's handler of the same kind.  Puts are left out: no fuzzer asks    *)
(* for one (ULFuzzer::tick).                                               *)
(*                                                                         *)
(* timeout_check runs in the cycles whose number is a multiple of          *)
(* TIMEOUT_INTERVAL.  Such cycles come here at any time, and an age is     *)
(* counted in them: an entry is older than TIMEOUT_INTERVAL in such a      *)
(* cycle if and only if another one came after the entry's time_stamp.     *)
(***************************************************************************)
EXTENDS CAgent

CONSTANTS
  NUL,          \* number of TL-UL agents
  ULSourceID,   \* ids of their idpool
  \* Assumption on the device
  InvalRace     \* may grant a block that a cbo.inval has changed before it has
                \* sent its answer to a Get of it

ASSUME OneCoreAssumption == NCore = 1
ASSUME NULAssumption == NUL \in Nat \ {0}
ASSUME ULSourceAssumption == ULSourceID \subseteq Nat
ASSUME RaceAssumption == InvalRace \in BOOLEAN

UL == 0 .. NUL - 1

VARIABLES
  upos,          \* TL-UL handler reached in this cycle
  getA,          \* [UL -> pendingA]: a set of at most one Get
  getD,          \* [UL -> pendingD]: an answer whose second beat is to come
  localBoard,    \* [UL -> [ULSourceID -> entries [addr, status, age], at most one]]
  uncachedBoard, \* set of [get, data]: values the Get may return
  ulIdle, ulFree,    \* idpool: idle_ids, pending_freeid
  gets,          \* device: Gets accepted, not performed
  answers,       \* device: Gets performed, with the value read
  waited         \* history: [UL -> [ULSourceID -> age of the Get the device has]]

ulOwn == <<getA, getD, localBoard, uncachedBoard, ulIdle, ulFree, gets, answers, waited>>
ulVars == <<upos, ulOwn>>
allVars == <<vars, ulVars>>

-----------------------------------------------------------------------------
(* The cycle *)

PosULA(u) == 2 * u + 1
PosULD(u) == 2 * u + 2
PosULFuzz(u) == 2 * NUL + u + 1
PosULUpdate == 3 * NUL + 1

\* A channel of a TL-UL agent, after those of the TL-C agent.
AtChannel(p) ==
  /\ Reach(PosFuzz(0)) /\ pos' = PosD(0)
  /\ upos < p /\ upos' = p

\* A TL-UL fuzzer, after that of the TL-C agent.
AtFuzz(p) ==
  /\ failed = {} /\ Reach(PosUpdate(0)) /\ pos' = PosFuzz(0)
  /\ upos < p /\ upos' = p

\* An age: 0 in the cycle of the time stamp, 1 after it, and one more in every
\* multiple of TIMEOUT_INTERVAL, of which m is one.
Aged(age, m) == IF age = 0 THEN 1 ELSE IF m THEN age + 1 ELSE age

\* *cycles - time_stamp > TIMEOUT_INTERVAL
TooOld(age) == age > 2

InFlightGets == gets \cup {ans.get : ans \in answers}

-----------------------------------------------------------------------------
(* UncachedBoard *)

\* A value written to a is one any Get of a in flight may return.
AppendAll(entries, a, d) ==
  {[e EXCEPT !.data = IF e.get.addr = a THEN @ \cup {d} ELSE @] : e \in entries}

EntryOf(g) == {e \in uncachedBoard : e.get = g}

\* Mutant: the old value is taken, not the one being written.
BoardValueOld(a) == IF board[a].data = {} THEN {Zero} ELSE board[a].data

\* The value fire_a finds in the global board.
BoardValue(a) ==
  CASE board[a].status = "NONE" -> {Zero}
    [] board[a].status = "VALID" -> board[a].data
    [] board[a].status = "PENDING" -> board[a].pending

Allocated(g) ==
  LET entries == uncachedBoard \cup {[get |-> g, data |-> BoardValue(g.addr)]}
  IN  IF memAlt[g.addr] = NoAlt THEN entries ELSE AppendAll(entries, g.addr, mem[g.addr])

-----------------------------------------------------------------------------
(* The device's side (external) *)

\* The device reads a block when nobody is being probed for it, granted it, or
\* may be writing it.
Perform(g) ==
  /\ failed = {} /\ g \in gets
  /\ Quiet(g.addr)
  /\ \A h \in Held(g.addr) : dir[h[1]][g.addr][h[2]] = "BRANCH"
  /\ gets' = gets \ {g}
  /\ answers' = answers \cup {[get |-> g, data |-> line[g.addr]]}
  /\ UNCHANGED <<vars, upos, getA, getD, localBoard, uncachedBoard, ulIdle, ulFree, waited>>

MayOvertakeGets ==
  InvalRace \/ \A k \in granting' \ granting, ans \in answers :
                 k[2] = ans.get.addr => memAlt[k[2]] = NoAlt

-----------------------------------------------------------------------------
(* handle_channel *)

FireGet(u) ==
  /\ AtChannel(PosULA(u))
  /\ \E g \in getA[u] :
       /\ getA' = [getA EXCEPT ![u] = {}]
       /\ localBoard' = [localBoard EXCEPT ![u][g.source] =
            {[addr |-> g.addr, status |-> "S_A_WAITING_D", age |-> 0]}]
       /\ waited' = [waited EXCEPT ![u][g.source] = 0]
       /\ failed' = Check(localBoard[u][g.source] # {}, "no entry for the Get")
            \cup Check(EntryOf(g) = {}, "duplicated uncached entry")
       /\ uncachedBoard' = Allocated(g)
       /\ gets' = gets \cup {g}
  /\ UNCHANGED <<entryVars, pendVars, idVars, timeVars, boardVars, mem, dutVars,
                 getD, ulIdle, ulFree, answers>>

\* The first of the two beats of an AccessAckData.
FireGetBeat(u, ans) ==
  /\ getD[u] = {}
  /\ getD' = [getD EXCEPT ![u] = {ans}]
  /\ UNCHANGED <<localBoard, uncachedBoard, ulFree, answers>>

\* Mutant: the entry stays.
FinishedNever(g) == uncachedBoard

\* UncachedBoard::finish
Finished(g) == uncachedBoard \ EntryOf(g)

\* The last beat: the value is the memory's while there is an alternative, or
\* one of the board's.
FinishGet(u, ans) ==
  LET g == ans.get
      byMemory == memAlt[g.addr] # NoAlt /\ ans.data = mem[g.addr]
  IN
  /\ getD[u] = {ans}
  /\ getD' = [getD EXCEPT ![u] = {}]
  /\ failed' = Check(\A e \in localBoard[u][g.source] : e.status = "S_A_WAITING_D", "D status")
       \cup Check(EntryOf(g) # {}, "no uncached entry")
       \cup Check(byMemory \/ \E e \in EntryOf(g) : ans.data \in e.data, "uncached data mismatch")
  /\ localBoard' = [localBoard EXCEPT ![u][g.source] = {}]
  /\ uncachedBoard' = Finished(g)
  /\ ulFree' = [ulFree EXCEPT ![u] = {g.source}]
  /\ answers' = answers \ {ans}

FireAccessAckData(u) ==
  /\ AtChannel(PosULD(u))
  /\ \E ans \in answers :
       /\ ans.get.ul = u
       /\ (FireGetBeat(u, ans) /\ UNCHANGED failed) \/ FinishGet(u, ans)
  /\ UNCHANGED <<entryVars, pendVars, idVars, timeVars, boardVars, mem, dutVars,
                 getA, ulIdle, gets, waited>>

-----------------------------------------------------------------------------
(* tick and update_signal *)

DoGetAuto(u) ==
  /\ AtFuzz(PosULFuzz(u))
  /\ getA[u] = {}
  /\ \E i \in ulIdle[u], a \in Addr :
       /\ \A j \in ulIdle[u] : i <= j
       /\ getA' = [getA EXCEPT ![u] = {[ul |-> u, addr |-> a, source |-> i]}]
       /\ ulIdle' = [ulIdle EXCEPT ![u] = @ \ {i}]
  /\ UNCHANGED <<failed, entryVars, pendVars, idVars, timeVars, boardVars, mem,
                 dutVars, getD, localBoard, uncachedBoard, ulFree, gets, answers, waited>>

ToSend(u, i) == {g \in getA[u] : g.source = i}

\* Mutant: a Get presented again keeps the entry of its first presentation.
ULSendAOnce(u, i) ==
  IF ToSend(u, i) = {} \/ localBoard[u][i] # {} THEN localBoard[u][i]
  ELSE {[addr |-> g.addr, status |-> "S_SENDING_A", age |-> 0] : g \in ToSend(u, i)}

\* send_a makes the entry, and its time stamp, anew every cycle.
ULSendA(u, i) ==
  IF ToSend(u, i) = {} THEN localBoard[u][i]
  ELSE {[addr |-> g.addr, status |-> "S_SENDING_A", age |-> 0] : g \in ToSend(u, i)}

\* timeout_check: in a multiple of TIMEOUT_INTERVAL no entry is too old.
TimeoutCheck(m) ==
  Check(\A u \in UL, i \in ULSourceID : \A e \in ULSendA(u, i) : ~TooOld(Aged(e.age, m)),
        "Transaction time out")

\* update_signal of the TL-UL agents: send_a, timeout_check, IDPool::update.  The
\* cycle ends, and its number may be a multiple of TIMEOUT_INTERVAL.
ULUpdate ==
  /\ failed = {}
  /\ upos = PosULUpdate /\ upos' = 0
  /\ \E m \in BOOLEAN :
       /\ failed' = TimeoutCheck(m)
       /\ localBoard' = [u \in UL |-> [i \in ULSourceID |->
            {[addr |-> e.addr, status |-> e.status, age |-> Aged(e.age, m)]
               : e \in ULSendA(u, i)}]]
       /\ waited' = [u \in UL |-> [i \in ULSourceID |->
            IF \E g \in InFlightGets : g.ul = u /\ g.source = i
            THEN Aged(waited[u][i], m) ELSE 0]]
  /\ ulIdle' = [u \in UL |-> ulIdle[u] \cup ulFree[u]]
  /\ ulFree' = [u \in UL |-> {}]
  /\ UNCHANGED <<pos, entryVars, pendVars, idVars, timeVars, boardVars, mem, dutVars,
                 getA, getD, uncachedBoard, gets, answers>>

-----------------------------------------------------------------------------
(* The TL-C agent *)

\* What the last beat on channel C writes.
WrittenBy(c) ==
  {r \in pendingC[c] : r.beats = 1 /\ r.op \in {"ReleaseData", "ProbeAckData"}}

CFireC(c) ==
  /\ FireC(c)
  /\ uncachedBoard' = IF WrittenBy(c) = {} THEN uncachedBoard
       ELSE LET r == The(WrittenBy(c)) IN AppendAll(uncachedBoard, r.addr, r.data)
  /\ UNCHANGED <<upos, getA, getD, localBoard, ulIdle, ulFree, gets, answers, waited>>

\* The TL-C agent's update_signal; those of the TL-UL agents come next.
CUpdate(c) == Update(c) /\ upos' = PosULUpdate /\ UNCHANGED ulOwn

CNext(c) ==
  /\ upos # PosULUpdate
  /\ \/ (FireA(c) \/ FireB(c) \/ FireE(c) \/ Fuzz(c)) /\ UNCHANGED ulVars
     \/ FireD(c) /\ MayOvertakeGets /\ UNCHANGED ulVars
     \/ CFireC(c)
     \/ CUpdate(c)

ULNext ==
  \/ \E a \in Addr : WriteBack(a) /\ UNCHANGED ulVars
  \/ \E c \in Core : CNext(c)
  \/ \E g \in gets : Perform(g)
  \/ \E u \in UL : FireGet(u) \/ FireAccessAckData(u) \/ DoGetAuto(u)
  \/ ULUpdate

ULInit ==
  /\ Init
  /\ upos = 0
  /\ getA = [u \in UL |-> {}] /\ getD = [u \in UL |-> {}]
  /\ localBoard = [u \in UL |-> [i \in ULSourceID |-> {}]]
  /\ uncachedBoard = {}
  /\ ulIdle = [u \in UL |-> ULSourceID] /\ ulFree = [u \in UL |-> {}]
  /\ gets = {} /\ answers = {}
  /\ waited = [u \in UL |-> [i \in ULSourceID |-> 0]]

ULSpec == ULInit /\ [][ULNext]_allVars

-----------------------------------------------------------------------------
(* Properties *)

\* Whatever a Get in flight returns, now or after any number of writes and
\* invalidations, the board accepts: the value read, or the block's present
\* value while it is not read yet.
GetMayReturn ==
  failed = {} =>
    /\ \A g \in gets : \A e \in EntryOf(g) :
         line[g.addr] \in e.data \cup (IF memAlt[g.addr] = NoAlt THEN {} ELSE {mem[g.addr]})
    /\ \A ans \in answers : \A e \in EntryOf(ans.get) :
         ans.data \in e.data
           \cup (IF memAlt[ans.get.addr] = NoAlt THEN {} ELSE {mem[ans.get.addr]})

\* The answer of a correct device is never reported as a mismatch: "All
\* corresponding data between Get and AccessAckData was recorded and allowed".
UncachedMismatchIsReal == "uncached data mismatch" \notin failed

\* The one assertion that fails is the time-out of a Get, and it fails exactly when
\* the device has kept a Get for longer than TIMEOUT_INTERVAL: never while the Get
\* waits for channel A, never by the stamp of the id's last Get, and no later than
\* the second multiple of TIMEOUT_INTERVAL after the Get was sent.
OnlyLateGetsFail ==
  failed = IF \E g \in InFlightGets : TooOld(waited[g.ul][g.source])
           THEN {"Transaction time out"} ELSE {}

\* The board, the local board and the ids tell of the same Gets: an entry lives
\* from fire_a to the last beat, as old as its Get, and an id is idle, parked, or
\* of one Get.
GetsAccounted ==
  failed = {} =>
    /\ {e.get : e \in uncachedBoard} = InFlightGets
    /\ Cardinality(uncachedBoard) = Cardinality(InFlightGets)
    /\ \A u \in UL :
         LET used == {g.source : g \in {h \in InFlightGets : h.ul = u}}
             asked == {g.source : g \in getA[u]}
         IN
         /\ used \cap asked = {}
         /\ ulIdle[u] = (ULSourceID \ (used \cup asked)) \ ulFree[u]
         /\ ulFree[u] \cap (used \cup asked) = {}
         /\ \A i \in ULSourceID :
              (localBoard[u][i] = {[addr |-> a, status |-> "S_A_WAITING_D", age |-> waited[u][i]] :
                 a \in {g.addr : g \in {h \in InFlightGets : h.ul = u /\ h.source = i}}})
              \/ i \in asked
=============================================================================
