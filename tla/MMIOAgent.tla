----------------------------- MODULE MMIOAgent -----------------------------
(***************************************************************************)
(* The uncached MMIO agents of the tester (MMIOAgent.cpp, MMIOFuzzer.cpp): *)
(* one per core, each with its own channels A and D and its own ids, over  *)
(* a shared table of addresses in flight and a shared copy of the device's *)
(* words.  A Get is verified against the copy when it is the only          *)
(* operation in flight at its address; a Put may not be issued otherwise.  *)
(*                                                                         *)
(* As in CAgent, pos is the place in TLSequencer::Tock: every agent's      *)
(* handle_channel (fire_a, fire_d), every fuzzer's tick, every agent's     *)
(* update_signal (send_a, idpool).  The words behind the ports are         *)
(* external: requests are performed one at a time, some time after they    *)
(* were taken, and answered in any order.                                  *)
(*                                                                         *)
(* The table in flight is keyed by address, so operations at two places of *)
(* one word do not see each other.  crossed is a history variable: it      *)
(* holds the bytes where that has happened, and no action reads it.        *)
(***************************************************************************)
EXTENDS Integers, FiniteSets

CONSTANTS
  NCore,        \* number of agents
  Word,         \* 8-byte words of the MMIO region
  Byte,         \* places in a word
  Size,         \* bytes of a partial Put: powers of two
  PutOffset,    \* places in a word where a partial Put may start
  SourceID,     \* NR_SOURCEID_MMIO ids
  Data, Zero,   \* values of a byte
  AStall        \* the device may keep channel A waiting for a cycle

ASSUME MMIOCoreAssumption == NCore \in Nat \ {0}
ASSUME MMIOWordAssumption ==
  /\ Byte \subseteq Nat /\ 0 \in Byte
  /\ PutOffset \subseteq Byte /\ Size \subseteq Nat \ {0}
  /\ Zero \in Data
ASSUME MMIOSourceAssumption == SourceID \subseteq Nat
ASSUME MMIOStallAssumption == AStall \in BOOLEAN

Core == 0 .. NCore - 1
PutOp == {"PutFullData", "PutPartialData"}

\* The bytes at place b of a word are keyed in inflightAddress by <<word, b>>.
Address == Word \X Byte

\* A Put writes one value to all bytes of its mask.
Req == [op : {"Get"} \cup PutOp, addr : Address, mask : SUBSET Byte, value : Data,
        source : SourceID]
Inflight == [dataCheck : BOOLEAN, status : {"S_SENDING_A", "S_A_WAITING_D"}, req : Req]

VARIABLES
  pos, failed,
  pendingA,         \* [Core -> set of Req]: at most one
  valid,            \* [Core -> BOOLEAN]: port.a.valid
  localStatus,      \* [Core -> [SourceID -> set of Inflight]]: at most one
  idle, freeSlot,   \* idpool
  inflightAddress,  \* MMIOGlobalStatus
  data,             \* MMIOGlobalStatus: [Word -> [Byte -> Data]]
  crossed,          \* history: <<word, place>> of the bytes with crossed operations
  \* The device
  reqs,             \* taken, not performed: [core, req]
  answers,          \* performed, not answered: [core, req, read]
  word              \* [Word -> [Byte -> Data]]

portVars == <<pendingA, valid>>
idVars == <<idle, freeSlot>>
globalVars == <<inflightAddress, data>>
dutVars == <<reqs, answers, word>>
vars == <<pos, failed, portVars, localStatus, idVars, globalVars, crossed, dutVars>>

-----------------------------------------------------------------------------
(* The cycle *)

PosA(c) == 2 * c + 1
PosD(c) == 2 * c + 2
PosFuzz(c) == 2 * NCore + c + 1
PosUpdate(c) == 3 * NCore + c + 1

\* A device that may not stall A takes the request presented to it on the way to p.
Reach(p) ==
  /\ failed = {}
  /\ pos < p
  /\ \A c \in Core : (~AStall /\ valid[c]) => ~(pos < PosA(c) /\ PosA(c) < p)

At(p) == Reach(p) /\ pos' = p

Check(cond, what) == IF cond THEN {} ELSE {what}

-----------------------------------------------------------------------------
(* The device (external) *)

Written(bytes, r) == [b \in Byte |-> IF b \in r.mask THEN r.value ELSE bytes[b]]

\* An AccessAck carries no data.
ReadFor(r) == IF r.op = "Get" THEN word[r.addr[1]] ELSE [b \in Byte |-> Zero]

Perform(q) ==
  /\ failed = {} /\ pos = 0
  /\ reqs' = reqs \ {q}
  /\ answers' = answers \cup {[core |-> q.core, req |-> q.req, read |-> ReadFor(q.req)]}
  /\ word' = IF q.req.op \in PutOp
       THEN [word EXCEPT ![q.req.addr[1]] = Written(@, q.req)] ELSE word
  /\ UNCHANGED <<pos, failed, portVars, localStatus, idVars, globalVars, crossed>>

-----------------------------------------------------------------------------
(* handle_channel *)

FireA(c) ==
  /\ At(PosA(c))
  /\ valid[c]
  /\ \E r \in pendingA[c] :
       /\ reqs' = reqs \cup {[core |-> c, req |-> r]}
       /\ failed' = Check(localStatus[c][r.source] # {}, "query")
       /\ localStatus' = [localStatus EXCEPT ![c][r.source] =
            {[dataCheck |-> e.dataCheck, status |-> "S_A_WAITING_D", req |-> e.req] : e \in @}]
  /\ pendingA' = [pendingA EXCEPT ![c] = {}]
  /\ valid' = [valid EXCEPT ![c] = FALSE]
  /\ UNCHANGED <<idVars, globalVars, crossed, answers, word>>

\* verifyData, over the bytes of the mask.
Matches(r, read) == \A b \in r.mask : data[r.addr[1]][b] = read[b]

\* Mutants: the bytes outside the mask are dropped, or overwritten.
UpdateDataMaskOnly(r) == [data EXCEPT ![r.addr[1]] = [b \in r.mask |-> r.value]]
UpdateDataUnmasked(r) == [data EXCEPT ![r.addr[1]] = [b \in Byte |-> r.value]]

\* updateData, over the bytes of the mask.
UpdateData(r) ==
  [data EXCEPT ![r.addr[1]] = [b \in Byte |-> IF b \in r.mask THEN r.value ELSE @[b]]]

\* Mutant: a Put's mark outlives its answer.
FreedInflightOfGets(e) ==
  IF e.dataCheck /\ e.req.op = "Get" THEN inflightAddress \ {e.req.addr}
  ELSE inflightAddress

\* freeInflight, by the operation that owns the mark.
FreedInflight(e) ==
  IF e.dataCheck THEN inflightAddress \ {e.req.addr} ELSE inflightAddress

\* The answer a of the operation e that the source names.
AnswerD(c, a, e) ==
  /\ failed' = Check(e.status = "S_A_WAITING_D", "D status")
       \cup Check((e.dataCheck /\ e.req.op = "Get") => Matches(e.req, a.read),
                  "data mismatch")
       \cup Check(e.dataCheck => e.req.addr \in inflightAddress, "not in-flight")
  /\ data' = IF e.req.op \in PutOp THEN UpdateData(e.req) ELSE data
  /\ inflightAddress' = FreedInflight(e)

FireD(c) ==
  /\ At(PosD(c))
  /\ \E a \in answers :
       LET i == a.req.source IN
       /\ a.core = c
       /\ answers' = answers \ {a}
       /\ \/ \E e \in localStatus[c][i] : AnswerD(c, a, e)
          \/ /\ localStatus[c][i] = {}
             /\ failed' = {"query"}
             /\ UNCHANGED globalVars
       /\ localStatus' = [localStatus EXCEPT ![c][i] = {}]
       /\ freeSlot' = [freeSlot EXCEPT ![c] = {i}]
  /\ UNCHANGED <<portVars, idle, crossed, reqs, word>>

-----------------------------------------------------------------------------
(* MMIOFuzzer::tick *)

\* IDPool::getid takes the lowest idle id.
NextID(c, i) == i \in idle[c] /\ \A j \in idle[c] : i <= j

\* A Put is refused while its address is in flight.
MayIssue(r) == r.op \in PutOp => r.addr \notin inflightAddress

\* What randomTest asks for: whole words, or an aligned part of one.
Asked(r) ==
  \/ r.op = "Get" /\ r.addr[2] = 0 /\ r.mask = Byte /\ r.value = Zero
  \/ r.op = "PutFullData" /\ r.addr[2] = 0 /\ r.mask = Byte
  \/ /\ r.op = "PutPartialData"
     /\ r.addr[2] \in PutOffset
     /\ \E n \in Size :
          r.addr[2] % n = 0 /\ r.mask = {b \in Byte : r.addr[2] <= b /\ b < r.addr[2] + n}

Fuzz(c) ==
  /\ At(PosFuzz(c))
  /\ pendingA[c] = {}
  /\ \E r \in Req :
       /\ NextID(c, r.source)
       /\ Asked(r)
       /\ MayIssue(r)
       /\ pendingA' = [pendingA EXCEPT ![c] = {r}]
       /\ idle' = [idle EXCEPT ![c] = @ \ {r.source}]
  /\ UNCHANGED <<failed, valid, localStatus, freeSlot, globalVars, crossed, dutVars>>

-----------------------------------------------------------------------------
(* update_signal *)

\* Mutant: a Get is verified whatever else is in flight at its address.
VerifiedAlways(r) == TRUE

\* Only the first operation in flight at an address is verified.
Verified(r) == r.addr \notin inflightAddress

Bytes(r) == {r.addr[1]} \X r.mask

\* The table does not show two operations at different addresses to each other; it
\* matters if one of them writes.
Unseen(q, r) == q.addr # r.addr /\ (q.op \in PutOp \/ r.op \in PutOp)

\* The bytes where r meets, unseen, an operation in flight that owns a mark.
Meeting(r) ==
  {x \in Bytes(r) : \E c \in Core, i \in SourceID : \E e \in localStatus[c][i] :
     e.dataCheck /\ Unseen(e.req, r) /\ x \in Bytes(e.req)}

\* History.  A byte is crossed from the time two operations meet at it until a Put is
\* presented that meets no other there; an unverified Get crosses nothing.
Crossed(r) ==
  (IF r.op \in PutOp THEN crossed \ Bytes(r) ELSE crossed)
    \cup (IF Verified(r) THEN Meeting(r) ELSE {})

\* send_a.  A Put that finds its address in flight is not presented (FAIL).
SendA(c, r) ==
  /\ inflightAddress' = inflightAddress \cup {r.addr}
  /\ IF r.op \in PutOp /\ r.addr \in inflightAddress
     THEN UNCHANGED <<localStatus, valid, crossed>>
     ELSE /\ localStatus' = [localStatus EXCEPT ![c][r.source] =
               {[dataCheck |-> Verified(r), status |-> "S_SENDING_A", req |-> r]}]
          /\ valid' = [valid EXCEPT ![c] = TRUE]
          /\ crossed' = Crossed(r)

\* The last core's update_signal ends the cycle.
Update(c) ==
  /\ failed = {}
  /\ IF c = 0 THEN Reach(PosUpdate(0)) ELSE pos = PosUpdate(c - 1)
  /\ pos' = IF c = NCore - 1 THEN 0 ELSE PosUpdate(c)
  /\ \/ \E r \in pendingA[c] : SendA(c, r)
     \/ /\ pendingA[c] = {}
        /\ valid' = [valid EXCEPT ![c] = FALSE]
        /\ UNCHANGED <<localStatus, inflightAddress, crossed>>
  /\ idle' = [idle EXCEPT ![c] = @ \cup freeSlot[c]]
  /\ freeSlot' = [freeSlot EXCEPT ![c] = {}]
  /\ UNCHANGED <<failed, pendingA, data, dutVars>>

-----------------------------------------------------------------------------
Init ==
  /\ pos = 0 /\ failed = {}
  /\ pendingA = [c \in Core |-> {}]
  /\ valid = [c \in Core |-> FALSE]
  /\ localStatus = [c \in Core |-> [i \in SourceID |-> {}]]
  /\ idle = [c \in Core |-> SourceID]
  /\ freeSlot = [c \in Core |-> {}]
  /\ inflightAddress = {}
  /\ data = [w \in Word |-> [b \in Byte |-> Zero]]
  /\ crossed = {}
  /\ reqs = {} /\ answers = {}
  /\ word = [w \in Word |-> [b \in Byte |-> Zero]]

Next ==
  \/ \E q \in reqs : Perform(q)
  \/ \E c \in Core : FireA(c) \/ FireD(c) \/ Fuzz(c) \/ Update(c)

Spec == Init /\ [][Next]_vars

\* The clock runs (a cycle ends, and takes what the device may not stall, ~AStall);
\* the device performs what it has taken and answers what it has performed.
Fairness ==
  /\ WF_vars(\E c \in Core : Update(c) \/ FireA(c))
  /\ SF_vars(\E q \in reqs : Perform(q))
  /\ \A c \in Core : SF_vars(FireD(c))

FairSpec == Spec /\ Fairness

-----------------------------------------------------------------------------
(* Properties *)

\* Every variable holds a value of its kind.
TypeOK ==
  /\ pos \in 0 .. 4 * NCore
  /\ pendingA \in [Core -> SUBSET Req]
  /\ valid \in [Core -> BOOLEAN]
  /\ localStatus \in [Core -> [SourceID -> SUBSET Inflight]]
  /\ idle \in [Core -> SUBSET SourceID]
  /\ freeSlot \in [Core -> SUBSET SourceID]
  /\ inflightAddress \subseteq Address
  /\ data \in [Word -> [Byte -> Data]]
  /\ crossed \subseteq Word \X Byte
  /\ reqs \subseteq [core : Core, req : Req]
  /\ answers \subseteq [core : Core, req : Req, read : [Byte -> Data]]
  /\ word \in [Word -> [Byte -> Data]]

\* verifyData reports a mismatch, and no other assertion of the MMIO agents fails,
\* only where the sharing of the table explains it: a verified Get and the tester's
\* copy differ at no byte but those where operations at two addresses of the word
\* have crossed.  The device performs the requests one at a time, so every other
\* mismatch would be false.
OnlyCrossedMismatch ==
  /\ failed \subseteq {"data mismatch"}
  /\ \A a \in answers : \A e \in localStatus[a.core][a.req.source] :
       e.dataCheck /\ e.req.op = "Get" =>
         \A b \in e.req.mask :
           data[e.req.addr[1]][b] = a.read[b] \/ <<e.req.addr[1], b>> \in crossed

Owners(a) ==
  {o \in Core \X SourceID :
     \E e \in localStatus[o[1]][o[2]] : e.dataCheck /\ e.req.addr = a}

\* An address in flight has one owner, the operation whose answer will free it
\* (dataCheck, "timely first in-flight"), and an address that is not in flight
\* has none: no mark leaks and none is freed twice, whichever agents meet.
MarkHasOwner ==
  \A a \in Address :
    /\ a \in inflightAddress <=> Owners(a) # {}
    /\ \A o, p \in Owners(a) : o = p

PutsAt(w, b) ==
  {o \in Core \X SourceID :
     \E e \in localStatus[o[1]][o[2]] :
       e.req.op \in PutOp /\ e.req.addr[1] = w /\ b \in e.req.mask}

\* The tester's copy is the device's word wherever no Put is under way and no
\* operations at two addresses of the word have crossed: the order in which AccessAcks
\* arrive leaves no other byte stale, and a crossed byte is right again after the next
\* Put that is alone with it.
CopyCurrent ==
  \A w \in Word, b \in Byte :
    PutsAt(w, b) = {} /\ <<w, b>> \notin crossed => data[w][b] = word[w][b]

\* A request an agent has accepted is presented and taken in the end, unless a
\* mismatch ends the run: the first agent's always, another's unless other agents keep
\* issuing new ones.
RequestTaken ==
  \A c \in Core :
    \/ []<>(pendingA[c] = {} \/ failed # {})
    \/ c # 0 /\ []<><<\E d \in Core \ {c} : Fuzz(d)>>_vars
=============================================================================
