---------------------------- MODULE MemoryAgent -----------------------------
(***************************************************************************)
(* The AXI memory of the tester (MemoryAgent.cpp): it answers the device's *)
(* reads and writes from an array of bytes.  A cycle is handle_channel     *)
(* (fire_aw, fire_w, fire_b, fire_ar, fire_r) and update_signal, which     *)
(* sets the ready signals and offers an acknowledgement and a read beat.   *)
(* The master (external) fires a channel or leaves it, as it likes.  Times *)
(* are ages in cycles, counted up to the latency they are compared with.   *)
(***************************************************************************)
EXTENDS Integers, Sequences, FiniteSets

CONSTANTS
  Size,            \* size(): bytes of memory
  BEATSIZE,        \* BEATSIZE_MEMORY
  Byte,            \* values of a byte; 0 fills the lanes a read leaves alone
  WriteReq, ReadReq,   \* AW and AR bundles: [id, addr, bytes, burst, len]
  WriteBeat,       \* W bundles: [strb, data]
  memoryWriteDepth, memoryReadDepth,       \* config, 0 for no limit
  memoryWriteLatency, memoryReadLatency,   \* config, in cycles
  memoryOOOR,      \* config: a read beat is of any read, not of the first
  \* Assumptions on the master
  EarlyW,          \* may send data before the address
  SharedID         \* may read with an id a read in progress has

Lane == 0 .. BEATSIZE - 1
Burst == {"FIXED", "INCR", "WRAP"}
Request == [id : Nat, addr : 0 .. Size - 1, bytes : 1 .. BEATSIZE, burst : Burst,
            len : Nat \ {0}]

ASSUME SizeAssumption == BEATSIZE \in Nat \ {0} /\ Size \in Nat /\ 0 \in Byte
ASSUME RequestAssumption == WriteReq \subseteq Request /\ ReadReq \subseteq Request
ASSUME BeatAssumption == WriteBeat \subseteq [strb : SUBSET Lane, data : [Lane -> Byte]]
ASSUME DepthAssumption == {memoryWriteDepth, memoryReadDepth} \subseteq Nat
ASSUME LatencyAssumption == {memoryWriteLatency, memoryReadLatency} \subseteq Nat
ASSUME FlagAssumption == {memoryOOOR, EarlyW, SharedID} \subseteq BOOLEAN

VARIABLES
  pos, failed,     \* handler reached in this cycle; assertions that have failed
  pmem,
  activeWrites,    \* Seq of [request, data]
  finishedWrites,  \* Seq of [id, age]: age of the last W beat
  activeReads,     \* Seq of [request, data, dataPending, dataSending, age]
  pendingReadResponses,   \* Seq of id of an active read
  awReady, wReady, arReady,
  b, r             \* the bundle on channels B and R while it is valid

writeVars == <<activeWrites, finishedWrites>>
readVars == <<activeReads, pendingReadResponses>>
readyVars == <<awReady, wReady, arReady>>
vars == <<pos, failed, pmem, writeVars, readVars, readyVars, b, r>>

-----------------------------------------------------------------------------
(* Bursts *)

\* The address of the beat after the one at a.  The comparison of a WRAP burst
\* takes its bounds from the address it has just moved.
NextAddress(q, a) ==
  LET next  == a + q.bytes
      lower(x) == (x \div (q.bytes * q.len)) * (q.bytes * q.len)
  IN  CASE q.burst = "FIXED" -> a
        [] q.burst = "INCR" -> next
        [] q.burst = "WRAP" -> IF next = lower(next) + q.bytes * q.len
                               THEN lower(next) ELSE next

FirstAddress(q) ==
  IF q.burst = "FIXED" THEN q.addr ELSE (q.addr \div q.bytes) * q.bytes

\* Address and bus word, as a byte address, of each beat.
Addresses(q) ==
  LET addr[i \in 1 .. q.len] ==
        IF i = 1 THEN FirstAddress(q) ELSE NextAddress(q, addr[i - 1])
  IN  addr
Words(q) == [i \in 1 .. q.len |-> (Addresses(q)[i] \div BEATSIZE) * BEATSIZE]

\* Lanes the master may strobe in a beat (external).
Strobed(q, i) == {a % BEATSIZE : a \in Addresses(q)[i] .. Addresses(q)[i] + q.bytes - 1}

\* The memory has the bytes a burst strobes, or reads.
WriteInBounds(q, data) ==
  \A i \in 1 .. q.len : \A l \in data[i].strb : Words(q)[i] + l < Size
ReadInBounds(q) == \A i \in 1 .. q.len : Words(q)[i] + q.bytes <= Size

\* fire_w's loop: the beats are written one after another.
Commit(q, data) ==
  LET word == Words(q)
      after[i \in 0 .. q.len] ==
        IF i = 0 THEN pmem
        ELSE [x \in 0 .. Size - 1 |->
                IF x - word[i] \in data[i].strb THEN data[i].data[x - word[i]]
                ELSE after[i - 1][x]]
  IN  after[q.len]

\* fire_ar's loop: the first bytes of each word, in the first lanes.
Snapshot(q) ==
  [i \in 1 .. q.len |->
     [id |-> q.id, last |-> i = q.len,
      data |-> [l \in Lane |-> IF l < q.bytes THEN pmem[Words(q)[i] + l] ELSE 0]]]

-----------------------------------------------------------------------------
(* handle_channel *)

At(p) == failed = {} /\ pos < p /\ pos' = p
Check(cond, what) == IF cond THEN {} ELSE {what}

FireAW ==
  /\ At(1)
  /\ awReady
  /\ \E q \in WriteReq :
       activeWrites' = Append(activeWrites, [request |-> q, data |-> <<>>])
  /\ UNCHANGED <<failed, pmem, finishedWrites, readVars, readyVars, b, r>>

\* The last beat commits the whole burst.
FinishWrite(q, data) ==
  /\ failed' = Check(WriteInBounds(q, data), "memory write out of bound")
  /\ pmem' = IF WriteInBounds(q, data) THEN Commit(q, data) ELSE pmem
  /\ finishedWrites' = Append(finishedWrites, [id |-> q.id, age |-> 0])
  /\ activeWrites' = Tail(activeWrites)

FireW ==
  /\ At(2)
  /\ wReady
  /\ activeWrites = <<>> => EarlyW
  /\ \/ /\ activeWrites = <<>>
        /\ failed' = {"W before AW"}
        /\ UNCHANGED <<pmem, writeVars>>
     \/ /\ activeWrites # <<>>
        /\ \E w \in WriteBeat :
             LET q == Head(activeWrites).request
                 data == Append(Head(activeWrites).data, w)
             IN  /\ w.strb \subseteq Strobed(q, Len(data))
                 /\ IF Len(data) < q.len
                    THEN /\ activeWrites' = [activeWrites EXCEPT ![1].data = data]
                         /\ UNCHANGED <<failed, pmem, finishedWrites>>
                    ELSE FinishWrite(q, data)
  /\ UNCHANGED <<readVars, readyVars, b, r>>

FireB ==
  /\ At(3)
  /\ b # {}
  /\ failed' = Check(finishedWrites # <<>>, "B before write finish")
  /\ finishedWrites' = IF finishedWrites = <<>> THEN <<>> ELSE Tail(finishedWrites)
  /\ b' = {}
  /\ UNCHANGED <<pmem, activeWrites, readVars, readyVars, r>>

\* is_r_active
Active(id) == \E k \in DOMAIN activeReads : activeReads[k].request.id = id

FireAR ==
  /\ At(4)
  /\ arReady
  /\ \E q \in ReadReq :
       /\ Active(q.id) => SharedID
       /\ failed' = Check(~Active(q.id), "overlapped pending ARID")
            \cup Check(ReadInBounds(q), "memory read out of bound")
       /\ activeReads' = IF failed' # {} THEN activeReads
            ELSE Append(activeReads, [request |-> q, data |-> Snapshot(q),
                                      dataPending |-> 0, dataSending |-> 0, age |-> 0])
  /\ UNCHANGED <<pmem, writeVars, pendingReadResponses, readyVars, b, r>>

FireR ==
  /\ At(5)
  /\ \E beat \in r :
       LET id == Head(pendingReadResponses)
           k == CHOOSE j \in DOMAIN activeReads : activeReads[j].request.id = id
           t == activeReads[k]
           sent == [activeReads EXCEPT ![k].dataSending = @ + 1]
       IN
       /\ failed' = Check(pendingReadResponses # <<>>, "R with no pending response")
            \cup Check(Active(id) /\ t.dataSending < Len(t.data), "over-pending responses")
       /\ pendingReadResponses' = Tail(pendingReadResponses)
       /\ activeReads' = IF beat.last
            THEN SubSeq(sent, 1, k - 1) \o SubSeq(sent, k + 1, Len(sent)) ELSE sent
  /\ r' = {}
  /\ UNCHANGED <<pmem, writeVars, readyVars, b>>

-----------------------------------------------------------------------------
(* update_signal *)

\* Mutant: finished writes do not count.
WriteRoomActive ==
  memoryWriteDepth = 0 \/ Len(activeWrites) < memoryWriteDepth

\* handle_aw
WriteRoom ==
  memoryWriteDepth = 0 \/ Len(activeWrites) + Len(finishedWrites) < memoryWriteDepth

\* handle_ar: a read whose beat is on offer counts twice.
ReadRoom ==
  memoryReadDepth = 0 \/ Len(activeReads) + Len(pendingReadResponses) < memoryReadDepth

\* Mutants: the newest first; the acknowledgement is never due.
SendBNewest ==
  b' = IF finishedWrites = <<>> THEN {} ELSE {finishedWrites[Len(finishedWrites)].id}
SendBNever == b' = {}

SendB ==
  LET due == finishedWrites # <<>> /\ Head(finishedWrites).age >= memoryWriteLatency
  IN  b' = IF due THEN {Head(finishedWrites).id} ELSE {}

\* A read that has a beat to offer, after its latency.
Due(k) ==
  /\ activeReads[k].dataPending < Len(activeReads[k].data)
  /\ activeReads[k].age >= memoryReadLatency

\* Mutant: a beat is offered twice.
OffersTwice(k, reads) ==
  /\ r' = {reads[k].data[reads[k].dataPending + 1]}
  /\ pendingReadResponses' = Append(pendingReadResponses, reads[k].request.id)
  /\ activeReads' = reads

Offers(k, reads) ==
  /\ r' = {reads[k].data[reads[k].dataPending + 1]}
  /\ pendingReadResponses' = Append(pendingReadResponses, reads[k].request.id)
  /\ activeReads' = [reads EXCEPT ![k].dataPending = @ + 1]

\* Mutant: the beat on offer is replaced.
HoldsNever == FALSE

\* The beat on offer stays until it fires.
Holds == r # {}

\* send_r: out of order it draws one read and offers nothing if it is not due.
SendR(reads) ==
  \/ /\ Holds
     /\ activeReads' = reads
     /\ UNCHANGED <<r, pendingReadResponses>>
  \/ /\ ~Holds
     /\ \E k \in DOMAIN reads :
          /\ Due(k)
          /\ memoryOOOR \/ \A j \in 1 .. k - 1 : ~Due(j)
          /\ Offers(k, reads)
  \/ /\ ~Holds
     /\ IF memoryOOOR THEN reads = <<>> \/ \E k \in DOMAIN reads : ~Due(k)
        ELSE \A k \in DOMAIN reads : ~Due(k)
     /\ r' = {}
     /\ activeReads' = reads
     /\ UNCHANGED pendingReadResponses

\* The records a cycle later.
Aged(records, latency) ==
  [k \in DOMAIN records |->
     [records[k] EXCEPT !.age = IF @ < latency THEN @ + 1 ELSE @]]

\* update_signal, and the Tick of the next cycle.
Update ==
  /\ failed = {}
  /\ pos' = 0
  /\ awReady' = WriteRoom
  /\ wReady' = (awReady' \/ activeWrites # <<>>)
  /\ SendB
  /\ arReady' = ReadRoom
  /\ SendR(Aged(activeReads, memoryReadLatency))
  /\ finishedWrites' = Aged(finishedWrites, memoryWriteLatency)
  /\ UNCHANGED <<failed, pmem, activeWrites>>

-----------------------------------------------------------------------------
Init ==
  /\ pos = 0 /\ failed = {}
  /\ pmem = [x \in 0 .. Size - 1 |-> 0]
  /\ activeWrites = <<>> /\ finishedWrites = <<>>
  /\ activeReads = <<>> /\ pendingReadResponses = <<>>
  /\ awReady = FALSE /\ wReady = FALSE /\ arReady = FALSE
  /\ b = {} /\ r = {}

Next == FireAW \/ FireW \/ FireB \/ FireAR \/ FireR \/ Update

Spec == Init /\ [][Next]_vars

\* The cycle goes on; a master does not leave an answer or a beat it owes for
\* ever; a random draw picks every read in progress in the end.
Fairness ==
  /\ WF_vars(Update)
  /\ SF_vars(FireW) /\ SF_vars(FireB) /\ SF_vars(FireR)
  /\ \A id \in {q.id : q \in ReadReq} :
       SF_vars(memoryOOOR /\ Update /\ \E beat \in r' \ r : beat.id = id)

FairSpec == Spec /\ Fairness

-----------------------------------------------------------------------------
(* Properties *)

Id == {q.id : q \in WriteReq \cup ReadReq}
ReadBeat == [id : Id, last : BOOLEAN, data : [Lane -> Byte]]

\* Every variable holds a value of its kind; ages and beat counts stay in range.
TypeOK ==
  /\ pos \in 0 .. 5 /\ {awReady, wReady, arReady} \subseteq BOOLEAN
  /\ pmem \in [0 .. Size - 1 -> Byte]
  /\ \A k \in DOMAIN activeWrites :
       /\ activeWrites[k].request \in WriteReq
       /\ activeWrites[k].data \in Seq(WriteBeat)
       /\ Len(activeWrites[k].data) < activeWrites[k].request.len
  /\ \A k \in DOMAIN finishedWrites :
       finishedWrites[k] \in [id : Id, age : 0 .. memoryWriteLatency]
  /\ \A k \in DOMAIN activeReads :
       /\ activeReads[k].request \in ReadReq
       /\ activeReads[k].data \in Seq(ReadBeat)
       /\ activeReads[k].dataSending <= activeReads[k].dataPending
       /\ activeReads[k].dataPending <= activeReads[k].request.len
       /\ activeReads[k].age \in 0 .. memoryReadLatency
  /\ pendingReadResponses \in Seq(Id) /\ Len(pendingReadResponses) <= 1
  /\ b \subseteq Id /\ r \subseteq ReadBeat

\* The memory has every byte the master may write or read.
RequestsInBounds ==
  /\ \A q \in WriteReq : \A i \in 1 .. q.len : \A l \in Lane : Words(q)[i] + l < Size
  /\ \A q \in ReadReq : ReadInBounds(q)

\* A master that sends addresses before data, and reads with ids of its own.
ProperMaster == ~EarlyW /\ ~SharedID /\ RequestsInBounds

\* A master that sends addresses before data and keeps its read ids apart meets
\* no assertion of the memory: no answer is offered for a transaction that is over.
NoAssertion == failed = {}

\* No request for bytes the memory has is reported as out of bounds.
InBoundsAccepted == failed \cap {"memory write out of bound", "memory read out of bound"} = {}

\* The depths bound the transactions in progress, although a ready signal is
\* seen a cycle after it was computed and send_r adds a response in between.
DepthsKept ==
  /\ memoryWriteDepth > 0 => Len(activeWrites) + Len(finishedWrites) <= memoryWriteDepth
  /\ memoryReadDepth > 0 => Len(activeReads) <= memoryReadDepth

\* What AXIMemory sees of the queues: no beat counter, no age, no half a burst.
LeftOf(t) == SubSeq(t.data, t.dataPending + 1, Len(t.data))
AcceptedWrites == [k \in DOMAIN activeWrites |-> activeWrites[k].request]
WrittenIds == [k \in DOMAIN finishedWrites |-> finishedWrites[k].id]
ReadsLeft ==
  [k \in DOMAIN activeReads |->
     [id |-> activeReads[k].request.id, rest |-> LeftOf(activeReads[k])]]

AXI == INSTANCE AXIMemory WITH
  writes <- AcceptedWrites, written <- WrittenIds, reads <- ReadsLeft

\* The agent is a memory: writes take effect whole and in order, a read returns
\* one state of the memory at or after its request, in order unless the
\* configuration says otherwise, and bursts cover the bytes AXI says.
IsAXIMemory == AXI!Spec

\* Every write is acknowledged and every read completed: no depth, latency or
\* draw starves a transaction.
RequestsAnswered ==
  /\ []<>(activeWrites = <<>> /\ finishedWrites = <<>>) \/ []<><<FireB>>_vars
  /\ \A id \in Id : Active(id) ~> ~Active(id)
=============================================================================
