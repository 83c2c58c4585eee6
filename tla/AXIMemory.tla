----------------------------- MODULE AXIMemory ------------------------------
(***************************************************************************)
(* What an AXI memory promises its one master: writes take effect whole    *)
(* and in the order of their requests and are acknowledged in that order,  *)
(* a read returns the memory as it was at one moment after its request     *)
(* was made, its beats come in order, and bursts cover the bytes the AXI   *)
(* protocol says.  MemoryAgent implements it.                              *)
(***************************************************************************)
EXTENDS Integers, Sequences, FiniteSets

CONSTANTS
  Size,        \* bytes of memory
  BEATSIZE,    \* bytes of a beat, the width of the bus
  Byte,        \* values of a byte
  WriteReq,    \* requests the master makes: [id, addr, bytes, burst, len],
  ReadReq,     \* bytes a beat, len beats
  WriteBeat,   \* what a beat of a write may carry: [strb, data]
  memoryOOOR   \* config: reads are answered out of order

Lane == 0 .. BEATSIZE - 1

VARIABLES
  pmem,        \* the memory
  writes,      \* Seq of WriteReq: accepted, without effect yet
  written,     \* Seq of id: in effect, not acknowledged
  reads,       \* Seq of [id, rest]: beats not offered yet
  b, r         \* the acknowledgement, the read beat on offer: at most one

vars == <<pmem, writes, written, reads, b, r>>

\* Address of the i-th beat of a burst (AXI protocol, burst address equations).
BeatAddress(q, i) ==
  LET total   == q.bytes * q.len
      aligned == (q.addr \div q.bytes) * q.bytes
      lower   == (q.addr \div total) * total
  IN  CASE q.burst = "FIXED" -> q.addr
        [] q.burst = "INCR" -> aligned + (i - 1) * q.bytes
        [] q.burst = "WRAP" -> lower + (((aligned - lower) + (i - 1) * q.bytes) % total)

\* First byte of the bus word that holds an address.
WordOf(addr) == (addr \div BEATSIZE) * BEATSIZE

\* The memory after a burst of beats: the last beat that strobes a byte wins.
Written(m, q, beats) ==
  [x \in 0 .. Size - 1 |->
     LET lane == x % BEATSIZE
         hits == {i \in 1 .. q.len :
                    /\ WordOf(BeatAddress(q, i)) = WordOf(x)
                    /\ lane \in beats[i].strb}
     IN  IF hits = {} THEN m[x]
         ELSE beats[CHOOSE i \in hits : \A j \in hits : j <= i].data[lane]]

\* The beats of a read of the bus's width.
BeatsOf(m, q) ==
  [i \in 1 .. q.len |->
     [id |-> q.id, last |-> i = q.len,
      data |-> [l \in Lane |-> m[WordOf(BeatAddress(q, i)) + l]]]]

-----------------------------------------------------------------------------
Init ==
  /\ pmem \in [0 .. Size - 1 -> Byte]
  /\ writes = <<>> /\ written = <<>> /\ reads = <<>>
  /\ b = {} /\ r = {}

AcceptWrite ==
  /\ \E q \in WriteReq : writes' = Append(writes, q)
  /\ UNCHANGED <<pmem, written, reads, b, r>>

Commit ==
  /\ writes # <<>>
  /\ \E beats \in [1 .. Head(writes).len -> WriteBeat] :
       pmem' = Written(pmem, Head(writes), beats)
  /\ written' = Append(written, Head(writes).id)
  /\ writes' = Tail(writes)
  /\ UNCHANGED <<reads, b, r>>

TakeB ==
  /\ b # {}
  /\ b' = {}
  /\ written' = Tail(written)
  /\ UNCHANGED <<pmem, writes, reads, r>>

AcceptRead ==
  /\ \E q \in ReadReq :
       reads' = Append(reads, [id |-> q.id, rest |-> BeatsOf(pmem, q)])
  /\ UNCHANGED <<pmem, writes, written, b, r>>

\* A read of which the last beat has been taken is forgotten.
TakeR ==
  LET over == {k \in DOMAIN reads : reads[k].rest = <<>>} IN
  /\ r # {}
  /\ r' = {}
  /\ \/ over = {} /\ UNCHANGED reads
     \/ \E k \in over : reads' = SubSeq(reads, 1, k - 1) \o SubSeq(reads, k + 1, Len(reads))
  /\ UNCHANGED <<pmem, writes, written, b>>

OfferB == b' = IF b = {} /\ written # <<>> THEN {Head(written)} ELSE b

OfferR(k) ==
  /\ r = {}
  /\ reads[k].rest # <<>>
  /\ ~memoryOOOR => k = 1
  /\ r' = {Head(reads[k].rest)}
  /\ reads' = [reads EXCEPT ![k].rest = Tail(@)]

Offer ==
  /\ OfferB \/ UNCHANGED b
  /\ (\E k \in DOMAIN reads : OfferR(k)) \/ UNCHANGED <<r, reads>>
  /\ UNCHANGED <<pmem, writes, written>>

Next == AcceptWrite \/ Commit \/ TakeB \/ AcceptRead \/ TakeR \/ Offer

Spec == Init /\ [][Next]_vars
=============================================================================
