--------------------------- MODULE MCMemoryAgent ----------------------------
(***************************************************************************)
(* A memory of two bus words of two bytes.  A narrow write runs from the   *)
(* first word into the second, a wide one takes the second word; a read    *)
(* covers both words and wraps at its end, another takes the second word.  *)
(* The burst of WrapReads, for the words 2 and 0, wraps in the middle.     *)
(***************************************************************************)
EXTENDS MemoryAgent

Req(id, addr, bytes, burst, len) ==
  [id |-> id, addr |-> addr, bytes |-> bytes, burst |-> burst, len |-> len]

Writes == {Req(0, 1, 1, "INCR", 2), Req(1, 2, 2, "INCR", 1)}
Reads == {Req(0, 0, 2, "WRAP", 2), Req(1, 2, 2, "INCR", 1)}
WrapReads == {Req(0, 2, 2, "WRAP", 2)}

Beats == {[strb |-> {0, 1}, data |-> <<0, 1>>], [strb |-> {0}, data |-> <<1, 0>>],
          [strb |-> {1}, data |-> <<0, 1>>]}
LaneBeats == {[strb |-> w.strb, data |-> [l \in Lane |-> w.data[l + 1]]] : w \in Beats}

\* The master of the instance keeps to the protocol, but for the burst that wraps.
ASSUME Proper == ReadReq = WrapReads \/ ProperMaster

\* The iterated address of every burst that does not wrap before its end is the
\* address of the AXI protocol, beat by beat.
Bursts ==
  {Req(0, addr, bytes, burst, len) :
     addr \in 0 .. 15, bytes \in {1, 2}, burst \in Burst, len \in {1, 2, 4}}
WrapsEarly(q) == q.burst = "WRAP" /\ (q.addr \div q.bytes) % q.len # 0
ASSUME BurstsAsAXI ==
  \A q \in Bursts : WrapsEarly(q) \/
    Words(q) = [i \in 1 .. q.len |-> AXI!WordOf(AXI!BeatAddress(q, i))]
=============================================================================
