------------------------- MODULE MemoryAgentProofs -------------------------
(***************************************************************************)
(* Proofs about MemoryAgent for every size, every set of requests and      *)
(* every depth and latency: the depths hold although a ready is seen a     *)
(* cycle after it was computed, a master that keeps to the protocol meets  *)
(* no assertion, the loops over a burst compute addresses, bytes and beats *)
(* of their kinds, and the agent implements AXIMemory.  The loops are      *)
(* recursive functions: what they compute is shown by an induction over    *)
(* sets of numbers that follows from the library's well-founded orders.    *)
(***************************************************************************)
EXTENDS MemoryAgent, SequenceTheorems, FiniteSetTheorems, WellFoundedInduction, TLAPS

\* Reads in progress, their data from D.
Read(D) ==
  [request : ReadReq, data : D, dataPending : Nat, dataSending : Nat, age : Nat]
Write == [request : WriteReq, data : Seq(WriteBeat)]
Finished == [id : Nat, age : Nat]

\* The types the proofs rest on: nothing is said of the contents of the memory,
\* which the loops over a burst compute.
Shape ==
  /\ pos \in 0 .. 5
  /\ activeWrites \in Seq(Write)
  /\ finishedWrites \in Seq(Finished)
  /\ \E D : activeReads \in Seq(Read(D))
  /\ pendingReadResponses \in Seq(Nat)

-----------------------------------------------------------------------------
(* Sequences of records *)

LEMMA SeqOf ==
  ASSUME NEW S, NEW n \in Nat, NEW f \in [1 .. n -> S]
  PROVE  f \in Seq(S) /\ Len(f) = n
<1>1. f = [i \in 1 .. n |-> f[i]]
  OBVIOUS
<1>2. [i \in 1 .. n |-> f[i]] \in Seq(S)
  BY IsASeq
<1> QED BY <1>1, <1>2, LenProperties

LEMMA AgedFinished ==
  ASSUME NEW records \in Seq(Finished), NEW latency \in Nat
  PROVE  /\ Aged(records, latency) \in Seq(Finished)
         /\ Len(Aged(records, latency)) = Len(records)
         /\ \A k \in 1 .. Len(records) :
              LET s == records[k]
                  t == Aged(records, latency)[k]
              IN  t.id = s.id /\ t.age = IF s.age < latency THEN s.age + 1 ELSE s.age
<1>1. ASSUME NEW k \in 1 .. Len(records)
      PROVE  /\ Aged(records, latency)[k] \in Finished
             /\ LET s == records[k]
                    t == Aged(records, latency)[k]
                IN  t.id = s.id /\ t.age = IF s.age < latency THEN s.age + 1 ELSE s.age
  <2> DEFINE e == records[k]
  <2>1. e \in Finished /\ k \in DOMAIN records
    BY ElementOfSeq, LenProperties
  <2>2. Aged(records, latency)[k] =
          [e EXCEPT !.age = IF e.age < latency THEN e.age + 1 ELSE e.age]
    BY <2>1, Zenon DEF Aged
  <2> DEFINE age == IF e.age < latency THEN e.age + 1 ELSE e.age
  <2>3. age \in Nat
    BY <2>1 DEF Finished
  <2> HIDE DEF age, e
  <2>4. Aged(records, latency)[k] = [e EXCEPT !.age = age]
    BY <2>2 DEF age
  <2> QED BY <2>1, <2>3, <2>4 DEF Finished, e, age
<1>2. /\ DOMAIN Aged(records, latency) = 1 .. Len(records)
      /\ Aged(records, latency) = [k \in 1 .. Len(records) |-> Aged(records, latency)[k]]
  BY LenProperties, Zenon DEF Aged
<1>3. Aged(records, latency) \in [1 .. Len(records) -> Finished]
  BY <1>1, <1>2, Zenon
<1> QED BY <1>1, <1>3, SeqOf, LenProperties

LEMMA AgedReads ==
  ASSUME NEW D, NEW records \in Seq(Read(D)), NEW latency \in Nat
  PROVE  /\ Aged(records, latency) \in Seq(Read(D))
         /\ Len(Aged(records, latency)) = Len(records)
         /\ \A k \in DOMAIN records :
              LET s == records[k]
                  t == Aged(records, latency)[k]
              IN  /\ t.request = s.request /\ t.data = s.data
                  /\ t.dataPending = s.dataPending /\ t.dataSending = s.dataSending
                  /\ t.age = IF s.age < latency THEN s.age + 1 ELSE s.age
<1>1. ASSUME NEW k \in 1 .. Len(records)
      PROVE
        /\ Aged(records, latency)[k] \in Read(D)
        /\ LET s == records[k]
               t == Aged(records, latency)[k]
           IN  /\ t.request = s.request /\ t.data = s.data
               /\ t.dataPending = s.dataPending /\ t.dataSending = s.dataSending
               /\ t.age = IF s.age < latency THEN s.age + 1 ELSE s.age
  <2> DEFINE e == records[k]
  <2>1. e \in Read(D) /\ k \in DOMAIN records
    BY ElementOfSeq, LenProperties
  <2>2. Aged(records, latency)[k] =
          [e EXCEPT !.age = IF e.age < latency THEN e.age + 1 ELSE e.age]
    BY <2>1, Zenon DEF Aged
  <2> DEFINE age == IF e.age < latency THEN e.age + 1 ELSE e.age
  <2>3. age \in Nat
    BY <2>1 DEF Read
  <2> HIDE DEF age, e
  <2>4. Aged(records, latency)[k] = [e EXCEPT !.age = age]
    BY <2>2 DEF age
  <2> QED BY <2>1, <2>3, <2>4 DEF Read, e, age
<1>2. /\ DOMAIN Aged(records, latency) = 1 .. Len(records)
      /\ Aged(records, latency) = [k \in 1 .. Len(records) |-> Aged(records, latency)[k]]
  BY LenProperties, Zenon DEF Aged
<1>3. Aged(records, latency) \in [1 .. Len(records) -> Read(D)]
  BY <1>1, <1>2, Zenon
<1> QED BY <1>1, <1>3, SeqOf, LenProperties

\* What is left of a sequence when one element is taken out.
LEMMA Without ==
  ASSUME NEW S, NEW s \in Seq(S), NEW k \in 1 .. Len(s)
  PROVE  LET u == SubSeq(s, 1, k - 1) \o SubSeq(s, k + 1, Len(s)) IN
         /\ u \in Seq(S)
         /\ Len(u) = Len(s) - 1
         /\ \A i \in 1 .. Len(s) - 1 : u[i] = IF i < k THEN s[i] ELSE s[i + 1]
<1> DEFINE a == SubSeq(s, 1, k - 1)
           z == SubSeq(s, k + 1, Len(s))
<1>1. /\ a \in Seq(S) /\ Len(a) = k - 1
      /\ \A i \in 1 .. k - 1 : a[i] = s[i]
  BY SubSeqProperties
<1>2. /\ z \in Seq(S) /\ Len(z) = Len(s) - k
      /\ \A i \in 1 .. Len(s) - k : z[i] = s[k + i]
  BY SubSeqProperties
<1>3. /\ a \o z \in Seq(S) /\ Len(a \o z) = Len(s) - 1
      /\ \A i \in 1 .. Len(s) - 1 :
           (a \o z)[i] = IF i <= k - 1 THEN a[i] ELSE z[i - (k - 1)]
  <2> HIDE DEF a, z
  <2>1. Len(a) + Len(z) = Len(s) - 1
    BY <1>1, <1>2
  <2>2. /\ a \o z \in Seq(S) /\ Len(a \o z) = Len(a) + Len(z)
        /\ \A i \in 1 .. Len(a) + Len(z) :
             (a \o z)[i] = IF i <= Len(a) THEN a[i] ELSE z[i - Len(a)]
    BY <1>1, <1>2, ConcatProperties
  <2> QED BY <1>1, <2>1, <2>2
<1> HIDE DEF a, z
<1>4. ASSUME NEW i \in 1 .. Len(s) - 1
      PROVE  (a \o z)[i] = IF i < k THEN s[i] ELSE s[i + 1]
  <2>1. CASE i < k
    BY <1>1, <1>3, <2>1
  <2>2. CASE ~(i < k)
    <3>1. /\ i - (k - 1) \in 1 .. Len(s) - k /\ k + (i - (k - 1)) = i + 1
          /\ ~(i <= k - 1)
      BY <2>2, LenProperties
    <3>2. (a \o z)[i] = z[i - (k - 1)]
      BY <1>3, <3>1
    <3>3. z[i - (k - 1)] = s[k + (i - (k - 1))]
      BY <1>2, <3>1
    <3> QED BY <2>2, <3>1, <3>2, <3>3
  <2> QED BY <2>1, <2>2
<1> QED BY <1>3, <1>4 DEF a, z

-----------------------------------------------------------------------------
(* Shape, and how the queues change in length *)

LEMMA ShapeInit == Init => Shape
<1> SUFFICES ASSUME Init PROVE Shape
  OBVIOUS
<1>1. activeReads \in Seq(Read({}))
  BY EmptySeq DEF Init
<1> QED BY <1>1, EmptySeq DEF Init, Shape

LEMMA ShapeFireAW ==
  ASSUME Shape, FireAW
  PROVE  Shape' /\ Len(activeWrites') = Len(activeWrites) + 1
<1>1. PICK q \in WriteReq : activeWrites' = Append(activeWrites, [request |-> q, data |-> <<>>])
  BY DEF FireAW
<1>2. [request |-> q, data |-> <<>>] \in Write
  BY EmptySeq DEF Write
<1>3. activeWrites' \in Seq(Write) /\ Len(activeWrites') = Len(activeWrites) + 1
  BY <1>1, <1>2, AppendProperties DEF Shape
<1> QED BY <1>3 DEF FireAW, At, Shape, readVars

\* A write that goes on or ends leaves their number, finished or not, as it is.
LEMMA ShapeFireW ==
  ASSUME Shape, FireW
  PROVE  /\ Shape'
         /\ Len(activeWrites') + Len(finishedWrites') = Len(activeWrites) + Len(finishedWrites)
         /\ Len(finishedWrites') >= Len(finishedWrites)
<1>a. /\ activeWrites \in Seq(Write) /\ finishedWrites \in Seq(Finished)
      /\ Len(activeWrites) \in Nat /\ Len(finishedWrites) \in Nat
      /\ \E D : activeReads \in Seq(Read(D))
      /\ pendingReadResponses \in Seq(Nat)
  BY LenProperties DEF Shape
<1>b. pos' = 2 /\ UNCHANGED <<activeReads, pendingReadResponses>>
  BY DEF FireW, At, readVars
<1>1. CASE UNCHANGED writeVars
  BY <1>a, <1>b, <1>1 DEF Shape, writeVars
<1>2. CASE activeWrites # <<>> /\ ~UNCHANGED writeVars
  <2> DEFINE q == Head(activeWrites).request
  <2>1. PICK w \in WriteBeat :
          LET data == Append(Head(activeWrites).data, w) IN
          IF Len(data) < q.len
          THEN /\ activeWrites' = [activeWrites EXCEPT ![1].data = data]
               /\ UNCHANGED <<failed, pmem, finishedWrites>>
          ELSE FinishWrite(q, data)
    BY <1>2 DEF FireW, writeVars
  <2> DEFINE data == Append(Head(activeWrites).data, w)
  <2>2. Head(activeWrites) \in Write
    BY <1>a, <1>2, HeadTailProperties
  <2>3. Head(activeWrites).data \in Seq(WriteBeat) /\ q \in WriteReq
    BY <2>2 DEF Write
  <2>a. data \in Seq(WriteBeat)
    BY <2>3, AppendProperties
  <2>4. CASE Len(data) < q.len
    <3>1. activeWrites' = [activeWrites EXCEPT ![1] = [activeWrites[1] EXCEPT !.data = data]]
      BY <2>1, <2>4
    <3>2. 1 \in 1 .. Len(activeWrites) /\ activeWrites[1] \in Write
      BY <1>a, <1>2, EmptySeq, ElementOfSeq
    <3> HIDE DEF data
    <3>3. [activeWrites[1] EXCEPT !.data = data] \in Write
      BY <2>a, <3>2 DEF Write
    <3>4. activeWrites' \in Seq(Write) /\ Len(activeWrites') = Len(activeWrites)
      BY <1>a, <3>1, <3>2, <3>3, ExceptSeq
    <3>5. finishedWrites' = finishedWrites
      BY <2>1, <2>4 DEF data
    <3> QED BY <1>a, <1>b, <3>4, <3>5 DEF Shape
  <2>5. CASE ~(Len(data) < q.len)
    <3>1. /\ finishedWrites' = Append(finishedWrites, [id |-> q.id, age |-> 0])
          /\ activeWrites' = Tail(activeWrites)
      BY <2>1, <2>5 DEF FinishWrite
    <3>2. [id |-> q.id, age |-> 0] \in Finished
      BY <2>3, RequestAssumption DEF Write, Request, Finished
    <3>3. /\ finishedWrites' \in Seq(Finished)
          /\ Len(finishedWrites') = Len(finishedWrites) + 1
      BY <1>a, <3>1, <3>2, AppendProperties
    <3>4. activeWrites' \in Seq(Write) /\ Len(activeWrites') = Len(activeWrites) - 1
      BY <1>a, <1>2, <3>1, HeadTailProperties
    <3> QED BY <1>a, <1>b, <3>3, <3>4 DEF Shape
  <2> QED BY <2>4, <2>5
<1>3. CASE activeWrites = <<>> /\ ~UNCHANGED writeVars
  BY <1>3 DEF FireW, writeVars
<1> QED BY <1>1, <1>2, <1>3

LEMMA ShapeFireB ==
  ASSUME Shape, FireB
  PROVE  Shape' /\ Len(finishedWrites') <= Len(finishedWrites)
<1>1. finishedWrites \in Seq(Finished) /\ Len(finishedWrites) \in Nat
  BY LenProperties DEF Shape
<1>2. /\ pos' = 3
      /\ finishedWrites' = IF finishedWrites = <<>> THEN <<>> ELSE Tail(finishedWrites)
      /\ UNCHANGED <<activeWrites, activeReads, pendingReadResponses>>
  BY Zenon DEF FireB, At, readVars
<1>3. finishedWrites' \in Seq(Finished) /\ Len(finishedWrites') <= Len(finishedWrites)
  <2>1. CASE finishedWrites = <<>>
    BY <1>1, <1>2, <2>1
  <2>2. CASE finishedWrites # <<>>
    BY <1>1, <1>2, <2>2, HeadTailProperties
  <2> QED BY <2>1, <2>2
<1> QED BY <1>2, <1>3 DEF Shape

\* The read FireAR adds.
NewRead(q) ==
  [request |-> q, data |-> Snapshot(q), dataPending |-> 0, dataSending |-> 0, age |-> 0]

LEMMA ShapeFireAR ==
  ASSUME Shape, FireAR
  PROVE  /\ Shape'
         /\ \/ activeReads' = activeReads
            \/ Len(activeReads') = Len(activeReads) + 1
<1>1. PICK q \in ReadReq :
        activeReads' = IF failed' # {} THEN activeReads ELSE Append(activeReads, NewRead(q))
  BY DEF FireAR, NewRead
<1>2. PICK D : activeReads \in Seq(Read(D))
  BY DEF Shape
<1> DEFINE E == D \cup {Snapshot(q)}
<1>3. NewRead(q) \in Read(E)
  BY DEF NewRead, Read
<1>4. Read(D) \subseteq Read(E)
  BY DEF Read
<1>5. activeReads \in Seq(Read(E))
  BY <1>2, <1>4, SeqMonotonic
<1>6. /\ activeReads' \in Seq(Read(E))
      /\ \/ activeReads' = activeReads
         \/ Len(activeReads') = Len(activeReads) + 1
  BY <1>1, <1>3, <1>5, AppendProperties
<1> HIDE DEF E
<1>7. pos' = 4 /\ UNCHANGED <<activeWrites, finishedWrites, pendingReadResponses>>
  BY Zenon DEF FireAR, At, writeVars
<1> QED BY <1>6, <1>7 DEF Shape

\* The read whose beat fires.
Answered ==
  CHOOSE j \in DOMAIN activeReads : activeReads[j].request.id = Head(pendingReadResponses)
Sent == [activeReads EXCEPT ![Answered].dataSending = @ + 1]

LEMMA ShapeSent ==
  ASSUME NEW D, activeReads \in Seq(Read(D)), Answered \in 1 .. Len(activeReads)
  PROVE  /\ Sent \in Seq(Read(D)) /\ Len(Sent) = Len(activeReads)
         /\ \A k \in 1 .. Len(activeReads) : k # Answered => Sent[k] = activeReads[k]
         /\ LET s == activeReads[Answered]
                t == Sent[Answered]
            IN  /\ t.request = s.request /\ t.data = s.data
                /\ t.dataPending = s.dataPending /\ t.dataSending = s.dataSending + 1
                /\ t.age = s.age
<1> DEFINE s == activeReads[Answered]
           t == [s EXCEPT !.dataSending = s.dataSending + 1]
<1>1. s \in Read(D)
  BY ElementOfSeq
<1>2. Sent = [activeReads EXCEPT ![Answered] = t]
  BY Zenon DEF Sent
<1>3. s.dataSending + 1 \in Nat
  BY <1>1 DEF Read
<1> HIDE DEF s
<1>4. t \in Read(D) /\ t.request = s.request /\ t.data = s.data
      /\ t.dataPending = s.dataPending /\ t.dataSending = s.dataSending + 1
      /\ t.age = s.age
  BY <1>1, <1>3 DEF Read
<1> HIDE DEF t
<1>5. /\ Sent \in Seq(Read(D)) /\ Len(Sent) = Len(activeReads)
      /\ \A k \in 1 .. Len(activeReads) : Sent[k] = IF k = Answered THEN t ELSE activeReads[k]
  BY <1>2, <1>4, ExceptSeq
<1> QED BY <1>4, <1>5 DEF s


LEMMA FiresAnswered ==
  ASSUME Shape, FireR, pendingReadResponses # <<>>, Answered \in 1 .. Len(activeReads)
  PROVE  /\ Shape'
         /\ \/ activeReads' = Sent
            \/ activeReads' = SubSeq(Sent, 1, Answered - 1)
                                \o SubSeq(Sent, Answered + 1, Len(Sent))
         /\ Len(activeReads') <= Len(activeReads)
         /\ Len(pendingReadResponses') = Len(pendingReadResponses) - 1
<1>1. PICK D : activeReads \in Seq(Read(D))
  BY DEF Shape
<1>2. Sent \in Seq(Read(D)) /\ Len(Sent) = Len(activeReads) /\ Len(activeReads) \in Nat
  BY <1>1, ShapeSent, LenProperties
<1> DEFINE u == SubSeq(Sent, 1, Answered - 1) \o SubSeq(Sent, Answered + 1, Len(Sent))
<1>3. u \in Seq(Read(D)) /\ Len(u) = Len(activeReads) - 1
  BY <1>2, Without
<1>4. activeReads' = Sent \/ activeReads' = u
  BY Zenon DEF FireR, Answered, Sent
<1>5. /\ pos' = 5 /\ pendingReadResponses' = Tail(pendingReadResponses)
      /\ UNCHANGED <<activeWrites, finishedWrites>>
  BY Zenon DEF FireR, At, writeVars
<1> HIDE DEF u
<1>6. activeReads' \in Seq(Read(D)) /\ Len(activeReads') <= Len(activeReads)
  BY <1>2, <1>3, <1>4
<1>7. /\ pendingReadResponses' \in Seq(Nat)
      /\ Len(pendingReadResponses') = Len(pendingReadResponses) - 1
  BY <1>5, HeadTailProperties DEF Shape
<1>8. Shape'
  BY <1>5, <1>6, <1>7 DEF Shape
<1> QED BY <1>4, <1>6, <1>7, <1>8 DEF u

-----------------------------------------------------------------------------
(* Reads and their responses *)

\* No two reads in progress have one id.
DistinctIds(reads) ==
  \A j, k \in 1 .. Len(reads) : reads[j].request.id = reads[k].request.id => j = k

\* Every beat offered has been sent, but for the one on offer.
Offered(responses, id) == responses # <<>> /\ Head(responses) = id
BeatsCounted(reads, responses) ==
  \A k \in 1 .. Len(reads) :
    LET t == reads[k] IN
    /\ Len(t.data) \in Nat /\ t.dataPending <= Len(t.data)
    /\ t.dataPending = IF Offered(responses, t.request.id)
                       THEN t.dataSending + 1 ELSE t.dataSending

\* A response is of a read in progress.
OfActive(reads, responses) ==
  responses # <<>> => \E k \in 1 .. Len(reads) : reads[k].request.id = Head(responses)

ReadsInv ==
  /\ DistinctIds(activeReads)
  /\ BeatsCounted(activeReads, pendingReadResponses)
  /\ OfActive(activeReads, pendingReadResponses)
  /\ Len(pendingReadResponses) <= 1
  /\ r = {} <=> pendingReadResponses = <<>>

LEMMA ReadsFireAR ==
  ASSUME Shape, ReadsInv, FireAR
  PROVE  ReadsInv'
<1>1. PICK q \in ReadReq :
        /\ failed' = Check(~Active(q.id), "overlapped pending ARID")
              \cup Check(ReadInBounds(q), "memory read out of bound")
        /\ activeReads' = IF failed' # {} THEN activeReads
                          ELSE Append(activeReads, NewRead(q))
  BY Zenon DEF FireAR, NewRead
<1>2. UNCHANGED <<pendingReadResponses, r>>
  BY Zenon DEF FireAR
<1>3. CASE failed' # {}
  BY <1>1, <1>2, <1>3 DEF ReadsInv
<1>4. CASE failed' = {}
  <2>1. ~Active(q.id)
    BY <1>1, <1>4, Zenon DEF Check
  <2>2. activeReads' = Append(activeReads, NewRead(q))
    BY <1>1, <1>4
  <2>3. PICK D : activeReads \in Seq(Read(D))
    BY DEF Shape
  <2> DEFINE E == D \cup {Snapshot(q)}
             new == NewRead(q)
  <2>4. /\ new \in Read(E) /\ new.request = q /\ new.data = Snapshot(q)
        /\ new.dataPending = 0 /\ new.dataSending = 0
    BY DEF NewRead, Read
  <2>5. Len(Snapshot(q)) \in Nat
    <3>1. q.len \in Nat
      BY RequestAssumption DEF Request
    <3>2. Snapshot(q) \in [1 .. q.len -> {Snapshot(q)[i] : i \in 1 .. q.len}]
      BY DEF Snapshot
    <3> QED BY <3>1, <3>2, SeqOf
  <2>6. Read(D) \subseteq Read(E)
    BY DEF Read
  <2>7. activeReads \in Seq(Read(E))
    BY <2>3, <2>6, SeqMonotonic
  <2> HIDE DEF E, new
  <2>8. /\ Len(activeReads') = Len(activeReads) + 1 /\ Len(activeReads) \in Nat
        /\ \A k \in 1 .. Len(activeReads) : activeReads'[k] = activeReads[k]
        /\ activeReads'[Len(activeReads) + 1] = new
        /\ DOMAIN activeReads = 1 .. Len(activeReads)
    BY <2>2, <2>4, <2>7, AppendProperties, LenProperties DEF new
  <2>9. \A k \in 1 .. Len(activeReads) : activeReads[k].request.id # q.id
    BY <2>1, <2>8 DEF Active
  <2>10. DistinctIds(activeReads)'
    BY <2>4, <2>8, <2>9 DEF ReadsInv, DistinctIds
  <2>11. ~Offered(pendingReadResponses, q.id)
    BY <2>9 DEF ReadsInv, OfActive, Offered
  <2>12. BeatsCounted(activeReads, pendingReadResponses)'
    <3> SUFFICES ASSUME NEW k \in 1 .. Len(activeReads')
                 PROVE  LET t == activeReads'[k] IN
                        /\ Len(t.data) \in Nat /\ t.dataPending <= Len(t.data)
                        /\ t.dataPending = IF Offered(pendingReadResponses, t.request.id)
                                           THEN t.dataSending + 1 ELSE t.dataSending
      BY <1>2 DEF BeatsCounted, Offered
    <3>1. CASE k \in 1 .. Len(activeReads)
      BY <2>8, <3>1 DEF ReadsInv, BeatsCounted
    <3>2. CASE k = Len(activeReads) + 1
      BY <2>4, <2>5, <2>8, <2>11, <3>2
    <3> QED BY <2>8, <3>1, <3>2
  <2>13. OfActive(activeReads, pendingReadResponses)'
    BY <1>2, <2>8 DEF ReadsInv, OfActive
  <2> QED BY <1>2, <2>10, <2>12, <2>13 DEF ReadsInv
<1> QED BY <1>3, <1>4

\* The read whose beat fires is in progress.
LEMMA AnsweredActive ==
  ASSUME Shape, ReadsInv, NEW beat \in r
  PROVE  /\ pendingReadResponses # <<>>
         /\ Answered \in 1 .. Len(activeReads)
         /\ activeReads[Answered].request.id = Head(pendingReadResponses)
<1>1. pendingReadResponses # <<>>
  BY DEF ReadsInv
<1>2. DOMAIN activeReads = 1 .. Len(activeReads)
  BY LenProperties DEF Shape
<1>3. \E j \in DOMAIN activeReads : activeReads[j].request.id = Head(pendingReadResponses)
  BY <1>1, <1>2 DEF ReadsInv, OfActive
<1>4. /\ Answered \in DOMAIN activeReads
      /\ activeReads[Answered].request.id = Head(pendingReadResponses)
  BY <1>3, Zenon DEF Answered
<1> QED BY <1>1, <1>2, <1>4

LEMMA ReadsFireR ==
  ASSUME Shape, ReadsInv, FireR
  PROVE  ReadsInv' /\ Shape' /\ Len(activeReads') <= Len(activeReads)
<1>1. PICK beat \in r : TRUE
  BY Zenon DEF FireR
<1>2. /\ pendingReadResponses # <<>> /\ Answered \in 1 .. Len(activeReads)
      /\ activeReads[Answered].request.id = Head(pendingReadResponses)
  BY AnsweredActive
<1>3. /\ Shape' /\ Len(activeReads') <= Len(activeReads)
      /\ Len(pendingReadResponses') = Len(pendingReadResponses) - 1
  BY <1>2, FiresAnswered
<1>4. r' = {} /\ pendingReadResponses' = <<>>
  <2>1. r' = {}
    BY Zenon DEF FireR
  <2>2. Len(pendingReadResponses) <= 1 /\ Len(pendingReadResponses) \in Nat
    BY LenProperties DEF ReadsInv, Shape
  <2>3. pendingReadResponses' \in Seq(Nat)
    BY <1>3 DEF Shape
  <2> QED BY <1>3, <2>1, <2>2, <2>3, EmptySeq, LenProperties
<1>5. PICK D : activeReads \in Seq(Read(D))
  BY DEF Shape
<1>6. /\ Sent \in Seq(Read(D)) /\ Len(Sent) = Len(activeReads) /\ Len(Sent) \in Nat
      /\ \A k \in 1 .. Len(activeReads) : k # Answered => Sent[k] = activeReads[k]
      /\ LET s == activeReads[Answered]
             t == Sent[Answered]
         IN  /\ t.request = s.request /\ t.data = s.data
             /\ t.dataPending = s.dataPending /\ t.dataSending = s.dataSending + 1
  BY <1>2, <1>5, ShapeSent, LenProperties
\* The read that was answered has no beat on offer any more, the others had none.
<1>7. DistinctIds(Sent)
  BY <1>2, <1>6 DEF ReadsInv, DistinctIds
<1>8. BeatsCounted(Sent, <<>>)
  <2> SUFFICES ASSUME NEW k \in 1 .. Len(Sent)
               PROVE  /\ Len(Sent[k].data) \in Nat /\ Sent[k].dataPending <= Len(Sent[k].data)
                      /\ Sent[k].dataPending = Sent[k].dataSending
    BY DEF BeatsCounted, Offered
  <2>1. CASE k = Answered
    BY <1>2, <1>6, <2>1 DEF ReadsInv, BeatsCounted, Offered
  <2>2. CASE k # Answered
    <3>1. activeReads[k].request.id # Head(pendingReadResponses)
      BY <1>2, <1>6, <2>2 DEF ReadsInv, DistinctIds
    <3> QED BY <1>6, <2>2, <3>1 DEF ReadsInv, BeatsCounted, Offered
  <2> QED BY <2>1, <2>2
<1> DEFINE u == SubSeq(Sent, 1, Answered - 1) \o SubSeq(Sent, Answered + 1, Len(Sent))
<1>9. /\ Len(u) = Len(Sent) - 1
      /\ \A i \in 1 .. Len(Sent) - 1 : u[i] = IF i < Answered THEN Sent[i] ELSE Sent[i + 1]
  BY <1>2, <1>6, Without
<1>10. activeReads' = Sent \/ activeReads' = u
  BY <1>2, FiresAnswered
<1> HIDE DEF u
<1>11. DistinctIds(u) /\ BeatsCounted(u, <<>>)
  <2>1. \A i \in 1 .. Len(u) : \E j \in 1 .. Len(Sent) :
          u[i] = Sent[j] /\ j = IF i < Answered THEN i ELSE i + 1
    BY <1>2, <1>6, <1>9
  <2>2. BeatsCounted(u, <<>>)
    BY <1>8, <2>1 DEF BeatsCounted
  <2>3. ASSUME NEW i \in 1 .. Len(u), NEW j \in 1 .. Len(u), u[i].request.id = u[j].request.id
        PROVE  i = j
    <3>1. PICK m \in 1 .. Len(Sent) : u[i] = Sent[m] /\ m = IF i < Answered THEN i ELSE i + 1
      BY <2>1
    <3>2. PICK n \in 1 .. Len(Sent) : u[j] = Sent[n] /\ n = IF j < Answered THEN j ELSE j + 1
      BY <2>1
    <3>3. m = n
      BY <1>7, <2>3, <3>1, <3>2 DEF DistinctIds
    <3> QED BY <1>2, <1>6, <1>9, <3>1, <3>2, <3>3
  <2>4. DistinctIds(u)
    BY <2>3 DEF DistinctIds
  <2> QED BY <2>2, <2>4
<1>12. DistinctIds(activeReads') /\ BeatsCounted(activeReads', <<>>)
  BY <1>7, <1>8, <1>10, <1>11
<1>13. Len(<<>>) <= 1
  BY EmptySeq
<1> QED BY <1>3, <1>4, <1>12, <1>13 DEF ReadsInv, DistinctIds, BeatsCounted, OfActive, Offered

\* A cycle more on the ages changes nothing of what ReadsInv says.
LEMMA ReadsAged ==
  ASSUME NEW D, NEW reads \in Seq(Read(D)), NEW responses,
         DistinctIds(reads), BeatsCounted(reads, responses), OfActive(reads, responses)
  PROVE  LET aged == Aged(reads, memoryReadLatency) IN
         DistinctIds(aged) /\ BeatsCounted(aged, responses) /\ OfActive(aged, responses)
<1> DEFINE aged == Aged(reads, memoryReadLatency)
<1>1. /\ Len(aged) = Len(reads) /\ DOMAIN reads = 1 .. Len(reads)
      /\ \A k \in DOMAIN reads :
           /\ aged[k].request = reads[k].request /\ aged[k].data = reads[k].data
           /\ aged[k].dataPending = reads[k].dataPending
           /\ aged[k].dataSending = reads[k].dataSending
  BY AgedReads, LenProperties, LatencyAssumption
<1> HIDE DEF aged
<1>2. DistinctIds(aged)
  BY <1>1 DEF DistinctIds
<1>3. BeatsCounted(aged, responses)
  BY <1>1 DEF BeatsCounted
<1>4. OfActive(aged, responses)
  BY <1>1 DEF OfActive
<1> QED BY <1>2, <1>3, <1>4 DEF aged

LEMMA ReadsUpdate ==
  ASSUME Shape, ReadsInv, Update
  PROVE  /\ ReadsInv' /\ Shape'
         /\ Len(activeReads') = Len(activeReads)
         /\ Len(finishedWrites') = Len(finishedWrites)
<1> DEFINE reads == Aged(activeReads, memoryReadLatency)
<1>1. PICK D : activeReads \in Seq(Read(D))
  BY DEF Shape
<1>2. /\ reads \in Seq(Read(D)) /\ Len(reads) = Len(activeReads) /\ Len(reads) \in Nat
      /\ DOMAIN reads = 1 .. Len(reads) /\ DOMAIN activeReads = 1 .. Len(reads)
      /\ \A k \in 1 .. Len(reads) :
           /\ reads[k].data = activeReads[k].data
           /\ reads[k].dataPending = activeReads[k].dataPending
  BY <1>1, AgedReads, LenProperties, LatencyAssumption
<1>3. /\ DistinctIds(reads) /\ BeatsCounted(reads, pendingReadResponses)
      /\ OfActive(reads, pendingReadResponses)
  BY <1>1, ReadsAged DEF ReadsInv
<1>4. /\ pos' = 0 /\ activeWrites' = activeWrites
      /\ finishedWrites' = Aged(finishedWrites, memoryWriteLatency)
      /\ SendR(reads)
  BY Zenon DEF Update
<1>5. finishedWrites' \in Seq(Finished) /\ Len(finishedWrites') = Len(finishedWrites)
  BY <1>4, AgedFinished, LatencyAssumption DEF Shape
<1> HIDE DEF reads
<1>6. CASE activeReads' = reads /\ UNCHANGED <<r, pendingReadResponses>>
  BY <1>1, <1>2, <1>3, <1>4, <1>5, <1>6 DEF ReadsInv, Shape
<1>7. CASE activeReads' = reads /\ r = {} /\ r' = {} /\ UNCHANGED pendingReadResponses
  BY <1>1, <1>2, <1>3, <1>4, <1>5, <1>7 DEF ReadsInv, Shape
<1>8. ASSUME NEW k \in DOMAIN reads, r = {}, Due(k), Offers(k, reads)
      PROVE  ReadsInv' /\ Shape' /\ Len(activeReads') = Len(activeReads)
  <2> DEFINE s == reads[k]
             t == [s EXCEPT !.dataPending = s.dataPending + 1]
  <2>1. /\ s \in Read(D) /\ k \in 1 .. Len(reads)
        /\ s.dataPending < Len(s.data) /\ Len(s.data) \in Nat /\ s.dataPending \in Nat
    <3>1. s \in Read(D) /\ k \in 1 .. Len(reads)
      BY <1>2, <1>8, ElementOfSeq
    <3>2. s.dataPending < Len(s.data)
      BY <1>2, <1>8, <3>1 DEF Due
    <3> QED BY <1>3, <3>1, <3>2 DEF BeatsCounted, Read
  <2>2. activeReads' = [reads EXCEPT ![k] = t]
    BY <1>8, Zenon DEF Offers
  <2> HIDE DEF s
  <2>3. /\ t \in Read(D) /\ t.request = s.request /\ t.data = s.data
        /\ t.dataPending = s.dataPending + 1 /\ t.dataSending = s.dataSending
    BY <2>1 DEF Read
  <2> HIDE DEF t
  <2>4. /\ activeReads' \in Seq(Read(D)) /\ Len(activeReads') = Len(reads)
        /\ \A j \in 1 .. Len(reads) : activeReads'[j] = IF j = k THEN t ELSE reads[j]
    BY <1>2, <2>1, <2>2, <2>3, ExceptSeq
  <2>5. pendingReadResponses = <<>>
    BY <1>8 DEF ReadsInv
  <2>6. /\ pendingReadResponses' = Append(<<>>, s.request.id)
        /\ r' # {}
    BY <1>8, <2>5, Zenon DEF Offers, s
  <2>7. s.request.id \in Nat
    BY <2>1, RequestAssumption DEF Read, Request
  <2>8. /\ pendingReadResponses' \in Seq(Nat) /\ pendingReadResponses' # <<>>
        /\ Len(pendingReadResponses') = 1 /\ Head(pendingReadResponses') = s.request.id
    BY <2>6, <2>7, EmptySeq, AppendProperties, HeadTailAppend
  <2>9. DistinctIds(activeReads')
    BY <1>3, <2>3, <2>4 DEF DistinctIds, s
  <2>10. BeatsCounted(activeReads', pendingReadResponses')
    <3> SUFFICES ASSUME NEW j \in 1 .. Len(reads)
                 PROVE  LET x == activeReads'[j] IN
                        /\ Len(x.data) \in Nat /\ x.dataPending <= Len(x.data)
                        /\ x.dataPending = IF Offered(pendingReadResponses', x.request.id)
                                           THEN x.dataSending + 1 ELSE x.dataSending
      BY <2>4 DEF BeatsCounted
    <3>1. /\ Len(reads[j].data) \in Nat /\ reads[j].dataPending <= Len(reads[j].data)
          /\ reads[j].dataPending = reads[j].dataSending
      BY <1>3, <2>5 DEF BeatsCounted, Offered
    <3>2. CASE j = k
      BY <2>1, <2>3, <2>4, <2>8, <3>1, <3>2 DEF Offered, s
    <3>3. CASE j # k
      <4>1. reads[j].request.id # s.request.id
        BY <1>3, <2>1, <3>3 DEF DistinctIds, s
      <4> QED BY <2>4, <2>8, <3>1, <3>3, <4>1 DEF Offered
    <3> QED BY <3>2, <3>3
  <2>11. OfActive(activeReads', pendingReadResponses')
    BY <2>1, <2>3, <2>4, <2>8 DEF OfActive
  <2>12. ReadsInv'
    BY <2>6, <2>8, <2>9, <2>10, <2>11
       DEF ReadsInv, DistinctIds, BeatsCounted, OfActive, Offered
  <2>13. Shape'
    BY <1>4, <1>5, <2>4, <2>8 DEF Shape
  <2> QED BY <1>2, <2>4, <2>12, <2>13
<1>9. \/ activeReads' = reads /\ UNCHANGED <<r, pendingReadResponses>>
      \/ activeReads' = reads /\ r = {} /\ r' = {} /\ UNCHANGED pendingReadResponses
      \/ \E k \in DOMAIN reads : r = {} /\ Due(k) /\ Offers(k, reads)
  BY <1>4, Zenon DEF SendR, Holds
<1>10. CASE \E k \in DOMAIN reads : r = {} /\ Due(k) /\ Offers(k, reads)
  BY <1>5, <1>8, <1>10
<1> QED BY <1>2, <1>5, <1>6, <1>7, <1>9, <1>10

-----------------------------------------------------------------------------
(* The depths *)

\* A ready tells of room until its channel has had its turn in the cycle.
WriteDepthInv ==
  memoryWriteDepth > 0 =>
    LET n == Len(activeWrites) + Len(finishedWrites) IN
    n <= memoryWriteDepth /\ (awReady /\ pos < 1 => n < memoryWriteDepth)
ReadDepthInv ==
  memoryReadDepth > 0 =>
    /\ Len(activeReads) <= memoryReadDepth
    /\ arReady /\ pos < 4 => Len(activeReads) < memoryReadDepth

\* An acknowledgement is offered for a write that has ended.
AnswerInv == b # {} => finishedWrites # <<>>

MemoryInv == Shape /\ ReadsInv /\ WriteDepthInv /\ ReadDepthInv /\ AnswerInv

Lengths ==
  /\ Len(activeWrites) \in Nat /\ Len(finishedWrites) \in Nat
  /\ Len(activeReads) \in Nat /\ Len(pendingReadResponses) \in Nat
  /\ pos \in 0 .. 5
  /\ finishedWrites # <<>> <=> Len(finishedWrites) > 0

LEMMA ShapeLengths == Shape => Lengths
  BY LenProperties, EmptySeq DEF Shape, Lengths

LEMMA ShapeLengthsNext == Shape' => Lengths'
  BY LenProperties, EmptySeq DEF Shape, Lengths

LEMMA MemoryInvInit == Init => MemoryInv
<1> SUFFICES ASSUME Init PROVE MemoryInv
  OBVIOUS
<1>1. Len(<<>>) = 0
  BY EmptySeq
<1>2. Shape
  BY ShapeInit
<1>3. ReadsInv
  BY <1>1 DEF Init, ReadsInv, DistinctIds, BeatsCounted, OfActive
<1>4. ~awReady /\ ~arReady /\ b = {}
  BY Zenon DEF Init
<1>5. Len(activeWrites) = 0 /\ Len(finishedWrites) = 0 /\ Len(activeReads) = 0
  BY <1>1 DEF Init
<1>6. WriteDepthInv /\ ReadDepthInv /\ AnswerInv
  BY <1>4, <1>5, DepthAssumption DEF WriteDepthInv, ReadDepthInv, AnswerInv
<1> QED BY <1>2, <1>3, <1>6 DEF MemoryInv

LEMMA InvFireAW ==
  ASSUME MemoryInv, FireAW PROVE MemoryInv'
<1>1. Shape' /\ Len(activeWrites') = Len(activeWrites) + 1
  BY ShapeFireAW DEF MemoryInv
<1>2. /\ pos = 0 /\ pos' = 1 /\ awReady
      /\ UNCHANGED <<finishedWrites, activeReads, pendingReadResponses, r, b, arReady>>
  <2>1. pos < 1 /\ pos' = 1 /\ awReady
    BY Zenon DEF FireAW, At
  <2>2. pos \in 0 .. 5
    BY DEF MemoryInv, Shape
  <2>3. UNCHANGED <<finishedWrites, activeReads, pendingReadResponses, r, b, arReady>>
    BY Zenon DEF FireAW, readVars, readyVars
  <2> QED BY <2>1, <2>2, <2>3
<1>3. ReadsInv'
  BY <1>2 DEF MemoryInv, ReadsInv
<1>4. WriteDepthInv' /\ ReadDepthInv' /\ AnswerInv'
  BY <1>1, <1>2, DepthAssumption, ShapeLengths DEF Lengths, MemoryInv, WriteDepthInv, ReadDepthInv, AnswerInv
<1> QED BY <1>1, <1>3, <1>4 DEF MemoryInv

LEMMA InvFireW ==
  ASSUME MemoryInv, FireW PROVE MemoryInv'
<1>1. /\ Shape'
      /\ Len(activeWrites') + Len(finishedWrites') = Len(activeWrites) + Len(finishedWrites)
      /\ Len(finishedWrites') >= Len(finishedWrites)
  BY ShapeFireW DEF MemoryInv
<1>2. /\ pos < 2 /\ pos' = 2
      /\ UNCHANGED <<activeReads, pendingReadResponses, r, b, arReady>>
  BY Zenon DEF FireW, At, readVars, readyVars
<1>3. ReadsInv'
  BY <1>2 DEF MemoryInv, ReadsInv
<1>4. WriteDepthInv' /\ ReadDepthInv' /\ AnswerInv'
  BY <1>1, <1>2, DepthAssumption, ShapeLengths, ShapeLengthsNext DEF Lengths, MemoryInv, WriteDepthInv, ReadDepthInv, AnswerInv
<1> QED BY <1>1, <1>3, <1>4 DEF MemoryInv

LEMMA InvFireB ==
  ASSUME MemoryInv, FireB PROVE MemoryInv'
<1>1. Shape' /\ Len(finishedWrites') <= Len(finishedWrites)
  BY ShapeFireB DEF MemoryInv
<1>2. /\ pos < 3 /\ pos' = 3 /\ b' = {}
      /\ UNCHANGED <<activeWrites, activeReads, pendingReadResponses, r, arReady>>
  BY Zenon DEF FireB, At, readVars, readyVars
<1>3. ReadsInv'
  BY <1>2 DEF MemoryInv, ReadsInv
<1>4. WriteDepthInv' /\ ReadDepthInv' /\ AnswerInv'
  BY <1>1, <1>2, DepthAssumption, ShapeLengths, ShapeLengthsNext DEF Lengths, MemoryInv, WriteDepthInv, ReadDepthInv, AnswerInv
<1> QED BY <1>1, <1>3, <1>4 DEF MemoryInv

LEMMA InvFireAR ==
  ASSUME MemoryInv, FireAR PROVE MemoryInv'
<1>1. /\ Shape'
      /\ activeReads' = activeReads \/ Len(activeReads') = Len(activeReads) + 1
  BY ShapeFireAR DEF MemoryInv
<1>2. /\ pos < 4 /\ pos' = 4 /\ arReady
      /\ UNCHANGED <<activeWrites, finishedWrites, b>>
  BY Zenon DEF FireAR, At, writeVars
<1>3. ReadsInv'
  BY ReadsFireAR DEF MemoryInv
<1>4. WriteDepthInv' /\ ReadDepthInv' /\ AnswerInv'
  BY <1>1, <1>2, DepthAssumption, ShapeLengths, ShapeLengthsNext DEF Lengths, MemoryInv, WriteDepthInv, ReadDepthInv, AnswerInv
<1> QED BY <1>1, <1>3, <1>4 DEF MemoryInv

LEMMA InvFireR ==
  ASSUME MemoryInv, FireR PROVE MemoryInv'
<1>1. Shape' /\ ReadsInv' /\ Len(activeReads') <= Len(activeReads)
  BY ReadsFireR DEF MemoryInv
<1>2. pos < 5 /\ pos' = 5 /\ UNCHANGED <<activeWrites, finishedWrites, b>>
  BY Zenon DEF FireR, At, writeVars
<1>3. WriteDepthInv' /\ ReadDepthInv' /\ AnswerInv'
  BY <1>1, <1>2, DepthAssumption, ShapeLengths, ShapeLengthsNext DEF Lengths, MemoryInv, WriteDepthInv, ReadDepthInv, AnswerInv
<1> QED BY <1>1, <1>3 DEF MemoryInv

LEMMA InvUpdate ==
  ASSUME MemoryInv, Update PROVE MemoryInv'
<1>1. /\ Shape' /\ ReadsInv' /\ Len(activeReads') = Len(activeReads)
      /\ Len(finishedWrites') = Len(finishedWrites)
  BY ReadsUpdate DEF MemoryInv
<1>2. /\ pos' = 0 /\ activeWrites' = activeWrites
      /\ awReady' = WriteRoom /\ arReady' = ReadRoom /\ SendB
  BY Zenon DEF Update
<1>3. awReady' /\ memoryWriteDepth > 0 =>
        Len(activeWrites) + Len(finishedWrites) < memoryWriteDepth
  <2>1. awReady' => memoryWriteDepth = 0
                    \/ Len(activeWrites) + Len(finishedWrites) < memoryWriteDepth
    BY <1>2, Zenon DEF WriteRoom
  <2> QED BY <2>1, DepthAssumption, ShapeLengths DEF Lengths, MemoryInv
<1>4. arReady' /\ memoryReadDepth > 0 => Len(activeReads) < memoryReadDepth
  <2>1. arReady' => memoryReadDepth = 0
                    \/ Len(activeReads) + Len(pendingReadResponses) < memoryReadDepth
    BY <1>2, Zenon DEF ReadRoom
  <2> QED BY <2>1, DepthAssumption, ShapeLengths DEF Lengths, MemoryInv
<1>5. b' # {} => finishedWrites # <<>>
  BY <1>2, Zenon DEF SendB
<1>6. WriteDepthInv' /\ ReadDepthInv' /\ AnswerInv'
  BY <1>1, <1>2, <1>3, <1>4, <1>5, DepthAssumption, ShapeLengths,
        ShapeLengthsNext DEF Lengths, MemoryInv, WriteDepthInv, ReadDepthInv, AnswerInv
<1> QED BY <1>1, <1>6 DEF MemoryInv

LEMMA MemoryInvStep == MemoryInv /\ [Next]_vars => MemoryInv'
<1> SUFFICES ASSUME MemoryInv, [Next]_vars PROVE MemoryInv'
  OBVIOUS
<1>1. CASE Next
  BY <1>1, InvFireAW, InvFireW, InvFireB, InvFireAR, InvFireR, InvUpdate DEF Next
<1>2. CASE UNCHANGED vars
  BY <1>2 DEF vars, writeVars, readVars, readyVars, MemoryInv, Shape, ReadsInv, DistinctIds,
     BeatsCounted, OfActive, Offered, WriteDepthInv, ReadDepthInv, AnswerInv
<1> QED BY <1>1, <1>2

LEMMA MemoryInvHolds == Spec => []MemoryInv
  BY MemoryInvInit, MemoryInvStep, PTL DEF Spec

\* The configured depths bound the reads and writes in progress, whatever the
\* master does and whatever the latencies: the ready computed in update_signal
\* and seen a cycle later never lets one too many in.
THEOREM DepthsCorrect == Spec => []DepthsKept
<1>1. MemoryInv => DepthsKept
  BY DEF MemoryInv, WriteDepthInv, ReadDepthInv, DepthsKept
<1> QED BY <1>1, MemoryInvHolds, PTL

-----------------------------------------------------------------------------
(* The assertions *)

LEMMA NoAssertionFireW ==
  ASSUME Shape, NoAssertion, ProperMaster, FireW
  PROVE  NoAssertion'
<1>1. activeWrites # <<>>
  BY Zenon DEF FireW, ProperMaster
<1> DEFINE q == Head(activeWrites).request
<1>2. PICK w \in WriteBeat :
        LET data == Append(Head(activeWrites).data, w) IN
        IF Len(data) < q.len
        THEN /\ activeWrites' = [activeWrites EXCEPT ![1].data = data]
             /\ UNCHANGED <<failed, pmem, finishedWrites>>
        ELSE FinishWrite(q, data)
  BY <1>1, Zenon DEF FireW
<1> DEFINE data == Append(Head(activeWrites).data, w)
<1>3. CASE Len(data) < q.len
  BY <1>2, <1>3, Zenon DEF NoAssertion
<1>4. CASE ~(Len(data) < q.len)
  <2>1. Head(activeWrites) \in Write
    BY <1>1, HeadTailProperties DEF Shape
  <2>2. Head(activeWrites).data \in Seq(WriteBeat) /\ q \in WriteReq
    BY <2>1 DEF Write
  <2>3. data \in Seq(WriteBeat)
    BY <2>2, AppendProperties
  <2>4. q.len \in Nat
    BY <2>2, RequestAssumption DEF Request
  <2>5. failed' = Check(WriteInBounds(q, data), "memory write out of bound")
    BY <1>2, <1>4, Zenon DEF FinishWrite
  <2> HIDE DEF data, q
  <2>6. \A i \in 1 .. q.len : data[i] \in WriteBeat
    BY <1>4, <2>3, <2>4, ElementOfSeq, LenProperties
  <2>7. \A i \in 1 .. q.len : data[i].strb \subseteq Lane
    BY <2>6, BeatAssumption
  <2>8. WriteInBounds(q, data)
    BY <2>2, <2>7, Zenon DEF WriteInBounds, ProperMaster, RequestsInBounds
  <2> QED BY <2>5, <2>8, Zenon DEF Check, NoAssertion
<1> QED BY <1>3, <1>4

LEMMA NoAssertionStep ==
  ASSUME MemoryInv, NoAssertion, ProperMaster, [Next]_vars
  PROVE  NoAssertion'
<1>1. CASE FireAW \/ Update
  BY <1>1, Zenon DEF FireAW, Update, NoAssertion, At
<1>2. CASE FireW
  BY <1>2, NoAssertionFireW DEF MemoryInv
<1>3. CASE FireB
  <2>1. finishedWrites # <<>>
    BY <1>3, Zenon DEF FireB, MemoryInv, AnswerInv
  <2> QED BY <1>3, <2>1, Zenon DEF FireB, Check, NoAssertion
<1>4. CASE FireAR
  BY <1>4, Zenon DEF FireAR, Check, NoAssertion, ProperMaster, RequestsInBounds
<1>5. CASE FireR
  <2>1. PICK beat \in r :
          failed' = Check(pendingReadResponses # <<>>, "R with no pending response")
            \cup Check(/\ Active(Head(pendingReadResponses))
                       /\ activeReads[Answered].dataSending < Len(activeReads[Answered].data),
                       "over-pending responses")
    BY <1>5, Zenon DEF FireR, Answered
  <2>2. /\ pendingReadResponses # <<>> /\ Answered \in 1 .. Len(activeReads)
        /\ activeReads[Answered].request.id = Head(pendingReadResponses)
    BY AnsweredActive DEF MemoryInv
  <2>3. PICK D : activeReads \in Seq(Read(D))
    BY DEF MemoryInv, Shape
  <2>4. Answered \in DOMAIN activeReads /\ activeReads[Answered].dataSending \in Nat
    <3>1. activeReads[Answered] \in Read(D)
      BY <2>2, <2>3, ElementOfSeq
    <3>2. DOMAIN activeReads = 1 .. Len(activeReads)
      BY <2>3, LenProperties
    <3> QED BY <2>2, <3>1, <3>2 DEF Read
  <2>5. Active(Head(pendingReadResponses))
    BY <2>2, <2>4, Zenon DEF Active
  <2>6. activeReads[Answered].dataSending < Len(activeReads[Answered].data)
    BY <2>2, <2>4 DEF MemoryInv, ReadsInv, BeatsCounted, Offered
  <2> QED BY <2>1, <2>2, <2>5, <2>6, Zenon DEF Check, NoAssertion
<1>6. CASE UNCHANGED vars
  BY <1>6, Zenon DEF vars, NoAssertion
<1> QED BY <1>1, <1>2, <1>3, <1>4, <1>5, <1>6 DEF Next

\* A master that sends no data before its address, reads with ids of its own and
\* stays inside the memory meets no assertion, whatever the bursts, depths and
\* latencies: no response is offered that belongs to no transaction.
THEOREM ProperMasterMeetsNoAssertion == ProperMaster /\ Spec => []NoAssertion
<1>1. Init => NoAssertion
  BY DEF Init, NoAssertion
<1>2. MemoryInv /\ NoAssertion /\ ProperMaster /\ [Next]_vars => NoAssertion'
  BY NoAssertionStep
<1>3. CASE ProperMaster
  BY <1>1, <1>2, <1>3, MemoryInvHolds, PTL DEF Spec
<1> QED BY <1>3

-----------------------------------------------------------------------------
(* Induction and recursion over the naturals *)

\* The library's induction theorems quantify over operators; this one, about
\* sets, follows from the order of finite sets being well founded.
LEMMA LeastOf ==
  ASSUME NEW T \in SUBSET Nat, T # {}
  PROVE  \E x \in T : \A y \in T : x <= y
<1> DEFINE R == StrictSubsetOrdering(Nat)
           Tops == {0 .. n : n \in T}
<1>1. IsWellFoundedOn(R, FiniteSubsetsOf(Nat))
  BY FS_StrictSubsetOrderingWellFounded
<1>2. Tops \subseteq FiniteSubsetsOf(Nat) /\ Tops # {}
  <2>1. ASSUME NEW n \in T PROVE 0 .. n \in FiniteSubsetsOf(Nat)
    BY FS_Interval DEF FiniteSubsetsOf
  <2> QED BY <2>1
<1>3. PICK X \in Tops : \A Y \in Tops : ~(<<Y, X>> \in R)
  <2> HIDE DEF R, Tops
  <2> QED BY <1>1, <1>2, WFMin
<1>4. PICK x \in T : X = 0 .. x
  BY <1>3
<1>5. ASSUME NEW y \in T, ~(x <= y) PROVE FALSE
  <2>1. 0 .. y \in Tops /\ 0 .. y \subseteq Nat /\ 0 .. x \subseteq Nat
    OBVIOUS
  <2>2. x \in 0 .. x /\ x \notin 0 .. y /\ 0 .. y \subseteq 0 .. x
    BY <1>5
  <2>3. <<0 .. y, 0 .. x>> \in R
    BY <2>1, <2>2 DEF StrictSubsetOrdering
  <2> QED BY <1>3, <1>4, <2>1, <2>3
<1> QED BY <1>5

LEMMA SetInduction ==
  ASSUME NEW T, 0 \in T, \A n \in Nat : n \in T => n + 1 \in T
  PROVE  Nat \subseteq T
<1> SUFFICES ASSUME Nat \ T # {} PROVE FALSE
  OBVIOUS
<1>1. PICK x \in Nat \ T : \A y \in Nat \ T : x <= y
  BY LeastOf
<1>2. x # 0 /\ x - 1 \in Nat /\ (x - 1) + 1 = x
  BY <1>1
<1>3. x - 1 \in T
  BY <1>1, <1>2
<1> QED BY <1>1, <1>2, <1>3

\* A value computed in n steps.
Computes(g, a, m, step) == g[0] = a /\ \A i \in 1 .. m : g[i] = step[i][g[i - 1]]

LEMMA Recursion ==
  ASSUME NEW S, NEW a \in S, NEW n \in Nat, NEW step \in [1 .. n -> [S -> S]]
  PROVE  \E g \in [0 .. n -> S] : Computes(g, a, n, step)
<1> DEFINE Done(m) == \E g \in [0 .. m -> S] : Computes(g, a, m, step)
           T == {m \in Nat : m <= n => Done(m)}
<1>1. Done(0)
  <2>1. [i \in 0 .. 0 |-> a] \in [0 .. 0 -> S] /\ Computes([i \in 0 .. 0 |-> a], a, 0, step)
    BY DEF Computes
  <2> QED BY <2>1
<1>2. ASSUME NEW m \in Nat, m + 1 <= n, Done(m) PROVE Done(m + 1)
  <2>1. PICK g \in [0 .. m -> S] : Computes(g, a, m, step)
    BY <1>2
  <2>2. PICK v \in S : v = step[m + 1][g[m]]
    <3>1. g[m] \in S /\ step[m + 1] \in [S -> S]
      BY <1>2
    <3> QED BY <3>1
  <2> DEFINE h == [i \in 0 .. m + 1 |-> IF i = m + 1 THEN v ELSE g[i]]
  <2>3. ASSUME NEW i \in 0 .. m + 1 PROVE h[i] \in S
    OBVIOUS
  <2>4. h \in [0 .. m + 1 -> S]
    BY <2>3
  <2>5. h[m + 1] = v /\ \A i \in 0 .. m : h[i] = g[i]
    OBVIOUS
  <2> HIDE DEF h
  <2>6. h[0] = a
    BY <2>1, <2>5 DEF Computes
  <2>7. ASSUME NEW i \in 1 .. m + 1 PROVE h[i] = step[i][h[i - 1]]
    <3>1. CASE i = m + 1
      <4>1. i - 1 = m
        BY <3>1
      <4> QED BY <2>2, <2>5, <3>1, <4>1
    <3>2. CASE i # m + 1
      <4>1. i \in 1 .. m /\ i \in 0 .. m /\ i - 1 \in 0 .. m
        BY <3>2
      <4> QED BY <2>1, <2>5, <4>1 DEF Computes
    <3> QED BY <3>1, <3>2
  <2> QED BY <2>4, <2>6, <2>7 DEF Computes
<1> HIDE DEF Done
<1>3. 0 \in T
  BY <1>1
<1>4. ASSUME NEW m \in Nat, m \in T PROVE m + 1 \in T
  BY <1>2, <1>4
<1> HIDE DEF T
<1>5. Nat \subseteq T
  BY <1>3, <1>4, SetInduction
<1>6. n \in T
  BY <1>5
<1>7. Done(n)
  BY <1>6 DEF T
<1> QED BY <1>7 DEF Done

-----------------------------------------------------------------------------
(* Addresses of a burst *)

LEMMA Div ==
  ASSUME NEW x \in Nat, NEW t \in Nat \ {0}
  PROVE  /\ x \div t \in Nat /\ x % t \in 0 .. t - 1
         /\ x = t * (x \div t) + (x % t)
         /\ (x \div t) * t \in Nat /\ (x \div t) * t <= x
  OBVIOUS

LEMMA RequestType ==
  ASSUME NEW q \in Request
  PROVE  /\ q.bytes \in Nat \ {0} /\ q.bytes <= BEATSIZE /\ q.len \in Nat \ {0}
         /\ q.addr \in Nat /\ q.burst \in Burst /\ q.id \in Nat
         /\ q.bytes * q.len \in Nat \ {0}
<1>1. /\ q.bytes \in Nat \ {0} /\ q.bytes <= BEATSIZE /\ q.len \in Nat \ {0}
      /\ q.addr \in Nat /\ q.burst \in Burst /\ q.id \in Nat
  BY SizeAssumption DEF Request
<1> QED BY <1>1

LEMMA NextIsNat ==
  ASSUME NEW q \in Request, NEW x \in Nat
  PROVE  NextAddress(q, x) \in Nat
<1>1. q.bytes \in Nat \ {0} /\ q.bytes * q.len \in Nat \ {0} /\ q.burst \in Burst
  BY RequestType
<1>2. x + q.bytes \in Nat
  BY <1>1
<1> DEFINE t == q.bytes * q.len
<1>3. ((x + q.bytes) \div t) * t \in Nat
  <2> HIDE DEF t
  <2> QED BY <1>1, <1>2, Div DEF t
<1> QED BY <1>1, <1>2, <1>3 DEF NextAddress, Burst

LEMMA FirstIsNat ==
  ASSUME NEW q \in Request
  PROVE  FirstAddress(q) \in Nat
  BY RequestType, Div DEF FirstAddress

LEMMA AddressesAre ==
  ASSUME NEW q \in Request
  PROVE  /\ Addresses(q) \in [1 .. q.len -> Nat]
         /\ Addresses(q)[1] = FirstAddress(q)
         /\ \A i \in 2 .. q.len : Addresses(q)[i] = NextAddress(q, Addresses(q)[i - 1])
<1> DEFINE n == q.len
           Eq(g) == g = [i \in 1 .. n |-> IF i = 1 THEN FirstAddress(q)
                                          ELSE NextAddress(q, g[i - 1])]
<1>1. n \in Nat /\ n # 0 /\ FirstAddress(q) \in Nat
  BY RequestType, FirstIsNat
<1>2. \E g : Eq(g)
  <2> DEFINE step == [i \in 1 .. n - 1 |-> [x \in Nat |-> NextAddress(q, x)]]
  <2>1. step \in [1 .. n - 1 -> [Nat -> Nat]]
    BY NextIsNat
  <2>2. PICK g \in [0 .. n - 1 -> Nat] : Computes(g, FirstAddress(q), n - 1, step)
    <3> HIDE DEF step, n
    <3>1. n - 1 \in Nat
      BY <1>1
    <3> QED BY <1>1, <2>1, <3>1, Recursion
  <2>3. g[0] = FirstAddress(q) /\ \A i \in 1 .. n - 1 : g[i] = NextAddress(q, g[i - 1])
    <3>1. \A i \in 1 .. n - 1 : g[i - 1] \in Nat
      <4> HIDE DEF n
      <4> QED BY <1>1
    <3>2. ASSUME NEW i \in 1 .. n - 1 PROVE g[i] = NextAddress(q, g[i - 1])
      <4>1. g[i] = step[i][g[i - 1]]
        <5> HIDE DEF step, n
        <5> QED BY <2>2 DEF Computes
      <4> QED BY <3>1, <4>1
    <3> QED BY <2>2, <3>2 DEF Computes
  <2> DEFINE h == [i \in 1 .. n |-> g[i - 1]]
  <2>4. Eq(h)
    <3>1. ASSUME NEW i \in 1 .. n
          PROVE  h[i] = IF i = 1 THEN FirstAddress(q) ELSE NextAddress(q, h[i - 1])
      BY <1>1, <2>3
    <3> QED BY <3>1
  <2> QED BY <2>4
<1>3. Addresses(q) = CHOOSE g : Eq(g)
  BY DEF Addresses
<1> HIDE DEF Eq
<1>4. Eq(Addresses(q))
  BY <1>2, <1>3
<1>5. /\ Addresses(q) = [i \in 1 .. n |-> Addresses(q)[i]]
      /\ Addresses(q)[1] = FirstAddress(q)
      /\ \A i \in 2 .. n : Addresses(q)[i] = NextAddress(q, Addresses(q)[i - 1])
  BY <1>1, <1>4 DEF Eq
<1> DEFINE T == {m \in Nat : m + 1 <= n => Addresses(q)[m + 1] \in Nat}
<1>6. 0 \in T
  BY <1>1, <1>5
<1>7. ASSUME NEW m \in Nat, m \in T PROVE m + 1 \in T
  <2> SUFFICES ASSUME m + 2 <= n PROVE Addresses(q)[m + 2] \in Nat
    OBVIOUS
  <2>1. m + 2 \in 2 .. n /\ (m + 2) - 1 = m + 1 /\ m + 1 <= n
    BY <1>1
  <2>2. Addresses(q)[m + 1] \in Nat
    BY <1>7, <2>1
  <2>3. Addresses(q)[m + 2] = NextAddress(q, Addresses(q)[m + 1])
    BY <1>5, <2>1
  <2> QED BY <2>2, <2>3, NextIsNat
<1> HIDE DEF T
<1>8. Nat \subseteq T
  BY <1>6, <1>7, SetInduction
<1>9. ASSUME NEW i \in 1 .. n PROVE Addresses(q)[i] \in Nat
  <2>1. i - 1 \in T /\ (i - 1) + 1 = i
    BY <1>8
  <2> QED BY <2>1 DEF T
<1> QED BY <1>5, <1>9

LEMMA DivUnique ==
  ASSUME NEW t \in Nat \ {0}, NEW k \in Nat, NEW d \in 0 .. t - 1
  PROVE  (t * k + d) \div t = k /\ (t * k + d) % t = d
<1> DEFINE x == t * k + d
           e == x \div t
<1>1. x \in Nat
  OBVIOUS
<1>2. e \in Nat /\ x % t \in 0 .. t - 1 /\ x = t * e + (x % t)
  <2> HIDE DEF x
  <2> QED BY <1>1, Div
<1>3. PICK f \in 0 .. t - 1 : f = x % t
  BY <1>2
<1> HIDE DEF e
<1>4. t * k + d = t * e + f
  BY <1>2, <1>3
<1>5. ~(k < e)
  <2> SUFFICES ASSUME k + 1 <= e PROVE FALSE
    BY <1>2
  <2>1. t * (k + 1) <= t * e
    BY <1>2
  <2> QED BY <1>2, <1>4, <2>1
<1>6. ~(e < k)
  <2> SUFFICES ASSUME e + 1 <= k PROVE FALSE
    BY <1>2
  <2>1. t * (e + 1) <= t * k
    BY <1>2
  <2> QED BY <1>2, <1>4, <2>1
<1>7. e = k
  BY <1>2, <1>5, <1>6
<1> QED BY <1>3, <1>4, <1>7 DEF e

\* Bursts that wrap start at their lower boundary.
Straight(q) == q.burst = "WRAP" => (q.addr \div q.bytes) % q.len = 0

LEMMA WrapBase ==
  ASSUME NEW q \in Request, q.burst = "WRAP", Straight(q)
  PROVE  \E j \in Nat :
           /\ (q.addr \div q.bytes) * q.bytes = (q.bytes * q.len) * j
           /\ (q.addr \div (q.bytes * q.len)) * (q.bytes * q.len) = (q.bytes * q.len) * j
<1>1. PICK y \in Nat \ {0}, n \in Nat \ {0}, a \in Nat :
        y = q.bytes /\ n = q.len /\ a = q.addr /\ y * n \in Nat \ {0}
  BY RequestType
<1>2. PICK k \in Nat, m \in 0 .. y - 1 : k = a \div y /\ a = y * k + m
  <2>1. a \div y \in Nat /\ a % y \in 0 .. y - 1 /\ a = y * (a \div y) + (a % y)
    BY Div
  <2> QED BY <2>1
<1>3. PICK j \in Nat : j = k \div n /\ k = n * j
  <2>1. k % n = 0
    BY <1>1, <1>2 DEF Straight
  <2> QED BY <2>1, Div
<1>4. PICK t \in Nat \ {0} : t = y * n
  BY <1>1
<1>5. k * y = t * j
  <2>1. k * y = (n * j) * y
    BY <1>3
  <2>2. (n * j) * y = (y * n) * j
    OBVIOUS
  <2> QED BY <1>4, <2>1, <2>2
<1>6. a = t * j + m /\ m \in 0 .. t - 1
  <2>1. y <= y * n
    OBVIOUS
  <2> QED BY <1>2, <1>4, <1>5, <2>1
<1>7. a \div t = j
  BY <1>6, DivUnique
<1>8. (a \div t) * t = t * j
  BY <1>7
<1> QED BY <1>1, <1>2, <1>4, <1>5, <1>8

\* The addresses fire_aw and fire_ar iterate over, one from the one before, are
\* those of the AXI address equations, for every burst but one that would wrap.
THEOREM AddressesStraight ==
  ASSUME NEW q \in Request, Straight(q), NEW i \in 1 .. q.len
  PROVE  Addresses(q)[i] = AXI!BeatAddress(q, i)
<1>1. PICK y \in Nat \ {0}, n \in Nat \ {0} :
        y = q.bytes /\ n = q.len /\ y * n \in Nat \ {0}
  BY RequestType
<1>2. q.addr \in Nat /\ q.burst \in Burst
  BY RequestType
<1>3. PICK A \in [1 .. n -> Nat] :
        /\ A = Addresses(q) /\ A[1] = FirstAddress(q)
        /\ \A k \in 2 .. n : A[k] = NextAddress(q, A[k - 1])
  BY <1>1, AddressesAre
<1> DEFINE T == {k \in Nat : k + 1 <= n => A[k + 1] = AXI!BeatAddress(q, k + 1)}
<1>4. SUFFICES ASSUME NEW a \in Nat, A[1] = a,
                      \A k \in 1 .. n - 1 : A[k] = a + (k - 1) * y => A[k + 1] = a + k * y,
                      \A k \in 1 .. n : AXI!BeatAddress(q, k) = a + (k - 1) * y,
                      q.burst # "FIXED"
               PROVE  A[i] = AXI!BeatAddress(q, i)
  <2>1. CASE q.burst = "FIXED"
    <3> DEFINE U == {k \in Nat : k + 1 <= n => A[k + 1] = q.addr}
    <3>1. A[1] = q.addr /\ \A k \in 2 .. n : A[k] = A[k - 1]
      BY <1>3, <2>1 DEF FirstAddress, NextAddress
    <3>2. 0 \in U
      BY <3>1
    <3>3. ASSUME NEW k \in Nat, k \in U PROVE k + 1 \in U
      <4>1. k + 2 <= n => k + 2 \in 2 .. n /\ (k + 2) - 1 = k + 1 /\ k + 1 <= n
        OBVIOUS
      <4> QED BY <3>1, <3>3, <4>1
    <3> HIDE DEF U
    <3>a. Nat \subseteq U
      BY <3>2, <3>3, SetInduction
    <3>4. i - 1 \in U /\ (i - 1) + 1 = i /\ i <= n
      BY <1>1, <3>a
    <3>5. A[i] = q.addr
      BY <3>4 DEF U
    <3> QED BY <1>3, <2>1, <3>5 DEF AXI!BeatAddress
  <2>2. CASE q.burst = "INCR"
    <3> DEFINE a == (q.addr \div y) * y
    <3>1. a \in Nat /\ A[1] = a
      BY <1>1, <1>2, <1>3, <2>2, Div DEF FirstAddress
    <3>2. \A k \in 1 .. n : AXI!BeatAddress(q, k) = a + (k - 1) * y
      BY <1>1, <2>2 DEF AXI!BeatAddress
    <3>3. \A k \in 2 .. n : A[k] = A[k - 1] + y
      BY <1>1, <1>3, <2>2 DEF NextAddress
    <3> HIDE DEF a
    <3>4. ASSUME NEW k \in 1 .. n - 1, A[k] = a + (k - 1) * y
          PROVE  A[k + 1] = a + k * y
      <4>1. k + 1 \in 2 .. n /\ (k + 1) - 1 = k
        OBVIOUS
      <4>2. A[k + 1] = A[k] + y
        BY <3>3, <4>1
      <4>3. (k - 1) * y + y = k * y
        OBVIOUS
      <4> QED BY <3>1, <3>4, <4>2, <4>3
    <3> QED BY <1>3, <1>4, <2>2, <3>1, <3>2, <3>4
  <2>3. CASE q.burst = "WRAP"
    <3>1. PICK t \in Nat \ {0} : t = y * n
      BY <1>1
    <3>2. PICK j \in Nat : (q.addr \div y) * y = t * j /\ (q.addr \div t) * t = t * j
      BY <1>1, <2>3, <3>1, WrapBase
    <3>3. PICK a \in Nat : a = t * j
      OBVIOUS
    <3>4. A[1] = a
      BY <1>1, <1>3, <2>3, <3>2, <3>3 DEF FirstAddress
    <3>5. ASSUME NEW k \in 0 .. n - 1 PROVE k * y \in 0 .. t - 1
      <4>1. k + 1 <= n
        OBVIOUS
      <4>2. (k + 1) * y <= n * y
        BY <4>1
      <4>3. (k + 1) * y = k * y + y /\ n * y = t
        BY <3>1
      <4> QED BY <4>2, <4>3
    <3>6. ASSUME NEW k \in 1 .. n
          PROVE  AXI!BeatAddress(q, k) = a + (k - 1) * y
      <4>a. k - 1 \in 0 .. n - 1
        OBVIOUS
      <4>1. PICK p \in 0 .. t - 1 : p = (k - 1) * y
        BY <3>5, <4>a
      <4>b. t * 0 + p = p
        OBVIOUS
      <4>2. p % t = p
        <5>1. (t * 0 + p) % t = p
          BY DivUnique
        <5> QED BY <4>b, <5>1
      <4>3. (a - a) + p = p
        BY <4>1
      <4>4. AXI!BeatAddress(q, k) = a + (((a - a) + (k - 1) * y) % t)
        BY <1>1, <2>3, <3>1, <3>2, <3>3 DEF AXI!BeatAddress
      <4> QED BY <4>1, <4>2, <4>3, <4>4
    <3>7. ASSUME NEW k \in 1 .. n - 1, A[k] = a + (k - 1) * y
          PROVE  A[k + 1] = a + k * y
      <4>1. PICK p \in 0 .. t - 1 : p = k * y
        BY <3>5
      <4>2. (k - 1) * y + y = p
        BY <4>1
      <4>3. A[k] + y = a + p
        BY <3>3, <3>7, <4>2
      <4>4. k + 1 \in 2 .. n /\ (k + 1) - 1 = k
        OBVIOUS
      <4>5. A[k + 1] = NextAddress(q, A[k])
        BY <1>3, <4>4
      <4>6. ((a + p) \div t) * t = a
        <5>1. (a + p) \div t = j
          BY <3>3, <4>1, DivUnique
        <5> QED BY <3>3, <5>1
      <4>7. a + p # a + t
        BY <4>1
      <4>8. NextAddress(q, A[k]) = a + p
        BY <1>1, <2>3, <3>1, <4>3, <4>6, <4>7 DEF NextAddress
      <4> QED BY <4>1, <4>5, <4>8
    <3> QED BY <1>3, <1>4, <2>3, <3>3, <3>4, <3>6, <3>7
  <2> QED BY <1>2, <2>1, <2>2, <2>3 DEF Burst
<1> DEFINE V == {k \in Nat : k + 1 <= n => A[k + 1] = a + k * y}
<1>5. 0 \in V
  BY <1>4
<1>6. ASSUME NEW k \in Nat, k \in V PROVE k + 1 \in V
  <2> SUFFICES ASSUME k + 2 <= n PROVE A[k + 2] = a + (k + 1) * y
    OBVIOUS
  <2>1. k + 1 \in 1 .. n - 1 /\ (k + 1) - 1 = k /\ k + 1 <= n /\ (k + 1) + 1 = k + 2
    OBVIOUS
  <2>2. A[k + 1] = a + k * y
    BY <1>6, <2>1
  <2> QED BY <1>4, <2>1, <2>2
<1> HIDE DEF V
<1>a. Nat \subseteq V
  BY <1>5, <1>6, SetInduction
<1>7. i - 1 \in V /\ (i - 1) + 1 = i /\ i <= n
  BY <1>1, <1>a
<1>8. A[i] = a + (i - 1) * y
  BY <1>7 DEF V
<1> QED BY <1>1, <1>3, <1>4, <1>8

-----------------------------------------------------------------------------
(* The memory after a burst *)

Bytes == [0 .. Size - 1 -> Byte]

\* The memory m after the i-th beat.
Beat(m, q, data, i) ==
  [x \in 0 .. Size - 1 |->
     IF x - Words(q)[i] \in data[i].strb THEN data[i].data[x - Words(q)[i]] ELSE m[x]]

LEMMA WordsAre ==
  ASSUME NEW q \in Request, NEW i \in 1 .. q.len
  PROVE  /\ Words(q)[i] = AXI!WordOf(Addresses(q)[i])
         /\ Words(q)[i] \in Nat
<1>1. Words(q)[i] = (Addresses(q)[i] \div BEATSIZE) * BEATSIZE
  BY DEF Words
<1>2. Addresses(q)[i] \in Nat
  BY AddressesAre
<1>3. (Addresses(q)[i] \div BEATSIZE) * BEATSIZE \in Nat
  BY <1>2, Div, SizeAssumption
<1> QED BY <1>1, <1>3 DEF AXI!WordOf

LEMMA BeatType ==
  ASSUME NEW q, NEW i, NEW data, data[i] \in WriteBeat, NEW m \in Bytes
  PROVE  Beat(m, q, data, i) \in Bytes
<1>1. /\ data[i].strb \subseteq Lane
      /\ \A l \in Lane : data[i].data[l] \in Byte
  BY BeatAssumption
<1>2. ASSUME NEW x \in 0 .. Size - 1
      PROVE  (IF x - Words(q)[i] \in data[i].strb THEN data[i].data[x - Words(q)[i]]
              ELSE m[x]) \in Byte
  BY <1>1 DEF Bytes
<1> QED BY <1>2 DEF Beat, Bytes

\* fire_w's loop writes one beat after another.
LEMMA CommitSteps ==
  ASSUME NEW q \in Request, NEW data, \A i \in 1 .. q.len : data[i] \in WriteBeat,
         pmem \in Bytes
  PROVE  \E g \in [0 .. q.len -> Bytes] :
           /\ g[0] = pmem
           /\ \A i \in 1 .. q.len : g[i] = Beat(g[i - 1], q, data, i)
           /\ Commit(q, data) = g[q.len]
<1> DEFINE n == q.len
           Eq(g) == g = [i \in 0 .. n |-> IF i = 0 THEN pmem ELSE Beat(g[i - 1], q, data, i)]
<1>1. n \in Nat /\ n # 0
  BY RequestType
<1>2. \E g : Eq(g)
  <2> DEFINE step == [i \in 1 .. n |-> [m \in Bytes |-> Beat(m, q, data, i)]]
  <2>1. step \in [1 .. n -> [Bytes -> Bytes]]
    BY BeatType
  <2>2. PICK g \in [0 .. n -> Bytes] : Computes(g, pmem, n, step)
    <3> HIDE DEF step, n
    <3> QED BY <1>1, <2>1, Recursion
  <2>3. ASSUME NEW i \in 1 .. n PROVE g[i] = Beat(g[i - 1], q, data, i)
    <3>1. g[i - 1] \in Bytes
      <4> HIDE DEF n
      <4> QED BY <1>1
    <3>2. g[i] = step[i][g[i - 1]]
      <4> HIDE DEF step, n
      <4> QED BY <2>2 DEF Computes
    <3> QED BY <3>1, <3>2
  <2>4. g[0] = pmem
    BY <2>2 DEF Computes
  <2>5. Eq(g)
    <3> HIDE DEF n
    <3>1. g = [i \in 0 .. n |-> g[i]]
      BY <1>1
    <3>2. ASSUME NEW i \in 0 .. n
          PROVE  g[i] = IF i = 0 THEN pmem ELSE Beat(g[i - 1], q, data, i)
      BY <1>1, <2>3, <2>4
    <3> QED BY <3>1, <3>2
  <2> QED BY <2>5
<1>3. Commit(q, data) = (CHOOSE g : Eq(g))[n]
  BY DEF Commit, Beat
<1>4. PICK g : g = CHOOSE h : Eq(h)
  OBVIOUS
<1> HIDE DEF Eq
<1>5. Eq(g)
  BY <1>2, <1>4
<1>6. /\ g = [i \in 0 .. n |-> g[i]] /\ g[0] = pmem
      /\ \A i \in 1 .. n : g[i] = Beat(g[i - 1], q, data, i)
  BY <1>1, <1>5 DEF Eq
<1> DEFINE T == {m \in Nat : m <= n => g[m] \in Bytes}
<1>7. 0 \in T
  BY <1>6
<1>8. ASSUME NEW m \in Nat, m \in T PROVE m + 1 \in T
  <2> SUFFICES ASSUME m + 1 <= n PROVE g[m + 1] \in Bytes
    OBVIOUS
  <2>1. m + 1 \in 1 .. n /\ (m + 1) - 1 = m /\ g[m] \in Bytes
    BY <1>1, <1>8
  <2>2. g[m + 1] = Beat(g[m], q, data, m + 1)
    BY <1>6, <2>1
  <2> QED BY <2>1, <2>2, BeatType
<1> HIDE DEF T
<1>9. Nat \subseteq T
  BY <1>7, <1>8, SetInduction
<1>10. \A m \in 0 .. n : g[m] \in Bytes
  BY <1>1, <1>9 DEF T
<1>11. g \in [0 .. n -> Bytes]
  BY <1>6, <1>10
<1> QED BY <1>3, <1>4, <1>6, <1>11

LEMMA CommitType ==
  ASSUME NEW q \in Request, NEW data, \A i \in 1 .. q.len : data[i] \in WriteBeat,
         pmem \in Bytes
  PROVE  Commit(q, data) \in Bytes
<1>1. PICK g \in [0 .. q.len -> Bytes] : Commit(q, data) = g[q.len]
  BY CommitSteps
<1>2. q.len \in 0 .. q.len
  BY RequestType
<1> QED BY <1>1, <1>2

\* A bus word and a lane make the address of a byte.
LEMMA LaneOf ==
  ASSUME NEW x \in Nat, NEW a \in Nat
  PROVE  /\ x - AXI!WordOf(a) \in Lane <=> AXI!WordOf(a) = AXI!WordOf(x)
         /\ AXI!WordOf(a) = AXI!WordOf(x) => x - AXI!WordOf(a) = x % BEATSIZE
<1>1. PICK B \in Nat \ {0} : B = BEATSIZE
  BY SizeAssumption
<1>2. PICK k \in Nat : k = a \div B /\ AXI!WordOf(a) = B * k
  <2>1. a \div B \in Nat
    BY Div
  <2> QED BY <1>1, <2>1 DEF AXI!WordOf
<1>3. PICK j \in Nat, l \in 0 .. B - 1 :
        j = x \div B /\ l = x % B /\ x = B * j + l /\ AXI!WordOf(x) = B * j
  <2>1. x \div B \in Nat /\ x % B \in 0 .. B - 1 /\ x = B * (x \div B) + (x % B)
    BY Div
  <2> QED BY <1>1, <2>1 DEF AXI!WordOf
<1>4. ASSUME B * k = B * j PROVE x - B * k = x % B /\ x - B * k \in 0 .. B - 1
  BY <1>3, <1>4
<1>5. ASSUME x - B * k \in 0 .. B - 1 PROVE B * k = B * j
  <2>1. PICK d \in 0 .. B - 1 : x = B * k + d
    BY <1>5
  <2>2. x \div B = k
    BY <2>1, DivUnique
  <2> QED BY <1>3, <2>2
<1> QED BY <1>1, <1>2, <1>3, <1>4, <1>5 DEF Lane

LEMMA GreatestOf ==
  ASSUME NEW n \in Nat, NEW T \in SUBSET (1 .. n), T # {}
  PROVE  \E x \in T : \A y \in T : y <= x
<1> DEFINE U == {n - x : x \in T}
<1>1. U \in SUBSET Nat /\ U # {}
  <2>1. \A x \in T : n - x \in Nat
    OBVIOUS
  <2>2. PICK t \in T : TRUE
    OBVIOUS
  <2> QED BY <2>1, <2>2
<1> HIDE DEF U
<1>2. PICK u \in U : \A v \in U : u <= v
  BY <1>1, LeastOf
<1>3. PICK x \in T : u = n - x
  BY <1>2 DEF U
<1>4. \A y \in T : n - x <= n - y
  BY <1>2, <1>3 DEF U
<1> QED BY <1>4

\* What fire_w's loop over the beats leaves in a byte of the memory is what the
\* last beat that strobes it carries, and nothing else changes.
THEOREM CommitIsWritten ==
  ASSUME NEW q \in Request, Straight(q), NEW data,
         \A i \in 1 .. q.len : data[i] \in WriteBeat, pmem \in Bytes
  PROVE  Commit(q, data) = AXI!Written(pmem, q, data)
<1>1. PICK n \in Nat : n = q.len
  BY RequestType
<1>2. PICK g \in [0 .. n -> Bytes] :
        /\ g[0] = pmem
        /\ \A i \in 1 .. n : g[i] = Beat(g[i - 1], q, data, i)
        /\ Commit(q, data) = g[n]
  BY <1>1, CommitSteps
<1>3. SUFFICES ASSUME NEW x \in 0 .. Size - 1
               PROVE  g[n][x] = AXI!Written(pmem, q, data)[x]
  <2>a. n \in 0 .. n
    OBVIOUS
  <2>b. g[n] \in Bytes
    BY <2>a
  <2>1. g[n] = [x \in 0 .. Size - 1 |-> g[n][x]]
    BY <2>b DEF Bytes
  <2>2. AXI!Written(pmem, q, data)
          = [x \in 0 .. Size - 1 |-> AXI!Written(pmem, q, data)[x]]
    BY DEF AXI!Written
  <2> QED BY <1>2, <1>3, <2>1, <2>2
<1>4. x \in Nat
  BY SizeAssumption
<1> DEFINE H(k) == {i \in 1 .. k : x - Words(q)[i] \in data[i].strb}
           Says(k) == /\ H(k) = {} => g[k][x] = pmem[x]
                      /\ \A i \in H(k) : (\A j \in H(k) : j <= i)
                           => g[k][x] = data[i].data[x - Words(q)[i]]
           T == {k \in Nat : k <= n => Says(k)}
<1>5. Says(0)
  BY <1>2
<1>6. ASSUME NEW k \in Nat, k + 1 <= n, Says(k) PROVE Says(k + 1)
  <2>1. k + 1 \in 1 .. n /\ (k + 1) - 1 = k
    BY <1>6
  <2>2. g[k + 1][x] = IF x - Words(q)[k + 1] \in data[k + 1].strb
                      THEN data[k + 1].data[x - Words(q)[k + 1]] ELSE g[k][x]
    <3>1. g[k + 1] = Beat(g[k], q, data, k + 1)
      BY <1>2, <2>1
    <3>2. PICK i : i = k + 1
      OBVIOUS
    <3>3. g[i] = Beat(g[k], q, data, i)
      BY <3>1, <3>2
    <3>4. g[i][x] = IF x - Words(q)[i] \in data[i].strb
                    THEN data[i].data[x - Words(q)[i]] ELSE g[k][x]
      <4> HIDE DEF H, Says, T
      <4> QED BY <3>3, Zenon DEF Beat
    <3> QED BY <3>2, <3>4
  <2>3. CASE x - Words(q)[k + 1] \in data[k + 1].strb
    <3>1. k + 1 \in H(k + 1) /\ \A i \in H(k + 1) : i \in Nat /\ i <= k + 1
      BY <2>3
    <3> HIDE DEF H
    <3>2. ASSUME NEW i \in H(k + 1), \A j \in H(k + 1) : j <= i PROVE i = k + 1
      BY <3>1, <3>2
    <3> QED BY <2>2, <2>3, <3>1, <3>2
  <2>4. CASE x - Words(q)[k + 1] \notin data[k + 1].strb
    <3>1. H(k + 1) = H(k)
      <4>1. 1 .. k + 1 = (1 .. k) \cup {k + 1}
        OBVIOUS
      <4> QED BY <2>4, <4>1
    <3> HIDE DEF H
    <3> QED BY <1>6, <2>2, <2>4, <3>1
  <2> QED BY <2>3, <2>4
<1> HIDE DEF Says
<1>7. 0 \in T
  BY <1>5
<1>8. ASSUME NEW k \in Nat, k \in T PROVE k + 1 \in T
  BY <1>6, <1>8
<1> HIDE DEF T
<1>9. Nat \subseteq T
  BY <1>7, <1>8, SetInduction
<1>10. Says(n)
  BY <1>9 DEF T
<1> DEFINE lane == x % BEATSIZE
           hits == {i \in 1 .. q.len : /\ AXI!WordOf(AXI!BeatAddress(q, i)) = AXI!WordOf(x)
                                       /\ lane \in data[i].strb}
<1>11. ASSUME NEW i \in 1 .. n
       PROVE  /\ i \in H(n) <=> i \in hits
              /\ i \in hits => x - Words(q)[i] = lane
  <2>1. Addresses(q)[i] \in Nat /\ Addresses(q)[i] = AXI!BeatAddress(q, i)
        /\ Words(q)[i] = AXI!WordOf(Addresses(q)[i])
    BY <1>1, AddressesAre, AddressesStraight, WordsAre
  <2>2. data[i].strb \subseteq Lane
    BY <1>1, BeatAssumption
  <2>3. /\ x - Words(q)[i] \in Lane <=> AXI!WordOf(AXI!BeatAddress(q, i)) = AXI!WordOf(x)
        /\ AXI!WordOf(AXI!BeatAddress(q, i)) = AXI!WordOf(x) => x - Words(q)[i] = lane
    BY <1>4, <2>1, LaneOf
  <2>4. i \in H(n) <=> x - Words(q)[i] \in data[i].strb
    OBVIOUS
  <2>5. i \in hits <=> /\ AXI!WordOf(AXI!BeatAddress(q, i)) = AXI!WordOf(x)
                       /\ lane \in data[i].strb
    BY <1>1
  <2> HIDE DEF H, hits, lane
  <2> QED BY <2>2, <2>3, <2>4, <2>5
<1>12. H(n) = hits
  <2>1. H(n) \subseteq 1 .. n /\ hits \subseteq 1 .. n
    BY <1>1
  <2> HIDE DEF H, hits
  <2> QED BY <1>11, <2>1
<1>13. AXI!Written(pmem, q, data)[x]
         = IF hits = {} THEN pmem[x]
           ELSE data[CHOOSE i \in hits : \A j \in hits : j <= i].data[lane]
  BY DEF AXI!Written
<1>14. hits \in SUBSET (1 .. n)
  BY <1>1
<1>15. Says(n) = (/\ H(n) = {} => g[n][x] = pmem[x]
                  /\ \A i \in H(n) : (\A j \in H(n) : j <= i)
                           => g[n][x] = data[i].data[x - Words(q)[i]])
  BY DEF Says
<1> HIDE DEF H, hits, lane
<1>16. CASE hits = {}
  BY <1>10, <1>12, <1>13, <1>15, <1>16
<1>17. CASE hits # {}
  <2>1. PICK i : i = CHOOSE k \in hits : \A j \in hits : j <= k
    OBVIOUS
  <2>2. i \in hits /\ \A j \in hits : j <= i
    <3>1. \E k \in hits : \A j \in hits : j <= k
      BY <1>14, <1>17, GreatestOf
    <3> QED BY <2>1, <3>1
  <2>3. g[n][x] = data[i].data[x - Words(q)[i]]
    BY <1>10, <1>12, <1>15, <2>2
  <2>4. x - Words(q)[i] = lane
    BY <1>11, <1>14, <2>2
  <2> QED BY <1>13, <1>17, <2>1, <2>3, <2>4
<1> QED BY <1>16, <1>17

-----------------------------------------------------------------------------
(* The beats of a read *)

LEMMA SnapshotType ==
  ASSUME NEW q \in ReadReq, pmem \in Bytes, ReadInBounds(q)
  PROVE  /\ Snapshot(q) \in Seq(ReadBeat) /\ Len(Snapshot(q)) = q.len
         /\ \A i \in 1 .. q.len : Snapshot(q)[i].last <=> i = q.len
<1>1. q \in Request /\ q.len \in Nat /\ q.bytes \in Nat
  BY RequestAssumption, RequestType
<1>2. ASSUME NEW i \in 1 .. q.len
      PROVE  Snapshot(q)[i] \in ReadBeat /\ (Snapshot(q)[i].last <=> i = q.len)
  <2> DEFINE d == [l \in Lane |-> IF l < q.bytes THEN pmem[Words(q)[i] + l] ELSE 0]
  <2>1. Words(q)[i] \in Nat /\ Words(q)[i] + q.bytes <= Size
    BY <1>1, WordsAre DEF ReadInBounds
  <2>2. ASSUME NEW l \in Lane
        PROVE  (IF l < q.bytes THEN pmem[Words(q)[i] + l] ELSE 0) \in Byte
    <3>1. l \in Nat
      BY SizeAssumption DEF Lane
    <3>2. l < q.bytes => Words(q)[i] + l \in 0 .. Size - 1
      BY <1>1, <2>1, <3>1, SizeAssumption
    <3> QED BY <3>2, SizeAssumption DEF Bytes
  <2>3. d \in [Lane -> Byte]
    BY <2>2
  <2>4. Snapshot(q)[i] = [id |-> q.id, last |-> i = q.len, data |-> d]
    BY Zenon DEF Snapshot
  <2>5. q.id \in Id
    BY DEF Id
  <2> HIDE DEF d
  <2>6. PICK z : z = (i = q.len)
    OBVIOUS
  <2>7. z \in BOOLEAN
    BY <2>6, Zenon
  <2>8. Snapshot(q)[i] = [id |-> q.id, last |-> z, data |-> d]
    BY <2>4, <2>6, Zenon
  <2>9. Snapshot(q)[i] \in ReadBeat
    BY <2>3, <2>5, <2>7, <2>8 DEF ReadBeat
  <2>10. Snapshot(q)[i].last = z
    BY <2>8
  <2> QED BY <2>6, <2>9, <2>10, Zenon
<1>3. Snapshot(q) = [i \in 1 .. q.len |-> Snapshot(q)[i]]
  BY DEF Snapshot
<1>4. Snapshot(q) \in [1 .. q.len -> ReadBeat]
  BY <1>2, <1>3
<1> QED BY <1>1, <1>2, <1>4, SeqOf

\* Reads of the bus's width, of which every lane is read.
FullWidth == \A q \in ReadReq : q.bytes = BEATSIZE

LEMMA SnapshotIsBeats ==
  ASSUME NEW q \in ReadReq, Straight(q), FullWidth
  PROVE  Snapshot(q) = AXI!BeatsOf(pmem, q)
<1>1. q \in Request /\ q.bytes = BEATSIZE
  BY RequestAssumption DEF FullWidth
<1> DEFINE F(i) == [l \in Lane |-> IF l < q.bytes THEN pmem[Words(q)[i] + l] ELSE 0]
           G(i) == [l \in Lane |-> pmem[AXI!WordOf(AXI!BeatAddress(q, i)) + l]]
<1>2. ASSUME NEW i \in 1 .. q.len PROVE F(i) = G(i)
  <2>1. Words(q)[i] = AXI!WordOf(AXI!BeatAddress(q, i))
    BY <1>1, AddressesStraight, WordsAre
  <2>2. \A l \in Lane : l < q.bytes
    BY <1>1, SizeAssumption DEF Lane
  <2> QED BY <2>1, <2>2
<1>3. AXI!BeatsOf(pmem, q) = [i \in 1 .. q.len |-> [id |-> q.id, last |-> i = q.len, data |-> G(i)]]
  BY DEF AXI!BeatsOf, AXI!Lane, Lane
<1>4. Snapshot(q) = [i \in 1 .. q.len |-> [id |-> q.id, last |-> i = q.len, data |-> F(i)]]
  BY Zenon DEF Snapshot
<1> HIDE DEF F, G
<1> DEFINE A(i) == [id |-> q.id, last |-> i = q.len, data |-> F(i)]
           B(i) == [id |-> q.id, last |-> i = q.len, data |-> G(i)]
<1>5. \A i \in 1 .. q.len : A(i) = B(i)
  BY <1>2
<1>6. /\ AXI!BeatsOf(pmem, q) = [i \in 1 .. q.len |-> B(i)]
      /\ Snapshot(q) = [i \in 1 .. q.len |-> A(i)]
  BY <1>3, <1>4, Zenon
<1> HIDE DEF A, B
<1> QED BY <1>5, <1>6

-----------------------------------------------------------------------------
(* The contents of the queues *)

WritesSound ==
  \A k \in 1 .. Len(activeWrites) :
    Len(activeWrites[k].data) < activeWrites[k].request.len
FinishedSound ==
  \A k \in 1 .. Len(finishedWrites) :
    finishedWrites[k].id \in Id /\ finishedWrites[k].age <= memoryWriteLatency

\* A read in progress has a beat to send, and only its last is marked so.
ReadSound(t) ==
  /\ t.data \in Seq(ReadBeat) /\ Len(t.data) = t.request.len
  /\ \A i \in 1 .. Len(t.data) : t.data[i].last <=> i = Len(t.data)
  /\ t.dataSending < Len(t.data)
  /\ t.age <= memoryReadLatency
ReadsSound(reads) == \A k \in 1 .. Len(reads) : ReadSound(reads[k])

\* A read is not older than those before it.
AgesOrdered(reads) ==
  \A j, k \in 1 .. Len(reads) : j < k => reads[k].age <= reads[j].age

\* The acknowledgement on offer is due to the first write that has ended, the
\* beat on offer is the last one drawn of the read that is answered.
OnOffer ==
  /\ b # {} => /\ finishedWrites # <<>>
               /\ b = {finishedWrites[1].id}
               /\ finishedWrites[1].age >= memoryWriteLatency
  /\ r # {} => \E k \in 1 .. Len(activeReads) :
       /\ Offered(pendingReadResponses, activeReads[k].request.id)
       /\ activeReads[k].dataPending >= 1
       /\ r = {activeReads[k].data[activeReads[k].dataPending]}

ContentInv ==
  /\ pmem \in Bytes /\ {awReady, wReady, arReady} \subseteq BOOLEAN
  /\ pendingReadResponses \in Seq(Id)
  /\ WritesSound /\ FinishedSound
  /\ ReadsSound(activeReads) /\ AgesOrdered(activeReads)
  /\ OnOffer

LEMMA ContentInit == Init => ContentInv
<1> SUFFICES ASSUME Init PROVE ContentInv
  OBVIOUS
<1>1. Len(<<>>) = 0
  BY EmptySeq
<1>2. pmem \in Bytes
  BY SizeAssumption DEF Init, Bytes
<1>3. {awReady, wReady, arReady} \subseteq BOOLEAN /\ b = {} /\ r = {}
  BY DEF Init
<1>4. WritesSound /\ FinishedSound /\ ReadsSound(activeReads) /\ AgesOrdered(activeReads)
  BY <1>1 DEF Init, WritesSound, FinishedSound, ReadsSound, AgesOrdered
<1>5. pendingReadResponses \in Seq(Id)
  BY EmptySeq DEF Init
<1> QED BY <1>2, <1>3, <1>4, <1>5 DEF ContentInv, OnOffer

LEMMA ContentFireAW ==
  ASSUME Shape, ContentInv, FireAW
  PROVE  ContentInv'
<1>1. PICK q \in WriteReq : activeWrites' = Append(activeWrites, [request |-> q, data |-> <<>>])
  BY DEF FireAW
<1>2. /\ UNCHANGED <<pmem, finishedWrites, activeReads, pendingReadResponses, awReady,
                     wReady, arReady, b, r>>
  BY Zenon DEF FireAW, readVars, readyVars
<1>a. [request |-> q, data |-> <<>>] \in Write
  BY EmptySeq DEF Write
<1>3. PICK e \in Write : e = [request |-> q, data |-> <<>>] /\ e.request = q /\ e.data = <<>>
  BY <1>a
<1>4. activeWrites \in Seq(Write) /\ activeWrites' = Append(activeWrites, e)
  BY <1>1, <1>3 DEF Shape
<1>5. /\ Len(activeWrites') = Len(activeWrites) + 1 /\ Len(activeWrites) \in Nat
      /\ \A k \in 1 .. Len(activeWrites) : activeWrites'[k] = activeWrites[k]
      /\ activeWrites'[Len(activeWrites) + 1] = e
  BY <1>4, AppendProperties, LenProperties
<1>6. Len(e.data) < e.request.len
  <2>1. q.len \in Nat \ {0}
    BY RequestAssumption, RequestType
  <2> QED BY <1>3, <2>1, EmptySeq
<1>7. WritesSound'
  BY <1>5, <1>6 DEF ContentInv, WritesSound
<1> QED BY <1>2, <1>7 DEF ContentInv, FinishedSound, OnOffer

LEMMA ContentFireW ==
  ASSUME Shape, ContentInv, FireW
  PROVE  ContentInv'
<1>1. UNCHANGED <<activeReads, pendingReadResponses, awReady, wReady, arReady, b, r>>
  BY Zenon DEF FireW, readVars, readyVars
<1>2. CASE UNCHANGED <<pmem, activeWrites, finishedWrites>>
  BY <1>1, <1>2 DEF ContentInv, WritesSound, FinishedSound, OnOffer
<1>3. CASE activeWrites = <<>>
  <2>1. UNCHANGED <<pmem, activeWrites, finishedWrites>>
    BY <1>3, Zenon DEF FireW, writeVars
  <2> QED BY <1>2, <2>1
<1>4. CASE activeWrites # <<>>
  <2>b. PICK w \in WriteBeat :
          IF Len(Append(Head(activeWrites).data, w)) < Head(activeWrites).request.len
          THEN /\ activeWrites' = [activeWrites EXCEPT
                                     ![1].data = Append(Head(activeWrites).data, w)]
               /\ UNCHANGED <<failed, pmem, finishedWrites>>
          ELSE FinishWrite(Head(activeWrites).request, Append(Head(activeWrites).data, w))
    BY <1>4, Zenon DEF FireW
  <2>c. PICK h : h = Head(activeWrites)
    OBVIOUS
  <2>d. PICK q : q = h.request
    OBVIOUS
  <2>1. /\ h = Head(activeWrites) /\ q = h.request
        /\ IF Len(Append(h.data, w)) < q.len
           THEN /\ activeWrites' = [activeWrites EXCEPT ![1].data = Append(h.data, w)]
                /\ UNCHANGED <<failed, pmem, finishedWrites>>
           ELSE FinishWrite(q, Append(h.data, w))
    BY <2>b, <2>c, <2>d, Zenon
  <2>2. /\ activeWrites \in Seq(Write) /\ finishedWrites \in Seq(Finished)
        /\ Len(activeWrites) \in Nat /\ Len(finishedWrites) \in Nat
    BY LenProperties DEF Shape
  <2>3. h \in Write /\ 1 \in 1 .. Len(activeWrites) /\ h = activeWrites[1]
    BY <1>4, <2>1, <2>2, EmptySeq, HeadTailProperties
  <2>4. h.data \in Seq(WriteBeat) /\ q \in WriteReq
    BY <2>1, <2>3 DEF Write
  <2>5. PICK data \in Seq(WriteBeat) : data = Append(h.data, w)
    BY <2>4, AppendProperties
  <2>6. CASE Len(data) < q.len
    <3>1. PICK e : e = [h EXCEPT !.data = data]
      OBVIOUS
    <3>2. e \in Write /\ e.request = q /\ e.data = data
      BY <2>1, <2>3, <3>1 DEF Write
    <3>3. activeWrites' = [activeWrites EXCEPT ![1] = e] /\ UNCHANGED <<pmem, finishedWrites>>
      BY <2>1, <2>3, <2>5, <2>6, <3>1
    <3>4. /\ Len(activeWrites') = Len(activeWrites)
          /\ \A k \in 1 .. Len(activeWrites) :
               activeWrites'[k] = IF k = 1 THEN e ELSE activeWrites[k]
      BY <2>2, <2>3, <3>2, <3>3, ExceptSeq
    <3>5. WritesSound'
      BY <2>6, <3>2, <3>4 DEF ContentInv, WritesSound
    <3> QED BY <1>1, <3>3, <3>5 DEF ContentInv, FinishedSound, OnOffer
  <2>7. CASE ~(Len(data) < q.len)
    <3>1. PICK e : e = [id |-> q.id, age |-> 0]
      OBVIOUS
    <3>2. /\ pmem' = IF WriteInBounds(q, data) THEN Commit(q, data) ELSE pmem
          /\ finishedWrites' = Append(finishedWrites, e)
          /\ activeWrites' = Tail(activeWrites)
      BY <2>1, <2>5, <2>7, <3>1 DEF FinishWrite
    <3>3. e \in Finished /\ e.id \in Id /\ e.age <= memoryWriteLatency
      <4>1. q.id \in Nat /\ q.id \in Id
        BY <2>4, RequestAssumption, RequestType DEF Id
      <4>2. e.id = q.id /\ e.age = 0
        BY <3>1
      <4>3. memoryWriteLatency \in Nat
        BY LatencyAssumption
      <4> QED BY <3>1, <4>1, <4>2, <4>3 DEF Finished
    <3>4. /\ Len(finishedWrites') = Len(finishedWrites) + 1
          /\ \A k \in 1 .. Len(finishedWrites) : finishedWrites'[k] = finishedWrites[k]
          /\ finishedWrites'[Len(finishedWrites) + 1] = e
      BY <2>2, <3>2, <3>3, AppendProperties
    <3>5. FinishedSound'
      BY <2>2, <3>3, <3>4 DEF ContentInv, FinishedSound
    <3>6. /\ Len(activeWrites') = Len(activeWrites) - 1
          /\ \A k \in 1 .. Len(activeWrites) - 1 : activeWrites'[k] = activeWrites[k + 1]
      BY <1>4, <2>2, <3>2, HeadTailProperties
    <3>7. WritesSound'
      <4>1. ASSUME NEW k \in 1 .. Len(activeWrites) - 1
            PROVE  Len(activeWrites'[k].data) < activeWrites'[k].request.len
        <5>1. k + 1 \in 1 .. Len(activeWrites)
          BY <2>2
        <5> QED BY <3>6, <5>1 DEF ContentInv, WritesSound
      <4> QED BY <3>6, <4>1 DEF WritesSound
    <3>8. pmem' \in Bytes
      <4>1. q \in Request /\ q.len \in Nat
        BY <2>4, RequestAssumption, RequestType
      <4>2. \A i \in 1 .. q.len : data[i] \in WriteBeat
        BY <2>7, <4>1, ElementOfSeq, LenProperties
      <4>3. pmem \in Bytes
        BY DEF ContentInv
      <4>4. Commit(q, data) \in Bytes
        BY <4>1, <4>2, <4>3, CommitType
      <4> QED BY <3>2, <4>3, <4>4
    <3>9. OnOffer'
      <4>1. b # {} => 1 \in 1 .. Len(finishedWrites)
        BY <2>2, EmptySeq DEF ContentInv, OnOffer
      <4>2. finishedWrites' # <<>>
        BY <2>2, <3>4, EmptySeq
      <4> QED BY <1>1, <3>4, <4>1, <4>2 DEF ContentInv, OnOffer
    <3> QED BY <1>1, <3>5, <3>7, <3>8, <3>9 DEF ContentInv
  <2> QED BY <2>6, <2>7
<1> QED BY <1>3, <1>4

LEMMA ContentFireB ==
  ASSUME Shape, ContentInv, FireB
  PROVE  ContentInv'
<1>1. /\ finishedWrites' = IF finishedWrites = <<>> THEN <<>> ELSE Tail(finishedWrites)
      /\ b' = {}
      /\ UNCHANGED <<pmem, activeWrites, activeReads, pendingReadResponses, awReady, wReady,
                     arReady, r>>
  BY Zenon DEF FireB, readVars, readyVars
<1>2. FinishedSound'
  <2>1. CASE finishedWrites = <<>>
    BY <1>1, <2>1, EmptySeq DEF FinishedSound
  <2>2. CASE finishedWrites # <<>>
    <3>1. /\ Len(finishedWrites') = Len(finishedWrites) - 1 /\ Len(finishedWrites) \in Nat
          /\ \A k \in 1 .. Len(finishedWrites) - 1 : finishedWrites'[k] = finishedWrites[k + 1]
      BY <1>1, <2>2, HeadTailProperties, LenProperties DEF Shape
    <3>2. ASSUME NEW k \in 1 .. Len(finishedWrites) - 1
          PROVE  /\ finishedWrites'[k].id \in Id
                 /\ finishedWrites'[k].age <= memoryWriteLatency
      <4>1. k + 1 \in 1 .. Len(finishedWrites)
        BY <3>1
      <4> QED BY <3>1, <4>1 DEF ContentInv, FinishedSound
    <3> QED BY <3>1, <3>2 DEF FinishedSound
  <2> QED BY <2>1, <2>2
<1>3. OnOffer'
  BY <1>1 DEF ContentInv, OnOffer
<1> QED BY <1>1, <1>2, <1>3 DEF ContentInv, WritesSound

LEMMA ContentFireAR ==
  ASSUME Shape, ContentInv, FireAR
  PROVE  ContentInv'
<1>1. PICK q \in ReadReq :
        /\ failed' = Check(~Active(q.id), "overlapped pending ARID")
              \cup Check(ReadInBounds(q), "memory read out of bound")
        /\ activeReads' = IF failed' # {} THEN activeReads
                          ELSE Append(activeReads, NewRead(q))
  BY Zenon DEF FireAR, NewRead
<1>2. UNCHANGED <<pmem, activeWrites, finishedWrites, pendingReadResponses, awReady,
                  wReady, arReady, b, r>>
  BY Zenon DEF FireAR, writeVars, readyVars
<1>3. CASE failed' # {}
  BY <1>1, <1>2, <1>3 DEF ContentInv, WritesSound, FinishedSound, OnOffer
<1>4. CASE failed' = {}
  <2>1. ReadInBounds(q)
    BY <1>1, <1>4, Zenon DEF Check
  <2>2. PICK D : activeReads \in Seq(Read(D))
    BY DEF Shape
  <2>3. PICK E : E = D \cup {Snapshot(q)}
    OBVIOUS
  <2>4. PICK new : new = NewRead(q)
    OBVIOUS
  <2>5. /\ new \in Read(E) /\ new.request = q /\ new.data = Snapshot(q)
        /\ new.dataPending = 0 /\ new.dataSending = 0 /\ new.age = 0
    BY <2>3, <2>4 DEF NewRead, Read
  <2>6. activeReads \in Seq(Read(E))
    <3>1. Read(D) \subseteq Read(E)
      BY <2>3 DEF Read
    <3> QED BY <2>2, <3>1, SeqMonotonic
  <2>7. /\ Len(activeReads') = Len(activeReads) + 1 /\ Len(activeReads) \in Nat
        /\ \A k \in 1 .. Len(activeReads) : /\ activeReads'[k] = activeReads[k]
                                            /\ activeReads[k].age \in Nat
        /\ activeReads'[Len(activeReads) + 1] = new
    <3>1. activeReads' = Append(activeReads, new)
      BY <1>1, <1>4, <2>4
    <3>2. \A k \in 1 .. Len(activeReads) : activeReads[k] \in Read(E)
      BY <2>6, ElementOfSeq
    <3> QED BY <2>5, <2>6, <3>1, <3>2, AppendProperties, LenProperties DEF Read
  <2>8. ReadSound(new)
    <3>1. q.len \in Nat \ {0}
      BY RequestAssumption, RequestType
    <3>2. memoryReadLatency \in Nat
      BY LatencyAssumption
    <3>3. /\ Snapshot(q) \in Seq(ReadBeat) /\ Len(Snapshot(q)) = q.len
          /\ \A i \in 1 .. q.len : Snapshot(q)[i].last <=> i = q.len
      BY <2>1, SnapshotType DEF ContentInv
    <3> QED BY <2>5, <3>1, <3>2, <3>3 DEF ReadSound
  <2>9. ReadsSound(activeReads')
    <3>1. ASSUME NEW k \in 1 .. Len(activeReads) PROVE ReadSound(activeReads'[k])
      BY <2>7 DEF ContentInv, ReadsSound
    <3> QED BY <2>7, <2>8, <3>1 DEF ReadsSound
  <2>10. AgesOrdered(activeReads')
    <3>1. ASSUME NEW j \in 1 .. Len(activeReads) + 1, NEW k \in 1 .. Len(activeReads) + 1, j < k
          PROVE  activeReads'[k].age <= activeReads'[j].age
      <4>1. j \in 1 .. Len(activeReads)
        BY <2>7, <3>1
      <4>2. CASE k \in 1 .. Len(activeReads)
        BY <2>7, <3>1, <4>1, <4>2 DEF ContentInv, AgesOrdered
      <4>3. CASE k = Len(activeReads) + 1
        BY <2>5, <2>7, <4>1, <4>3
      <4> QED BY <2>7, <4>2, <4>3
    <3> QED BY <2>7, <3>1 DEF AgesOrdered
  <2>11. OnOffer'
    BY <1>2, <2>7 DEF ContentInv, OnOffer, Offered
  <2>12. ReadsSound(activeReads)' /\ AgesOrdered(activeReads)'
    BY <2>9, <2>10 DEF ReadsSound, AgesOrdered, ReadSound
  <2> QED BY <1>2, <2>11, <2>12 DEF ContentInv, WritesSound, FinishedSound
<1> QED BY <1>3, <1>4

LEMMA ContentFireR ==
  ASSUME Shape, ReadsInv, ContentInv, FireR
  PROVE  ContentInv'
<1>1. PICK beat \in r : activeReads' =
        IF beat.last
        THEN SubSeq(Sent, 1, Answered - 1) \o SubSeq(Sent, Answered + 1, Len(Sent)) ELSE Sent
  BY Zenon DEF FireR, Answered, Sent
<1>2. /\ pendingReadResponses' = Tail(pendingReadResponses) /\ r' = {}
      /\ UNCHANGED <<pmem, activeWrites, finishedWrites, awReady, wReady, arReady, b>>
  BY Zenon DEF FireR, writeVars, readyVars
<1>3. /\ pendingReadResponses # <<>> /\ Answered \in 1 .. Len(activeReads)
      /\ activeReads[Answered].request.id = Head(pendingReadResponses)
  BY AnsweredActive
<1>4. PICK D : activeReads \in Seq(Read(D))
  BY DEF Shape
<1>5. /\ Sent \in Seq(Read(D)) /\ Len(Sent) = Len(activeReads) /\ Len(Sent) \in Nat
      /\ \A k \in 1 .. Len(activeReads) : k # Answered => Sent[k] = activeReads[k]
      /\ LET s == activeReads[Answered]
             t == Sent[Answered]
         IN  /\ t.request = s.request /\ t.data = s.data
             /\ t.dataPending = s.dataPending /\ t.dataSending = s.dataSending + 1
             /\ t.age = s.age
  BY <1>3, <1>4, ShapeSent, LenProperties
<1>6. /\ activeReads[Answered].dataPending = activeReads[Answered].dataSending + 1
      /\ activeReads[Answered].dataPending <= Len(activeReads[Answered].data)
      /\ Len(activeReads[Answered].data) \in Nat
  BY <1>3 DEF ReadsInv, BeatsCounted, Offered
<1>a. activeReads[Answered].dataPending \in Nat /\ activeReads[Answered].dataSending \in Nat
  <2>1. activeReads[Answered] \in Read(D)
    BY <1>3, <1>4, ElementOfSeq
  <2> QED BY <2>1 DEF Read
<1>b. ReadSound(activeReads[Answered])
  BY <1>3 DEF ContentInv, ReadsSound
<1>7. beat.last <=> activeReads[Answered].dataPending = Len(activeReads[Answered].data)
  <2>1. PICK k \in 1 .. Len(activeReads) :
          /\ activeReads[k].request.id = Head(pendingReadResponses)
          /\ beat = activeReads[k].data[activeReads[k].dataPending]
    BY DEF ContentInv, OnOffer, Offered
  <2>2. k = Answered
    BY <1>3, <2>1 DEF ReadsInv, DistinctIds
  <2>3. activeReads[Answered].dataPending \in 1 .. Len(activeReads[Answered].data)
    BY <1>6, <1>a
  <2> QED BY <1>b, <2>1, <2>2, <2>3 DEF ReadSound
<1>8. \A k \in 1 .. Len(Sent) : k # Answered \/ ~beat.last => ReadSound(Sent[k])
  <2> SUFFICES ASSUME NEW k \in 1 .. Len(Sent), k # Answered \/ ~beat.last
               PROVE  ReadSound(Sent[k])
    OBVIOUS
  <2>1. CASE k # Answered
    BY <1>5, <2>1 DEF ContentInv, ReadsSound
  <2>2. CASE k = Answered
    BY <1>5, <1>6, <1>a, <1>b, <1>7, <2>2 DEF ReadSound
  <2> QED BY <2>1, <2>2
<1>9. \A k \in 1 .. Len(Sent) : Sent[k].age = activeReads[k].age
  BY <1>5
<1>10. AgesOrdered(Sent)
  BY <1>5, <1>9 DEF ContentInv, AgesOrdered
<1>11. ReadsSound(activeReads') /\ AgesOrdered(activeReads')
  <2>1. CASE ~beat.last
    BY <1>1, <1>8, <1>10, <2>1 DEF ReadsSound
  <2>2. CASE beat.last
    <3>1. /\ Len(activeReads') = Len(Sent) - 1
          /\ \A i \in 1 .. Len(Sent) - 1 :
               activeReads'[i] = IF i < Answered THEN Sent[i] ELSE Sent[i + 1]
      <4> DEFINE u == SubSeq(Sent, 1, Answered - 1) \o SubSeq(Sent, Answered + 1, Len(Sent))
      <4>1. activeReads' = u
        BY <1>1, <2>2, Zenon
      <4>2. /\ Len(u) = Len(Sent) - 1
            /\ \A i \in 1 .. Len(Sent) - 1 : u[i] = IF i < Answered THEN Sent[i] ELSE Sent[i + 1]
        BY <1>3, <1>5, Without
      <4> HIDE DEF u
      <4> QED BY <4>1, <4>2
    <3>2. \A i \in 1 .. Len(Sent) - 1 : \E j \in 1 .. Len(Sent) :
            /\ activeReads'[i] = Sent[j] /\ j # Answered
            /\ j = IF i < Answered THEN i ELSE i + 1
      BY <1>3, <1>5, <3>1
    <3>3. ReadsSound(activeReads')
      BY <1>8, <3>1, <3>2 DEF ReadsSound
    <3>4. ASSUME NEW i \in 1 .. Len(Sent) - 1, NEW k \in 1 .. Len(Sent) - 1, i < k
          PROVE  activeReads'[k].age <= activeReads'[i].age
      <4>1. PICK m \in 1 .. Len(Sent) :
              activeReads'[i] = Sent[m] /\ m = IF i < Answered THEN i ELSE i + 1
        BY <3>2
      <4>2. PICK n \in 1 .. Len(Sent) :
              activeReads'[k] = Sent[n] /\ n = IF k < Answered THEN k ELSE k + 1
        BY <3>2
      <4>3. m < n
        BY <1>3, <1>5, <3>4, <4>1, <4>2
      <4> QED BY <1>10, <4>1, <4>2, <4>3 DEF AgesOrdered
    <3> QED BY <3>1, <3>3, <3>4 DEF AgesOrdered
  <2> QED BY <2>1, <2>2
<1>12. ReadsSound(activeReads)' /\ AgesOrdered(activeReads)'
  BY <1>11 DEF ReadsSound, AgesOrdered, ReadSound
<1>13. pendingReadResponses' \in Seq(Id)
  BY <1>2, <1>3, HeadTailProperties DEF ContentInv
<1>14. OnOffer'
  BY <1>2 DEF ContentInv, OnOffer
<1> QED BY <1>2, <1>12, <1>13, <1>14 DEF ContentInv, WritesSound, FinishedSound

LEMMA SoundAged ==
  ASSUME NEW D, NEW reads \in Seq(Read(D)), ReadsSound(reads), AgesOrdered(reads)
  PROVE  LET aged == Aged(reads, memoryReadLatency) IN
         ReadsSound(aged) /\ AgesOrdered(aged)
<1> DEFINE aged == Aged(reads, memoryReadLatency)
<1>1. /\ Len(aged) = Len(reads) /\ memoryReadLatency \in Nat
      /\ \A k \in 1 .. Len(reads) :
           /\ aged[k].request = reads[k].request /\ aged[k].data = reads[k].data
           /\ aged[k].dataSending = reads[k].dataSending
           /\ aged[k].age = IF reads[k].age < memoryReadLatency THEN reads[k].age + 1
                            ELSE reads[k].age
  BY AgedReads, LenProperties, LatencyAssumption
<1>2. \A k \in 1 .. Len(reads) : reads[k].age \in Nat
  <2>1. \A k \in 1 .. Len(reads) : reads[k] \in Read(D)
    BY ElementOfSeq
  <2> QED BY <2>1 DEF Read
<1> HIDE DEF aged
<1>3. ReadsSound(aged)
  <2> SUFFICES ASSUME NEW k \in 1 .. Len(reads) PROVE ReadSound(aged[k])
    BY <1>1 DEF ReadsSound
  <2>1. ReadSound(reads[k])
    BY DEF ReadsSound
  <2> QED BY <1>1, <1>2, <2>1 DEF ReadSound
<1>4. AgesOrdered(aged)
  <2> SUFFICES ASSUME NEW j \in 1 .. Len(reads), NEW k \in 1 .. Len(reads), j < k
               PROVE  aged[k].age <= aged[j].age
    BY <1>1 DEF AgesOrdered
  <2>1. reads[k].age <= reads[j].age
    BY DEF AgesOrdered
  <2> QED BY <1>1, <1>2, <2>1
<1> QED BY <1>3, <1>4 DEF aged

LEMMA ContentUpdate ==
  ASSUME Shape, ReadsInv, ContentInv, Update
  PROVE  ContentInv'
<1>1. /\ awReady' = WriteRoom /\ wReady' = (awReady' \/ activeWrites # <<>>)
      /\ arReady' = ReadRoom /\ SendB
      /\ finishedWrites' = Aged(finishedWrites, memoryWriteLatency)
      /\ UNCHANGED <<pmem, activeWrites>>
  BY Zenon DEF Update
<1>2. {awReady, wReady, arReady}' \subseteq BOOLEAN
  BY <1>1, Zenon DEF WriteRoom, ReadRoom
<1>3. /\ Len(finishedWrites') = Len(finishedWrites) /\ Len(finishedWrites) \in Nat
      /\ finishedWrites' \in Seq(Finished) /\ memoryWriteLatency \in Nat
      /\ \A k \in 1 .. Len(finishedWrites) :
           /\ finishedWrites'[k].id = finishedWrites[k].id /\ finishedWrites[k].age \in Nat
           /\ finishedWrites'[k].age =
                IF finishedWrites[k].age < memoryWriteLatency
                THEN finishedWrites[k].age + 1 ELSE finishedWrites[k].age
  <2>1. \A k \in 1 .. Len(finishedWrites) : finishedWrites[k] \in Finished
    BY ElementOfSeq DEF Shape
  <2> QED BY <1>1, <2>1, AgedFinished, LenProperties, LatencyAssumption DEF Shape, Finished
<1>4. FinishedSound'
  BY <1>3 DEF ContentInv, FinishedSound
<1>5. b' # {} => /\ finishedWrites' # <<>>
                 /\ b' = {finishedWrites'[1].id}
                 /\ finishedWrites'[1].age >= memoryWriteLatency
  <2> SUFFICES ASSUME b' # {}
               PROVE  /\ finishedWrites' # <<>>
                      /\ b' = {finishedWrites'[1].id}
                      /\ finishedWrites'[1].age >= memoryWriteLatency
    OBVIOUS
  <2>1. /\ finishedWrites # <<>> /\ Head(finishedWrites).age >= memoryWriteLatency
        /\ b' = {Head(finishedWrites).id}
    BY <1>1, Zenon DEF SendB
  <2>2. 1 \in 1 .. Len(finishedWrites) /\ Head(finishedWrites) = finishedWrites[1]
    BY <1>3, <2>1, EmptySeq, HeadTailProperties DEF Shape
  <2> QED BY <1>3, <2>1, <2>2, EmptySeq
<1> DEFINE reads == Aged(activeReads, memoryReadLatency)
<1>6. PICK D : activeReads \in Seq(Read(D))
  BY DEF Shape
<1>7. /\ reads \in Seq(Read(D)) /\ Len(reads) = Len(activeReads) /\ Len(reads) \in Nat
      /\ DOMAIN reads = 1 .. Len(reads)
      /\ \A k \in 1 .. Len(reads) :
           /\ reads[k].data = activeReads[k].data
           /\ reads[k].request = activeReads[k].request
           /\ reads[k].dataPending = activeReads[k].dataPending
  BY <1>6, AgedReads, LenProperties, LatencyAssumption
<1>8. ReadsSound(reads) /\ AgesOrdered(reads)
  BY <1>6, SoundAged DEF ContentInv
<1>9. \/ activeReads' = reads /\ UNCHANGED <<r, pendingReadResponses>>
      \/ activeReads' = reads /\ r' = {} /\ UNCHANGED pendingReadResponses
      \/ \E k \in DOMAIN reads : r = {} /\ Due(k) /\ Offers(k, reads)
  BY Zenon DEF Update, SendR, Holds
<1> HIDE DEF reads
<1>10. CASE activeReads' = reads /\ UNCHANGED <<r, pendingReadResponses>>
  <2>1. OnOffer'
    BY <1>5, <1>7, <1>10 DEF ContentInv, OnOffer, Offered
  <2>2. ReadsSound(activeReads)' /\ AgesOrdered(activeReads)'
    BY <1>8, <1>10 DEF ReadsSound, AgesOrdered, ReadSound
  <2> QED BY <1>1, <1>2, <1>4, <1>10, <2>1, <2>2 DEF ContentInv, WritesSound
<1>11. CASE activeReads' = reads /\ r' = {} /\ UNCHANGED pendingReadResponses
  <2>1. OnOffer'
    BY <1>5, <1>11 DEF OnOffer
  <2>2. ReadsSound(activeReads)' /\ AgesOrdered(activeReads)'
    BY <1>8, <1>11 DEF ReadsSound, AgesOrdered, ReadSound
  <2> QED BY <1>1, <1>2, <1>4, <1>11, <2>1, <2>2 DEF ContentInv, WritesSound
<1>12. ASSUME NEW k \in DOMAIN reads, r = {}, Due(k), Offers(k, reads)
       PROVE  ContentInv'
  <2>1. PICK s \in Read(D) : s = reads[k] /\ k \in 1 .. Len(reads) /\ s.dataPending \in Nat
    <3>1. reads[k] \in Read(D) /\ k \in 1 .. Len(reads)
      BY <1>7, ElementOfSeq
    <3> QED BY <3>1 DEF Read
  <2>a. PICK t : t = [s EXCEPT !.dataPending = s.dataPending + 1]
    OBVIOUS
  <2>2. /\ t \in Read(D) /\ t.request = s.request /\ t.data = s.data /\ t.age = s.age
        /\ t.dataPending = s.dataPending + 1 /\ t.dataSending = s.dataSending
    <3>1. s.dataPending + 1 \in Nat
      BY <2>1
    <3> QED BY <2>a, <3>1 DEF Read
  <2>3. /\ activeReads' = [reads EXCEPT ![k] = t]
        /\ r' = {s.data[s.dataPending + 1]}
        /\ pendingReadResponses' = Append(pendingReadResponses, s.request.id)
    BY <1>12, <2>1, <2>a, Zenon DEF Offers
  <2>4. /\ activeReads' \in Seq(Read(D)) /\ Len(activeReads') = Len(reads)
        /\ \A j \in 1 .. Len(reads) : activeReads'[j] = IF j = k THEN t ELSE reads[j]
    BY <1>7, <2>1, <2>2, <2>3, ExceptSeq
  <2>5. s.request.id \in Id /\ s.request.id \in Nat
    BY RequestAssumption DEF Read, Request, Id
  <2>6. pendingReadResponses' = Append(<<>>, s.request.id)
    BY <1>12, <2>3 DEF ReadsInv
  <2>7. /\ pendingReadResponses' # <<>> /\ Head(pendingReadResponses') = s.request.id
        /\ pendingReadResponses' \in Seq(Id)
    BY <2>5, <2>6, EmptySeq, AppendProperties, HeadTailAppend
  <2>8. ReadsSound(activeReads')
    <3>1. ReadSound(s)
      BY <1>8, <2>1 DEF ReadsSound
    <3>2. ReadSound(t)
      BY <2>2, <3>1 DEF ReadSound
    <3>3. ASSUME NEW j \in 1 .. Len(reads) PROVE ReadSound(activeReads'[j])
      BY <1>8, <2>4, <3>2 DEF ReadsSound
    <3> QED BY <2>4, <3>3 DEF ReadsSound
  <2>9. AgesOrdered(activeReads')
    <3>1. \A j \in 1 .. Len(reads) : activeReads'[j].age = reads[j].age
      BY <2>1, <2>2, <2>4
    <3> QED BY <1>8, <2>4, <3>1 DEF AgesOrdered
  <2>10. OnOffer'
    <3>1. /\ k \in 1 .. Len(activeReads') /\ activeReads'[k] = t
          /\ t.request.id = s.request.id /\ t.dataPending >= 1
          /\ r' = {t.data[t.dataPending]}
      BY <2>1, <2>2, <2>3, <2>4
    <3> QED BY <1>5, <2>7, <3>1 DEF OnOffer, Offered
  <2>11. ReadsSound(activeReads)' /\ AgesOrdered(activeReads)'
    BY <2>8, <2>9 DEF ReadsSound, AgesOrdered, ReadSound
  <2> QED BY <1>1, <1>2, <1>4, <2>7, <2>10, <2>11 DEF ContentInv, WritesSound
<1> QED BY <1>9, <1>10, <1>11, <1>12

LEMMA ContentStep == MemoryInv /\ ContentInv /\ [Next]_vars => ContentInv'
<1> SUFFICES ASSUME MemoryInv, ContentInv, [Next]_vars PROVE ContentInv'
  OBVIOUS
<1>1. Shape /\ ReadsInv
  BY DEF MemoryInv
<1>2. CASE Next
  BY <1>1, <1>2, ContentFireAW, ContentFireW, ContentFireB, ContentFireAR, ContentFireR,
     ContentUpdate DEF Next
<1>3. CASE UNCHANGED vars
  BY <1>3 DEF vars, writeVars, readVars, readyVars, ContentInv, WritesSound, FinishedSound,
     ReadsSound, ReadSound, AgesOrdered, OnOffer, Offered
<1> QED BY <1>2, <1>3

LEMMA ContentHolds == Spec => [](MemoryInv /\ ContentInv)
<1>1. Init => MemoryInv /\ ContentInv
  BY MemoryInvInit, ContentInit
<1>2. (MemoryInv /\ ContentInv) /\ [Next]_vars => (MemoryInv /\ ContentInv)'
  BY MemoryInvStep, ContentStep
<1> QED BY <1>1, <1>2, PTL DEF Spec

\* Every variable of the memory holds a value of its kind, whatever the bursts:
\* a byte array of the memory's size, beats of the bus's width, no more beats
\* drawn than the burst has, none sent before it is drawn.
THEOREM MemoryTypeCorrect == Spec => []TypeOK
<1>1. ASSUME MemoryInv, ContentInv PROVE TypeOK
  <2>1. /\ pos \in 0 .. 5 /\ {awReady, wReady, arReady} \subseteq BOOLEAN
        /\ pmem \in [0 .. Size - 1 -> Byte] /\ pendingReadResponses \in Seq(Id)
        /\ Len(pendingReadResponses) <= 1
    BY <1>1 DEF MemoryInv, Shape, ReadsInv, ContentInv, Bytes
  <2>2. ASSUME NEW k \in DOMAIN activeWrites
        PROVE  /\ activeWrites[k].request \in WriteReq
               /\ activeWrites[k].data \in Seq(WriteBeat)
               /\ Len(activeWrites[k].data) < activeWrites[k].request.len
    <3>1. k \in 1 .. Len(activeWrites) /\ activeWrites[k] \in Write
      BY <1>1, ElementOfSeq, LenProperties DEF MemoryInv, Shape
    <3> QED BY <1>1, <3>1 DEF Write, ContentInv, WritesSound
  <2>3. ASSUME NEW k \in DOMAIN finishedWrites
        PROVE  finishedWrites[k] \in [id : Id, age : 0 .. memoryWriteLatency]
    <3>1. k \in 1 .. Len(finishedWrites) /\ finishedWrites[k] \in Finished
      BY <1>1, ElementOfSeq, LenProperties DEF MemoryInv, Shape
    <3>2. finishedWrites[k].id \in Id /\ finishedWrites[k].age <= memoryWriteLatency
      BY <1>1, <3>1 DEF ContentInv, FinishedSound
    <3> QED BY <3>1, <3>2, LatencyAssumption DEF Finished
  <2>4. ASSUME NEW k \in DOMAIN activeReads
        PROVE  /\ activeReads[k].request \in ReadReq
               /\ activeReads[k].data \in Seq(ReadBeat)
               /\ activeReads[k].dataSending <= activeReads[k].dataPending
               /\ activeReads[k].dataPending <= activeReads[k].request.len
               /\ activeReads[k].age \in 0 .. memoryReadLatency
    <3>1. PICK D : activeReads \in Seq(Read(D))
      BY <1>1 DEF MemoryInv, Shape
    <3>2. k \in 1 .. Len(activeReads) /\ activeReads[k] \in Read(D)
      BY <3>1, ElementOfSeq, LenProperties
    <3>3. /\ activeReads[k].request \in ReadReq /\ activeReads[k].age \in Nat
          /\ activeReads[k].dataSending \in Nat /\ activeReads[k].dataPending \in Nat
      BY <3>2 DEF Read
    <3>4. ReadSound(activeReads[k])
      BY <1>1, <3>2 DEF ContentInv, ReadsSound
    <3>5. /\ activeReads[k].dataPending <= Len(activeReads[k].data)
          /\ activeReads[k].dataPending \in
               {activeReads[k].dataSending, activeReads[k].dataSending + 1}
      BY <1>1, <3>2 DEF MemoryInv, ReadsInv, BeatsCounted
    <3> QED BY <3>3, <3>4, <3>5, LatencyAssumption DEF ReadSound
  <2>5. b \subseteq Id
    <3>1. CASE b = {}
      BY <3>1
    <3>2. CASE b # {}
      <4>1. 1 \in 1 .. Len(finishedWrites) /\ b = {finishedWrites[1].id}
        BY <1>1, <3>2, EmptySeq, LenProperties DEF MemoryInv, Shape, ContentInv, OnOffer
      <4> QED BY <1>1, <4>1 DEF ContentInv, FinishedSound
    <3> QED BY <3>1, <3>2
  <2>6. r \subseteq ReadBeat
    <3>1. CASE r = {}
      BY <3>1
    <3>2. CASE r # {}
      <4>1. PICK k \in 1 .. Len(activeReads) :
              /\ activeReads[k].dataPending >= 1
              /\ r = {activeReads[k].data[activeReads[k].dataPending]}
        BY <1>1, <3>2 DEF ContentInv, OnOffer
      <4>2. activeReads[k].data \in Seq(ReadBeat)
        BY <1>1 DEF ContentInv, ReadsSound, ReadSound
      <4>3. k \in DOMAIN activeReads
        BY <1>1, LenProperties DEF MemoryInv, Shape
      <4>4. activeReads[k].dataPending \in 1 .. Len(activeReads[k].data)
        <5>1. PICK D : activeReads \in Seq(Read(D))
          BY <1>1 DEF MemoryInv, Shape
        <5>2. activeReads[k] \in Read(D)
          BY <5>1, ElementOfSeq
        <5>3. activeReads[k].dataPending <= Len(activeReads[k].data)
          BY <1>1 DEF MemoryInv, ReadsInv, BeatsCounted
        <5> QED BY <4>1, <4>2, <5>2, <5>3, LenProperties DEF Read
      <4>5. activeReads[k].data[activeReads[k].dataPending] \in ReadBeat
        BY <4>2, <4>4, ElementOfSeq
      <4> QED BY <4>1, <4>5
    <3> QED BY <3>1, <3>2
  <2> QED BY <2>1, <2>2, <2>3, <2>4, <2>5, <2>6 DEF TypeOK
<1> QED BY <1>1, ContentHolds, PTL

-----------------------------------------------------------------------------
(* Queues as AXIMemory sees them: the image of each element *)

Image(s, f) == [k \in DOMAIN s |-> f[s[k]]]
Values(f, S) == {f[x] : x \in S}
Dropped(s, k) == SubSeq(s, 1, k - 1) \o SubSeq(s, k + 1, Len(s))

LEMMA ImageIs ==
  ASSUME NEW S, NEW s \in Seq(S), NEW f
  PROVE  /\ Image(s, f) \in Seq(Values(f, S)) /\ Len(Image(s, f)) = Len(s) /\ Len(s) \in Nat
         /\ DOMAIN Image(s, f) = 1 .. Len(s)
         /\ \A k \in 1 .. Len(s) : Image(s, f)[k] = f[s[k]]
<1> DEFINE T == Values(f, S)
<1>f. \A x \in S : f[x] \in T
  BY DEF Values
<1> USE <1>f
<1> HIDE DEF T
<1>1. DOMAIN s = 1 .. Len(s) /\ Len(s) \in Nat /\ \A k \in 1 .. Len(s) : s[k] \in S
  BY LenProperties, ElementOfSeq
<1>2. Image(s, f) \in [1 .. Len(s) -> T] /\ \A k \in 1 .. Len(s) : Image(s, f)[k] = f[s[k]]
  BY <1>1 DEF Image
<1> QED BY <1>1, <1>2, SeqOf DEF T

LEMMA ImageAppend ==
  ASSUME NEW S, NEW s \in Seq(S), NEW f, NEW x \in S
  PROVE  Image(Append(s, x), f) = Append(Image(s, f), f[x])
<1> DEFINE T == Values(f, S)
<1>f. \A v \in S : f[v] \in T
  BY DEF Values
<1> USE <1>f
<1> HIDE DEF T
<1>1. PICK u \in Seq(S) : u = Append(s, x)
  BY AppendProperties
<1>2. /\ Len(u) = Len(s) + 1 /\ Len(s) \in Nat
      /\ \A k \in 1 .. Len(s) : u[k] = s[k]
      /\ u[Len(s) + 1] = x
  BY <1>1, AppendProperties, LenProperties
<1>3. PICK a \in Seq(T) : a = Image(s, f) /\ Len(a) = Len(s)
                          /\ \A k \in 1 .. Len(s) : a[k] = f[s[k]]
  <2>1. /\ Image(s, f) \in Seq(T) /\ Len(Image(s, f)) = Len(s)
        /\ \A k \in 1 .. Len(s) : Image(s, f)[k] = f[s[k]]
    BY ImageIs DEF T
  <2> QED BY <2>1
<1>4. PICK v \in Seq(T) : v = Image(u, f) /\ Len(v) = Len(u)
                          /\ \A k \in 1 .. Len(u) : v[k] = f[u[k]]
  <2>1. /\ Image(u, f) \in Seq(T) /\ Len(Image(u, f)) = Len(u)
        /\ \A k \in 1 .. Len(u) : Image(u, f)[k] = f[u[k]]
    BY ImageIs DEF T
  <2> QED BY <2>1
<1>5. PICK w \in Seq(T) : /\ w = Append(a, f[x]) /\ Len(w) = Len(a) + 1
                          /\ \A k \in 1 .. Len(a) : w[k] = a[k]
                          /\ w[Len(a) + 1] = f[x]
  <2>1. f[x] \in T
    OBVIOUS
  <2> QED BY <2>1, AppendProperties
<1>6. ASSUME NEW k \in 1 .. Len(v) PROVE v[k] = w[k]
  <2>1. CASE k \in 1 .. Len(s)
    BY <1>2, <1>3, <1>4, <1>5, <2>1
  <2>2. CASE k = Len(s) + 1
    BY <1>2, <1>3, <1>4, <1>5, <2>2
  <2> QED BY <1>2, <1>4, <2>1, <2>2
<1>7. v = w
  BY <1>2, <1>3, <1>4, <1>5, <1>6, SeqEqual
<1> QED BY <1>1, <1>3, <1>4, <1>5, <1>7

LEMMA ImageTail ==
  ASSUME NEW S, NEW s \in Seq(S), NEW f, s # <<>>
  PROVE  /\ Image(s, f) # <<>> /\ Head(Image(s, f)) = f[Head(s)]
         /\ Image(Tail(s), f) = Tail(Image(s, f))
<1> DEFINE T == Values(f, S)
<1>f. \A x \in S : f[x] \in T
  BY DEF Values
<1> USE <1>f
<1> HIDE DEF T
<1>1. PICK u \in Seq(S) : u = Tail(s)
  BY HeadTailProperties
<1>2. /\ Len(u) = Len(s) - 1 /\ Len(s) \in Nat \ {0}
      /\ \A k \in 1 .. Len(u) : u[k] = s[k + 1]
  BY <1>1, HeadTailProperties, EmptySeq
<1>3. PICK a \in Seq(T) : a = Image(s, f) /\ Len(a) = Len(s)
                          /\ \A k \in 1 .. Len(s) : a[k] = f[s[k]]
  <2>1. /\ Image(s, f) \in Seq(T) /\ Len(Image(s, f)) = Len(s)
        /\ \A k \in 1 .. Len(s) : Image(s, f)[k] = f[s[k]]
    BY ImageIs DEF T
  <2> QED BY <2>1
<1>4. PICK v \in Seq(T) : v = Image(u, f) /\ Len(v) = Len(u)
                          /\ \A k \in 1 .. Len(u) : v[k] = f[u[k]]
  <2>1. /\ Image(u, f) \in Seq(T) /\ Len(Image(u, f)) = Len(u)
        /\ \A k \in 1 .. Len(u) : Image(u, f)[k] = f[u[k]]
    BY ImageIs DEF T
  <2> QED BY <2>1
<1>5. a # <<>>
  BY <1>2, <1>3, EmptySeq
<1>6. /\ Tail(a) \in Seq(T) /\ Len(Tail(a)) = Len(a) - 1
      /\ \A k \in 1 .. Len(Tail(a)) : Tail(a)[k] = a[k + 1]
  BY <1>5, HeadTailProperties
<1>7. ASSUME NEW k \in 1 .. Len(v) PROVE v[k] = Tail(a)[k]
  <2>1. k + 1 \in 1 .. Len(s) /\ k \in 1 .. Len(u)
    BY <1>2, <1>4
  <2> QED BY <1>2, <1>3, <1>4, <1>6, <2>1
<1>8. v = Tail(a)
  BY <1>2, <1>3, <1>4, <1>6, <1>7, SeqEqual
<1>9. Head(a) = a[1] /\ Head(s) = s[1]
  OBVIOUS
<1>10. Head(a) = f[Head(s)]
  BY <1>2, <1>3, <1>9
<1> QED BY <1>1, <1>3, <1>4, <1>5, <1>8, <1>10

LEMMA ImageExcept ==
  ASSUME NEW S, NEW s \in Seq(S), NEW f, NEW i \in 1 .. Len(s), NEW x \in S
  PROVE  Image([s EXCEPT ![i] = x], f) = [Image(s, f) EXCEPT ![i] = f[x]]
<1> DEFINE T == Values(f, S)
<1>f. \A v \in S : f[v] \in T
  BY DEF Values
<1> USE <1>f
<1> HIDE DEF T
<1>3. PICK a \in Seq(T) : a = Image(s, f) /\ Len(a) = Len(s)
                          /\ \A k \in 1 .. Len(s) : a[k] = f[s[k]]
  <2>1. /\ Image(s, f) \in Seq(T) /\ Len(Image(s, f)) = Len(s)
        /\ \A k \in 1 .. Len(s) : Image(s, f)[k] = f[s[k]]
    BY ImageIs DEF T
  <2> QED BY <2>1
<1>1. PICK u \in Seq(S) : u = [s EXCEPT ![i] = x]
  BY ExceptSeq
<1>2. /\ Len(u) = Len(s) /\ Len(s) \in Nat
      /\ \A k \in 1 .. Len(s) : u[k] = IF k = i THEN x ELSE s[k]
  BY <1>1, ExceptSeq, LenProperties
<1>4. PICK v \in Seq(T) : v = Image(u, f) /\ Len(v) = Len(u)
                          /\ \A k \in 1 .. Len(u) : v[k] = f[u[k]]
  <2>1. /\ Image(u, f) \in Seq(T) /\ Len(Image(u, f)) = Len(u)
        /\ \A k \in 1 .. Len(u) : Image(u, f)[k] = f[u[k]]
    BY ImageIs DEF T
  <2> QED BY <2>1
<1>5. PICK w \in Seq(T) : w = [a EXCEPT ![i] = f[x]] /\ Len(w) = Len(a)
                          /\ \A k \in 1 .. Len(a) : w[k] = IF k = i THEN f[x] ELSE a[k]
  <2>1. i \in 1 .. Len(a) /\ f[x] \in T
    BY <1>3
  <2>2. PICK y \in T : y = f[x]
    BY <2>1
  <2>3. /\ [a EXCEPT ![i] = y] \in Seq(T) /\ Len([a EXCEPT ![i] = y]) = Len(a)
        /\ \A k \in 1 .. Len(a) : [a EXCEPT ![i] = y][k] = IF k = i THEN y ELSE a[k]
    BY <2>1, ExceptSeq
  <2> QED BY <2>2, <2>3
<1>6. ASSUME NEW k \in 1 .. Len(v) PROVE v[k] = w[k]
  <2>1. k \in 1 .. Len(u) /\ k \in 1 .. Len(s) /\ k \in 1 .. Len(a)
    BY <1>2, <1>3, <1>4
  <2>2. CASE k = i
    BY <1>2, <1>4, <1>5, <2>1, <2>2
  <2>3. CASE k # i
    BY <1>2, <1>3, <1>4, <1>5, <2>1, <2>3
  <2> QED BY <2>2, <2>3
<1>7. v = w
  BY <1>2, <1>3, <1>4, <1>5, <1>6, SeqEqual
<1> QED BY <1>1, <1>3, <1>4, <1>5, <1>7

LEMMA ImageDropped ==
  ASSUME NEW S, NEW s \in Seq(S), NEW f, NEW i \in 1 .. Len(s)
  PROVE  Image(Dropped(s, i), f) = Dropped(Image(s, f), i)
<1> DEFINE T == Values(f, S)
<1>f. \A x \in S : f[x] \in T
  BY DEF Values
<1> USE <1>f
<1> HIDE DEF T
<1>1. PICK u \in Seq(S) : /\ u = Dropped(s, i) /\ Len(u) = Len(s) - 1
                          /\ \A k \in 1 .. Len(s) - 1 : u[k] = IF k < i THEN s[k] ELSE s[k + 1]
  BY Without DEF Dropped
<1>2. PICK a \in Seq(T) : a = Image(s, f) /\ Len(a) = Len(s)
                          /\ \A k \in 1 .. Len(s) : a[k] = f[s[k]]
  <2>1. /\ Image(s, f) \in Seq(T) /\ Len(Image(s, f)) = Len(s)
        /\ \A k \in 1 .. Len(s) : Image(s, f)[k] = f[s[k]]
    BY ImageIs DEF T
  <2> QED BY <2>1
<1>3. PICK v \in Seq(T) : v = Image(u, f) /\ Len(v) = Len(u)
                          /\ \A k \in 1 .. Len(u) : v[k] = f[u[k]]
  <2>1. /\ Image(u, f) \in Seq(T) /\ Len(Image(u, f)) = Len(u)
        /\ \A k \in 1 .. Len(u) : Image(u, f)[k] = f[u[k]]
    BY ImageIs DEF T
  <2> QED BY <2>1
<1>4. PICK w \in Seq(T) : /\ w = Dropped(a, i) /\ Len(w) = Len(a) - 1
                          /\ \A k \in 1 .. Len(a) - 1 : w[k] = IF k < i THEN a[k] ELSE a[k + 1]
  <2>1. i \in 1 .. Len(a)
    BY <1>2
  <2> QED BY <2>1, Without DEF Dropped
<1>5. ASSUME NEW k \in 1 .. Len(v) PROVE v[k] = w[k]
  <2>1. k \in 1 .. Len(s) /\ k + 1 \in 1 .. Len(s) /\ k \in 1 .. Len(s) - 1 /\ Len(s) \in Nat
    BY <1>1, <1>3, LenProperties
  <2>2. v[k] = f[u[k]] /\ k \in 1 .. Len(a) - 1
    BY <1>1, <1>2, <1>3, <2>1
  <2>3. CASE k < i
    BY <1>1, <1>2, <1>4, <2>1, <2>2, <2>3
  <2>4. CASE ~(k < i)
    BY <1>1, <1>2, <1>4, <2>1, <2>2, <2>4
  <2> QED BY <2>3, <2>4
<1>6. v = w
  BY <1>1, <1>2, <1>3, <1>4, <1>5, SeqEqual
<1> QED BY <1>1, <1>2, <1>3, <1>4, <1>6

SameImages(u, s, f) == Len(u) = Len(s) /\ \A k \in 1 .. Len(s) : f[u[k]] = f[s[k]]

LEMMA ImageSame ==
  ASSUME NEW S, NEW s \in Seq(S), NEW u \in Seq(S), NEW f,
         SameImages(u, s, f)
  PROVE  Image(u, f) = Image(s, f)
<1> DEFINE T == Values(f, S)
<1>f. \A x \in S : f[x] \in T
  BY DEF Values
<1> USE <1>f
<1> HIDE DEF T
<1>1. PICK a \in Seq(T) : a = Image(s, f) /\ Len(a) = Len(s)
                          /\ \A k \in 1 .. Len(s) : a[k] = f[s[k]]
  <2>1. /\ Image(s, f) \in Seq(T) /\ Len(Image(s, f)) = Len(s)
        /\ \A k \in 1 .. Len(s) : Image(s, f)[k] = f[s[k]]
    BY ImageIs DEF T
  <2> QED BY <2>1
<1>2. PICK v \in Seq(T) : v = Image(u, f) /\ Len(v) = Len(u)
                          /\ \A k \in 1 .. Len(u) : v[k] = f[u[k]]
  <2>1. /\ Image(u, f) \in Seq(T) /\ Len(Image(u, f)) = Len(u)
        /\ \A k \in 1 .. Len(u) : Image(u, f)[k] = f[u[k]]
    BY ImageIs DEF T
  <2> QED BY <2>1
<1>3. v = a
  BY <1>1, <1>2, SeqEqual DEF SameImages
<1> QED BY <1>1, <1>2, <1>3

-----------------------------------------------------------------------------
(* Refinement *)

Live == Read(Seq(ReadBeat))
RequestOf == [w \in Write |-> w.request]
IdOf == [e \in Finished |-> e.id]
RestOf == [t \in Live |-> [id |-> t.request.id, rest |-> LeftOf(t)]]

LEMMA LiveReads ==
  ASSUME NEW D, NEW s \in Seq(Read(D)), ReadsSound(s)
  PROVE  s \in Seq(Live)
<1>1. Len(s) \in Nat /\ s = [k \in 1 .. Len(s) |-> s[k]]
  BY LenProperties
<1>2. ASSUME NEW k \in 1 .. Len(s) PROVE s[k] \in Live
  <2>1. s[k] \in Read(D)
    BY ElementOfSeq
  <2>2. s[k].data \in Seq(ReadBeat)
    BY DEF ReadsSound, ReadSound
  <2> QED BY <2>1, <2>2 DEF Live, Read
<1>3. s \in [1 .. Len(s) -> Live]
  BY <1>1, <1>2
<1> QED BY <1>1, <1>3, SeqOf

LEMMA SeenWrites ==
  ASSUME NEW s \in Seq(Write)
  PROVE  [k \in DOMAIN s |-> s[k].request] = Image(s, RequestOf)
<1>1. \A k \in DOMAIN s : s[k] \in Write
  BY LenProperties, ElementOfSeq
<1> QED BY <1>1 DEF Image, RequestOf

LEMMA SeenFinished ==
  ASSUME NEW s \in Seq(Finished)
  PROVE  [k \in DOMAIN s |-> s[k].id] = Image(s, IdOf)
<1>1. \A k \in DOMAIN s : s[k] \in Finished
  BY LenProperties, ElementOfSeq
<1> QED BY <1>1 DEF Image, IdOf

LEMMA SeenReads ==
  ASSUME NEW s \in Seq(Live)
  PROVE  [k \in DOMAIN s |-> [id |-> s[k].request.id, rest |-> LeftOf(s[k])]]
           = Image(s, RestOf)
<1>1. \A k \in DOMAIN s : s[k] \in Live
  BY LenProperties, ElementOfSeq
<1>2. \A k \in DOMAIN s :
        RestOf[s[k]] = [id |-> s[k].request.id, rest |-> LeftOf(s[k])]
  BY <1>1 DEF RestOf
<1> QED BY <1>2, Zenon DEF Image

Queues ==
  /\ activeWrites \in Seq(Write) /\ finishedWrites \in Seq(Finished)
  /\ activeReads \in Seq(Live)
  /\ AcceptedWrites = Image(activeWrites, RequestOf)
  /\ WrittenIds = Image(finishedWrites, IdOf)
  /\ ReadsLeft = Image(activeReads, RestOf)

LEMMA QueuesSeen == MemoryInv /\ ContentInv => Queues
<1> SUFFICES ASSUME MemoryInv, ContentInv PROVE Queues
  OBVIOUS
<1>1. activeWrites \in Seq(Write) /\ finishedWrites \in Seq(Finished)
  BY DEF MemoryInv, Shape
<1>2. activeReads \in Seq(Live)
  BY LiveReads DEF MemoryInv, Shape, ContentInv
<1>3. AcceptedWrites = Image(activeWrites, RequestOf)
  BY <1>1, SeenWrites DEF AcceptedWrites
<1>4. WrittenIds = Image(finishedWrites, IdOf)
  BY <1>1, SeenFinished DEF WrittenIds
<1>5. ReadsLeft = Image(activeReads, RestOf)
  BY <1>2, SeenReads DEF ReadsLeft
<1> QED BY <1>1, <1>2, <1>3, <1>4, <1>5 DEF Queues

LEMMA RefineInit == Init => AXI!Init
<1> SUFFICES ASSUME Init PROVE AXI!Init
  OBVIOUS
<1>1. Queues /\ pmem \in Bytes
  BY MemoryInvInit, ContentInit, QueuesSeen DEF ContentInv
<1>2. Len(activeWrites) = 0 /\ Len(finishedWrites) = 0 /\ Len(activeReads) = 0
  BY EmptySeq DEF Init
<1>q. /\ activeWrites \in Seq(Write) /\ finishedWrites \in Seq(Finished)
      /\ activeReads \in Seq(Live)
  BY <1>1 DEF Queues
<1>3. /\ Image(activeWrites, RequestOf) \in Seq(Values(RequestOf, Write))
      /\ Len(Image(activeWrites, RequestOf)) = Len(activeWrites)
  BY <1>q, ImageIs
<1>4. /\ Image(finishedWrites, IdOf) \in Seq(Values(IdOf, Finished))
      /\ Len(Image(finishedWrites, IdOf)) = Len(finishedWrites)
  BY <1>q, ImageIs
<1>5. /\ Image(activeReads, RestOf) \in Seq(Values(RestOf, Live))
      /\ Len(Image(activeReads, RestOf)) = Len(activeReads)
  BY <1>q, ImageIs
<1>6. AcceptedWrites = <<>> /\ WrittenIds = <<>> /\ ReadsLeft = <<>>
  BY <1>1, <1>2, <1>3, <1>4, <1>5, EmptySeq DEF Queues
<1>7. b = {} /\ r = {}
  BY DEF Init
<1> QED BY <1>1, <1>6, <1>7 DEF AXI!Init, Bytes

LEMMA RefineFireAW ==
  ASSUME Queues, Queues', FireAW
  PROVE  AXI!AcceptWrite
<1>1. PICK q \in WriteReq : activeWrites' = Append(activeWrites, [request |-> q, data |-> <<>>])
  BY DEF FireAW
<1>2. UNCHANGED <<pmem, finishedWrites, activeReads, b, r>>
  BY Zenon DEF FireAW, readVars
<1>3. [request |-> q, data |-> <<>>] \in Write
  BY EmptySeq DEF Write
<1>4. PICK e \in Write : e = [request |-> q, data |-> <<>>] /\ e.request = q
  BY <1>3
<1>5. RequestOf[e] = q
  BY <1>4 DEF RequestOf
<1>6. AcceptedWrites' = Append(AcceptedWrites, q)
  <2>1. AcceptedWrites' = Image(activeWrites', RequestOf) /\ AcceptedWrites = Image(activeWrites, RequestOf)
    BY DEF Queues
  <2>2. activeWrites' = Append(activeWrites, e)
    BY <1>1, <1>4
  <2>3. activeWrites \in Seq(Write)
    BY DEF Queues
  <2>4. Image(Append(activeWrites, e), RequestOf) = Append(Image(activeWrites, RequestOf), RequestOf[e])
    BY <2>3, ImageAppend
  <2> QED BY <1>5, <2>1, <2>2, <2>4
<1>7. UNCHANGED <<WrittenIds, ReadsLeft>>
  BY <1>2 DEF WrittenIds, ReadsLeft, LeftOf
<1> QED BY <1>2, <1>6, <1>7, Zenon DEF AXI!AcceptWrite

\* The hypothesis of the refinement on the bursts.
StraightBursts == \A q \in WriteReq \cup ReadReq : Straight(q)

LEMMA RefineFireW ==
  ASSUME Queues, Queues', ContentInv, FireW, RequestsInBounds, StraightBursts
  PROVE  AXI!Commit \/ UNCHANGED AXI!vars
<1>1. UNCHANGED <<activeReads, b, r>> /\ UNCHANGED ReadsLeft
  <2>1. UNCHANGED <<activeReads, b, r>>
    BY Zenon DEF FireW, readVars
  <2> QED BY <2>1 DEF ReadsLeft, LeftOf
<1>2. CASE activeWrites = <<>>
  <2>1. UNCHANGED <<pmem, activeWrites, finishedWrites>>
    BY <1>2, Zenon DEF FireW, writeVars
  <2>2. UNCHANGED <<AcceptedWrites, WrittenIds>>
    BY <2>1 DEF AcceptedWrites, WrittenIds
  <2> QED BY <1>1, <2>1, <2>2 DEF AXI!vars
<1>3. CASE activeWrites # <<>>
  <2>a. PICK w \in WriteBeat :
          IF Len(Append(Head(activeWrites).data, w)) < Head(activeWrites).request.len
          THEN /\ activeWrites' = [activeWrites EXCEPT
                                     ![1].data = Append(Head(activeWrites).data, w)]
               /\ UNCHANGED <<failed, pmem, finishedWrites>>
          ELSE FinishWrite(Head(activeWrites).request, Append(Head(activeWrites).data, w))
    BY <1>3, Zenon DEF FireW
  <2>b. PICK h : h = Head(activeWrites)
    OBVIOUS
  <2>c. PICK q : q = h.request
    OBVIOUS
  <2>1. IF Len(Append(h.data, w)) < q.len
        THEN /\ activeWrites' = [activeWrites EXCEPT ![1].data = Append(h.data, w)]
             /\ UNCHANGED <<failed, pmem, finishedWrites>>
        ELSE FinishWrite(q, Append(h.data, w))
    BY <2>a, <2>b, <2>c, Zenon
  <2>2. activeWrites \in Seq(Write) /\ finishedWrites \in Seq(Finished)
    BY DEF Queues
  <2>3. h \in Write /\ 1 \in 1 .. Len(activeWrites) /\ h = activeWrites[1]
    BY <1>3, <2>b, <2>2, EmptySeq, HeadTailProperties
  <2>4. h.data \in Seq(WriteBeat) /\ q \in WriteReq /\ RequestOf[h] = q
    BY <2>3, <2>c DEF Write, RequestOf
  <2>5. PICK data \in Seq(WriteBeat) : data = Append(h.data, w) /\ Len(data) = Len(h.data) + 1
    <3>1. /\ Append(h.data, w) \in Seq(WriteBeat)
          /\ Len(Append(h.data, w)) = Len(h.data) + 1
      BY <2>4, AppendProperties
    <3> QED BY <3>1
  <2>6. CASE Len(data) < q.len
    <3>1. PICK e : e = [h EXCEPT !.data = data]
      OBVIOUS
    <3>2. e \in Write /\ RequestOf[e] = RequestOf[h]
      BY <2>3, <3>1 DEF Write, RequestOf
    <3>3. activeWrites' = [activeWrites EXCEPT ![1] = e] /\ UNCHANGED <<pmem, finishedWrites>>
      BY <2>1, <2>3, <2>5, <2>6, <3>1
    <3>4. Image([activeWrites EXCEPT ![1] = e], RequestOf) = Image(activeWrites, RequestOf)
      <4>1. RequestOf[e] = RequestOf[activeWrites[1]]
        BY <2>3, <3>2
      <4>2. PICK u \in Seq(Write) :
              /\ u = [activeWrites EXCEPT ![1] = e] /\ Len(u) = Len(activeWrites)
              /\ \A k \in 1 .. Len(activeWrites) : u[k] = IF k = 1 THEN e ELSE activeWrites[k]
        <5>1. /\ [activeWrites EXCEPT ![1] = e] \in Seq(Write)
              /\ Len([activeWrites EXCEPT ![1] = e]) = Len(activeWrites)
              /\ \A k \in 1 .. Len(activeWrites) :
                   [activeWrites EXCEPT ![1] = e][k] = IF k = 1 THEN e ELSE activeWrites[k]
          BY <2>2, <2>3, <3>2, ExceptSeq
        <5> QED BY <5>1
      <4>3. \A k \in 1 .. Len(activeWrites) : RequestOf[u[k]] = RequestOf[activeWrites[k]]
        BY <4>1, <4>2
      <4>4. Image(u, RequestOf) = Image(activeWrites, RequestOf)
        <5>1. SameImages(u, activeWrites, RequestOf)
          BY <4>2, <4>3 DEF SameImages
        <5> QED BY <2>2, <5>1, ImageSame
      <4> QED BY <4>2, <4>4
    <3>5. UNCHANGED AcceptedWrites
      BY <3>3, <3>4 DEF Queues
    <3>6. UNCHANGED WrittenIds
      BY <3>3 DEF WrittenIds
    <3> QED BY <1>1, <3>3, <3>5, <3>6 DEF AXI!vars
  <2>7. CASE ~(Len(data) < q.len)
    <3>1. /\ pmem' = IF WriteInBounds(q, data) THEN Commit(q, data) ELSE pmem
          /\ finishedWrites' = Append(finishedWrites, [id |-> q.id, age |-> 0])
          /\ activeWrites' = Tail(activeWrites)
      BY <2>1, <2>5, <2>7 DEF FinishWrite
    <3>2. q \in Request /\ q.len \in Nat /\ q.id \in Nat
      BY <2>4, RequestAssumption, RequestType
    <3>3. Len(data) = q.len
      <4>1. Len(h.data) < q.len
        BY <2>3, <2>c DEF ContentInv, WritesSound
      <4> QED BY <2>4, <2>5, <2>7, <3>2, <4>1, LenProperties
    <3>4. data \in [1 .. q.len -> WriteBeat]
      BY <3>3, LenProperties
    <3>5. WriteInBounds(q, data)
      <4>1. \A i \in 1 .. q.len : data[i].strb \subseteq Lane
        BY <3>4, BeatAssumption
      <4> QED BY <2>4, <4>1, Zenon DEF WriteInBounds, RequestsInBounds
    <3>6. pmem' = AXI!Written(pmem, q, data)
      <4>1. pmem \in Bytes /\ Straight(q)
        BY <2>4 DEF ContentInv, StraightBursts
      <4>2. \A i \in 1 .. q.len : data[i] \in WriteBeat
        BY <3>4
      <4>3. Commit(q, data) = AXI!Written(pmem, q, data)
        BY <3>2, <4>1, <4>2, CommitIsWritten
      <4> QED BY <3>1, <3>5, <4>3
    <3>7. /\ AcceptedWrites # <<>> /\ Head(AcceptedWrites) = q
          /\ AcceptedWrites' = Tail(AcceptedWrites)
      <4>1. /\ Image(activeWrites, RequestOf) # <<>>
            /\ Head(Image(activeWrites, RequestOf)) = RequestOf[Head(activeWrites)]
            /\ Image(Tail(activeWrites), RequestOf) = Tail(Image(activeWrites, RequestOf))
        BY <1>3, <2>2, ImageTail
      <4> QED BY <2>b, <2>4, <3>1, <4>1 DEF Queues
    <3>8. WrittenIds' = Append(WrittenIds, q.id)
      <4>1. [id |-> q.id, age |-> 0] \in Finished
        BY <3>2 DEF Finished
      <4>2. PICK e \in Finished : e = [id |-> q.id, age |-> 0] /\ IdOf[e] = q.id
        BY <4>1 DEF IdOf
      <4>3. Image(Append(finishedWrites, e), IdOf) = Append(Image(finishedWrites, IdOf), IdOf[e])
        BY <2>2, ImageAppend
      <4> QED BY <3>1, <4>2, <4>3 DEF Queues
    <3>9. data \in [1 .. Head(AcceptedWrites).len -> WriteBeat]
          /\ pmem' = AXI!Written(pmem, Head(AcceptedWrites), data)
          /\ WrittenIds' = Append(WrittenIds, Head(AcceptedWrites).id)
      BY <3>4, <3>6, <3>7, <3>8
    <3> QED BY <1>1, <3>7, <3>9, Zenon DEF AXI!Commit
  <2> QED BY <2>6, <2>7
<1> QED BY <1>2, <1>3

LEMMA RefineFireB ==
  ASSUME Queues, Queues', AnswerInv, FireB
  PROVE  AXI!TakeB
<1>1. /\ b # {} /\ b' = {}
      /\ finishedWrites' = IF finishedWrites = <<>> THEN <<>> ELSE Tail(finishedWrites)
      /\ UNCHANGED <<pmem, activeWrites, activeReads, r>>
  BY Zenon DEF FireB, readVars
<1>2. finishedWrites # <<>>
  BY <1>1 DEF AnswerInv
<1>3. Image(Tail(finishedWrites), IdOf) = Tail(Image(finishedWrites, IdOf))
  <2>1. finishedWrites \in Seq(Finished)
    BY DEF Queues
  <2> QED BY <1>2, <2>1, ImageTail
<1>4. WrittenIds' = Tail(WrittenIds)
  BY <1>1, <1>2, <1>3 DEF Queues
<1>5. UNCHANGED <<AcceptedWrites, ReadsLeft>>
  BY <1>1 DEF AcceptedWrites, ReadsLeft, LeftOf
<1> QED BY <1>1, <1>4, <1>5, Zenon DEF AXI!TakeB

\* The read RestOf sees.
LEMMA RestIs ==
  ASSUME NEW t \in Live
  PROVE  RestOf[t] = [id |-> t.request.id, rest |-> LeftOf(t)]
  BY DEF RestOf

LEMMA RestSame ==
  ASSUME NEW s \in Live, NEW t \in Live, t.request = s.request, t.data = s.data,
         t.dataPending = s.dataPending
  PROVE  RestOf[t] = RestOf[s]
  BY DEF RestOf, LeftOf

LEMMA RefineFireAR ==
  ASSUME Queues, Queues', ContentInv, FireAR, FullWidth, StraightBursts
  PROVE  AXI!AcceptRead \/ UNCHANGED AXI!vars
<1>1. PICK q \in ReadReq :
        /\ failed' = Check(~Active(q.id), "overlapped pending ARID")
              \cup Check(ReadInBounds(q), "memory read out of bound")
        /\ activeReads' = IF failed' # {} THEN activeReads
                          ELSE Append(activeReads, NewRead(q))
  BY Zenon DEF FireAR, NewRead
<1>2. /\ UNCHANGED <<pmem, activeWrites, finishedWrites, b, r>>
      /\ UNCHANGED <<AcceptedWrites, WrittenIds>>
  <2>1. UNCHANGED <<pmem, activeWrites, finishedWrites, b, r>>
    BY Zenon DEF FireAR, writeVars
  <2> QED BY <2>1 DEF AcceptedWrites, WrittenIds
<1>3. CASE failed' # {}
  <2>1. UNCHANGED ReadsLeft
    BY <1>1, <1>3 DEF ReadsLeft, LeftOf
  <2> QED BY <1>2, <2>1 DEF AXI!vars
<1>4. CASE failed' = {}
  <2>1. ReadInBounds(q)
    BY <1>1, <1>4, Zenon DEF Check
  <2>2. Snapshot(q) \in Seq(ReadBeat) /\ Snapshot(q) = AXI!BeatsOf(pmem, q)
    BY <2>1, SnapshotType, SnapshotIsBeats DEF ContentInv, StraightBursts
  <2>3. PICK new : new = NewRead(q)
    OBVIOUS
  <2>4. /\ new \in Live /\ new.request = q /\ new.data = Snapshot(q) /\ new.dataPending = 0
    BY <2>2, <2>3 DEF NewRead, Live, Read
  <2>5. LeftOf(new) = Snapshot(q)
    BY <2>2, <2>4, SubSeqFull DEF LeftOf
  <2>6. RestOf[new] = [id |-> q.id, rest |-> AXI!BeatsOf(pmem, q)]
    BY <2>2, <2>4, <2>5, RestIs
  <2>7. activeReads' = Append(activeReads, new)
    BY <1>1, <1>4, <2>3
  <2>8. activeReads \in Seq(Live)
    BY DEF Queues
  <2>9. Image(Append(activeReads, new), RestOf) = Append(Image(activeReads, RestOf), RestOf[new])
    BY <2>4, <2>8, ImageAppend
  <2>10. ReadsLeft' = Append(ReadsLeft, [id |-> q.id, rest |-> AXI!BeatsOf(pmem, q)])
    BY <2>6, <2>7, <2>9 DEF Queues
  <2> QED BY <1>2, <2>10, Zenon DEF AXI!AcceptRead
<1> QED BY <1>3, <1>4

LEMMA RefineFireR ==
  ASSUME MemoryInv, ContentInv, Queues, Queues', FireR
  PROVE  AXI!TakeR
<1>0. Shape /\ ReadsInv
  BY DEF MemoryInv
<1>1. PICK beat \in r : activeReads' = IF beat.last THEN Dropped(Sent, Answered) ELSE Sent
  BY Zenon DEF FireR, Answered, Sent, Dropped
<1>2. /\ r # {} /\ r' = {}
      /\ UNCHANGED <<pmem, activeWrites, finishedWrites, b>>
      /\ UNCHANGED <<AcceptedWrites, WrittenIds>>
  <2>1. /\ r' = {} /\ UNCHANGED <<pmem, activeWrites, finishedWrites, b>>
    BY Zenon DEF FireR, writeVars
  <2> QED BY <1>1, <2>1 DEF AcceptedWrites, WrittenIds
<1>3. /\ pendingReadResponses # <<>> /\ Answered \in 1 .. Len(activeReads)
      /\ activeReads[Answered].request.id = Head(pendingReadResponses)
  BY <1>0, AnsweredActive
<1>4. activeReads \in Seq(Live) /\ Len(activeReads) \in Nat
      /\ ReadsLeft = Image(activeReads, RestOf) /\ ReadsLeft' = Image(activeReads', RestOf)
  <2>1. activeReads \in Seq(Live) /\ ReadsLeft = Image(activeReads, RestOf)
    BY DEF Queues
  <2>2. ReadsLeft' = Image(activeReads', RestOf)
    BY DEF Queues, Image, RestOf, Live, Read, LeftOf
  <2> QED BY <2>1, <2>2, LenProperties
<1>5. /\ Sent \in Seq(Live) /\ Len(Sent) = Len(activeReads)
      /\ \A k \in 1 .. Len(activeReads) :
           /\ Sent[k].request = activeReads[k].request /\ Sent[k].data = activeReads[k].data
           /\ Sent[k].dataPending = activeReads[k].dataPending
           /\ Sent[k] \in Live /\ activeReads[k] \in Live
  <2>1. /\ Sent \in Seq(Read(Seq(ReadBeat))) /\ Len(Sent) = Len(activeReads)
        /\ \A k \in 1 .. Len(activeReads) : k # Answered => Sent[k] = activeReads[k]
        /\ LET s == activeReads[Answered]
               t == Sent[Answered]
           IN  /\ t.request = s.request /\ t.data = s.data
               /\ t.dataPending = s.dataPending
    BY <1>3, <1>4, ShapeSent DEF Live
  <2>2. ASSUME NEW k \in 1 .. Len(activeReads)
        PROVE  /\ Sent[k].request = activeReads[k].request /\ Sent[k].data = activeReads[k].data
               /\ Sent[k].dataPending = activeReads[k].dataPending
    BY <2>1
  <2>3. ASSUME NEW k \in 1 .. Len(activeReads)
        PROVE  Sent[k] \in Live /\ activeReads[k] \in Live
    <3>1. activeReads[k] \in Live
      BY <1>4, ElementOfSeq
    <3>2. Sent[k] \in Read(Seq(ReadBeat))
      BY <2>1, ElementOfSeq
    <3> QED BY <3>1, <3>2 DEF Live
  <2> QED BY <2>1, <2>2, <2>3 DEF Live
<1>6. Image(Sent, RestOf) = ReadsLeft
  <2>1. SameImages(Sent, activeReads, RestOf)
    BY <1>5, RestSame DEF SameImages
  <2> QED BY <1>4, <1>5, <2>1, ImageSame
<1>7. /\ Len(ReadsLeft) = Len(activeReads) /\ DOMAIN ReadsLeft = 1 .. Len(activeReads)
      /\ \A k \in 1 .. Len(activeReads) : ReadsLeft[k] = RestOf[activeReads[k]]
  BY <1>4, ImageIs
\* The reads of which every beat has been drawn.
<1>8. ASSUME NEW k \in 1 .. Len(activeReads)
      PROVE  ReadsLeft[k].rest = <<>> <=> k = Answered /\ beat.last
  <2>1. activeReads[k] \in Live /\ ReadsLeft[k].rest = LeftOf(activeReads[k])
    <3>1. activeReads[k] \in Live
      BY <1>4, ElementOfSeq, Zenon
    <3>2. PICK u \in Live : u = activeReads[k]
      BY <3>1
    <3>3. ReadsLeft[k] = RestOf[u]
      BY <1>7, <3>2
    <3>4. ReadsLeft[k].rest = LeftOf(u)
      <4>1. RestOf[u] = [id |-> u.request.id, rest |-> LeftOf(u)]
        BY RestIs
      <4> QED BY <3>3, <4>1
    <3> QED BY <3>1, <3>2, <3>4, Zenon
  <2>2. PICK t \in Live : t = activeReads[k]
    BY <2>1
  <2>3. /\ t.data \in Seq(ReadBeat) /\ Len(t.data) \in Nat /\ t.dataPending \in Nat
        /\ t.dataSending \in Nat
    BY LenProperties DEF Live, Read
  <2>4. /\ t.dataPending <= Len(t.data) /\ t.dataSending < Len(t.data)
        /\ \A i \in 1 .. Len(t.data) : t.data[i].last <=> i = Len(t.data)
    BY <1>0, <2>2 DEF ReadsInv, BeatsCounted, ContentInv, ReadsSound, ReadSound
  <2>5. LeftOf(t) = <<>> <=> t.dataPending = Len(t.data)
    <3>1. \A i \in t.dataPending + 1 .. Len(t.data) : t.data[i] \in ReadBeat
      BY <2>3, ElementOfSeq
    <3>2. /\ LeftOf(t) \in Seq(ReadBeat)
          /\ Len(LeftOf(t)) = IF t.dataPending + 1 <= Len(t.data)
                              THEN Len(t.data) - (t.dataPending + 1) + 1 ELSE 0
      BY <2>3, <3>1, SubSeqProperties DEF LeftOf
    <3>3. LeftOf(t) = <<>> <=> Len(LeftOf(t)) = 0
      BY <3>2, EmptySeq
    <3> QED BY <2>3, <2>4, <3>2, <3>3
  <2>6. CASE k # Answered
    <3>1. t.request.id # Head(pendingReadResponses)
      BY <1>0, <1>3, <2>2, <2>6 DEF ReadsInv, DistinctIds
    <3>2. t.dataPending = t.dataSending
      BY <1>0, <2>2, <3>1 DEF ReadsInv, BeatsCounted, Offered
    <3> QED BY <2>1, <2>2, <2>3, <2>4, <2>5, <2>6, <3>2
  <2>7. CASE k = Answered
    <3>1. PICK j \in 1 .. Len(activeReads) :
            /\ activeReads[j].request.id = Head(pendingReadResponses)
            /\ activeReads[j].dataPending >= 1
            /\ beat = activeReads[j].data[activeReads[j].dataPending]
      BY DEF ContentInv, OnOffer, Offered
    <3>2. j = Answered
      BY <1>0, <1>3, <3>1 DEF ReadsInv, DistinctIds
    <3>3. beat = t.data[t.dataPending] /\ t.dataPending >= 1
      BY <2>2, <2>7, <3>1, <3>2
    <3>4. t.dataPending \in 1 .. Len(t.data)
      BY <2>3, <2>4, <3>3
    <3>5. beat.last <=> t.dataPending = Len(t.data)
      BY <2>4, <3>3, <3>4
    <3> QED BY <2>1, <2>2, <2>5, <2>7, <3>5
  <2> QED BY <2>6, <2>7
<1>9. CASE ~beat.last
  <2>1. UNCHANGED ReadsLeft
    BY <1>1, <1>4, <1>6, <1>9
  <2>2. {k \in DOMAIN ReadsLeft : ReadsLeft[k].rest = <<>>} = {}
    BY <1>7, <1>8, <1>9
  <2> QED BY <1>2, <2>1, <2>2, Zenon DEF AXI!TakeR
<1>10. CASE beat.last
  <2>1. ReadsLeft' = Dropped(ReadsLeft, Answered)
    <3>1. Image(Dropped(Sent, Answered), RestOf) = Dropped(Image(Sent, RestOf), Answered)
      BY <1>3, <1>5, ImageDropped
    <3> QED BY <1>1, <1>4, <1>6, <1>10, <3>1
  <2>2. Answered \in {k \in DOMAIN ReadsLeft : ReadsLeft[k].rest = <<>>}
    BY <1>3, <1>7, <1>8, <1>10
  <2> QED BY <1>2, <2>1, <2>2, Zenon DEF AXI!TakeR, Dropped
<1> QED BY <1>9, <1>10

LEMMA RefineUpdate ==
  ASSUME MemoryInv, ContentInv, Queues, Queues', Update
  PROVE  AXI!Offer
<1>0. Shape /\ ReadsInv
  BY DEF MemoryInv
<1>1. /\ finishedWrites' = Aged(finishedWrites, memoryWriteLatency)
      /\ SendB /\ SendR(Aged(activeReads, memoryReadLatency))
      /\ UNCHANGED <<pmem, activeWrites>>
  BY Zenon DEF Update
<1>2. UNCHANGED AcceptedWrites
  BY <1>1 DEF AcceptedWrites
<1>3. activeReads \in Seq(Live) /\ finishedWrites \in Seq(Finished) /\ Len(activeReads) \in Nat
      /\ finishedWrites' \in Seq(Finished)
      /\ ReadsLeft = Image(activeReads, RestOf) /\ WrittenIds = Image(finishedWrites, IdOf)
      /\ ReadsLeft' = Image(activeReads', RestOf) /\ WrittenIds' = Image(finishedWrites', IdOf)
  <2>1. activeReads \in Seq(Live) /\ finishedWrites \in Seq(Finished)
        /\ ReadsLeft = Image(activeReads, RestOf) /\ WrittenIds = Image(finishedWrites, IdOf)
    BY DEF Queues
  <2>2. ReadsLeft' = Image(activeReads', RestOf)
    BY DEF Queues, Image, RestOf, Live, Read, LeftOf
  <2>3. WrittenIds' = Image(finishedWrites', IdOf) /\ finishedWrites' \in Seq(Finished)
    BY DEF Queues, Image, IdOf, Finished
  <2> QED BY <2>1, <2>2, <2>3, LenProperties
<1>4. UNCHANGED WrittenIds
  <2>1. /\ Len(finishedWrites') = Len(finishedWrites)
        /\ \A k \in 1 .. Len(finishedWrites) : finishedWrites'[k].id = finishedWrites[k].id
    BY <1>1, <1>3, AgedFinished, LatencyAssumption
  <2>2. ASSUME NEW k \in 1 .. Len(finishedWrites)
        PROVE  IdOf[finishedWrites'[k]] = IdOf[finishedWrites[k]]
    <3>1. finishedWrites'[k] \in Finished /\ finishedWrites[k] \in Finished
      BY <1>3, <2>1, ElementOfSeq
    <3> QED BY <2>1, <3>1 DEF IdOf
  <2>3. SameImages(finishedWrites', finishedWrites, IdOf)
    BY <2>1, <2>2 DEF SameImages
  <2> QED BY <1>3, <2>3, ImageSame
\* The acknowledgement on offer stays: it was due, and the first write is the same.
<1>5. AXI!OfferB \/ UNCHANGED b
  <2>1. b' = IF finishedWrites # <<>> /\ Head(finishedWrites).age >= memoryWriteLatency
             THEN {Head(finishedWrites).id} ELSE {}
    BY <1>1, Zenon DEF SendB
  <2>2. CASE b # {}
    <3>1. finishedWrites # <<>> /\ b = {finishedWrites[1].id}
          /\ finishedWrites[1].age >= memoryWriteLatency
      BY <2>2 DEF ContentInv, OnOffer
    <3>2. Head(finishedWrites) = finishedWrites[1]
      BY <1>3, <3>1
    <3> QED BY <2>1, <3>1, <3>2
  <2>3. CASE b = {} /\ b' # {}
    <3>1. finishedWrites # <<>> /\ b' = {Head(finishedWrites).id}
      BY <2>1, <2>3
    <3>2. WrittenIds # <<>> /\ Head(WrittenIds) = IdOf[Head(finishedWrites)]
      BY <1>3, <3>1, ImageTail
    <3>3. Head(finishedWrites) \in Finished
      BY <1>3, <3>1, HeadTailProperties
    <3>4. Head(WrittenIds) = Head(finishedWrites).id
      BY <3>2, <3>3 DEF IdOf
    <3> QED BY <2>3, <3>1, <3>2, <3>4, Zenon DEF AXI!OfferB
  <2> QED BY <2>2, <2>3
<1>6. PICK reads : reads = Aged(activeReads, memoryReadLatency)
  OBVIOUS
<1>7. /\ reads \in Seq(Live) /\ Len(reads) = Len(activeReads)
      /\ DOMAIN reads = 1 .. Len(activeReads)
      /\ \A k \in 1 .. Len(activeReads) :
           /\ reads[k].request = activeReads[k].request /\ reads[k].data = activeReads[k].data
           /\ reads[k].dataPending = activeReads[k].dataPending
           /\ reads[k] \in Live /\ activeReads[k] \in Live
  <2>1. /\ reads \in Seq(Live) /\ Len(reads) = Len(activeReads)
        /\ \A k \in DOMAIN activeReads :
             /\ reads[k].request = activeReads[k].request /\ reads[k].data = activeReads[k].data
             /\ reads[k].dataPending = activeReads[k].dataPending
    BY <1>3, <1>6, AgedReads, LatencyAssumption DEF Live
  <2>2. DOMAIN reads = 1 .. Len(activeReads) /\ DOMAIN activeReads = 1 .. Len(activeReads)
    BY <1>3, <2>1, LenProperties
  <2>3. \A k \in 1 .. Len(activeReads) : reads[k] \in Live /\ activeReads[k] \in Live
    BY <1>3, <2>1, ElementOfSeq
  <2> QED BY <2>1, <2>2, <2>3
<1>8. Image(reads, RestOf) = ReadsLeft
  <2>1. SameImages(reads, activeReads, RestOf)
    BY <1>7, RestSame DEF SameImages
  <2> QED BY <1>3, <1>7, <2>1, ImageSame
<1>9. \/ activeReads' = reads /\ r' = r
      \/ \E k \in DOMAIN reads :
           /\ r = {} /\ Due(k) /\ Offers(k, reads)
           /\ memoryOOOR \/ \A j \in 1 .. k - 1 : ~Due(j)
  BY <1>1, <1>6, Zenon DEF SendR, Holds
<1>10. CASE activeReads' = reads /\ r' = r
  <2>1. UNCHANGED <<r, ReadsLeft>>
    BY <1>3, <1>8, <1>10
  <2> QED BY <1>1, <1>2, <1>4, <1>5, <2>1, Zenon DEF AXI!Offer
<1>11. ASSUME NEW k \in DOMAIN reads, r = {}, Due(k), Offers(k, reads),
              memoryOOOR \/ \A j \in 1 .. k - 1 : ~Due(j)
       PROVE  AXI!OfferR(k) /\ k \in DOMAIN ReadsLeft
  <2>1. k \in 1 .. Len(activeReads)
    BY <1>7
  <2>2. PICK s \in Live : s = reads[k]
    BY <1>7, <2>1
  <2>3. /\ s.data \in Seq(ReadBeat) /\ Len(s.data) \in Nat /\ s.dataPending \in Nat
        /\ s.dataPending < Len(s.data)
    <3>1. s.data \in Seq(ReadBeat) /\ s.dataPending \in Nat
      BY DEF Live, Read
    <3>2. s.dataPending < Len(s.data)
      BY <1>7, <1>11, <2>1, <2>2 DEF Due
    <3> QED BY <3>1, <3>2, LenProperties
  <2>4. PICK t : t = [s EXCEPT !.dataPending = s.dataPending + 1]
    OBVIOUS
  <2>5. /\ t \in Live /\ t.request = s.request /\ t.data = s.data
        /\ t.dataPending = s.dataPending + 1
    <3>1. s.dataPending + 1 \in Nat
      BY <2>3
    <3> QED BY <2>4, <3>1 DEF Live, Read
  <2>6. activeReads' = [reads EXCEPT ![k] = t] /\ r' = {s.data[s.dataPending + 1]}
    BY <1>11, <2>2, <2>4, Zenon DEF Offers
  \* The image of the read: its first beat goes.
  <2>7. /\ ReadsLeft[k] = [id |-> s.request.id, rest |-> LeftOf(s)]
        /\ RestOf[t] = [id |-> s.request.id, rest |-> LeftOf(t)]
        /\ k \in DOMAIN ReadsLeft
    <3>1. Image(reads, RestOf)[k] = RestOf[reads[k]] /\ k \in DOMAIN Image(reads, RestOf)
      BY <1>7, <2>1, ImageIs
    <3> QED BY <1>8, <2>2, <2>5, <3>1, RestIs
  <2>8. /\ LeftOf(s) # <<>> /\ Head(LeftOf(s)) = s.data[s.dataPending + 1]
        /\ LeftOf(t) = Tail(LeftOf(s))
    <3>1. s.dataPending + 1 \in 1 .. Len(s.data)
          /\ Len(s.data) \in s.dataPending + 1 .. Len(s.data)
      BY <2>3
    <3>2. /\ Head(LeftOf(s)) = s.data[s.dataPending + 1]
          /\ Tail(LeftOf(s)) = SubSeq(s.data, (s.dataPending + 1) + 1, Len(s.data))
      BY <2>3, <3>1, HeadTailOfSubSeq DEF LeftOf
    <3>3. LeftOf(s) # <<>>
      <4>1. \A i \in s.dataPending + 1 .. Len(s.data) : s.data[i] \in ReadBeat
        BY <2>3, ElementOfSeq
      <4>2. Len(LeftOf(s)) = Len(s.data) - (s.dataPending + 1) + 1
        BY <2>3, <4>1, SubSeqProperties DEF LeftOf
      <4> QED BY <2>3, <4>2, EmptySeq
    <3> QED BY <2>5, <3>2, <3>3 DEF LeftOf
  <2>9. ReadsLeft' = [ReadsLeft EXCEPT ![k] = RestOf[t]]
    <3>1. k \in 1 .. Len(reads) /\ reads \in Seq(Live)
      BY <1>7, <2>1
    <3>2. Image([reads EXCEPT ![k] = t], RestOf) = [Image(reads, RestOf) EXCEPT ![k] = RestOf[t]]
      BY <2>5, <3>1, ImageExcept
    <3> QED BY <1>3, <1>8, <2>6, <3>2
  <2>10. ReadsLeft' = [ReadsLeft EXCEPT ![k].rest = Tail(@)]
    <3>1. PICK h : h = ReadsLeft[k]
      OBVIOUS
    <3>2. h = [id |-> s.request.id, rest |-> LeftOf(s)] /\ h.rest = LeftOf(s)
      BY <2>7, <3>1
    <3>3. PICK u : u = Tail(LeftOf(s))
      OBVIOUS
    <3>4. [h EXCEPT !.rest = u] = [id |-> s.request.id, rest |-> u]
      BY <3>2
    <3>5. RestOf[t] = [h EXCEPT !.rest = Tail(h.rest)]
      BY <2>7, <2>8, <3>2, <3>3, <3>4
    <3> QED BY <2>9, <3>1, <3>5
  \* In order, every read before it would be due as well.
  <2>11. ~memoryOOOR => k = 1
    <3> SUFFICES ASSUME ~memoryOOOR, k # 1 PROVE FALSE
      OBVIOUS
    <3>1. 1 \in 1 .. k - 1 /\ 1 \in 1 .. Len(activeReads)
      BY <1>3, <2>1
    <3>2. ~Due(1)
      BY <1>11, <3>1
    <3>3. activeReads[k].age <= activeReads[1].age
      BY <2>1, <3>1 DEF ContentInv, AgesOrdered
    <3>4. activeReads[k].age >= memoryReadLatency
      BY <1>11 DEF Due
    <3>5. activeReads[1].dataPending < Len(activeReads[1].data)
      <4>1. activeReads[1].dataPending = activeReads[1].dataSending
        BY <1>0, <1>11, <3>1 DEF ReadsInv, BeatsCounted, Offered
      <4>2. activeReads[1].dataSending < Len(activeReads[1].data)
        BY <3>1 DEF ContentInv, ReadsSound, ReadSound
      <4> QED BY <4>1, <4>2
    <3>6. activeReads[1].age \in Nat /\ activeReads[k].age \in Nat
      BY <1>7, <2>1, <3>1 DEF Live, Read
    <3> QED BY <3>2, <3>3, <3>4, <3>5, <3>6, LatencyAssumption DEF Due
  <2>12. ReadsLeft[k].rest # <<>> /\ r' = {Head(ReadsLeft[k].rest)}
    BY <2>6, <2>7, <2>8
  <2> QED BY <1>11, <2>7, <2>10, <2>11, <2>12, Zenon DEF AXI!OfferR
<1>12. CASE \E k \in DOMAIN reads :
              /\ r = {} /\ Due(k) /\ Offers(k, reads)
              /\ memoryOOOR \/ \A j \in 1 .. k - 1 : ~Due(j)
  <2>1. \E k \in DOMAIN ReadsLeft : AXI!OfferR(k)
    BY <1>11, <1>12
  <2> QED BY <1>1, <1>2, <1>4, <1>5, <2>1, Zenon DEF AXI!Offer
<1> QED BY <1>9, <1>10, <1>12

LEMMA RefineStep ==
  ASSUME MemoryInv, ContentInv, MemoryInv', ContentInv', [Next]_vars,
         RequestsInBounds, FullWidth, StraightBursts
  PROVE  [AXI!Next]_(AXI!vars)
<1>1. Queues /\ Queues' /\ AnswerInv
  <2>1. MemoryInv' /\ ContentInv' => Queues'
    BY QueuesSeen, PTL
  <2> QED BY <2>1, QueuesSeen DEF MemoryInv
<1>2. CASE Next
  BY <1>1, <1>2, RefineFireAW, RefineFireW, RefineFireB, RefineFireAR, RefineFireR,
     RefineUpdate DEF Next, AXI!Next
<1>3. CASE UNCHANGED vars
  BY <1>3 DEF vars, writeVars, readVars, AXI!vars, AcceptedWrites, WrittenIds, ReadsLeft, LeftOf
<1> QED BY <1>2, <1>3

\* The agent implements the memory AXIMemory specifies: a burst, written beat by
\* beat and committed by its last one, changes the bytes the AXI address
\* equations name, each to what the last beat that strobes it carries; a read
\* returns the bytes of its burst as they were when it was accepted; beats and
\* acknowledgements come in order and stay on offer until they are taken.  The
\* requests stay inside the memory, reads are of the bus's width, and a burst
\* that wraps starts at its lower boundary: the code does not wrap another.
THEOREM ImplementsAXIMemory ==
  ASSUME RequestsInBounds, FullWidth, StraightBursts
  PROVE  Spec => IsAXIMemory
<1>1. (MemoryInv /\ ContentInv) /\ (MemoryInv /\ ContentInv)' /\ [Next]_vars
        => [AXI!Next]_(AXI!vars)
  BY RefineStep
<1> QED BY <1>1, RefineInit, ContentHolds, PTL DEF Spec, IsAXIMemory, AXI!Spec
=============================================================================
