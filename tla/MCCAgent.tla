------------------------------ MODULE MCCAgent ------------------------------
(***************************************************************************)
(* CAgent on small instances: the .cfg files choose the cores, blocks,     *)
(* aliases, ids, operations and what the device may do.  The properties    *)
(* here single out one assertion each, for the runs in which the device    *)
(* may do something legal the agents do not survive.                       *)
(***************************************************************************)
EXTENDS CAgent

Reads == {"AcquireBlock", "Release"}
Acquires == Reads \cup {"AcquirePerm"}
Cleans == {"AcquireBlock", "CBOClean"}
Invals == Reads \cup {"CBOInval"}
CMOs == Reads \cup CBOOp
Flushes == Reads \cup {"CBOFlush"}
AllOps == Acquires \cup CBOOp

\* A ProbeAck may wait on channel C: send_c takes the status its own first
\* presentation left.
ProbeAckMayWait == "send_c status" \notin failed

\* A block the tester has marked S_INVALID is not held TIP: no Acquire is issued
\* for a block the agent still owns ("Acquire happened on T block", handle_b).
NoAcquireOnT == "Acquire on T block" \notin failed

\* Data are reported as mismatched only when the device is wrong (verify).
MismatchIsReal == "data mismatch" \notin failed

\* Every answer on D finds the time stamp of its request (map_latency).
StampFound == "inflight time count" \notin failed

\* handle_b finds data to answer a probe with, as verify() does.
ProbeFindsData == "null data of a pending block" \notin failed
=============================================================================
