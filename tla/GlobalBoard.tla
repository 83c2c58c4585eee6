---------------------------- MODULE GlobalBoard ----------------------------
(***************************************************************************)
(* The global scoreboard (ScoreBoard.h): what the tester believes a block  *)
(* holds.  The operators act on one block's entry; an entry is             *)
(*   status "NONE"    no key in the board: the block is all zero           *)
(*          "VALID"   data is the block's value                            *)
(*          "PENDING" a ReleaseData or Put not yet acknowledged: data is   *)
(*                    the old value (nullptr when there was none), pending *)
(*                    the new one.                                         *)
(* A shared_ptr is a set of at most one value, {} being nullptr.           *)
(* memoryAlt is NoAlt, or the life of the block's memory alternative: how  *)
(* many cbo.inval of it are in flight.                                     *)
(***************************************************************************)
EXTENDS Integers

CONSTANTS Data,     \* values of a cache line
          Zero      \* the all-zero line

ASSUME DataAssumption == Zero \in Data

Entry == [status : {"NONE", "VALID", "PENDING"},
          data : SUBSET Data, pending : SUBSET Data]

NoEntry == [status |-> "NONE", data |-> {}, pending |-> {}]

HasKey(e) == e.status # "NONE"

\* Entry written by a fired ReleaseData.
Released(e, d) == [status |-> "PENDING", data |-> e.data, pending |-> {d}]

\* Entry written by a fired ProbeAckData.
ProbeWritten(d) == [status |-> "VALID", data |-> {d}, pending |-> {}]

\* Mutants: the old value becomes valid; the entry stays pending.
UnpendingOld(e) ==
  IF e.pending = {} THEN e
  ELSE [status |-> "VALID", data |-> e.data, pending |-> {}]
UnpendingNever(e) == e

Unpending(e) ==
  IF e.pending = {} THEN e
  ELSE [status |-> "VALID", data |-> e.pending, pending |-> {}]

\* Mutant: nothing is overridden.
SyncedNever(e, memory) == e

\* Strict mode: a cbo.inval overrides a valid entry with the memory's value.
Synced(e, memory) == IF e.status = "VALID" THEN [e EXCEPT !.data = {memory}] ELSE e

NoAlt == -1
MemoryAlt == Nat \cup {NoAlt}

\* Mutants: the life restarts at one; a touch consumes a life.
GrantMemoryAltOnce(alt) == 1
TouchMemoryAltConsume(alt) == alt - 1

GrantMemoryAlt(alt) == IF alt = NoAlt THEN 1 ELSE alt + 1
TouchMemoryAlt(alt) == IF alt = 0 THEN NoAlt ELSE alt
ReclaimMemoryAlt(alt) == IF alt = NoAlt THEN NoAlt ELSE alt - 1

\* Values verify() lets a GrantData of the block carry.
Accepted(e, alt, memory) ==
  LET orZero == IF e.data = {} THEN {Zero} ELSE e.data
  IN  CASE e.status = "NONE" -> {Zero}
        [] e.status = "VALID" -> e.data \cup (IF alt = NoAlt THEN {} ELSE {memory})
        [] OTHER -> orZero \cup e.pending \cup (IF alt = NoAlt THEN {} ELSE {memory})
=============================================================================
