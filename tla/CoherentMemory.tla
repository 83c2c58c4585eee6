--------------------------- MODULE CoherentMemory ---------------------------
(***************************************************************************)
(* What caches promise together: at any time a block has either one writer *)
(* or any number of readers, it changes only by the hand of its writer,    *)
(* and what it held is given up for what memory holds only when nobody     *)
(* has it.  The agents of CAgent.tla implement it, aliases, identifiers,   *)
(* message beats and probes in flight hidden.                              *)
(***************************************************************************)
CONSTANTS Cache, Addr, Data, Zero

VARIABLES
  perm,     \* [Cache -> [Addr -> Permission]]
  value,    \* [Addr -> Data]: what a reader sees
  memory    \* [Addr -> Data]: what is behind the caches

vars == <<perm, value, memory>>

Permission == {"INVALID", "BRANCH", "TIP"}

\* What a cache may keep of what it has.
AtMost(p) ==
  CASE p = "TIP" -> Permission
    [] p = "BRANCH" -> {"INVALID", "BRANCH"}
    [] OTHER -> {"INVALID"}

Init ==
  /\ perm = [c \in Cache |-> [a \in Addr |-> "INVALID"]]
  /\ value = [a \in Addr |-> Zero]
  /\ memory = [a \in Addr |-> Zero]

\* A cache obtains a copy, or permission to write the one it has.
Acquire(c, a, p) ==
  /\ perm[c][a] # "TIP"
  /\ p # "INVALID"
  /\ \A d \in Cache \ {c} :
       perm[d][a] # "INVALID" => perm[d][a] = "BRANCH" /\ p = "BRANCH"
  /\ perm' = [perm EXCEPT ![c][a] = p]
  /\ UNCHANGED <<value, memory>>

\* A cache gives up some of what it has.
Shrink(c, a, p) ==
  /\ p \in AtMost(perm[c][a])
  /\ perm' = [perm EXCEPT ![c][a] = p]
  /\ UNCHANGED <<value, memory>>

\* The writer hands over what it has written and keeps p.
Write(c, a, p, v) ==
  /\ perm[c][a] = "TIP"
  /\ perm' = [perm EXCEPT ![c][a] = p]
  /\ value' = [value EXCEPT ![a] = v]
  /\ UNCHANGED memory

\* The block is written back to memory.
Clean(a) ==
  /\ memory' = [memory EXCEPT ![a] = value[a]]
  /\ UNCHANGED <<perm, value>>

\* The block is given up for what memory holds.
Invalidate(a) ==
  /\ \A c \in Cache : perm[c][a] = "INVALID"
  /\ value' = [value EXCEPT ![a] = memory[a]]
  /\ UNCHANGED <<perm, memory>>

Next ==
  \E a \in Addr :
    \/ Clean(a) \/ Invalidate(a)
    \/ \E c \in Cache, p \in Permission :
         Acquire(c, a, p) \/ Shrink(c, a, p) \/ \E v \in Data : Write(c, a, p, v)

Spec == Init /\ [][Next]_vars
=============================================================================
