----------------------------- MODULE TLMessages -----------------------------
(***************************************************************************)
(* The vocabulary of the TL-C agents: statuses, permissions, parameters    *)
(* (BaseAgent.h, TLEnum.hpp) and the status transitions of CAgent.cpp as   *)
(* pure operators, one per handler.  Each handler accepts some statuses    *)
(* and asserts on the others: the accepting set stands beside the map.     *)
(***************************************************************************)

CBOOp == {"CBOClean", "CBOFlush", "CBOInval"}
AcquireOp == {"AcquireBlock", "AcquirePerm"}
ReleaseOp == {"Release", "ReleaseData"}
ProbeAckOp == {"ProbeAck", "ProbeAckData"}

TLPermission == {"INVALID", "BRANCH", "TIP"}
TLParamAcquire == {"NtoB", "NtoT", "BtoT"}
TLParamProbe == {"toT", "toB", "toN"}
TLPermDemotion == {"TtoB", "TtoN", "BtoN", "TtoT", "BtoB", "NtoN"}

Status == {"S_INVALID", "S_VALID", "S_SENDING_A", "S_SENDING_C",
           "S_SENDING_A_NESTED_SENDING_C", "S_A_WAITING_D_NESTED_SENDING_C",
           "S_C_WAITING_D", "S_A_WAITING_D", "S_A_WAITING_D_INTR",
           "S_SENDING_E", "S_CBO_SENDING_A", "S_CBO_A_WAITING_D",
           "S_CBO_SENDING_A_NESTED_SENDING_C",
           "S_CBO_SENDING_A_NESTED_C_WAITING_D",
           "S_CBO_A_WAITING_D_NESTED_SENDING_C",
           "S_CBO_A_WAITING_D_NESTED_C_WAITING_D"}

Idle == {"S_VALID", "S_INVALID"}

\* A Release or a ProbeAck of the block is presented on channel C.
SendingC == {"S_SENDING_C", "S_CBO_SENDING_A_NESTED_SENDING_C",
             "S_CBO_A_WAITING_D_NESTED_SENDING_C"}

\* A Release has left, its ReleaseAck has not arrived.
AwaitingReleaseAck == {"S_C_WAITING_D", "S_CBO_SENDING_A_NESTED_C_WAITING_D",
                       "S_CBO_A_WAITING_D_NESTED_C_WAITING_D"}

CBOSending == {"S_CBO_SENDING_A", "S_CBO_SENDING_A_NESTED_SENDING_C",
               "S_CBO_SENDING_A_NESTED_C_WAITING_D"}

CBOAwaitingD == {"S_CBO_A_WAITING_D", "S_CBO_A_WAITING_D_NESTED_SENDING_C",
                 "S_CBO_A_WAITING_D_NESTED_C_WAITING_D"}

-----------------------------------------------------------------------------
(* Parameters *)

\* Mutant: TtoB shrinks nothing.
ShrinkNotToB(param) ==
  CASE param \in {"TtoT", "TtoB"} -> "TIP"
    [] param = "BtoB" -> "BRANCH"
    [] OTHER -> "INVALID"

ShrinkGenPriv(param) ==
  CASE param = "TtoT" -> "TIP"
    [] param \in {"BtoB", "TtoB"} -> "BRANCH"
    [] OTHER -> "INVALID"

\* Mutant: a BRANCH gives nothing up.
ProbeAckBranchLost(probe, perm) ==
  CASE perm = "INVALID" -> "NtoN"
    [] perm = "BRANCH" -> IF probe = "toN" THEN "NtoN" ELSE "BtoB"
    [] OTHER -> CASE probe = "toT" -> "TtoT"
                  [] probe = "toB" -> "TtoB"
                  [] OTHER -> "TtoN"

\* The probe's answer for a block the agent holds with a permission.
ProbeAckParam(probe, perm) ==
  CASE perm = "INVALID" -> "NtoN"
    [] perm = "BRANCH" -> IF probe = "toN" THEN "BtoN" ELSE "BtoB"
    [] OTHER -> CASE probe = "toT" -> "TtoT"
                  [] probe = "toB" -> "TtoB"
                  [] OTHER -> "TtoN"

-----------------------------------------------------------------------------
(* send_a and fire_a *)

AcquireSendable == Idle \cup
  {"S_SENDING_C", "S_SENDING_A", "S_SENDING_A_NESTED_SENDING_C"}

AfterSendAcquire(s) ==
  IF s \in {"S_SENDING_C", "S_SENDING_A_NESTED_SENDING_C"}
  THEN "S_SENDING_A_NESTED_SENDING_C"
  ELSE "S_SENDING_A"

CBOSendable == Idle \cup CBOSending \cup {"S_SENDING_C", "S_C_WAITING_D"}

AfterSendCBO(s) ==
  CASE s \in Idle -> "S_CBO_SENDING_A"
    [] s = "S_SENDING_C" -> "S_CBO_SENDING_A_NESTED_SENDING_C"
    [] s = "S_C_WAITING_D" -> "S_CBO_SENDING_A_NESTED_C_WAITING_D"
    [] OTHER -> s

AcquireFirable == {"S_SENDING_A", "S_SENDING_A_NESTED_SENDING_C"}

AfterFireAcquire(s) ==
  IF s = "S_SENDING_A" THEN "S_A_WAITING_D"
  ELSE "S_A_WAITING_D_NESTED_SENDING_C"

AfterFireCBO(s) ==
  CASE s = "S_CBO_SENDING_A_NESTED_SENDING_C" -> "S_CBO_A_WAITING_D_NESTED_SENDING_C"
    [] s = "S_CBO_SENDING_A_NESTED_C_WAITING_D" -> "S_CBO_A_WAITING_D_NESTED_C_WAITING_D"
    [] OTHER -> "S_CBO_A_WAITING_D"

-----------------------------------------------------------------------------
(* send_c and fire_c *)

AfterSendRelease(s) ==
  CASE s \in {"S_CBO_SENDING_A", "S_CBO_SENDING_A_NESTED_SENDING_C"}
         -> "S_CBO_SENDING_A_NESTED_SENDING_C"
    [] s \in {"S_CBO_A_WAITING_D", "S_CBO_A_WAITING_D_NESTED_SENDING_C"}
         -> "S_CBO_A_WAITING_D_NESTED_SENDING_C"
    [] OTHER -> "S_SENDING_C"

ProbeAckSendable == Idle \cup SendingC \cup
  {"S_CBO_SENDING_A", "S_CBO_A_WAITING_D",
   "S_SENDING_A", "S_A_WAITING_D", "S_SENDING_A_NESTED_SENDING_C"}

\* A data-less ProbeAck on a waiting Acquire marks it interrupted, a
\* ProbeAckData marks it nested; both are presented again every cycle.
AfterSendProbeAck(op, s) ==
  CASE s \in {"S_SENDING_A", "S_SENDING_A_NESTED_SENDING_C"}
         -> "S_SENDING_A_NESTED_SENDING_C"
    [] s = "S_A_WAITING_D"
         -> IF op = "ProbeAck" THEN "S_A_WAITING_D_INTR"
            ELSE "S_A_WAITING_D_NESTED_SENDING_C"
    [] OTHER -> AfterSendRelease(s)

ReleaseFirable == SendingC

AfterFireRelease(s) ==
  CASE s = "S_SENDING_C" -> "S_C_WAITING_D"
    [] s = "S_CBO_SENDING_A_NESTED_SENDING_C" -> "S_CBO_SENDING_A_NESTED_C_WAITING_D"
    [] OTHER -> "S_CBO_A_WAITING_D_NESTED_C_WAITING_D"

ProbeAckFirable == SendingC \cup
  {"S_A_WAITING_D_INTR", "S_A_WAITING_D", "S_CBO_A_WAITING_D",
   "S_SENDING_A_NESTED_SENDING_C", "S_A_WAITING_D_NESTED_SENDING_C"}

AfterFireProbeAck(s, param) ==
  CASE s = "S_CBO_SENDING_A_NESTED_SENDING_C" -> "S_CBO_SENDING_A"
    [] s \in {"S_CBO_A_WAITING_D", "S_CBO_A_WAITING_D_NESTED_SENDING_C"}
         -> "S_CBO_A_WAITING_D"
    [] s = "S_SENDING_A_NESTED_SENDING_C" -> "S_SENDING_A"
    [] s = "S_SENDING_C"
         -> IF param \in {"TtoB", "BtoB", "TtoT"} THEN "S_VALID" ELSE "S_INVALID"
    [] OTHER -> "S_A_WAITING_D"

-----------------------------------------------------------------------------
(* fire_d *)

\* Mutant: the two nested chains swapped.
AfterReleaseAckSwapped(s) ==
  CASE s = "S_C_WAITING_D" -> "S_INVALID"
    [] s = "S_CBO_SENDING_A_NESTED_C_WAITING_D" -> "S_CBO_A_WAITING_D"
    [] OTHER -> "S_CBO_SENDING_A"

AfterReleaseAck(s) ==
  CASE s = "S_C_WAITING_D" -> "S_INVALID"
    [] s = "S_CBO_SENDING_A_NESTED_C_WAITING_D" -> "S_CBO_SENDING_A"
    [] OTHER -> "S_CBO_A_WAITING_D"

\* cbo.clean restores S_VALID for a BRANCH block only; cbo.flush and cbo.inval
\* never leave a valid block.
AfterCBOAck(op, s, perm) ==
  CASE s = "S_CBO_A_WAITING_D_NESTED_SENDING_C" -> "S_SENDING_C"
    [] s = "S_CBO_A_WAITING_D_NESTED_C_WAITING_D" -> "S_C_WAITING_D"
    [] OTHER -> IF op = "CBOClean" /\ perm = "BRANCH" THEN "S_VALID" ELSE "S_INVALID"
=============================================================================
