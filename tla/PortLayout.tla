----------------------------- MODULE PortLayout -----------------------------
(***************************************************************************)
(* Which port of which agent the code generated by portgen_static.cpp      *)
(* connects to which pins of the verilated device, and which agent         *)
(* TLSequencer::Initialize puts behind a port: both number the ports, each *)
(* in its own way.  n is the number of cores, u that of TL-UL ports of a   *)
(* core, c that of TL-C ports.                                             *)
(***************************************************************************)
EXTENDS Integers, FiniteSets, Sequences
LOCAL INSTANCE SequencesExt

Master(kind, core, index) == [kind |-> kind, core |-> core, index |-> index]

\* Initialize counts deviceId up, core by core, TL-C before TL-UL.
Agents(n, c, u) ==
  FlattenSeq([j \in 1 .. n |->
    [k \in 1 .. c + u |-> IF k <= c THEN Master("C", j - 1, k - 1)
                                    ELSE Master("UL", j - 1, k - c - 1)]])
Agent(deviceId, n, c, u) == Agents(n, c, u)[deviceId + 1]

-----------------------------------------------------------------------------
(* portgen_static.cpp: a connection is between a field of port deviceId and *)
(* the pin of that field of a master.                                       *)

MasterPorts(n, u) == {[deviceId |-> i * (1 + u), pins |-> Master("C", i, 0)] : i \in 0 .. n - 1}
MasterULPorts(n, u) ==
  {[deviceId |-> i * (1 + u) + 1 + j, pins |-> Master("UL", i, j)] :
     i \in 0 .. n - 1, j \in 0 .. u - 1}

Connect(ports, channel, fields) ==
  {[deviceId |-> p.deviceId, pins |-> p.pins, channel |-> channel, field |-> f] :
     p \in ports, f \in fields}

PushChannelA(n, u) == Connect(MasterPorts(n, u) \cup MasterULPorts(n, u), "A", {"ready"})
PullChannelA(n, u) ==
  LET fields == {"valid", "opcode", "param", "size", "source", "address", "mask", "data"}
  IN  Connect(MasterPorts(n, u), "A", fields \cup {"alias"})
      \cup Connect(MasterULPorts(n, u), "A", fields)

PushChannelB(n, u) ==
  Connect(MasterPorts(n, u), "B",
          {"valid", "opcode", "param", "size", "source", "address", "alias"})
PullChannelB(n, u) == Connect(MasterPorts(n, u), "B", {"ready"})

PushChannelC(n, u) == Connect(MasterPorts(n, u), "C", {"ready"})
\* The pin for the alias is held at 0.
PullChannelC(n, u) ==
  Connect(MasterPorts(n, u), "C",
          {"valid", "opcode", "param", "size", "source", "address", "data"})

PushChannelD(n, u) ==
  Connect(MasterPorts(n, u) \cup MasterULPorts(n, u), "D",
          {"valid", "opcode", "param", "size", "source", "sink", "denied", "data", "corrupt"})
PullChannelD(n, u) == Connect(MasterPorts(n, u) \cup MasterULPorts(n, u), "D", {"ready"})

PushChannelE(n, u) == Connect(MasterPorts(n, u), "E", {"ready"})
PullChannelE(n, u) == Connect(MasterPorts(n, u), "E", {"valid", "sink"})

Pushed(n, u) ==
  UNION {PushChannelA(n, u), PushChannelB(n, u), PushChannelC(n, u), PushChannelD(n, u),
         PushChannelE(n, u)}
Pulled(n, u) ==
  UNION {PullChannelA(n, u), PullChannelB(n, u), PullChannelC(n, u), PullChannelD(n, u),
         PullChannelE(n, u)}

-----------------------------------------------------------------------------
(* Properties, for one TL-C port a core, the only number README.md accepts  *)

Channels(kind) == IF kind = "C" THEN {"A", "B", "C", "D", "E"} ELSE {"A", "D"}

\* Behind the port a pin is connected to is the agent the pin is named after.
PinsOfTheAgent(n, u) ==
  \A w \in Pushed(n, u) \cup Pulled(n, u) : Agent(w.deviceId, n, 1, u) = w.pins

\* Every handshake of every agent is connected, once and in its direction.
HandshakesConnected(n, u) ==
  \A d \in 0 .. n * (1 + u) - 1 :
    \A channel \in Channels(Agent(d, n, 1, u).kind) :
      LET in(wires) == {w.field : w \in {x \in wires : x.deviceId = d /\ x.channel = channel}}
          handshake == {"valid", "ready"}
      IN  /\ in(Pushed(n, u)) \cap handshake
               = IF channel \in {"B", "D"} THEN {"valid"} ELSE {"ready"}
          /\ in(Pulled(n, u)) \cap handshake
               = IF channel \in {"B", "D"} THEN {"ready"} ELSE {"valid"}
          /\ in(Pushed(n, u)) \cap in(Pulled(n, u)) = {}

\* The table in TLSequencer.cpp:237-267.
DocumentedLayout ==
  /\ Agents(2, 1, 0) = <<Master("C", 0, 0), Master("C", 1, 0)>>
  /\ Agents(2, 1, 2) = <<Master("C", 0, 0), Master("UL", 0, 0), Master("UL", 0, 1),
                         Master("C", 1, 0), Master("UL", 1, 0), Master("UL", 1, 1)>>
=============================================================================
