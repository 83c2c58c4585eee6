------------------------------ MODULE PinLayout ------------------------------
(***************************************************************************)
(* What each function of tilelink_dpi.cpp copies between a port of the     *)
(* tester and its arguments, the pins of a simulator, and what             *)
(* v3_memaxi.hpp copies between the AXI port and a verilated device: the   *)
(* fields, and for the data of a beat the bits of which pin carry which    *)
(* byte.  Push* copies from the pins, Pull* to them.                       *)
(***************************************************************************)
EXTENDS PortLayout

BEATSIZE == 32         \* also BEATSIZE_MEMORY
DATASIZE_MMIO == 8

\* A beat in pins of `width' bytes each, little-endian.
DataPins(beat, width) ==
  {[byte |-> i, pin |-> i \div width, bit |-> 8 * (i % width)] : i \in 0 .. beat - 1}

Wires(fields) == [fields |-> fields, data |-> {}]
WiresAndData(fields, data) == [fields |-> fields \cup {"data"}, data |-> data]

-----------------------------------------------------------------------------
(* tilelink_dpi.cpp: TileLink.  The pins for a mask or an alias the agents do *)
(* not have are left alone or held at 0.                                      *)
TileLinkPushChannelA == Wires({"ready"})
TileLinkPullChannelA ==
  WiresAndData({"valid", "opcode", "param", "size", "source", "address", "needHint",
                "vaddr", "alias", "mask"}, DataPins(BEATSIZE, 8))
\* The alias comes in the low byte of the data.
TileLinkPushChannelB ==
  Wires({"valid", "opcode", "param", "size", "source", "address", "alias"})
TileLinkPullChannelB == Wires({"ready"})
TileLinkPushChannelC == Wires({"ready"})
TileLinkPullChannelC ==
  WiresAndData({"valid", "opcode", "param", "size", "source", "address", "needHint",
                "vaddr"}, DataPins(BEATSIZE, 8))
TileLinkPushChannelD ==
  WiresAndData({"valid", "opcode", "param", "size", "source", "sink", "denied", "corrupt"},
               DataPins(BEATSIZE, 8))
TileLinkPullChannelD == Wires({"ready"})
TileLinkPushChannelE == Wires({"ready"})
TileLinkPullChannelE == Wires({"valid", "sink"})

(* tilelink_dpi.cpp: the ports of the MMIO agents. *)
TileLinkMMIOPushChannelA == Wires({"ready"})
TileLinkMMIOPullChannelA ==
  WiresAndData({"valid", "opcode", "param", "size", "source", "address", "mask", "corrupt"},
               DataPins(DATASIZE_MMIO, 8))
TileLinkMMIOPushChannelD ==
  WiresAndData({"valid", "opcode", "param", "size", "source", "sink", "denied", "corrupt"},
               DataPins(DATASIZE_MMIO, 8))
TileLinkMMIOPullChannelD == Wires({"ready"})

(* tilelink_dpi.cpp: the AXI port of the memory. *)
Address == {"valid", "id", "addr", "burst", "size", "len"}
MemoryAXIPullChannelAW == Wires({"ready"})
MemoryAXIPushChannelAW == Wires(Address)
MemoryAXIPullChannelW == Wires({"ready"})
MemoryAXIPushChannelW == WiresAndData({"valid", "strb", "last"}, DataPins(BEATSIZE, 8))
MemoryAXIPullChannelB == Wires({"valid", "id", "resp"})
MemoryAXIPushChannelB == Wires({"ready"})
MemoryAXIPullChannelAR == Wires({"ready"})
MemoryAXIPushChannelAR == Wires(Address)
MemoryAXIPullChannelR == WiresAndData({"valid", "id", "resp", "last"}, DataPins(BEATSIZE, 8))
MemoryAXIPushChannelR == Wires({"ready"})

-----------------------------------------------------------------------------
(* By channel: [pull, push] *)
DPI ==
  [A |-> <<TileLinkPullChannelA, TileLinkPushChannelA>>,
   B |-> <<TileLinkPullChannelB, TileLinkPushChannelB>>,
   C |-> <<TileLinkPullChannelC, TileLinkPushChannelC>>,
   D |-> <<TileLinkPullChannelD, TileLinkPushChannelD>>,
   E |-> <<TileLinkPullChannelE, TileLinkPushChannelE>>,
   MMIO_A |-> <<TileLinkMMIOPullChannelA, TileLinkMMIOPushChannelA>>,
   MMIO_D |-> <<TileLinkMMIOPullChannelD, TileLinkMMIOPushChannelD>>,
   AW |-> <<MemoryAXIPullChannelAW, MemoryAXIPushChannelAW>>,
   W |-> <<MemoryAXIPullChannelW, MemoryAXIPushChannelW>>,
   AXI_B |-> <<MemoryAXIPullChannelB, MemoryAXIPushChannelB>>,
   AR |-> <<MemoryAXIPullChannelAR, MemoryAXIPushChannelAR>>,
   R |-> <<MemoryAXIPullChannelR, MemoryAXIPushChannelR>>]

\* v3_memaxi.hpp; its data pins are words of four bytes.
V3AXI ==
  [AW |-> <<Wires({"ready"}), Wires(Address)>>,
   W |-> <<Wires({"ready"}), WiresAndData({"valid", "strb", "last"}, DataPins(BEATSIZE, 4))>>,
   AXI_B |-> <<Wires({"valid", "id", "resp"}), Wires({"ready"})>>,
   AR |-> <<Wires({"ready"}), Wires(Address)>>,
   R |-> <<WiresAndData({"valid", "id", "resp", "last"}, DataPins(BEATSIZE, 4)),
           Wires({"ready"})>>]

-----------------------------------------------------------------------------
(* Properties *)

V3Fields(wires, channel) == {w.field : w \in {x \in wires : x.channel = channel}}

\* An agent cannot tell the hosts apart: both set the same fields of its port
\* and of the memory's.
SamePushed ==
  /\ \A ch \in {"A", "B", "C", "D", "E"} : DPI[ch][2].fields = V3Fields(Pushed(1, 0), ch)
  /\ \A ch \in DOMAIN V3AXI : DPI[ch][2].fields = V3AXI[ch][2].fields

\* What a verilated device is shown of an agent, a simulator is shown too, and
\* beyond that only the user fields needHint and vaddr.
SamePulled ==
  /\ \A ch \in {"A", "B", "C", "D", "E"} :
       DPI[ch][1].fields \ V3Fields(Pulled(1, 0), ch)
         = IF ch \in {"A", "C"} THEN {"needHint", "vaddr"} ELSE {}
  /\ \A ch \in {"A", "B", "C", "D", "E"} :
       V3Fields(Pulled(1, 0), ch) \subseteq DPI[ch][1].fields
  /\ \A ch \in DOMAIN V3AXI : DPI[ch][1].fields = V3AXI[ch][1].fields

\* No field is copied both ways, and every channel has its handshake.
OneWay ==
  \A ch \in DOMAIN DPI :
    /\ DPI[ch][1].fields \cap DPI[ch][2].fields = {}
    /\ {"valid", "ready"} \subseteq DPI[ch][1].fields \cup DPI[ch][2].fields

\* The bytes of a beat are all carried, each in bits of its own, and a beat the
\* device sends back comes back as it was.
LanesApart(host) ==
  /\ \A ch \in DOMAIN host, k \in {1, 2} : \A x, y \in host[ch][k].data :
       x # y => x.byte # y.byte /\ (x.pin # y.pin \/ x.bit # y.bit)
  /\ \A ch \in DOMAIN host, k \in {1, 2} : "data" \in host[ch][k].fields =>
       {x.byte : x \in host[ch][k].data}
         = 0 .. (IF ch \in {"MMIO_A", "MMIO_D"} THEN DATASIZE_MMIO ELSE BEATSIZE) - 1
  /\ host["W"][2].data = host["R"][1].data
BeatsComeBack ==
  /\ LanesApart(DPI) /\ LanesApart(V3AXI)
  /\ DPI["A"][1].data = DPI["D"][2].data /\ DPI["C"][1].data = DPI["D"][2].data
  /\ DPI["MMIO_A"][1].data = DPI["MMIO_D"][2].data
=============================================================================
