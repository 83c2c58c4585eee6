----------------------------- MODULE MCTestBench -----------------------------
EXTENDS TestBench
Ports == INSTANCE PortLayout
Pins == INSTANCE PinLayout

\* Channels whose agents share state are used in the same run.
ChannelGroups == {{"A", "B", "C", "D", "E"}, {"AW", "W", "AXI_B", "AR", "R"}}
Reads == {{"AR", "R"}}

\* The connections of up to four cores with up to three TL-UL ports each.
ASSUME PortsConnected ==
  /\ Ports!DocumentedLayout
  /\ \A n \in 1 .. 4, u \in 0 .. 3 :
       Ports!PinsOfTheAgent(n, u) /\ Ports!HandshakesConnected(n, u)

\* Both hosts move the same fields, and move beats whole.
ASSUME HostsAgree ==
  Pins!SamePushed /\ Pins!SamePulled /\ Pins!OneWay /\ Pins!BeatsComeBack
=============================================================================
