------------------------------ MODULE MCCursor ------------------------------
(* Steps of one and two pixels each way, as the mouse sends them.          *)
EXTENDS Cursor

Step(i) == [byte |-> i % 256, sign |-> i < 0]
Packet(i, j) == [x |-> Step(i).byte, xsign |-> Step(i).sign, y |-> Step(j).byte, ysign |-> Step(j).sign]
MCPackets == {Packet(d[1], d[2]) : d \in {<<1, 0>>, <<-1, 0>>, <<0, 1>>, <<0, -1>>, <<-2, 1>>, <<2, -2>>}}
=============================================================================
