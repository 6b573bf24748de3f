------------------------------ MODULE MCArtnetQueue ------------------------------
(***************************************************************************)
(* The Art-Net receiver on small instances: universes of four pixels.  The *)
(* sizes go through all remainders of twelve, the period of the converter, *)
(* and beyond a universe to the wrap of a counter of eight values; packets *)
(* are rejected for each reason.  The queue holds eight pixels, and the    *)
(* reader is held off from the fifth on, three clocks before it is full.   *)
(***************************************************************************)
EXTENDS ArtnetQueue

Packet(artnet, universe, length, size) ==
  [artnet |-> artnet, universe |-> universe, length |-> length, size |-> size]

MCPackets ==
  {Packet(TRUE, 1, 12, s) : s \in 1..15}
  \cup {Packet(TRUE, 0, 12, s) : s \in {12, 27}}
  \cup {Packet(FALSE, 0, 12, s) : s \in {4, 12}}
  \cup {Packet(TRUE, 0, 13, s) : s \in {5, 13}}
  \cup {Packet(TRUE, 2, 3, 8)}
=============================================================================
