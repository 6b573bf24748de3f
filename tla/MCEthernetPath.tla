----------------------------- MODULE MCEthernetPath -----------------------------
(***************************************************************************)
(* The Ethernet path with headers of 2, 1, 1 and 2 words: the first pixels *)
(* come with word 6, one more than MinWords, as 16 and 15 in the design.   *)
(* Packets are refused by every stage or accepted, and end before, at and  *)
(* behind that word.                                                       *)
(***************************************************************************)
EXTENDS EthernetPath

MCHeader == <<2, 1, 1, 2>>
Shape(refused, words, rest) == [refused |-> refused, words |-> words, rest |-> rest]
MCPackets ==
  {Shape(0, 6, 1)} \cup {Shape(0, w, r) : w \in 7..9, r \in {0, 1}}
  \cup {Shape(s, w, w % 2) : s \in 1..3, w \in {5, 8}} \cup {Shape(4, 8, 0), Shape(4, 7, 1)}
=============================================================================
