---------------------------- MODULE MCEthernetDriver ----------------------------
(***************************************************************************)
(* Slots of two bytes: a frame of one byte, behind which a byte of an      *)
(* older frame is copied, and of two.  Three frames in either direction    *)
(* use a slot for the second time.                                         *)
(***************************************************************************)
EXTENDS EthernetDriver

MCIncoming == {<<1>>, <<2, 3>>}
MCOutgoing == {<<4, 5>>}
=============================================================================
