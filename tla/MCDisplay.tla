------------------------------- MODULE MCDisplay -------------------------------
(***************************************************************************)
(* Two outputs with a chain of two panels, bytes of 2 bits and rotations   *)
(* of 1, an image memory of two pixels and a palette of which the second   *)
(* universe sets but a part.  3 is no output, no panel, and a rotation     *)
(* that is cut off.                                                        *)
(***************************************************************************)
EXTENDS Display

CONSTANTS ColourA, ColourB

MCImage == [width |-> 2, pixels |-> <<ColourA>>]
MCIndexed == [width |-> 1, pixels |-> <<ColourA, ColourB>>, palette |-> <<ColourB, ColourA>>]
=============================================================================
