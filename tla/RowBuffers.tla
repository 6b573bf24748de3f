------------------------------- MODULE RowBuffers -------------------------------
(***************************************************************************)
(* The pixels of a row and their places in a row buffer (classes           *)
(* RowController and RamToBufferReader of hub75.py).  A pixel is a tag:    *)
(* the row and the place it was read for.                                  *)
(***************************************************************************)
EXTENDS Integers

CONSTANTS
  Outputs, (* Outputs with a chain of panels each: 8.                      *)
  Chain,   (* Panels in a chain: 4.                                        *)
  Columns  (* Columns of a panel: 64.                                      *)

ASSUME GeometryAssumption ==
  Outputs \in Nat \ {0} /\ Chain \in Nat \ {0} /\ Columns \in Nat \ {0}

Output == 0..(Outputs - 1)
OutputPixels == 2 * Chain * Columns    \* of a row on one output
RowPixels == Outputs * OutputPixels    \* of a row on all outputs
Address == 0..(OutputPixels - 1)
Half == {0, 1}
NoRow == -1

(***************************************************************************)
(* A row of one output is read in the order panel, half, column (the bits  *)
(* of the counters of reader and address generator) and stored in the      *)
(* order panel, column, half, so that the two pixels of a pair are next to *)
(* each other.                                                             *)
(***************************************************************************)
Place(n) == [panel  |-> n \div (2 * Columns),
             half   |-> (n \div Columns) % 2,
             column |-> n % Columns]

BufferAddress(n) ==
  LET p == Place(n) IN p.panel * 2 * Columns + p.column * 2 + p.half

PlaceAt(address) == Place(CHOOSE n \in Address : BufferAddress(n) = address)

OutputOf(number) == number \div OutputPixels
NumberIn(number) == number % OutputPixels

Pixel(row, place) == [row |-> row, place |-> place]
EmptyBuffer == [o \in Output |-> [a \in Address |-> Pixel(NoRow, PlaceAt(a))]]
=============================================================================
