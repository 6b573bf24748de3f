------------------------------ MODULE MCImageFlash ------------------------------
(***************************************************************************)
(* A flash of 16 pages of 8 bytes and an area of 4 pages, or 2 sectors.    *)
(* The images end inside a page, with a page, with the last byte but four  *)
(* of the area, and with its last byte.                                    *)
(***************************************************************************)
EXTENDS ImageFlash

MCLengths == {1, 2, 5, 6}
=============================================================================
