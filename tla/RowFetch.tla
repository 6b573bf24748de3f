-------------------------------- MODULE RowFetch --------------------------------
(***************************************************************************)
(* What the row buffers may rely on from the buffer reader (the class      *)
(* RamToBufferReader of hub75.py): after a start it writes the pixels of   *)
(* one row into the row buffer in their order, with any pauses, and then   *)
(* raises done, which a start clears.  Of the last TailLoss pixels any may *)
(* be missing: the pipeline of the address generator is drained whether or *)
(* not the memory port takes its addresses.  A pixel goes to the place its *)
(* arrival counts, so one behind a missing pixel moves up.  Module         *)
(* BufferReader is the reader itself and implements this specification.    *)
(***************************************************************************)
EXTENDS Integers

CONSTANTS
  Pixels,   (* Pixels of a row on all outputs: 4096.                       *)
  TailLoss  (* Pixels that may be lost at the end of a row: 2.             *)

ASSUME PixelsAssumption ==
  Pixels \in Nat /\ TailLoss \in Nat /\ TailLoss < Pixels

VARIABLES
  fetch_done,  (* The register behind the reader's output done.            *)
  fetched,     (* Pixels written to the row buffer since the last start,   *)
               (* which is the place of the next one.                      *)
  last_fetched (* The number of the pixel written last, -1 before the      *)
               (* first one.                                               *)

fetch_vars == <<fetch_done, fetched, last_fetched>>

(* done is low after a reset and rises by itself: the empty pipeline looks *)
(* like one that has just been drained.                                    *)
FetchInit ==
  /\ fetch_done = FALSE
  /\ fetched = Pixels
  /\ last_fetched = Pixels - 1

FetchStart ==
  /\ fetch_done' = FALSE
  /\ fetched' = 0
  /\ last_fetched' = -1

FetchPixel ==
  /\ ~fetch_done
  /\ fetched < Pixels
  /\ fetched' = fetched + 1
  /\ last_fetched' \in (last_fetched + 1)..(Pixels - 1)
  /\ fetched < Pixels - TailLoss => last_fetched' = fetched
  /\ UNCHANGED fetch_done

FetchFinish ==
  /\ ~fetch_done
  /\ fetched >= Pixels - TailLoss
  /\ fetch_done' = TRUE
  /\ UNCHANGED <<fetched, last_fetched>>

FetchTick(start) ==
  \/ start /\ FetchStart
  \/ ~start /\ FetchPixel
  \/ ~start /\ FetchFinish
  \/ ~start /\ UNCHANGED fetch_vars

(* The reader on its own, started by anybody who waits for done. *)
FetchSpec ==
  FetchInit /\ [][\E start \in BOOLEAN : (start => fetch_done) /\ FetchTick(start)]_fetch_vars

FetchTypeOK ==
  /\ fetch_done \in BOOLEAN
  /\ fetched \in 0..Pixels
  /\ last_fetched \in -1..(Pixels - 1)
=============================================================================
