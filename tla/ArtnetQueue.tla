------------------------------- MODULE ArtnetQueue -------------------------------
(***************************************************************************)
(* The Art-Net receiver with the queue of its pixels to the memory (class  *)
(* Artnet2RAM of artnet2ram.py).  The receiver is not held up: a pixel     *)
(* that finds the queue full is dropped.  Against that, a queue that is    *)
(* more than half full keeps the buffer reader from reading, so that the   *)
(* memory has time for the writer.  A pixel is in the queue together with  *)
(* its address, so it matters only how many there are.                     *)
(*                                                                         *)
(* External: the queue of LiteX, which takes nothing while it is full,     *)
(* even in a clock in which a pixel leaves; the writer, which takes a      *)
(* pixel when the memory lets it; and the memory, which is expected to     *)
(* let it in every clock once the reader has been held off for Patience    *)
(* clocks, and may disappoint.                                             *)
(***************************************************************************)
EXTENDS ArtnetReceiver

CONSTANTS
  FifoDepth,  (* Pixels the queue holds: 512.                              *)
  Patience    (* Clocks until the reads in flight are over.                *)

ASSUME QueueAssumption ==
  /\ FifoDepth \in Nat /\ Patience \in Nat
  /\ (FifoDepth \div 2) + Patience + 1 < FifoDepth

VARIABLES
  level,   (* Pixels in the queue.                                         *)
  dropped, (* History: the last pixel found the queue full.                *)
  held,    (* History: clocks the reader has been held off, up to Patience.*)
  slow     (* History: the memory did not keep to what is expected.        *)

queue_vars == <<receiver_vars, level, dropped, held, slow>>

QueueInit ==
  /\ ReceiverInit
  /\ level = 0 /\ dropped = FALSE /\ held = 0 /\ slow = FALSE

\* Mutant: the reader is held off when the queue is full.
BacklogLate == level >= FifoDepth

fifo_backlog == level > FifoDepth \div 2

(* A pixel leaves the receiver, which is told that it is taken.            *)
PixelOut(valid) == fsm = "COPY_TO_RAM" /\ SourceValid(valid)

Queue(pixel, taken) ==
  LET left == IF taken THEN level - 1 ELSE level
      writable == level < FifoDepth
  IN /\ level' = IF pixel /\ writable THEN left + 1 ELSE left
     /\ dropped' = IF pixel THEN ~writable ELSE dropped

(* prevent_read of the buffer reader is fifo_backlog.                      *)
HoldOff(taken) ==
  /\ held' = IF ~fifo_backlog THEN 0 ELSE IF held < Patience THEN held + 1 ELSE held
  /\ slow' = (slow \/ (fifo_backlog /\ held = Patience /\ ~taken))

QueueTick(valid, taken) ==
  /\ Idle(valid) \/ WaitTillDone(valid) \/ CopyToRam(valid)
  /\ taken => level > 0
  /\ Queue(PixelOut(valid), taken)
  /\ HoldOff(taken)

QueueNext == \E valid, taken \in BOOLEAN : QueueTick(valid, taken)
QueueSpec == QueueInit /\ [][QueueNext]_queue_vars

(* Words keep coming. *)
QueueLiveSpec ==
  QueueSpec /\ WF_queue_vars(\E taken \in BOOLEAN : QueueTick(TRUE, taken))

(***************************************************************************)
(* Properties.                                                             *)
(***************************************************************************)

(* "Just drop data if the fifo is full" (artnet2ram.py) happens only where *)
(* the memory is slow without the reader: the half of the queue that is    *)
(* free when the reader is held off lasts until the writer has its turn,   *)
(* at the highest rate at which pixels can come.                           *)
LossOnlyWhenSlow == dropped => slow

(***************************************************************************)
(* The invariant it follows from.                                          *)
(***************************************************************************)
QueueInv ==
  /\ level \in 0..FifoDepth /\ held \in 0..Patience
  /\ dropped \in BOOLEAN /\ slow \in BOOLEAN
  /\ ~slow => ~dropped /\ level <= (FifoDepth \div 2) + 1 + held
=============================================================================
