------------------------------ MODULE EthernetLink ------------------------------
(***************************************************************************)
(* What the network stack of the firmware is promised by its driver: two   *)
(* queues.  A frame that was received is handed over once, whole and in    *)
(* its turn; a frame that is given to the driver leaves once, whole and in *)
(* its turn.  Frames are lost when the firmware restarts, and the first of *)
(* those that came before it is up is dropped.                             *)
(***************************************************************************)
EXTENDS Sequences

CONSTANTS Incoming, Outgoing  (* Frames of others and of the stack.        *)

VARIABLES
  up,         (* The driver works.                                         *)
  inbox,      (* Frames received and not handed over,                      *)
  outbox,     (* and frames to be sent.                                    *)
  delivered,  (* All that were handed over,                                *)
  given,      (* all that were given to the driver,                        *)
  sent        (* and all that left.                                        *)

link_vars == <<up, inbox, outbox, delivered, given, sent>>

Init ==
  /\ up = FALSE
  /\ inbox = <<>> /\ outbox = <<>>
  /\ delivered = <<>> /\ given = <<>> /\ sent = <<>>

Arrive ==
  /\ \E frame \in Incoming : inbox' = Append(inbox, frame)
  /\ UNCHANGED <<up, outbox, delivered, given, sent>>

Boot ==
  /\ ~up /\ up' = TRUE
  /\ inbox' = IF inbox = <<>> THEN inbox ELSE Tail(inbox)
  /\ UNCHANGED <<outbox, delivered, given, sent>>

HandOver ==
  /\ up /\ inbox # <<>>
  /\ delivered' = Append(delivered, Head(inbox)) /\ inbox' = Tail(inbox)
  /\ UNCHANGED <<up, outbox, given, sent>>

(* A frame of the stack's own, or one that gives back what was received    *)
(* last.                                                                   *)
Give ==
  /\ up
  /\ \E frame \in Outgoing \cup (IF delivered = <<>> THEN {} ELSE {delivered[Len(delivered)]}) :
       outbox' = Append(outbox, frame) /\ given' = Append(given, frame)
  /\ UNCHANGED <<up, inbox, delivered, sent>>

Leave ==
  /\ outbox # <<>>
  /\ sent' = Append(sent, Head(outbox)) /\ outbox' = Tail(outbox)
  /\ UNCHANGED <<up, inbox, delivered, given>>

Restart ==
  /\ up' = FALSE /\ inbox' = <<>> /\ outbox' = <<>>
  /\ UNCHANGED <<delivered, given, sent>>

Next == Arrive \/ Boot \/ HandOver \/ Give \/ Leave \/ Restart
Spec == Init /\ [][Next]_link_vars
=============================================================================
