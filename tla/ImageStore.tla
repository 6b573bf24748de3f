------------------------------- MODULE ImageStore -------------------------------
(***************************************************************************)
(* What the flash promises to whoever saves and loads images.  An image    *)
(* that was saved is what a load gives from then on, each pixel as it was  *)
(* at some time during the save, since the network may draw meanwhile.  A  *)
(* save that is going on or was interrupted leaves the image before, none, *)
(* one that cannot be told, or the new header with some of its pixels.  An *)
(* image that does not fit is promised nothing.                            *)
(***************************************************************************)
EXTENDS Integers

CONSTANTS
  Lengths,          (* What may be saved: lengths of images.               *)
  Fitting,          (* The lengths the flash has room for.                 *)
  LastPage,         (* For a length, the last page that holds a pixel.     *)
  Nothing, Unknown, (* What a load gives besides an image.                 *)
  NoSave            (* No save is going on.                                *)

VARIABLES
  saves,   (* Saves so far.                                                *)
  saving,  (* The one going on: its number and length, and the picture in  *)
           (* the memory when it began.                                    *)
  picture, (* The picture in the memory now.                               *)
  stored,  (* What a load would give.                                      *)
  loaded,  (* What the last one gave.                                      *)
  finished (* The last save that ran to its end.                           *)

store_vars == <<saves, saving, picture, stored, loaded, finished>>

(* The pages of a saved image: pixels of pictures shown during the save.   *)
Saved(save, last, result) ==
  /\ result.number = save.number
  /\ result.length = save.length
  /\ DOMAIN result.pages = 1..LastPage[save.length]
  /\ \A i \in DOMAIN result.pages :
       /\ result.pages[i].number = save.number
       /\ result.pages[i].page = i
       /\ result.pages[i].picture \in save.since..last

Init ==
  /\ saves = 0
  /\ saving = NoSave
  /\ picture = 0
  /\ stored = Nothing /\ loaded = Nothing /\ finished = 0

Begin ==
  /\ saving = NoSave
  /\ saves' = saves + 1
  /\ \E length \in Lengths :
       saving' = [number |-> saves', length |-> length, since |-> picture]
  /\ UNCHANGED <<picture, stored, loaded, finished>>

(* What was stored before may be gone from the first step on, but another  *)
(* header than the new one never appears.                                  *)
Overwritten ==
  \/ stored' \in {stored, Nothing, Unknown}
  \/ stored'.number = saving.number /\ stored'.length = saving.length

Write ==
  /\ saving # NoSave
  /\ saving.length \in Fitting => Overwritten
  /\ UNCHANGED <<saves, saving, picture, loaded, finished>>

Finish ==
  /\ saving # NoSave
  /\ saving' = NoSave /\ finished' = saving.number
  /\ saving.length \in Fitting => Saved(saving, picture, stored')
  /\ UNCHANGED <<saves, picture, loaded>>

PowerLoss ==
  /\ saving' = NoSave
  /\ IF saving = NoSave THEN UNCHANGED stored
                        ELSE saving.length \in Fitting => Overwritten
  /\ UNCHANGED <<saves, picture, loaded, finished>>

Draw ==
  /\ picture' = picture + 1
  /\ UNCHANGED <<saves, saving, stored, loaded, finished>>

(* Nothing is known of what is read where a write was interrupted.         *)
Load ==
  /\ saving = NoSave
  /\ loaded' \in IF stored = Unknown THEN {Nothing, Unknown} ELSE {stored}
  /\ UNCHANGED <<saves, saving, picture, stored, finished>>

Next == Begin \/ Write \/ Finish \/ PowerLoss \/ Draw \/ Load

Spec == Init /\ [][Next]_store_vars
=============================================================================
