---------------------------- MODULE SyncPromise ----------------------------
(***************************************************************************)
(* What the synchronisation as a whole promises of each record, whatever   *)
(* device, network and server do (Article III of constitution.md: no loss, *)
(* no duplicate).  A record is held by the device alone, then stored by    *)
(* the server, and only then may the device show it as synced.  What the   *)
(* server stored it keeps.  A record leaves a device that alone holds it   *)
(* only when its user drops it.                                            *)
(*                                                                         *)
(* One exception: a record that failed in a batch with more failures than  *)
(* an answer can list may be claimed synced while the server has no row.   *)
(***************************************************************************)
CONSTANT Entity

VARIABLES
  stage,   \* [Entity -> Stages]
  cut      \* the records an answer had no room for

Stages == {"none", "held", "claimed", "stored", "synced", "dropped"}

(* A dropped record may have been on its way; and the user may clear a device
   of what the server has. *)
Moves ==
  {<<"none", "held">>, <<"held", "stored">>, <<"stored", "synced">>,
   <<"held", "dropped">>, <<"dropped", "stored">>, <<"synced", "stored">>}

(* A record that is claimed is never sent again; it is stored after all only if
   a batch that was given up brings it, and dropped with the rest. *)
CutMoves ==
  {<<"held", "claimed">>, <<"dropped", "claimed">>, <<"claimed", "synced">>,
   <<"claimed", "dropped">>}

Init ==
  /\ stage = [e \in Entity |-> "none"]
  /\ cut = {}

(* A batch moves several records at once. *)
Next ==
  /\ stage' \in [Entity -> Stages]
  /\ cut' \in SUBSET Entity
  /\ cut \subseteq cut'
  /\ \A e \in Entity :
       \/ stage'[e] = stage[e]
       \/ <<stage[e], stage'[e]>> \in Moves
       \/ e \in cut' /\ <<stage[e], stage'[e]>> \in CutMoves

Spec == Init /\ [][Next]_<<stage, cut>>
=============================================================================
