--------------------------- MODULE DriveIdentity ---------------------------
(***************************************************************************)
(* What the manifest operations promise to the rest of the system: one     *)
(* identity record per drive that changes atomically, as if nobody else    *)
(* were changing it.  README.md, "Shared logical drive identity".          *)
(***************************************************************************)

CONSTANTS Ids, NoId, NoDrive

VARIABLE drive \* the identity record, or NoDrive before the creation

\* The two layout upgrades a manifest can have recorded.
Upgrades == {"photos", "files"}

Created(id) ==
    /\ drive = NoDrive
    /\ drive' = [id |-> id, local |-> NoId, previous |-> NoId,
                 ready |-> "absent", layout |-> Upgrades]

(* Adoption: the logical identity becomes the host's; the first identity is
   kept for ever as the local one, the one before for a recovery; repeating
   an adoption forgets neither; the mirror is not ready. *)
Adopted(host) ==
    /\ drive # NoDrive
    /\ \E upgraded \in SUBSET Upgrades :
         /\ drive.layout \subseteq upgraded
         /\ drive' =
              [id |-> host,
               local |-> IF drive.local = NoId THEN drive.id ELSE drive.local,
               previous |-> IF drive.id = host /\ drive.previous # NoId
                            THEN drive.previous ELSE drive.id,
               ready |-> "syncing", layout |-> upgraded]

\* Only a replica becomes a ready one, and its layout is then current.
Completed ==
    /\ drive # NoDrive
    /\ drive.local # NoId
    /\ drive' = [id |-> drive.id, local |-> drive.local,
                 previous |-> drive.previous,
                 ready |-> "ready", layout |-> Upgrades]

\* A layout upgrade leaves the identity alone and is never taken back.
LayoutUpgraded ==
    /\ drive # NoDrive
    /\ \E upgraded \in SUBSET Upgrades :
         /\ drive.layout \subseteq upgraded
         /\ drive' = [drive EXCEPT !.layout = upgraded]

Next ==
    \/ \E id \in Ids : Created(id) \/ Adopted(id)
    \/ Completed
    \/ LayoutUpgraded

(* A root has no drive yet, or one an earlier release made: only a replica
   has the replica fields. *)
Init ==
    \/ drive = NoDrive
    \/ \E id \in Ids, local, previous \in Ids \cup {NoId},
          ready \in {"absent", "syncing", "ready"}, layout \in SUBSET Upgrades :
         /\ drive = [id |-> id, local |-> local, previous |-> previous,
                     ready |-> ready, layout |-> layout]
         /\ (local = NoId) = (ready = "absent")
         /\ local = NoId => previous = NoId

Spec == Init /\ [][Next]_drive
=============================================================================
