---------------------------- MODULE LatestResult ----------------------------
(***************************************************************************)
(* What a view that computes in the background promises: it shows nothing  *)
(* or a result for something that was asked, never for anything else, it   *)
(* changes to another result only when that is the one asked for now, and  *)
(* in the end it shows that one.                                           *)
(***************************************************************************)
CONSTANTS Keys, None

VARIABLES asked, shown
vars == <<asked, shown>>

Init == asked \in Keys \cup {None} /\ shown = None

Ask == /\ asked' \in Keys \cup {None}
       /\ shown' \in {shown, None}

Show == shown' = asked /\ UNCHANGED asked

Next == Ask \/ Show

Spec == Init /\ [][Next]_vars /\ WF_vars(Show)
=============================================================================
