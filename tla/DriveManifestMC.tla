-------------------------- MODULE DriveManifestMC --------------------------
(* DriveManifest for TLC: callers and UUIDs are interchangeable. *)
EXTENDS DriveManifest, TLC

Symmetry == Permutations(Procs) \cup Permutations(Ids)
=============================================================================
