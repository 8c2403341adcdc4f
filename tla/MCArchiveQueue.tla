--------------------------- MODULE MCArchiveQueue ---------------------------
(***************************************************************************)
(* Instances of ArchiveQueue for TLC.                                      *)
(***************************************************************************)
EXTENDS ArchiveQueueLifecycle, TLC

\* Keys, workers and clients are never compared but for equality.
Symmetry == Permutations(Keys) \cup Permutations(Workers)
              \cup Permutations(Clients)
=============================================================================
