----------------------------- MODULE MCRelayJobs -----------------------------
(***************************************************************************)
(* Instances of RelayJobs for TLC.                                         *)
(***************************************************************************)
EXTENDS RelayJobs, TLC

\* Handlers and connections are never compared but for equality.
Symmetry == Permutations(Handlers) \cup Permutations(Sockets)
=============================================================================
