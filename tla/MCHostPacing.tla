---------------------------- MODULE MCHostPacing ----------------------------
(* Small instances of HostPacing for TLC. *)
EXTENDS HostPacing, TLC

WorkerSymmetry == Permutations(Workers)

=============================================================================
