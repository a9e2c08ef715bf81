------------------------- MODULE MCIncrementalStage -------------------------
(* Small instances of IncrementalStage for TLC. *)
EXTENDS IncrementalStage, TLC

\* Every history in which no question returns to an earlier version.
MCDumps == {d \in Histories : NeverReverts(d)}

AllDumps == Histories

MC1 == 1..1
MC2 == 1..2
PostSymmetry == Permutations(Posts)

=============================================================================
