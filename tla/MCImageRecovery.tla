-------------------------- MODULE MCImageRecovery --------------------------
(* Small instances of ImageRecovery for TLC. *)
EXTENDS ImageRecovery, TLC

MC2 == 1..2
Distinct == [i \in Items |-> <<"h", i>>]

\* One shard: a member that is an image and one that is not.
OneShard == [i \in Items |-> IF i = 1 THEN "a" ELSE "b"]
Letters == [n \in Names |-> 1]
OnlyA == {"a"}
\* data/placeholder-spec.json
AsShipped == {"sotoki"}

=============================================================================
