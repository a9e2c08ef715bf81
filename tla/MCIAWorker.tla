----------------------------- MODULE MCIAWorker -----------------------------
(* Small instances of IAWorker for TLC. *)
EXTENDS IAWorker, TLC

MC3 == 1..3

\* The first and the last row name one hash.
TwoNames == [i \in Items |-> IF i = 3 THEN <<"h", 1>> ELSE <<"h", i>>]

\* Rows 1 and 2 ask for one member; 3 is in another shard.
Sharing == [i \in Items |-> IF i <= 2 THEN "a" ELSE "z"]
Letters == [n \in Names |-> IF n = "z" THEN 26 ELSE 1]
OnlyA == {"a"}

=============================================================================
