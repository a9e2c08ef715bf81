---------------------------- MODULE MCImageWorker ----------------------------
(* Small instances of ImageWorker for TLC. *)
EXTENDS ImageWorker, TLC

MC2 == 1..2

\* Both rows name one hash, under two source URLs.
OneTwice == [i \in Items |-> "h"]

=============================================================================
