--------------------------- MODULE SnapshotMirror ---------------------------
(***************************************************************************)
(* What incremental staging keeps to, without files, Redis or workers: one *)
(* snapshot is synced at a time, a page changes only towards that snapshot *)
(* and a page goes away only in a pass that was asked to prune, after every*)
(* question of the snapshot is fresh. Which pages go is not promised.      *)
(***************************************************************************)
CONSTANTS Posts, Versions, Snapshots, Absent, Excluded, None, Torn, Dumps

VARIABLES
  dump,      \* content of each snapshot
  pages,     \* version each page shows; None if unpublished, Torn if mixed
  syncing,   \* the snapshot being synced, or None
  complete,  \* every question of it is known to be fresh
  pruning    \* may the pass remove pages?

vars == <<dump, pages, syncing, complete, pruning>>

Live(s) == {p \in Posts : dump[s][p] \in Versions}
Fresh(s) == \A p \in Live(s) : pages[p] = dump[s][p]

Init ==
  /\ dump \in Dumps
  /\ pages \in [Posts -> Versions \cup {None}]
  /\ syncing = None
  /\ complete = FALSE
  /\ pruning = FALSE

Begin ==
  /\ syncing = None
  /\ syncing' \in Snapshots
  /\ pruning' \in BOOLEAN
  /\ UNCHANGED <<dump, pages, complete>>

\* A page of the snapshot is on its way to the snapshot's version. It never
\* goes from a version to no page at all.
Update(p) ==
  /\ syncing # None /\ ~complete
  /\ p \in Live(syncing)
  /\ \E v \in {Torn, dump[syncing][p]} : pages' = [pages EXCEPT ![p] = v]
  /\ UNCHANGED <<dump, syncing, complete, pruning>>

Completed ==
  /\ syncing # None /\ ~complete
  /\ Fresh(syncing)
  /\ complete' = TRUE
  /\ UNCHANGED <<dump, pages, syncing, pruning>>

Remove(p) ==
  /\ complete /\ pruning
  /\ pages' = [pages EXCEPT ![p] = None]
  /\ UNCHANGED <<dump, syncing, complete, pruning>>

\* The pass ends or dies, complete or not.
End ==
  /\ syncing # None
  /\ syncing' = None
  /\ complete' = FALSE
  /\ pruning' = FALSE
  /\ UNCHANGED <<dump, pages>>

Next == Begin \/ Completed \/ End \/ \E p \in Posts : Update(p) \/ Remove(p)

Spec == Init /\ [][Next]_vars

=============================================================================
