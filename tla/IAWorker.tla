------------------------------ MODULE IAWorker ------------------------------
(***************************************************************************)
(* The Internet Archive worker                                             *)
(* (docker/image-worker/ia_sstatic_basename_recovery.py).                  *)
(*                                                                         *)
(* One process goes through the ZIP shards that hold the names its         *)
(* manifest asks for. It moves each image to out-dir/<hash>, inserts a row *)
(* in its SQLite checkpoint and appends a line to results.jsonl; the rows  *)
(* of a shard are committed together at its end, and the last thing a run  *)
(* does is to rewrite results.jsonl from the checkpoint. It may die        *)
(* anywhere; the next run leaves alone what is ok and what is on disk.     *)
(***************************************************************************)
EXTENDS Naturals, FiniteSets

CONSTANTS
  Items,         \* rows of the manifest, numbered in its order
  HashOf,        \* the hash of each row
  NameOf,        \* the basename it asks for
  ShardOf,       \* the shard of a name: its first letter, a number
  Images,        \* the names whose shard is there and holds a valid image
  Payloads,      \* what an image may be converted to
  StorageFails,  \* may a write to out-dir, checkpoint or results raise?
  None

Hashes == {HashOf[i] : i \in Items}
Names == {NameOf[i] : i \in Items}

\* rejected, fail and error are all "failed" here: neither the worker nor what
\* reads its rows tells them apart.
Status == {"ok", "failed"}
\* content: the bytes written, by their derived_sha256 or, unconverted, their
\* content_sha256.
Row == [status : Status, content : Payloads \cup {None}]
\* A row on its way to record(); tried: inside the try block of one member.
Entry == [item : Items, row : Row, tried : BOOLEAN]

ASSUME ItemsAssumption == Items \subseteq Nat /\ IsFiniteSet(Items)
ASSUME HashOfAssumption == HashOf \in [Items -> Hashes]
ASSUME NameOfAssumption == NameOf \in [Items -> Names] /\ Images \subseteq Names
ASSUME ShardOfAssumption == ShardOf \in [Names -> Nat]
ASSUME StorageAssumption == StorageFails \in BOOLEAN
ASSUME NoneAssumption == None \notin Payloads \cup Row \cup Entry

VARIABLES
  file,     \* out-dir/<hash>
  rows,     \* the checkpoint, committed
  results,  \* the lines of results.jsonl about each hash
  txn,      \* rows inserted and not yet committed
  phase,    \* where main is
  picked,   \* the items this run extracts (byzip)
  shards,   \* the shards it has still to open
  shard,    \* the items of the one it has open (rows)
  todo,     \* those the current loop has still to reach
  entry     \* what record() is about to write, or None

disk == <<file, rows, results>>
run == <<phase, picked, shards, shard, todo, entry>>
vars == <<disk, txn, run>>

Looping == {"members", "missing", "abort"}

TypeOK ==
  /\ file \in [Hashes -> Payloads \cup {None}]
  /\ rows \in [Hashes -> Row \cup {None}]
  /\ results \in [Hashes -> SUBSET Row]
  /\ txn \in [Hashes -> Row \cup {None}]
  /\ phase \in {"off", "shards"} \cup Looping
  /\ picked \subseteq Items /\ shard \subseteq picked /\ todo \subseteq shard
  /\ shards \subseteq {ShardOf[n] : n \in Names}
  /\ entry \in Entry \cup {None}

-----------------------------------------------------------------------------
IsOk(row) == row # None /\ row.status = "ok"
Failed == [status |-> "failed", content |-> None]
NoRow == [h \in Hashes |-> None]
Latest(h) == IF txn[h] # None THEN txn[h] ELSE rows[h]
ShardOfItem(i) == ShardOf[NameOf[i]]

FaultyDone(h) == FALSE                   \* every run starts from scratch

\* Skipped: the checkpoint has it as ok, or out-dir has the file.
Done(h) == IsOk(rows[h]) \/ file[h] # None

FaultyWanted(S) == {i \in S : \A j \in S : NameOf[j] = NameOf[i] => i = j}

\* wanted, a dict by basename: the last row that asks for a name replaces the
\* others.
Wanted(S) == {i \in S : \A j \in S : NameOf[j] = NameOf[i] => j <= i}

\* The process is gone and the connection closed.
Gone ==
  /\ phase' = "off"
  /\ txn' = NoRow
  /\ picked' = {} /\ shards' = {} /\ shard' = {} /\ todo' = {}
  /\ entry' = None

Init ==
  /\ file = NoRow /\ rows = NoRow /\ txn = NoRow
  /\ results = [h \in Hashes |-> {}]
  /\ phase = "off"
  /\ picked = {} /\ shards = {} /\ shard = {} /\ todo = {}
  /\ entry = None

-----------------------------------------------------------------------------
(* main *)

Launch ==
  /\ phase = "off"
  /\ picked' = {i \in Items : ~Done(HashOf[i])}
  /\ shards' = {ShardOfItem(i) : i \in picked'}
  /\ phase' = "shards"
  /\ UNCHANGED <<disk, txn, shard, todo, entry>>

\* The next shard in name order: there, not there, or not a ZIP file.
OpenShard ==
  /\ phase = "shards"
  /\ \E s \in shards :
       /\ \A t \in shards : s <= t
       /\ shards' = shards \ {s}
       /\ shard' = {i \in picked : ShardOfItem(i) = s}
       /\ \/ phase' = "members" /\ todo' = Wanted(shard')
          \/ /\ \A n \in Images : ShardOf[n] # s
             /\ phase' \in {"missing", "abort"} /\ todo' = shard'
  /\ UNCHANGED <<disk, txn, picked, entry>>

Reach(i) ==
  /\ phase \in Looping /\ entry = None
  /\ i \in todo
  /\ todo' = todo \ {i}
  /\ UNCHANGED <<rows, results, txn, phase, picked, shards, shard>>

Report(i, row, tried) == entry' = [item |-> i, row |-> row, tried |-> tried]

FaultyExtract(i) ==                      \* a payload is recorded before it is there
  /\ phase = "members" /\ Reach(i)
  /\ \E c \in Payloads : Report(i, [status |-> "ok", content |-> c], TRUE)
  /\ UNCHANGED file

\* The member is read, validated, converted, written beside and renamed in.
Extract(i) ==
  /\ phase = "members" /\ Reach(i)
  /\ \E c \in Payloads :
       /\ file' = [file EXCEPT ![HashOf[i]] = c]
       /\ Report(i, [status |-> "ok", content |-> c], TRUE)

\* No such member, or nothing that passes validate_payload.
Refuse(i) ==
  /\ phase = "members" /\ NameOf[i] \notin Images /\ Reach(i)
  /\ \E tried \in BOOLEAN : Report(i, Failed, tried)
  /\ UNCHANGED file

\* Reading, converting or writing raises.
Raise(i) ==
  /\ phase = "members" /\ StorageFails /\ Reach(i)
  /\ Report(i, Failed, FALSE)
  /\ UNCHANGED file

\* The loops over a whole shard: it is missing, or the ZIP error is recorded.
Blame(i) ==
  /\ phase \in {"missing", "abort"} /\ Reach(i)
  /\ Report(i, Failed, FALSE)
  /\ UNCHANGED file

-----------------------------------------------------------------------------
(* record, its failures and what main makes of them *)

Insert == txn' = [txn EXCEPT ![HashOf[entry.item]] = entry.row]

FaultyRecord ==                          \* only what was recovered gets a line
  /\ entry # None
  /\ Insert
  /\ results' = [results EXCEPT ![HashOf[entry.item]] =
                   @ \cup (IF IsOk(entry.row) THEN {entry.row} ELSE {})]
  /\ entry' = None
  /\ UNCHANGED <<file, rows, phase, picked, shards, shard, todo>>

\* INSERT OR REPLACE, and the line.
Record ==
  /\ entry # None
  /\ Insert
  /\ results' = [results EXCEPT ![HashOf[entry.item]] = @ \cup {entry.row}]
  /\ entry' = None
  /\ UNCHANGED <<file, rows, phase, picked, shards, shard, todo>>

\* Inside the try block of a member, any exception: the member is an error.
RecordRaises ==
  /\ StorageFails /\ entry # None /\ entry.tried
  /\ Insert \/ UNCHANGED txn
  /\ Report(entry.item, Failed, FALSE)
  /\ UNCHANGED <<disk, phase, picked, shards, shard, todo>>

\* Outside it, an OSError from the line: the whole shard is an error.
LineRaises ==
  /\ StorageFails /\ entry # None /\ ~entry.tried
  /\ phase = "members"
  /\ Insert
  /\ phase' = "abort" /\ todo' = shard
  /\ entry' = None
  /\ UNCHANGED <<disk, picked, shards, shard>>

\* conn.commit() at the end of a shard.
Commit ==
  /\ phase \in Looping /\ todo = {} /\ entry = None
  /\ rows' = [h \in Hashes |-> Latest(h)]
  /\ txn' = NoRow
  /\ phase' = "shards" /\ shard' = {}
  /\ UNCHANGED <<file, results, picked, shards, todo, entry>>

\* rewrite_results_from_state, and the end of the run.
Finish ==
  /\ phase = "shards" /\ shards = {}
  /\ results' = [h \in Hashes |-> {rows[h]} \ {None}]
  /\ Gone
  /\ UNCHANGED <<file, rows>>

\* Killed, or an exception nobody catches: what is not committed is lost.
Die == phase # "off" /\ Gone /\ UNCHANGED disk

-----------------------------------------------------------------------------
Step ==
  \/ OpenShard \/ Record \/ RecordRaises \/ LineRaises \/ Commit \/ Finish
  \/ \E i \in Items : Extract(i) \/ Refuse(i) \/ Raise(i) \/ Blame(i)

Next == Launch \/ Step \/ Die

Spec == Init /\ [][Next]_vars

\* A run goes on until it ends, and the operator starts the worker again.
FairSpec == Spec /\ WF_vars(Step) /\ WF_vars(Launch)

-----------------------------------------------------------------------------
(* Properties *)

\* A manifest has a row per hash and source URL: a hash may have several names.
Single(h) == \A i, j \in Items : HashOf[i] = h /\ HashOf[j] = h => i = j

\* A file is there; it is the one recorded, unless the archive may have another
\* for the hash under a second name.
Backed(h, row) == file[h] # None /\ (Single(h) => file[h] = row.content)

\* What the checkpoint calls ok is in out-dir, with the bytes recorded, so that
\* a sync manifest made from it matches.
OkIsOnDisk == \A h \in Hashes : IsOk(rows[h]) => Backed(h, rows[h])

\* Every committed row has its line in results.jsonl, which a sync manifest is
\* made from, also after a run that died before the rewrite.
RowsHaveLines == \A h \in Hashes : rows[h] # None => rows[h] \in results[h]

\* A hash that is ok when no run is going on keeps its row and its file through
\* every later run, under however many names the manifest asks for it.
CompletedSurvive ==
  \A h \in Hashes, r \in [status : {"ok"}, content : Payloads], c \in Payloads :
    [](phase = "off" /\ rows[h] = r /\ file[h] = c => [](rows[h] = r /\ file[h] = c))

\* "Hashes already ok are never re-processed" (docs/nas-worker.md), within a run
\* either: neither the row nor the file of an ok hash ever changes again.
OkSticks ==
  [][\A h \in Hashes : IsOk(rows[h]) => rows'[h] = rows[h] /\ file'[h] = file[h]]_vars

\* A run that the operator starts over and over extracts whatever the archive
\* has, two hashes of one basename included, once it is no longer killed and its
\* writes no longer fail.
Trouble == (Die /\ ~Finish) \/ LineRaises \/ \E i \in Items : Raise(i)
Extracted ==
  <>[][~Trouble]_vars =>
    \A i \in Items : NameOf[i] \in Images => <>(file[HashOf[i]] # None)

=============================================================================
