----------------------------- MODULE ImageWorker -----------------------------
(***************************************************************************)
(* The CDN image worker (docker/image-worker/recover_convert_images.py).   *)
(*                                                                         *)
(* A process loads a manifest, skips the hashes that its SQLite checkpoint *)
(* calls ok and hands the others to a pool of asyncio workers. A worker    *)
(* fetches an image, moves it to out-dir/<hash>, records the outcome in    *)
(* the checkpoint and appends it to results.jsonl, which the process       *)
(* rewrites from the checkpoint at its end. An origin that keeps refusing  *)
(* stops the pool. The process may die anywhere; the next one resumes.     *)
(***************************************************************************)
EXTENDS Naturals, FiniteSets

CONSTANTS
  Items,         \* rows of the manifest, numbered in its order
  HashOf,        \* the hash of each row
  Payloads,      \* what an image may be converted to
  Workers,       \* --concurrency
  MaxRetries,    \* --max-retries
  StorageFails,  \* may a write to out-dir, checkpoint or results raise?
  None

Hashes == {HashOf[i] : i \in Items}

\* rejected, too_large, http_error and network_error are all "failed" here.
Status == {"ok", "failed", "quota", "error"}
Row  == [status : Status, content : Payloads \cup {None}]
Line == [hash : Hashes, row : Row]

ASSUME ItemsAssumption == Items \subseteq Nat /\ IsFiniteSet(Items)
ASSUME HashOfAssumption == HashOf \in [Items -> Hashes]
ASSUME RetriesAssumption == MaxRetries \in Nat
ASSUME StorageAssumption == StorageFails \in BOOLEAN
ASSUME WorkerNamesAssumption == None \notin Items \cup Payloads \cup Row

VARIABLES
  file,     \* out-dir/<hash>
  rows,     \* the checkpoint, committed
  txn,      \* rows inserted on its connection and not yet committed
  results,  \* the lines of results.jsonl
  main,     \* where main_async is
  picked,   \* the pending items of this run
  queue,    \* those no worker has taken
  stop,     \* stop_event
  seen,     \* the items counted in stats["seen"]
  pc,       \* where each worker is
  at,       \* its item
  attempt,  \* requests it has made for the item before this one
  outcome   \* what it is about to record: a Row

disk == <<file, rows, results>>
pool == <<pc, at, attempt, outcome>>
vars == <<disk, txn, main, picked, queue, stop, seen, pool>>

Quiet == {"idle", "dead"}
Saving == {"promote", "insert", "commit", "line"}
NoRow == [h \in Hashes |-> None]
Failed == [status |-> "error", content |-> None]

TypeOK ==
  /\ file \in [Hashes -> Payloads \cup {None}]
  /\ rows \in [Hashes -> Row \cup {None}]
  /\ txn \in [Hashes -> Row \cup {None}]
  /\ results \subseteq Line
  /\ main \in {"off", "work", "rewrite"}
  /\ picked \subseteq Items /\ queue \subseteq picked /\ seen \subseteq picked
  /\ stop \in BOOLEAN
  /\ pc \in [Workers -> Quiet \cup Saving \cup {"fetch"}]
  /\ at \in [Workers -> Items \cup {None}]
  /\ attempt \in [Workers -> 0..MaxRetries]
  /\ outcome \in [Workers -> Row]

-----------------------------------------------------------------------------
IsOk(row) == row # None /\ row.status = "ok"
Mine(w) == HashOf[at[w]]
Inserted(h) == IF txn[h] # None THEN txn[h] ELSE rows[h]

FaultyPending == Items               \* the checkpoint is not consulted

\* done_hashes: only rows that are ok count as done.
Pending == {i \in Items : ~IsOk(rows[HashOf[i]])}
First(n, S) == {i \in S : Cardinality({j \in S : j < i}) < n}

Reset ==
  /\ picked' = {} /\ queue' = {} /\ seen' = {}
  /\ stop' = FALSE
  /\ pc' = [w \in Workers |-> "idle"]
  /\ at' = [w \in Workers |-> None]
  /\ attempt' = [w \in Workers |-> 0]
  /\ outcome' = [w \in Workers |-> Failed]

\* An empty state directory, and whatever an earlier worker left in out-dir.
Init ==
  /\ file \in [Hashes -> Payloads \cup {None}]
  /\ rows = NoRow
  /\ txn = NoRow
  /\ results = {}
  /\ main = "off"
  /\ picked = {} /\ queue = {} /\ seen = {}
  /\ stop = FALSE
  /\ pc = [w \in Workers |-> "idle"]
  /\ at = [w \in Workers |-> None]
  /\ attempt = [w \in Workers |-> 0]
  /\ outcome = [w \in Workers |-> Failed]

-----------------------------------------------------------------------------
(* main_async *)

FaultyLaunch ==                      \* --limit does not bound the queue
  /\ main = "off"
  /\ \E n \in 1..Cardinality(Items) : picked' = First(n, Pending)
  /\ queue' = Pending
  /\ main' = IF picked' = {} THEN "rewrite" ELSE "work"
  /\ UNCHANGED <<disk, txn, stop, seen, pool>>

\* The operator starts the worker, with or without --limit n.
Launch ==
  /\ main = "off"
  /\ \E n \in 1..Cardinality(Items) : picked' = First(n, Pending)
  /\ queue' = picked'
  /\ main' = IF picked' = {} THEN "rewrite" ELSE "work"
  /\ UNCHANGED <<disk, txn, stop, seen, pool>>

\* queue.join() returns. A worker that died raises out of _run_workers, and the
\* connection is closed; otherwise the results are rewritten, stopped or not.
Joined ==
  /\ main = "work"
  /\ queue = {} /\ \A w \in Workers : pc[w] \in Quiet
  /\ IF \E w \in Workers : pc[w] = "dead"
     THEN main' = "off" /\ txn' = NoRow /\ Reset
     ELSE main' = "rewrite" /\ UNCHANGED <<txn, picked, queue, stop, seen, pool>>
  /\ UNCHANGED disk

\* _rewrite_results_from_state: written beside and renamed in.
Rewrite ==
  /\ main = "rewrite"
  /\ results' = {[hash |-> h, row |-> Inserted(h)] :
                   h \in {g \in Hashes : Inserted(g) # None}}
  /\ main' = "off"
  /\ txn' = NoRow
  /\ Reset
  /\ UNCHANGED <<file, rows>>

\* Killed, interrupted or out of disk while rewriting.
Crash ==
  /\ main # "off"
  /\ main' = "off"
  /\ txn' = NoRow
  /\ Reset
  /\ UNCHANGED disk

-----------------------------------------------------------------------------
(* worker_loop, _process_item and Downloader.fetch *)

Frame == UNCHANGED <<main, picked>>
Become(w, place) == pc' = [pc EXCEPT ![w] = place]
Decide(w, place, status, content) ==
  /\ pc[w] = "fetch"
  /\ Become(w, place)
  /\ outcome' = [outcome EXCEPT ![w] = [status |-> status, content |-> content]]
  /\ attempt' = [attempt EXCEPT ![w] = 0]
  /\ Frame /\ UNCHANGED <<disk, txn, queue, stop, seen, at>>

FaultyTake(w) ==                     \* a stop leaves the queue as it is
  /\ main = "work" /\ pc[w] = "idle" /\ ~stop
  /\ \E i \in queue :
       /\ \A j \in queue : i <= j
       /\ queue' = queue \ {i}
       /\ Become(w, "fetch")
       /\ at' = [at EXCEPT ![w] = i]
  /\ Frame /\ UNCHANGED <<disk, txn, stop, seen, attempt, outcome>>

\* The head of the queue: dropped once a quota stop is flagged.
Take(w) ==
  /\ main = "work" /\ pc[w] = "idle"
  /\ \E i \in queue :
       /\ \A j \in queue : i <= j
       /\ queue' = queue \ {i}
       /\ IF stop THEN UNCHANGED pool
          ELSE /\ Become(w, "fetch")
               /\ at' = [at EXCEPT ![w] = i]
               /\ UNCHANGED <<attempt, outcome>>
  /\ Frame /\ UNCHANGED <<disk, txn, stop, seen>>

\* Network error, 5xx, 429 or 403 with attempts left: back off, then again.
Retry(w) ==
  /\ pc[w] = "fetch"
  /\ attempt[w] < MaxRetries
  /\ attempt' = [attempt EXCEPT ![w] = @ + 1]
  /\ Frame /\ UNCHANGED <<disk, txn, queue, stop, seen, pc, at, outcome>>

FaultyFetched(w) ==                  \* the move to out-dir is forgotten
  \E c \in Payloads : Decide(w, "insert", "ok", c)

\* 200 with a payload that is an image, converted.
Fetched(w) == \E c \in Payloads : Decide(w, "promote", "ok", c)

\* Too large, not an image, another 4xx; or nothing at all after all attempts.
Refused(w) == Decide(w, "insert", "failed", None)

\* 429 or 403 after all attempts: QuotaExhausted.
OutOfQuota(w) == attempt[w] = MaxRetries /\ Decide(w, "insert", "quota", None)

\* fetch raises something else, for example from the conversion.
FetchRaises(w) == Decide(w, "insert", "error", None)

\* <hash>.tmp is written and renamed to <hash>; no await in between.
Promote(w) ==
  /\ pc[w] = "promote"
  /\ file' = [file EXCEPT ![Mine(w)] = outcome[w].content]
  /\ Become(w, "insert")
  /\ Frame /\ UNCHANGED <<rows, results, txn, queue, stop, seen, at, attempt, outcome>>

\* state.record(), up to its first await: INSERT OR REPLACE ...
Insert(w) ==
  /\ pc[w] = "insert"
  /\ txn' = [txn EXCEPT ![Mine(w)] = outcome[w]]
  /\ Become(w, "commit")
  /\ Frame /\ UNCHANGED <<disk, queue, stop, seen, at, attempt, outcome>>

\* ... and its second: the commit of all that the connection has inserted.
Commit(w) ==
  /\ pc[w] = "commit"
  /\ rows' = [h \in Hashes |-> Inserted(h)]
  /\ txn' = NoRow
  /\ Become(w, "line")
  /\ Frame /\ UNCHANGED <<file, results, queue, stop, seen, at, attempt, outcome>>

MyLine(w) == [hash |-> Mine(w), row |-> outcome[w]]

\* The results line, the quota stop, task_done().
Append(w) ==
  /\ pc[w] = "line"
  /\ results' = results \cup {MyLine(w)}
  /\ stop' = (stop \/ outcome[w].status = "quota")
  /\ seen' = seen \cup {at[w]}
  /\ Become(w, "idle")
  /\ at' = [at EXCEPT ![w] = None]
  /\ outcome' = [outcome EXCEPT ![w] = Failed]
  /\ Frame /\ UNCHANGED <<file, rows, txn, queue, attempt>>

FaultySaveRaises(w) ==               \* the exception is only logged
  /\ StorageFails
  /\ pc[w] \in Saving
  /\ Become(w, "idle")
  /\ at' = [at EXCEPT ![w] = None]
  /\ outcome' = [outcome EXCEPT ![w] = Failed]
  /\ Frame /\ UNCHANGED <<disk, txn, queue, stop, seen, attempt>>

\* A write raises; a results line may have got through. The first time the item
\* is recorded as an error, the second time the worker's task ends.
SaveRaises(w) ==
  /\ StorageFails
  /\ pc[w] \in Saving
  /\ \/ UNCHANGED results
     \/ pc[w] = "line" /\ results' = results \cup {MyLine(w)}
  /\ IF outcome[w].status = "error"
     THEN Become(w, "dead") /\ at' = [at EXCEPT ![w] = None] /\ UNCHANGED outcome
     ELSE /\ Become(w, "insert") /\ UNCHANGED at
          /\ outcome' = [outcome EXCEPT ![w] = Failed]
  /\ Frame /\ UNCHANGED <<file, rows, txn, queue, stop, seen, attempt>>

-----------------------------------------------------------------------------
Work(w) ==
  \/ Take(w) \/ Retry(w) \/ Fetched(w) \/ Refused(w) \/ OutOfQuota(w)
  \/ FetchRaises(w) \/ Promote(w) \/ Insert(w) \/ Commit(w) \/ Append(w)
  \/ SaveRaises(w)

Next == Launch \/ Joined \/ Rewrite \/ Crash \/ \E w \in Workers : Work(w)

Spec == Init /\ [][Next]_vars

\* The event loop runs every task that is ready, and every request times out.
FairSpec == Spec /\ WF_vars(Joined \/ Rewrite) /\ \A w \in Workers : WF_vars(Work(w))

-----------------------------------------------------------------------------
(* Properties *)

\* A manifest has a row per hash and source URL: a hash may have several rows.
Single(h) == \A i, j \in Items : HashOf[i] = h /\ HashOf[j] = h => i = j
NoDuplicates == \A h \in Hashes : Single(h)

\* A file is there; it is the one recorded, unless a second row of the manifest
\* may have brought another for the hash.
Backed(h, row) == file[h] # None /\ (Single(h) => file[h] = row.content)

\* What the checkpoint calls ok is on disk, whichever write of which run was the
\* last before a crash.
OkIsOnDisk == \A h \in Hashes : IsOk(rows[h]) => Backed(h, rows[h])

\* The same for the lines a later sync goes by, those of the runs that died
\* included: they are appended and only a run that ends rewrites them. If a write
\* raises after the line of an ok row, the hash is fetched anew and may differ.
OkLinesOnDisk ==
  \A l \in results : IsOk(l.row) =>
    /\ file[l.hash] # None
    /\ ~StorageFails => Backed(l.hash, l.row)

\* "Completed hashes survive interruptions": a hash that is ok when no run is
\* going on keeps its row and its file through every later run, several rows of
\* the manifest, failing writes and crashes notwithstanding.
CompletedSurvive ==
  \A h \in Hashes, r \in [status : {"ok"}, content : Payloads], c \in Payloads :
    [](main = "off" /\ rows[h] = r /\ file[h] = c => [](rows[h] = r /\ file[h] = c))

\* Hashes already ok are "never re-processed" (docs/nas-worker.md), within a run
\* either: an ok row stays one and its file is not replaced.
OkSticks ==
  [][\A h \in Hashes : IsOk(rows[h]) => IsOk(rows'[h]) /\ file'[h] = file[h]]_vars

\* When the results are about to be rewritten, every item counted has a row, and
\* an item of the run may have none only because some other ran out of quota: its
\* line says so, and so does the checkpoint unless a row with the same hash followed.
NothingLost ==
  main = "rewrite" =>
    /\ \A i \in seen : rows[HashOf[i]] # None
    /\ seen # picked => \E i \in seen :
         /\ \E l \in results : l.hash = HashOf[i] /\ l.row.status = "quota"
         /\ NoDuplicates => rows[HashOf[i]].status = "quota"

\* A run ends, with or without a quota stop, as long as one worker is left to drain
\* the queue: queue.join() waits for ever only if write errors have ended them all.
RunEnds == main # "off" ~> main = "off" \/ \A w \in Workers : pc[w] = "dead"

\* Why. A worker has an item exactly while it works on it, and no item is worked
\* on twice in a run.
Busy == Saving \cup {"fetch"}
PoolInv ==
  /\ \A w \in Workers : pc[w] \in Busy <=> at[w] # None
  /\ \A w \in Workers : at[w] # None => at[w] \in picked \ queue
  /\ \A v, w \in Workers : at[v] = at[w] /\ at[v] # None => v = w
  /\ main # "work" => queue = {} /\ \A w \in Workers : at[w] = None
  /\ main = "off" => txn = NoRow /\ picked = {}

\* What is queued or being fetched is ok nowhere, if no other row names its hash ...
Open(h) == ~IsOk(rows[h]) /\ ~IsOk(txn[h])
FreshInv ==
  /\ \A i \in queue : Single(HashOf[i]) => Open(HashOf[i])
  /\ \A w \in Workers :
       pc[w] \in {"fetch", "promote"} /\ Single(Mine(w)) => Open(Mine(w))

\* ... and what is about to be called ok, or is, is on disk.
DiskInv ==
  /\ OkIsOnDisk
  /\ \A h \in Hashes : IsOk(txn[h]) => Backed(h, txn[h])
  /\ \A w \in Workers : pc[w] = "promote" => outcome[w].content # None
  /\ \A w \in Workers :
       pc[w] \in {"insert", "commit", "line"} /\ outcome[w].status = "ok"
         => Backed(Mine(w), outcome[w])

=============================================================================
