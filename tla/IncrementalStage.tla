-------------------------- MODULE IncrementalStage --------------------------
(***************************************************************************)
(* Snapshot-aware incremental staging (patches 0007 and 0008).             *)
(*                                                                         *)
(* A scraper process scans one dump snapshot and keeps a tree of rendered  *)
(* question pages up to date: html/<shard>/<id>/{index.html,manifest.json} *)
(* It records every page it met in the Redis set snapshot:<id>:seen and    *)
(* may finally prune the staged pages that the snapshot no longer has.     *)
(* Processes may crash anywhere; an operator starts the next one.          *)
(*                                                                         *)
(* A version stands for what a page is rendered from: the pair (source     *)
(* fingerprint, render contract), both compared by equality in the code.   *)
(***************************************************************************)
EXTENDS Naturals, FiniteSets

CONSTANTS
  Runs,            \* scraper processes
  Posts,           \* question ids; a post is also the name of its page directory
  Versions,        \* fingerprints a question can have
  Snapshots,       \* dump snapshots, numbered in the order they were published
  Absent,          \* the question is not in the snapshot
  Excluded,        \* it is, but the processor returns early (deleted, unanswered)
  None,            \* no file, no process, no post
  Dumps,           \* the dump histories considered
  Overlap,         \* may the operator start a run while another one is active?
  InOrder,         \* does the operator never go back to an older snapshot?
  ExecutorRaises   \* does an item's exception surface out of Generator.run()?

Contents == Versions \cup {Absent, Excluded}
Histories == [Snapshots -> [Posts -> Contents]]

\* The fields of manifest.json that a later step reads.
Manifest == [schema : {1, 2}, version : Versions]

ASSUME SnapshotsAssumption == Snapshots \subseteq Nat
ASSUME NamesAssumption ==
  /\ {Absent, Excluded, None} \cap Versions = {}
  /\ Absent # Excluded
  /\ None \notin Runs \cup Posts \cup Manifest \cup Snapshots
ASSUME DumpsAssumption == Dumps \subseteq Histories
ASSUME FlagsAssumption ==
  /\ Overlap \in BOOLEAN /\ InOrder \in BOOLEAN /\ ExecutorRaises \in BOOLEAN

VARIABLES
  dump,      \* the content of every snapshot; fixed once chosen
  newest,    \* the newest snapshot a run has been started on
  dir,       \* the page directories that exist
  html,      \* version index.html was rendered from, or None
  manifest,  \* manifest.json, or None
  seen,      \* Redis: snapshot:<id>:seen
  done,      \* Redis: stage:done:questions
  lock,      \* holder of the flock on stage_root/.incremental.lock
  plan,      \* prune-plan-<snapshot>.jsonl
  pc,        \* where each process is
  snap,      \* the snapshot it processes
  prune,     \* was it given --prune-missing?
  item,      \* progress of the worker on each post
  failures,  \* PostGenerator.failures
  raised,    \* has an item's exception surfaced in the executor?
  seenCopy,  \* the set prune_stale_staged_pages read
  todo,      \* prune candidates not attempted yet
  target,    \* the candidate whose directory is being removed
  files      \* the files that rmtree listed there and has yet to unlink

stage == <<dir, html, manifest>>
redis == <<seen, done>>
dumps == <<dump, newest>>
opts  == <<snap, prune>>
pass  == <<item, failures, raised>>
purge == <<seenCopy, todo, target, files>>
local == <<opts, pass, purge>>
vars  == <<dumps, stage, redis, lock, plan, pc, local>>

-----------------------------------------------------------------------------
(* Types *)

RunPC == {"idle", "flush", "meta", "reset", "lock", "scan", "gate",
          "read", "list", "prune", "rmtree", "finish"}
PrunePC == {"read", "list", "prune", "rmtree"}

InFlight == {"open", "skip", "html", "manifest", "mark"}
ItemPC == {"none", "queued", "ok", "failed"} \cup InFlight

TypeOK ==
  /\ dump \in Histories
  /\ newest \in Nat
  /\ dir \subseteq Posts
  /\ html \in [Posts -> Versions \cup {None}]
  /\ manifest \in [Posts -> Manifest \cup {None}]
  /\ seen \in [Snapshots -> SUBSET Posts]
  /\ done \subseteq Posts
  /\ lock \in Runs \cup {None}
  /\ plan \in [Snapshots -> SUBSET Posts]
  /\ pc \in [Runs -> RunPC]
  /\ snap \in [Runs -> Snapshots]
  /\ prune \in [Runs -> BOOLEAN]
  /\ item \in [Runs -> [Posts -> ItemPC]]
  /\ failures \in [Runs -> Nat]
  /\ raised \in [Runs -> BOOLEAN]
  /\ seenCopy \in [Runs -> SUBSET Posts]
  /\ todo \in [Runs -> SUBSET Posts]
  /\ target \in [Runs -> Posts \cup {None}]
  /\ files \in [Runs -> SUBSET {"html", "manifest"}]

-----------------------------------------------------------------------------
(* Helpers *)

Live(s) == {p \in Posts : dump[s][p] \in Versions}
Mine(r, p) == dump[snap[r]][p]
IsV2(m) == m # None /\ m.schema = 2

\* What assembly takes from a page: a page needs both of its files.
Published(p) == html[p] # None /\ manifest[p] # None

\* Faulty variants, each named after the definition it stands in for, are what
\* the properties are tried on; no behaviour of the specification uses them.
FaultyShouldSkip_NoHtml(p, v) ==     \* index.html is not looked for
  IsV2(manifest[p]) /\ manifest[p].version = v
FaultyShouldSkip_IdOnly(p, v) ==     \* any page of the id will do
  IsV2(manifest[p]) /\ html[p] # None

\* should_skip_render on the manifest found, and index.html there.
ShouldSkip(p, v) ==
  /\ IsV2(manifest[p])
  /\ manifest[p].version = v
  /\ html[p] # None

\* What SMEMBERS returns: the members as redis-py hands them over, undecoded.
Replies(s) == {<<"bytes", p>> : p \in seen[s]}

\* {int(value) for value in raw_seen if str(value).isdigit()}: that keeps an int
\* or a str of digits, but the str() of a bytes object starts with b'.
Decoded(raw) == {m[2] : m \in {x \in raw : x[1] \in {"int", "str"}}}

FaultyCandidates(r) ==               \* legacy manifests are not set apart
  {p \in Posts : manifest[p] # None /\ p \notin seenCopy[r]}

Candidates(r) == {p \in Posts : IsV2(manifest[p]) /\ p \notin seenCopy[r]}

Goto(r, from, to) == pc[r] = from /\ pc' = [pc EXCEPT ![r] = to]

\* The process ends; what it had in memory is gone.
Exit(r) ==
  /\ pc' = [pc EXCEPT ![r] = "idle"]
  /\ item' = [item EXCEPT ![r] = [p \in Posts |-> "none"]]
  /\ failures' = [failures EXCEPT ![r] = 0]
  /\ raised' = [raised EXCEPT ![r] = FALSE]
  /\ seenCopy' = [seenCopy EXCEPT ![r] = {}]
  /\ todo' = [todo EXCEPT ![r] = {}]
  /\ target' = [target EXCEPT ![r] = None]
  /\ files' = [files EXCEPT ![r] = {}]
  /\ UNCHANGED opts

ItemTo(r, p, to) == item' = [item EXCEPT ![r][p] = to]

-----------------------------------------------------------------------------
(* start(): FLUSHDB, the metadata passes, then PostGenerator.run() *)

\* The stage the first incremental run finds: legacy pages of a full build.
Init ==
  /\ dump \in Dumps
  /\ newest = 0
  /\ dir \in SUBSET Posts
  /\ \E v \in Versions :
       /\ html = [p \in Posts |-> IF p \in dir THEN v ELSE None]
       /\ manifest = [p \in Posts |->
            IF p \in dir THEN [schema |-> 1, version |-> v] ELSE None]
  /\ seen = [s \in Snapshots |-> {}]
  /\ done = dir
  /\ lock = None
  /\ plan = [s \in Snapshots |-> {}]
  /\ pc = [r \in Runs |-> "idle"]
  /\ \E s \in Snapshots : snap = [r \in Runs |-> s]
  /\ prune = [r \in Runs |-> FALSE]
  /\ item = [r \in Runs |-> [p \in Posts |-> "none"]]
  /\ failures = [r \in Runs |-> 0]
  /\ raised = [r \in Runs |-> FALSE]
  /\ seenCopy = [r \in Runs |-> {}]
  /\ todo = [r \in Runs |-> {}]
  /\ target = [r \in Runs |-> None]
  /\ files = [r \in Runs |-> {}]

\* The operator launches sotoki --incremental --snapshot-id s [--prune-missing].
Start(r) ==
  /\ Goto(r, "idle", "flush")
  /\ Overlap \/ \A q \in Runs : pc[q] = "idle"
  /\ \E s \in Snapshots, b \in BOOLEAN :
       /\ InOrder => s >= newest
       /\ newest' = IF s > newest THEN s ELSE newest
       /\ snap' = [snap EXCEPT ![r] = s]
       /\ prune' = [prune EXCEPT ![r] = b]
  /\ UNCHANGED <<dump, stage, redis, lock, plan, pass, purge>>

\* reset_scraper_database: one FLUSHDB, with no lock held.
FlushDb(r) ==
  /\ Goto(r, "flush", "meta")
  /\ seen' = [s \in Snapshots |-> {}]
  /\ done' = {}
  /\ UNCHANGED <<dumps, stage, lock, plan, local>>

\* process_tags_metadata, process_questions_metadata, process_indiv_users_pages
\* touch neither the pages nor the seen sets; any of them may raise.
Metadata(r) ==
  /\ \/ Goto(r, "meta", "reset") /\ UNCHANGED local
     \/ pc[r] = "meta" /\ Exit(r)
  /\ UNCHANGED <<dumps, stage, redis, lock, plan>>

\* PostGenerator.run(): the seen set is deleted before the lock is tried.
ResetSeen(r) ==
  /\ Goto(r, "reset", "lock")
  /\ failures' = [failures EXCEPT ![r] = 0]
  /\ raised' = [raised EXCEPT ![r] = FALSE]
  /\ seen' = [seen EXCEPT ![snap[r]] = {}]
  /\ UNCHANGED <<dumps, stage, done, lock, plan, opts, item, purge>>

FaultyAcquireLock(r) ==              \* the lock is taken over
  /\ Goto(r, "lock", "scan")
  /\ lock' = r
  /\ item' = [item EXCEPT ![r] = [p \in Posts |->
                IF Mine(r, p) = Absent THEN "none" ELSE "queued"]]
  /\ UNCHANGED <<dumps, stage, redis, plan, opts, failures, raised, purge>>

\* acquire_incremental_lock: LOCK_EX | LOCK_NB; the scan is then fed the dump.
AcquireLock(r) ==
  /\ Goto(r, "lock", "scan")
  /\ lock = None
  /\ lock' = r
  /\ item' = [item EXCEPT ![r] = [p \in Posts |->
                IF Mine(r, p) = Absent THEN "none" ELSE "queued"]]
  /\ UNCHANGED <<dumps, stage, redis, plan, opts, failures, raised, purge>>

\* RuntimeError("concurrent runs are rejected"): start() returns 1.
Rejected(r) ==
  /\ pc[r] = "lock"
  /\ lock # None
  /\ Exit(r)
  /\ UNCHANGED <<dumps, stage, redis, lock, plan>>

-----------------------------------------------------------------------------
(* PostGenerator.processor and _stage_incremental: one worker per item. The *)
(* workers of a run work on different posts, any number of them at a time.  *)

ItemStep(r, p, from, to) ==
  /\ pc[r] = "scan"
  /\ item[r][p] = from
  /\ ItemTo(r, p, to)
  /\ UNCHANGED <<dumps, lock, plan, pc, opts, purge>>

NoFault == UNCHANGED <<failures, raised>>
Uncounted(r) ==
  /\ raised' = [raised EXCEPT ![r] = IF ExecutorRaises THEN TRUE ELSE @]
  /\ UNCHANGED failures
Counted(r) ==
  /\ raised' = [raised EXCEPT ![r] = IF ExecutorRaises THEN TRUE ELSE @]
  /\ failures' = [failures EXCEPT ![r] = @ + 1]

\* without_unanswered or a deleted post: return before anything is staged.
ItemExcluded(r, p) ==
  /\ ItemStep(r, p, "queued", "ok")
  /\ Mine(r, p) = Excluded
  /\ NoFault
  /\ UNCHANGED <<stage, redis>>

FaultyItemOpen(r, p) ==              \* deleted posts are staged too
  /\ ItemStep(r, p, "queued", "open")
  /\ dir' = dir \cup {p}
  /\ NoFault
  /\ UNCHANGED <<html, manifest, redis>>

\* stage_path.mkdir(parents=True, exist_ok=True)
ItemOpen(r, p) ==
  /\ ItemStep(r, p, "queued", "open")
  /\ Mine(r, p) \in Versions
  /\ dir' = dir \cup {p}
  /\ NoFault
  /\ UNCHANGED <<html, manifest, redis>>

\* harmonize_post, mkdir or fingerprint_post raises: outside the try, so nobody
\* counts it.
ItemOpenFails(r, p) ==
  /\ \E from \in {"queued", "open"} : ItemStep(r, p, from, "failed")
  /\ Mine(r, p) \in Versions
  /\ Uncounted(r)
  /\ UNCHANGED <<stage, redis>>

\* Unchanged pages are skipped, the others rendered.
ItemDecide(r, p) ==
  /\ ItemStep(r, p, "open", IF ShouldSkip(p, Mine(r, p)) THEN "skip" ELSE "html")
  /\ NoFault
  /\ UNCHANGED <<stage, redis>>

FaultyItemSkip(r, p) ==              \* a skipped page is not recorded
  /\ ItemStep(r, p, "skip", "ok")
  /\ NoFault
  /\ UNCHANGED <<stage, redis>>

\* A skipped page still enters the seen set ...
ItemSkip(r, p) ==
  /\ ItemStep(r, p, "skip", "ok")
  /\ seen' = [seen EXCEPT ![snap[r]] = @ \cup {p}]
  /\ NoFault
  /\ UNCHANGED <<stage, done>>

\* ... by an SADD outside the try.
ItemSkipFails(r, p) ==
  /\ ItemStep(r, p, "skip", "failed")
  /\ Uncounted(r)
  /\ UNCHANGED <<stage, redis>>

\* index.html is written beside and renamed in.
ItemHtml(r, p) ==
  /\ ItemStep(r, p, "html", "manifest")
  /\ p \in dir
  /\ html' = [html EXCEPT ![p] = Mine(r, p)]
  /\ NoFault
  /\ UNCHANGED <<dir, manifest, redis>>

\* manifest.json follows.
ItemManifest(r, p) ==
  /\ ItemStep(r, p, "manifest", "mark")
  /\ p \in dir
  /\ manifest' = [manifest EXCEPT ![p] = [schema |-> 2, version |-> Mine(r, p)]]
  /\ NoFault
  /\ UNCHANGED <<dir, html, redis>>

\* SADD snapshot:<id>:seen, SADD stage:done:questions
ItemMark(r, p) ==
  /\ ItemStep(r, p, "mark", "ok")
  /\ seen' = [seen EXCEPT ![snap[r]] = @ \cup {p}]
  /\ done' = done \cup {p}
  /\ NoFault
  /\ UNCHANGED stage

\* Any exception from the rendering to the second SADD: counted and re-raised.
\* The files already renamed stay, and the first SADD may have been made.
ItemFails(r, p) ==
  /\ \E from \in {"html", "manifest", "mark"} :
       /\ ItemStep(r, p, from, "failed")
       /\ \/ UNCHANGED seen
          \/ /\ from = "mark"
             /\ seen' = [seen EXCEPT ![snap[r]] = @ \cup {p}]
  /\ Counted(r)
  /\ UNCHANGED <<stage, done>>

FaultyEndScan(r) ==                  \* what the items raised is swallowed
  /\ \A p \in Posts : item[r][p] \notin InFlight \cup {"queued"}
  /\ Goto(r, "scan", "gate")
  /\ lock' = None
  /\ UNCHANGED <<dumps, stage, redis, plan, local>>

\* Generator.run() has joined its workers and, with the lock released by the
\* finally clause, returns or raises what an item raised. Items still queued
\* are dropped only when it raises.
EndScan(r) ==
  /\ pc[r] = "scan"
  /\ \A p \in Posts : item[r][p] \notin InFlight
  /\ \/ raised[r] /\ Exit(r)
     \/ /\ ~raised[r]
        /\ \A p \in Posts : item[r][p] # "queued"
        /\ Goto(r, "scan", "gate")
        /\ UNCHANGED local
  /\ lock' = None
  /\ UNCHANGED <<dumps, stage, redis, plan>>

-----------------------------------------------------------------------------
(* The prune gate of start() and prune_stale_staged_pages *)

Gate(r) ==
  /\ \/ prune[r] /\ failures[r] = 0 /\ Goto(r, "gate", "read")
     \/ ~(prune[r] /\ failures[r] = 0) /\ Goto(r, "gate", "finish")
  /\ UNCHANGED <<dumps, stage, redis, lock, plan, local>>

\* SMEMBERS; "aborting prune" when it raises.
ReadSeen(r) ==
  /\ \/ /\ Goto(r, "read", "list")
        /\ seenCopy' = [seenCopy EXCEPT ![r] = Decoded(Replies(snap[r]))]
     \/ /\ Goto(r, "read", "finish")
        /\ UNCHANGED seenCopy
  /\ UNCHANGED <<dumps, stage, redis, lock, plan, opts, pass, todo, target, files>>

FaultyPlanPrune(r) ==                \* nothing is journaled before the removals
  /\ Goto(r, "list", IF Candidates(r) = {} THEN "finish" ELSE "prune")
  /\ todo' = [todo EXCEPT ![r] = Candidates(r)]
  /\ UNCHANGED <<dumps, stage, redis, lock, plan, opts, pass, seenCopy, target, files>>

\* The candidates, journaled and fsynced before any removal.
PlanPrune(r) ==
  /\ Goto(r, "list", IF Candidates(r) = {} THEN "finish" ELSE "prune")
  /\ todo' = [todo EXCEPT ![r] = Candidates(r)]
  /\ plan' = IF Candidates(r) = {} THEN plan
             ELSE [plan EXCEPT ![snap[r]] = Candidates(r)]
  /\ UNCHANGED <<dumps, stage, redis, lock, opts, pass, seenCopy, target, files>>

\* The next candidate passes _validate_prune_target; rmtree lists its directory.
PickCandidate(r, p) ==
  /\ Goto(r, "prune", "rmtree")
  /\ p \in todo[r] /\ p \in dir
  /\ target' = [target EXCEPT ![r] = p]
  /\ files' = [files EXCEPT ![r] = {f \in {"html", "manifest"} :
       IF f = "html" THEN html[p] # None ELSE manifest[p] # None}]
  /\ UNCHANGED <<dumps, stage, redis, lock, plan, opts, pass, seenCopy, todo>>

\* It unlinks the files it listed, in any order ...
RemoveFile(r) ==
  /\ pc[r] = "rmtree"
  /\ \/ /\ "html" \in files[r] /\ html[target[r]] # None
        /\ files' = [files EXCEPT ![r] = @ \ {"html"}]
        /\ html' = [html EXCEPT ![target[r]] = None]
        /\ UNCHANGED manifest
     \/ /\ "manifest" \in files[r] /\ manifest[target[r]] # None
        /\ files' = [files EXCEPT ![r] = @ \ {"manifest"}]
        /\ manifest' = [manifest EXCEPT ![target[r]] = None]
        /\ UNCHANGED html
  /\ UNCHANGED <<dumps, dir, redis, lock, plan, pc, opts, pass, seenCopy, todo, target>>

\* ... then removes the directory, which must be empty.
RemoveDir(r) ==
  /\ Goto(r, "rmtree", "prune")
  /\ files[r] = {} /\ target[r] \in dir
  /\ html[target[r]] = None /\ manifest[target[r]] = None
  /\ dir' = dir \ {target[r]}
  /\ todo' = [todo EXCEPT ![r] = @ \ {target[r]}]
  /\ target' = [target EXCEPT ![r] = None]
  /\ UNCHANGED <<dumps, html, manifest, redis, lock, plan, opts, pass, seenCopy, files>>

FaultyPruneFails(r) ==               \* the failed candidate is tried again
  /\ pc[r] \in {"prune", "rmtree"} /\ todo[r] # {}
  /\ pc' = [pc EXCEPT ![r] = "prune"]
  /\ target' = [target EXCEPT ![r] = None]
  /\ files' = [files EXCEPT ![r] = {}]
  /\ UNCHANGED <<dumps, stage, redis, lock, plan, opts, pass, seenCopy, todo>>

\* The validation or the removal raises: the remaining candidates are left.
PruneFails(r) ==
  /\ pc[r] \in {"prune", "rmtree"} /\ todo[r] # {}
  /\ pc' = [pc EXCEPT ![r] = "finish"]
  /\ target' = [target EXCEPT ![r] = None]
  /\ files' = [files EXCEPT ![r] = {}]
  /\ UNCHANGED <<dumps, stage, redis, lock, plan, opts, pass, seenCopy, todo>>

PruneEnds(r) ==
  /\ Goto(r, "prune", "finish")
  /\ todo[r] = {}
  /\ UNCHANGED <<dumps, stage, redis, lock, plan, local>>

\* database.remove(): a flush, unless --keep-redis.
Finish(r) ==
  /\ pc[r] = "finish"
  /\ \/ UNCHANGED redis
     \/ seen' = [s \in Snapshots |-> {}] /\ done' = {}
  /\ Exit(r)
  /\ UNCHANGED <<dumps, stage, lock, plan>>

\* The process dies. The kernel drops its flock; files, journal and Redis stay.
Crash(r) ==
  /\ pc[r] # "idle"
  /\ Exit(r)
  /\ lock' = IF lock = r THEN None ELSE lock
  /\ UNCHANGED <<dumps, stage, redis, plan>>

-----------------------------------------------------------------------------
(* Specification *)

Item(r, p) ==
  \/ ItemExcluded(r, p) \/ ItemOpen(r, p) \/ ItemOpenFails(r, p)
  \/ ItemDecide(r, p) \/ ItemSkip(r, p) \/ ItemSkipFails(r, p)
  \/ ItemHtml(r, p) \/ ItemManifest(r, p) \/ ItemMark(r, p) \/ ItemFails(r, p)

\* A step of the program, as opposed to its operator or its end.
Step(r) ==
  \/ FlushDb(r) \/ Metadata(r) \/ ResetSeen(r) \/ AcquireLock(r) \/ Rejected(r)
  \/ \E p \in Posts : Item(r, p) \/ PickCandidate(r, p)
  \/ EndScan(r) \/ Gate(r) \/ ReadSeen(r) \/ PlanPrune(r)
  \/ RemoveFile(r) \/ RemoveDir(r) \/ PruneFails(r) \/ PruneEnds(r) \/ Finish(r)

Next == \E r \in Runs : Start(r) \/ Step(r) \/ Crash(r)

Spec == Init /\ [][Next]_vars

\* A started process keeps running until it ends or dies.
FairSpec == Spec /\ \A r \in Runs : WF_vars(Step(r))

-----------------------------------------------------------------------------
(* Properties *)

FileLost(p) ==
  \/ html[p] # None /\ html'[p] = None
  \/ manifest[p] # None /\ manifest'[p] = None

\* Scanning and holding .incremental.lock are the same thing: no two processes
\* ever stage pages at once, whatever the operator starts and whatever crashes.
ScanHoldsLock == \A r \in Runs : pc[r] = "scan" <=> lock = r

\* Work is in flight only while its run scans, on questions of its snapshot.
ItemsScanned == \A r \in Runs, p \in Posts :
  item[r][p] \in InFlight => pc[r] = "scan" /\ Mine(r, p) \in Versions

\* When the prune gate opens, the seen set of the snapshot holds every question
\* of it, skipped or rendered: there is no failure the gate does not know of.
SeenCoversScan ==
  \A r \in Runs : pc[r] \in {"gate", "read"} /\ failures[r] = 0
                   => Live(snap[r]) \subseteq seen[snap[r]]

\* The prune policy of system-design.md: a staged file disappears only for a
\* question that the snapshot being processed does not have. The code breaks it.
PrunesOnlyAbsent ==
  [][\A p \in Posts : FileLost(p) =>
       \E r \in Runs : target[r] = p /\ p \notin Live(snap[r])]_vars

\* What does hold (H2): a staged file disappears only by a process that was asked
\* to prune, scanned every question of its snapshot and saw none of them fail.
PrunesAfterScan ==
  [][\A p \in Posts : FileLost(p) =>
       \E r \in Runs :
         /\ target[r] = p /\ prune[r] /\ failures[r] = 0
         /\ \A q \in Live(snap[r]) : item[r][q] = "ok"]_vars

\* And only once its removal is in the fsynced plan of that snapshot (H4).
JournaledRemovals ==
  [][\A p \in Posts : FileLost(p) =>
       \E r \in Runs : target[r] = p /\ p \in plan[snap[r]]]_vars

\* A legacy (schema 1) page is re-rendered at most; no prune ever takes it.
LegacyKept ==
  [][\A p \in Posts : manifest[p] # None /\ manifest[p].schema = 1
       => html'[p] # None /\ manifest'[p] # None]_vars

\* After a pass without failures every question of the snapshot has a page
\* rendered from what the snapshot says, until a prune goes at it: even if earlier
\* passes died between the two renames and the page was then skipped as unchanged,
\* or died inside rmtree and left half a page.
FreshPage(r, p) ==
  /\ html[p] = Mine(r, p)
  /\ manifest[p] = [schema |-> 2, version |-> Mine(r, p)]
FreshAfterPass ==
  \A r \in Runs :
    /\ pc[r] \in {"gate", "read", "list"} \/ (pc[r] = "finish" /\ ~prune[r])
    /\ failures[r] = 0
    => \A p \in Live(snap[r]) : FreshPage(r, p)

\* In history d no question comes back to a version it had before an edit.
NeverReverts(d) ==
  \A p \in Posts : \A s, t, u \in Snapshots :
    s < t /\ t < u /\ d[s][p] \in Versions /\ d[t][p] \in Versions
      /\ d[s][p] # d[t][p] => d[u][p] # d[s][p]

\* A process that was started ends: the workers are joined, the lock is never
\* waited for, and the prune loop is finite.
RunsEnd == \A r \in Runs : pc[r] = "flush" ~> pc[r] = "idle"

\* Why no prune takes a legacy page: it is never a candidate, not even of a plan
\* made before another process changed the stage, and it keeps its index.html.
LegacyInv ==
  /\ \A p \in Posts : manifest[p] # None /\ manifest[p].schema = 1 => html[p] # None
  /\ \A r \in Runs : \A p \in todo[r] : manifest[p] = None \/ manifest[p].schema = 2
  /\ \A r \in Runs : pc[r] = "rmtree" => target[r] \in todo[r]

\* Why a prune comes after a scan without failures, whoever else runs: once the
\* scan has ended without raising, no item of it is anything but ok.
ScannedInv ==
  \A r \in Runs :
    /\ pc[r] = "scan" => \A p \in Live(snap[r]) :
         /\ item[r][p] # "none"
         /\ item[r][p] = "failed" => raised[r]
    /\ pc[r] \in {"gate"} \cup PrunePC =>
         \A p \in Live(snap[r]) : item[r][p] = "ok"
    /\ pc[r] \in PrunePC => prune[r] /\ failures[r] = 0

\* Why the gate knows every question, as long as one process runs at a time and
\* failures surface: what was scanned is in the seen set.
SoleRun == \A q, r \in Runs : pc[q] # "idle" /\ pc[r] # "idle" => q = r
ItemsSeen ==
  \A r \in Runs : pc[r] = "scan" => \A p \in Live(snap[r]) :
    /\ item[r][p] # "none"
    /\ item[r][p] = "ok" => p \in seen[snap[r]]
    /\ item[r][p] = "failed" => raised[r]
PruneInv ==
  /\ SoleRun
  /\ ItemsSeen
  /\ \A r \in Runs :
       pc[r] \in {"gate", "read"} => Live(snap[r]) \subseteq seen[snap[r]]

\* What the stage looks like to the promise in SnapshotMirror.
Page(p) ==
  CASE ~Published(p) -> None
    [] Published(p) /\ html[p] = manifest[p].version -> html[p]
    [] OTHER -> "torn"
Active == {r \in Runs : pc[r] # "idle"}
Syncing == IF Active = {} THEN None ELSE snap[CHOOSE r \in Active : TRUE]
Complete == \E r \in Active :
  pc[r] \in {"gate", "finish"} \cup PrunePC /\ failures[r] = 0
Pruning == \E r \in Active : prune[r]

Mirror == INSTANCE SnapshotMirror WITH
  Torn <- "torn",
  pages <- [p \in Posts |-> Page(p)],
  syncing <- Syncing,
  complete <- Complete,
  pruning <- Pruning
MirrorSpec == Mirror!Spec

=============================================================================
