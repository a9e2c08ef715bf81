# Verification project for stackoverflow-zim-rebuild

TLA+ models of the parts of this repository that keep state over crashes,
concurrent workers and repeated runs, the TLC runs that check them on small
instances, and TLAPS proofs of their main invariants for every instance.

`P2` ... `P9` below are the files `src/patches/sotoki/000N-*.patch`; numbers are
lines of those files.

## 1. Inventory

The repository rebuilds a Stack Overflow ZIM in stages. State lives in files (the
*stage* tree, image trees, SQLite checkpoints, JSONL journals) and in one Redis
database; processes are started by an operator and may be killed at any time.

| Component | Source | State | Operations | Hard part |
|---|---|---|---|---|
| Incremental staging, prune | P6, P7, P8 | `html/<shard>/<id>/{index.html,manifest.json}`, Redis `snapshot:<id>:seen` and `stage:done:questions`, `.incremental.lock`, prune plan | FLUSHDB, metadata passes, DEL seen, lock, per-question skip/render/mark, gate, prune | crash between two renames, failures in workers, stale manifests, overlapping processes, a prune that trusts a set in Redis |
| Legacy staging, resume | P2, P7 | the same tree (schema 1), `stage:done:questions` | skip if done and `index.html` exists, render, mark | ID-only resume, drift between Redis and files |
| Assembly inside sotoki | P3, P4 | ZIM creator | walk the stage, add pages | which pages are taken |
| Dump preparation | P5, P9 | build directory | copy/extract, stamp | sequential, redone each time |
| CDN image worker | `docker/image-worker/recover_convert_images.py` | SQLite `images`, output tree, results JSONL, rate limiter | asyncio workers fetch, convert, record; quota stop; rewrite of results | two manifest rows with one hash, back-off races, crash between file, row and results line, workers that die |
| IA worker | `docker/image-worker/ia_sstatic_basename_recovery.py` | SQLite, results JSONL, files | fetch, append, commit | order of the three writes |
| Fetch library | `recovery/lib/images.py` | checkpoint store, per-host throttle | download with retries | failed = done, back-off |
| Append-only manifest | `recovery/lib/manifest.py` | JSONL manifest | append, rewrite, load | torn tail, two writers |
| Recovery pipeline | `recovery/{classify_missing,sync_to_stage,finalize_unavailable,verify_images}.py` | stage images, manifests | classify, copy, placeholder, verify | checks that are stale when used |
| Rescue, upgrade | `recovery/{rescue_edge_cases,upgrade_small_ia_images}.py` | stage images, manifests | resolve, replace | as above |
| Assembly driver | `bin/assemble` | lock, output ZIM, release manifest | preconditions, gates, promotion | crash around promotion, checks made before the lock |
| Restore, Redis | `bin/restore-baseline`, `bin/redis` | marker, lock, data dir | verify, extract, mark ready | crash between extraction and marker |
| Inventories, builders | `recovery/{recover_unmapped,recover_posthistory,build_ia_manifest,extract_all_image_hosts,inventory_stage}.py` | none | one pass over files | none |
| Audits, tools, CI | `scripts/*`, `bin/bootstrap`, `.github/*` | none | reports | none |

How they interact: a staging run fills the stage; the image workers fill an image
tree from a manifest; the recovery scripts decide which images are missing and copy
results into the stage; `bin/assemble` starts sotoki in assemble-only mode over the
stage. They share the stage and Redis, and the only coordination is three unrelated
lock files (`.incremental.lock`, `.assemble.lock`, `.restore.lock`) and the marker
`.sotoki-rebuild-ok` that a restore leaves for an assembly. Between the image workers
and the stage stand two files that the operator carries: the sync manifest made from
`results.jsonl`, and the list of images that are still missing.

What makes each correct:

* staging: nothing live is lost, nothing stale is kept, whatever dies when;
* image workers: an image recorded `ok` is on disk and complete, every item ends
  with one outcome, a resumed run does the rest and only the rest;
* recovery: an image that was recovered is never replaced by a placeholder;
* manifests: no entry is lost, a torn tail loses at most itself;
* assembly and restore: no release from a stage that is not ready, no promotion
  without the gates, no run of one while the other one writes.

## 2. Modules

| Module | Models | Kind |
|---|---|---|
| `IncrementalStage` | staging and prune, P7 and P8 (with the parts of P2, P3, P6 they run through) | component |
| `SnapshotMirror` | what incremental staging promises, without files, Redis or workers | abstract specification |
| `ImageWorker` | the CDN worker: pool, checkpoint, files, results, quota stop, resume | component |
| `HostPacing` | its `RateLimiter` and the refusals of one host | component |
| `IAWorker` | the Internet Archive worker: shards, members, rows, lines, commits | component |
| `StageImages` | the images of the stage and the scripts classify, sync, finalize, verify | component |
| `ImageRecovery` | `IAWorker` and `StageImages` together | composition |
| `ImageFetch` | configuration, fetch library, manifest, and the scripts rescue and upgrade over them | component |
| `Release` | `restore-baseline`, `bin/redis`, `bin/assemble` and its gates | component |
| `*_proofs` | the theorems about the module of that name | proofs |
| `IncrementalMirror_proofs` | more theorems about `IncrementalStage`, over its first proof module: passes, prunes, and the refinement of `SnapshotMirror` | proofs |
| `MC*` | the instances of the module of that name | instances |

Definitions named `Faulty...` are what one slip of a programmer would make of the
definition they follow (a dropped check, a swapped order, a missing reset). No
specification uses them. They document what each property is there to notice: with
the faulty form in the place of the real one, the property fails on the same
instance on which it holds for the code.

### IncrementalStage

A behaviour is any number of scraper processes (`Runs`), each started by an operator
on a snapshot, with or without `--prune-missing`.

* *Files.* `html[p]` and `manifest[p]` are the two files of a page directory, `dir`
  the directories. A *version* is the pair (source fingerprint, render contract)
  that the code compares by equality; schema 1 manifests are those of legacy
  staging. Temporary files are left out: they are renamed into place in the step
  that makes them visible. The initial stage holds any set of legacy pages of a
  full build, both files of each.
* *Redis.* `seen` and `done` are the two sets used. `FlushDb` empties both, as
  FLUSHDB does, whoever else is at work; `Finish` may.
* *A process* goes through `flush`, `meta`, `reset`, `lock`, `scan`, `gate`, `read`,
  `list`, `prune`/`rmtree`, `finish`; each is the state before the call of that name
  in `StackExchangeToZim.start` and `PostGenerator.run`. Every call that touches
  something shared is one action.
* *A question* is a worker's item with a place of its own (`item[r][p]`): opened,
  decided (skip or render), HTML renamed, manifest renamed, marked in Redis.
  Each place may raise; `Uncounted` and `Counted` are the two ways
  to fail, outside and inside the `try` that counts.
* *Death* (`Crash`) may come before every step. The kernel drops the `flock`; files,
  plan and Redis remain.

* *Replies.* The client answers SMEMBERS with bytes (P5:68-74, P2:369). `Replies` is that
  reply and `Decoded` what the prune reads of it with `str(value).isdigit()` (P8:111): of
  bytes, nothing. The seen set that the prune goes by is therefore empty.

Three flags name what the environment may do, so that a run or a theorem says what it
rests on: `Overlap` (a second process is started while one is active), `InOrder`
(snapshots are never processed backwards), `ExecutorRaises` (an exception of an item
surfaces out of the executor). The executor of the external scraper library is modelled
from its use: `run()` returns after its workers have finished.

`SnapshotMirror` has pages that show a version, nothing, or something torn, and three
rules: a page changes only towards the snapshot being synced; the sync is complete only
when every question is fresh; pages are removed only in a complete sync that was asked to
prune. *Which* pages such a sync removes it leaves open, for the code takes the wrong ones.
`IncrementalStage` implements it under the mapping at its end (`Page`, `Syncing`,
`Complete`, `Pruning`).

### ImageWorker

One process at a time (`main`), a pool of asyncio tasks (`Workers`), and what survives
a death: `file`, the committed checkpoint `rows`, `results`. Tasks interleave where
the code awaits, and processes die anywhere:

* `Take`, then one action per answer of `Downloader.fetch` (`Retry`, `Fetched`,
  `Refused`, `OutOfQuota`, `FetchRaises`), `Promote` (temporary file and rename: no
  await in between), `Insert` and `Commit` (the two awaits of `record`), `Append`
  (results line, stop, `task_done`).
* All tasks share one SQLite connection: `Commit` makes durable what *any* of them has
  inserted (`txn`), and a death loses what is in `txn`.
* `Launch` computes the pending items from the checkpoint once; `Joined`, `Rewrite`
  are the end of `main_async`. `SaveRaises`, allowed by `StorageFails`, is a write
  that raises, once into the `except` branch and a second time out of the task.
* `HashOf` lets several rows name one hash, as the manifests do: `classify_missing.py:18-19`
  writes one row per (hash, source_url). `Single(h)` says that one row names `h`, and
  `Backed` what a row promises of the disk: a file, and for a hash with one row the
  recorded content. Of several rows with one hash each is fetched, and the later file
  replaces the earlier.

Statuses that end an item without an image (`rejected`, `too_large`, `http_error`,
`network_error`) are one, `failed`. Contents are compared for equality only.

### HostPacing

Time is a natural number that `Tick` advances at any moment, so a sleeper may wake
late. `wait()` is three actions: `Enter` (up to the lock), `PassLock` or `SleepLocked`,
and `Wake`; `backoff()` is part of `Refusal`, which takes no lock. `refused` is the latest
time a refusal asked for, `asked` and `last` tell when the previous request was made;
they only serve to state the properties. A task that gives up after its last
attempt is `over`: it stops the run.

### IAWorker

One process, started any number of times, and three things that survive it: `file`,
`rows`, `results`. `txn` is the open SQLite transaction.

* `Launch` picks the items that are neither `ok` nor on disk (`Done`) and the shards
  that hold their names; `OpenShard` opens the next one. A shard that is not there, or
  is no ZIP file, fails all its items (`Blame`).
* In an open shard each wanted member ends in `Extract`, `Refuse` (no such member, or
  nothing that validates) or `Raise`. `Wanted` is the dict by basename: of two items
  that ask for one member the later one gets it, the other stays for the next run.
* `Record` inserts the row and appends the line. Its two ways to fail go where the
  `except` branches go: inside the `try` of a member the item is recorded again as an
  error (`RecordRaises`), outside it the shard is given up (`LineRaises`).
* Here too a hash may have several rows, one per name in the archive
  (`build_ia_manifest.py:4`), and in several shards; `Single` and `Backed` are as above.
* `Commit` is once per shard, `Finish` rewrites `results.jsonl` from the checkpoint,
  `Die` may come between any two steps.

The statuses `reject`, `fail` and `error` are one, `failed`; names are letters and shards
their numbers.

### StageImages and ImageRecovery

The stage image of a hash is nothing, the placeholder that sotoki stages, the
placeholder that finalize writes, a recovered image, or a file that does not decode (`Torn`
says whether the stage starts with such files). `is_placeholder` compares with one size and
one sha256, so that a spec confirms at most one of the two placeholders (`Confirmed`);
`AsShipped` is the spec in `data/`, which has sotoki's.

A script (`Scripts`) is started by the operator with a list of hashes, dry or live,
and goes through them one at a time. The list a finalize is given may be one column
without a header, of which `load_pending` keeps the first hash alone (`StartFinalize`). The look at a file (`SyncLook`, `FinalizeLook`)
and the write that it decides (`SyncCopy`, `FinalizeWrite`) are two steps, and anything may
happen between them; `Abort` kills a script anywhere. `BuildManifest` is the operator's
step between the worker and a sync (docs/nas-worker.md); of several `ok` lines of one hash it
may take any (`Listed`). `through` remembers how far the
documented order sync, classify, finalize has come with the current manifest.

`ImageRecovery` conjoins the two: `out` of the scripts is `file` of the worker, and
`results` is the worker's. The worker may run, die and start again during any script.

### ImageFetch

* *Configuration.* `FromEnv` and `FromArgs` are the layers of `config.py`, for the two
  options that decide whether sockets may be opened; `fetch_ok` is the outcome. `asked`
  remembers which of the command line and the environment asked for downloads (`Opens`).
* *Manifest.* `Add` is `ManifestWriter.add` with its duplicate rule, `Close` replaces
  the file as a whole, `Die` discards it. `StartRescue` loads an old manifest or none.
* *rescue.* A dry run records its candidates (`List`). Otherwise `Pick` takes the next
  candidate that was not tried yet, then one action
  per outcome of `download_image`: `Retry`, `Rescued`, `NoImage`, `Refused`,
  `QuotaStop`. What is no image may be a page; `Scrape` appends its links to the candidates
  by `PageCandidates` (by score, then page order, each URL once, icons last). It is written
  as the one enumeration of the best finds that follows their order, not as a sort, so that
  it can be reasoned about without recursion.
* *upgrade.* `Upgraded` writes the download over the directory's file, `Judge`
  compares and removes what is not larger. Its input is `Candidates` as well: it may name a
  hash with several URLs, or with one URL twice, for `load_small_manifest` takes rows as
  they come.

`sent` counts the requests that rescue makes for the hash in hand; it stops at one more than
`Bound`, the greatest number `RequestsBounded` allows (every URL `MaxRetries + 1` times, and
`PageLimit` pages). A request that is redirected (`images.py:364-370`) counts as one.

### Release

`stage[p]` is the bundle a page came from; bundles may have different pages (`Bundle`). A
restore (`rpc`) checks the marker, takes its lock, validates, removes the marker, stops Redis
unless told `--no-redis` (`NoRedis`), copies page by page, starts Redis and verifies; only
`VerifyRestore` writes the marker. `Copy` goes over the pages that rsync visits (`Visited`):
those of the bundle and, in `--replace` mode, which is `rsync -a --delete`
(`restore-baseline:300`), those that the bundle lacks, which it removes. An assembly (`apc`) looks at the marker
and counts pages, takes *its* lock, asks for Redis and runs the preflight, has
sotoki pack page by page, finds the one new ZIM under `TMP_DIR`, audits, compares,
promotes by one rename, and then reads the final path back for its manifest. `calm` is a
history variable: no rsync has touched a page since the last preflight.

Deaths are of two kinds: an error runs the EXIT trap (`Die`), SIGKILL does not
(`KillRestore`, `Kill`). A child that a killed script leaves behind, rsync or sotoki, keeps
the inherited lock and goes on (`orphan`). The gates are what `audit_zim.py` and
`compare_baseline.py` demand of pages and entries; what they find in images, keys or
headers is a choice of the step.

## 3. What the runs check

| Run | Instance | Shows |
|---|---|---|
| `StageSerial` | 1 process at a time, any number in sequence; 2 questions, 2 versions, 2 snapshots | types; the gate opens on a complete seen set (`SeenCoversScan`); a complete pass leaves every live page fresh until a prune goes at it, however often it was torn before (`FreshAfterPass`); files go only in a pass that was asked to prune and saw every question succeed (`PrunesAfterScan`), and only after the plan names them (`JournaledRemovals`); the stage implements `SnapshotMirror` |
| `StageOverlap` | 2 overlapping processes, 1 question, every content, silent executor | `ScanHoldsLock`, `LegacyKept` and `RunsEnd` hold without any help of the environment |
| `WorkerFaults` | 2 tasks, 2 rows with one hash, 2 contents, 1 retry, writes may raise, deaths and restarts | rows and lines that say `ok` have their file (`OkIsOnDisk`, `OkLinesOnDisk`); a hash that is `ok` between runs stays so, with its file (`CompletedSurvive`); no item a run counts is left without a row, except by a quota stop (`NothingLost`); a run ends (`RunEnds`) |
| `PacingGap` | 3 tasks, delay 2, refusals of 1 and 3, clock to 6 | `MinGap`; a back-off is only lost to a task that slept meanwhile (`BackoffHeld`) |
| `ArchiveResume` | 3 rows, 2 of them on one hash and 2 on one member; 2 shards, 2 contents, writes may raise | `OkIsOnDisk`, `RowsHaveLines`, `CompletedSurvive`; an operator who goes on restarting gets what the archive has (`Extracted`) |
| `Recovery` | the archive worker with 2 hashes and 1 shard, and 1 script at a time, on a stage that may hold undecodable files, under the shipped spec | real images stay (`RealKept`), what is copied is what the manifest says (`SyncedIsRecorded`), the documented order leaves nothing missing (`Converges`), what a PASS does vouch for (`PassIsSound`) |
| `Rescue` | 2 hashes, one of them named twice with one URL, 3 URLs whose pages link in circles, 1 retry, 2 pages, old and new manifests | requests are bounded (`RequestsBounded`) and recorded (`RecordedIfNew`); the upgrade report ends with what is on disk (`UpgradesMatch`); a run ends (`RunEnds`) |
| `Release` | 2 questions, 2 restores, one of a bundle that lacks a question; 2 assemblies of 2 flavours | `MarkerHonest`, `WholeIfCalm`, `RightFlavour`, `ManifestOwn`, `RestoreLockFree` |

Four runs show where the code departs from its own documents; each gives a trace, and
`PROJECT.json` quotes the lines contradicted.

| Run | Property | What the trace shows |
|---|---|---|
| `StagePruneBytes` | `PrunesOnlyAbsent` | a complete pass prunes the page of a question that its snapshot has, for no member of the reply to SMEMBERS is read as an id |
| `RecoveryVerdict` | `PassIsHonest` | finalize writes its placeholder, the worker then recovers the image, and `verify_images` passes although a sync has left the placeholder in its place |
| `RescueEnv` | `EnvironmentOpens` | `--fetch` with `RECOVERY_DRY_RUN=0 RECOVERY_FETCH=1` in the environment makes no request |
| `ReleaseReplace` | `PromotedWhole` | a `--replace` beside an assembly deletes pages while sotoki packs; no later gate counts questions, and a ZIM outside the tolerance is promoted |

### Limits of what holds

Each item names a stronger statement that a reader of the code or its documents might expect, and
why it is not true. The definitions named here are in the modules; those that no run checks can be
added to the cfg that is named, and TLC then shows the trace.

* `PrunesOnlyAbsent` fails by byte replies alone (`StagePruneBytes`). The tests do not show it,
  because `FakeDatabase` returns ints (P9:171-172). With decoded replies two hazards would
  remain. A process releases the lock (P7:224) before it prunes, and a second one flushes
  Redis (P8:51) before it asks for the lock: the prune then reads an empty set even if the second
  process is rejected. And if the executor swallows exceptions, a
  failure outside the counted `try`, the SADD of a skipped page for one, leaves a live question
  unseen.
* `SeenCoversScan` needs `~Overlap` for the same FLUSHDB: set it to `TRUE`, with a second process,
  in `StageSerial`.
* `FreshAfterPass` needs histories that never return to an old text (`NeverReverts`). A death
  between the two renames, then the old text again, and the torn page is
  skipped as unchanged. The smallest such history has two versions and three snapshots.
* `OkSticks`, "hashes already `ok` are never re-processed" (docs/nas-worker.md:88,157-158), is
  false within a run (`WorkerFaults`, `ArchiveResume`): of two rows with one hash
  (`classify_missing.py:18-19`, `build_ia_manifest.py:4`) the second is fetched after the first is `ok`, and its
  outcome, a failure perhaps, replaces the row. In the CDN worker a results line that cannot
  be written after the commit of an `ok` row does the same. What holds is `CompletedSurvive`: a hash
  that is `ok` when no run is going on stays `ok`, with its file.
* For a hash with several rows, `OkIsOnDisk`, `OkLinesOnDisk` and `SyncedIsRecorded` do not promise the
  recorded content, only that the file is there: the rows may have brought different bytes. For
  a hash with one row they do, except that a line of the CDN worker may tell of an earlier
  download when a write has failed after it.
* `RunEnds` of the CDN worker allows one hang: a task whose recording of an error raises ends, and when
  all have ended `queue.join()` waits for items nobody takes.
* `NothingLost` says that an item dropped by a quota stop has company: some item of the run
  has a line that says so. Its checkpoint row says so too with one row per hash only, for
  the item of another row with the same hash may be recorded after it.
* `BackoffHeld` says how far "Retry-After honor" goes: `wait()` overwrites a back-off
  that was set while it slept.
* A file that the archive worker wrote before it was killed, and whose row was never
  committed, is skipped by every later run and never has a results line. `Extracted`
  speaks of the file for that reason.
* `RealKept` needs one script at a time: a finalize that looked before a sync wrote
  replaces the recovered image.
* A round trip through `is_placeholder` (`finalize_unavailable.py:10-12`, recovery/README.md:155-156)
  there is for one of the two placeholders only, whichever the spec has. So `Converges` promises a
  recovered image on the stage unless an unconfirmed placeholder or a file that does not
  decode lay there first, both of which sync and classify leave alone, and `PassIsSound` leaves out
  what `PassIsHonest` claims.
* `ListServed`, that a live finalize leaves no hash of its list without a file, is false for a
  list of one column without header, which `load_pending` says it tolerates (`finalize_unavailable.py:61-62,68-81`):
  the first line is taken for the header, and only that hash is served (`Recovery`).
* `RecordedIfNew` allows for a manifest that knows the URL already: a rescue after a
  dry run on the same manifest keeps the dry run's row and drops the result.
* `UpgradesMatch` speaks of the last verdict on a hash at the end of a run. An earlier
  `upgrade_candidate` of the same hash may be taken away by a later `no_improvement`, and a run
  killed between `Upgraded` and `Judge` leaves a file nobody compared.
* `EnvironmentOpens` is false since the parser always gives `dry_run` a value, which overrides
  the environment's. What the code keeps is the other direction, `AskedForSockets`.
* `PromotedWhole` is false beside a `--replace` (`ReleaseReplace`). What holds is `WholeIfCalm`: a ZIM
  packed while no rsync touched a page is within the tolerance, and every promoted one is sound.
* `RestoreLockFree` says nothing of a killed restore's stage: it has pages and no marker, so that
  neither `--replace` nor a fresh restore accepts it (docs/troubleshooting.md:137-143 says to
  clean up by hand).
* `SoundPasses`, that the audit passes every sound ZIM, is false with `zimdump` in PATH
  (docs/verification.md:131-133): `audit_zim.py:246` calls it with `None` for the binary, every
  sample fails, and the ZIM is not promoted (`Release`, with `Zimdump = TRUE`).

### Bounds

* *Processes.* Only one process holds the stage lock, so a second one can act as flusher,
  rejected run, pruner or next owner: two cover every pair of roles. Sequences
  of processes are not bounded: a process name is reused after it ends.
* *Questions, versions, snapshots.* Two questions are needed for a pass where one is pruned or
  fails and another is skipped. A stale page needs an edit: two versions in two snapshots. A
  page torn by a death is met again by later passes, for a snapshot may be processed any
  number of times; longer histories are left to the theorems.
  `StageOverlap` and `StagePruneBytes` have one snapshot: what they check compares no snapshots.
* *Images, tasks, retries.* `WorkerFaults` has two rows of one hash and two tasks, so that one
  task may hold a row that the other's outcome replaces, and a quota stop finds an item
  queued; two contents tell an old file from a new one; one retry has both a first and a last
  attempt. Two hashes whose rows share a commit are left to the theorems.
* *Clock.* `Horizon` stops it, so `PacingGap` may end: deadlock is not checked there.
  Six seconds hold three slots, or one refusal and what follows it.
* *Archive.* Three rows have a hash with names in two shards, so that a commit lies between them,
  and a member that two rows ask for. `Recovery` needs one image the archive has and one it has
  not. It has one content: a source that is replaced by other bytes between the check of
  a sync and its copy is left to `SyncCopiesRecorded`.
* *Rescue.* `a` links to `b`, to itself and to `c`, and `b` to `a` and `c`: circles of length one
  and two, an image that only a page leads to, and a URL that both hashes reach. One hash
  is named twice, with one URL. `Rescue` has silent JSON and environment layers; `RescueEnv`
  has one that is silent, one that asks for downloads and one that forbids them.
* *Release.* Each restore and each assembly runs once. Two restores are one that
  is killed or refused and one that follows or overlaps, of bundles of which one lacks a
  question of the other; two assemblies of two flavours have one that leaves a ZIM under
  `TMP_DIR` for the other to find. Two that compete for one output name are left to the theorems.
  All of them can be over, so deadlock is not checked there. The preflight counts pages in one step;
  which files rsync would rewrite is abstracted to "it may copy every page it visits".

Tasks and questions are interchangeable where a `SYMMETRY` is given; no liveness run uses one.

### Fairness

* `StageOverlap`: weak fairness of each process's own steps (`Step`). A process that
  has started keeps running until it ends or dies; every call it makes (Redis,
  rename, `LOCK_NB`) returns. Starting and dying are never assumed.
* `WorkerFaults`: weak fairness of each task and of the end of the
  run. The event loop runs every ready task, requests have total timeouts,
  sleeps are bounded. A death is again possible and never assumed.
* `ArchiveResume`: weak fairness of the run's steps and of `Launch`, the operator who starts
  the worker again. `Extracted` is conditional on deaths and failing writes coming to an end,
  for a worker that is killed at every start gets nothing.
* `Rescue`: weak fairness of the script's steps: requests time out, back-off is bounded.

## 4. What is proved

All theorems hold for every value of the constants allowed by the named assumptions of
the modules (finite manifests, numbered snapshots). No theorem assumes anything of
the rows of a manifest, of write errors, of the Redis replies or of the placeholder spec. "One process"
is `~Overlap`; "errors surface" is `ExecutorRaises`; "no reverted edits" is `NeverReverts(d)` for every
history `d` of `Dumps`; "one script at a time" is `Alone`. Section 3 says what breaks where one of these fails.

| Theorem | Says | Needs |
|---|---|---|
| `TypeCorrect` | `IncrementalStage` is type correct; work in flight belongs to a scanning run (`ItemsScanned`) | |
| `ScanExclusion` | `[]ScanHoldsLock` | |
| `LegacyPagesKept` | `LegacyKept` | |
| `PruneFollowsScan` | `PrunesAfterScan`, processes overlapping | errors surface |
| `GateKnowsAll` | `[]SeenCoversScan` | one process, errors surface |
| `RemovalsJournaled` | `JournaledRemovals` | one process |
| `PassLeavesFresh` | `[]FreshAfterPass` | one process, errors surface, `InOrder`, no reverted edits |
| `StageRefinesMirror` | `MirrorSpec`: `IncrementalStage` implements `SnapshotMirror` | the same |
| `WorkerTypes` | `ImageWorker` is type correct; an item is queued or in work, never both nor twice (`PoolInv`) | |
| `OkRowsOnDisk` | `[]OkIsOnDisk` | |
| `OkLinesMatch` | `[]OkLinesOnDisk` | |
| `CompletedStays` | `CompletedSurvive` | |
| `NothingIsLost` | `[]NothingLost` | |
| `PacingInvariant` | `HostPacing` is type correct and `[]GapInv` | |
| `RequestsSpaced` | `MinGap` | |
| `BackoffLostToSleepers` | `BackoffHeld` | |
| `ArchiveTypes` | `IAWorker` is type correct; picked rows, open shard and pending entry agree (`LoopInv`) | |
| `RowsKeepLines` | `[]RowsHaveLines` | |
| `ArchiveRowsOnDisk` | `[]OkIsOnDisk` | |
| `ArchiveCompletedStays` | `CompletedSurvive` | |
| `WorkerUndisturbed` | `ImageRecovery` implements `IAWorker`: its theorems hold beside the scripts | |
| `RecoveryTypes` | `[]RecoveryTypeOK` | |
| `RealImagesKept` | `RealKept` | one script at a time |
| `SyncCopiesRecorded` | `SyncedIsRecorded`, scripts overlapping | |
| `VerdictSound` | `[]PassIsSound` | one script at a time |
| `OrderConverges` | `[]Converges` | one script at a time |
| `FetchTypes` | `ImageFetch` is type correct | |
| `SocketsAsked` | `AskedForSockets`, whatever the layers say | |
| `BoundedRequests` | `[]RequestsBounded` | |
| `UpgradesReported` | `[]UpgradesMatch` | |
| `RescuesRecorded` | `RecordedIfNew` | |
| `ReleaseTyped` | `Release` is type correct; an assembly past the lock holds it | |
| `MarkerVouches` | `[]MarkerHonest` | |
| `RestoreLockComesFree` | `[]RestoreLockFree` | |
| `PromotionWholeIfCalm` | `[]WholeIfCalm` | |
| `PromotionOfItsFlavour` | `[]RightFlavour` | |
| `ManifestOfItsRun` | `[]ManifestOwn` | |

The arguments:

* `ScanHoldsLock` is inductive beside the types: only `AcquireLock`, `EndScan` and
  `Crash` touch either side, and they touch both.
* `LegacyKept` is not inductive: a plan made earlier might name a page that
  has become a legacy one since. `LegacyInv` adds that no candidate of any run is a
  schema 1 page, that nobody ever writes one, and that the directory being
  removed is a candidate. It needs neither lock, gate nor replies, which is why it holds
  beside the trace of `StagePruneBytes`.
* `SeenCoversScan` follows what a question goes through: scanned, hence `ok` or
  `failed` (`ItemsSeen`); if all are `ok`, in the seen set when the gate opens (`PruneInv`). Each
  link needs that nobody else moves the seen set (`SoleRun`, which `~Overlap` gives).
* `PrunesAfterScan` is about one process and its own items, hence holds under overlap: past the gate
  the process was asked to prune, has no failures, and each of its questions is `ok`
  (`ScannedInv`, `ScannedStep`), and files are removed past the gate only (`RemovalsAreGated`).
* `JournaledRemovals` (`PlanInv`): what is left to
  remove is in the plan on disk, which only this process writes while it is alone.
* `FreshAfterPass` and the refinement share `MirrorInv`. Its core is `Tears`: a page
  can be torn in one direction only. `index.html` is renamed in first, so that it is
  of the manifest's snapshot or of a *later* one. A manifest that matches the newest
  text is then either beside a page of that same text, or beside one of a later snapshot, which
  does not exist (`Newest`, by `InOrder`), or the text has changed and come back in between, which
  `NeverReverts` excludes. So a skip is right, and `PassInv` carries the fresh page from the skip or
  the two renames to the gate and up to the first removal: the lock keeps others away. A prune that
  died inside `rmtree` leaves half a page, which the next pass does not skip. Each
  action of `IncrementalStage` then maps: the two renames to
  an update (the first may tear the page), the end of a scan without failures to completion, a
  removal to a removal, a start to the beginning of a sync, its end or a crash to the end of it, and
  everything else to a stutter.
* `NothingLost` (`AccountInv`): a row is there when a commit is due and stays; an item of the run
  is queued, held, counted, or was dropped after a stop, and a stop has left its line. Nothing
  of this asks for distinct hashes or for writes that succeed. A task that dies with its item can
  lose it, but then `queue.join()` never returns and the run never rewrites. `LastInv`
  adds, for the last line of the property, that with distinct hashes what a task records stays the last word
  on its item.
* `OkIsOnDisk` of the CDN worker is strengthened by `FreshInv` (a hash with one row, queued or being
  fetched, is `ok` neither in the checkpoint nor in the open transaction) and `DiskInv`
  (what is about to be called `ok` is on disk, as `Backed` says). `Promote` is the one
  step that replaces a file: for a hash with several rows a file stays a file, and for one with a
  single row `FreshInv` excludes that it is `ok`, and `PoolInv` that another task is at it. `LineInv`
  says as much of the lines; the content of an `ok` line, of a hash with one row while no write has
  failed, is that of the committed row (`RowInv`).
* `CompletedSurvive` needs no other invariant: if `h` is `ok` between runs, no item that
  names it is picked, queued or held in any later run, however many there are (`Completed`),
  for `Launch` leaves out by hash what the checkpoint calls `ok`; and no other step
  touches its row or file (`WorkSpares`, `MainSpares`; `StepSpares` in the archive worker).
* `MinGap`: only the holder of the lock books a slot, so what a sleeper read in
  `next_by_host` stays later than the last request plus the delay (`GapInv`); refusals
  only raise it. `BackoffHeld` needs in addition that `PassLock` finds the slot past.
* The archive worker writes in another order, so its invariant differs. `LineInv`: a row in the
  transaction has its line, or its item comes up again before the commit (as the pending
  entry, or in the loop that gives the shard up); lines are only taken back by `Finish`, which
  keeps those of the rows. `FreshInv` and
  `DiskInv` say of the items still to be reached, and of the pending entry, what they say of
  the CDN worker.
* The recovery scripts write nothing the worker reads, so each step of the composition is a step
  or a stutter of `IAWorker` (`WorkerUndisturbed`), and its theorems carry over.
  `RealKept` rests on `WriteInv`: what a script is about to write over
  is no real image. The look establishes it, and with one script nobody writes before the script
  does. `SyncedIsRecorded` needs no such thing: for a hash with one row an `ok` line tells the
  bytes of a file that never changes again (`LinesInv`), so a sync manifest, however old, agrees
  with `out-dir` (`ManifestInv`), and the second read in `copy_atomic` finds what the first one found
  (`CopyInv`). `VerdictInv` says of a verification under way that each hash is still to be looked
  at, found wrong, or right, and right stays right, for no script writes over what decodes but a sync,
  over a confirmed placeholder.
  `OrderInv` does the same for sync, classify and finalize: each hash is done or still in the
  script's list (`ScriptOrder`), and `through` counts no script as run before its list is empty
  (`StageOrder`). `TornInv` adds that a file which does not decode is on no list.
* `ImageFetch`: `PlaceInv` says what a script holds at each place. `RequestsBounded` is an
  accounting (`SentInv`): each URL tried pays for its attempts in advance, the one in hand for those
  it has not had yet, and no URL is tried twice for a hash, whatever the pages append to the list.
  `UpgradesMatch` (`UpgradeInv`): the last verdict on every hash that is not in hand tells
  of its file (`Reported`), and a verdict is appended in the step that decides the file.
  `RecordedIfNew` (`RecordedInv`): the rows the old manifest
  does not have are of hashes begun in this run and, for the one in hand, of URLs tried before,
  so that the row of a new success is never dropped by the duplicate rule.
* `Release` has one inductive invariant of two halves. `StageInv`: a restore that is under
  way is the only holder of the lock (`LockInv`), no marker stands while it writes, and each page that rsync
  has been through, or need not visit, is as the bundle has it and stays so (`AsBundled`,
  `RestoreInv`); so a verified stage is exactly one bundle. `ReleaseInv`:
  of the pages the preflight of an assembly saw, each is packed or still on the stage, *unless* rsync has
  been at work since (`AssembleInv`, `Whole`); the new ZIMs under `TMP_DIR`, the partial
  and what is described at the final path are the run's own, for only the holder of the
  assembly lock, or the sotoki it left behind with the lock, adds ZIMs.

Only model-checked are the liveness properties `RunsEnd`, `RunEnds` (twice) and `Extracted`, since
fairness and `ENABLED` are out of the prover's reach, and the four properties that are false. Induction
over data and `RECURSIVE` operators are out of reach too; no module here needs them.

## 5. Not modelled

* Of staging: the `O_EXCL` lock file of systems without `flock`, the prune-results
  journal, manifests that cannot be parsed (they count as absent), a Redis that
  restarts and loses its data, what `fingerprint_post` hashes. Legacy staging (resume by ID) appears
  only as the pages it leaves behind.
* Of the CDN worker: `parse_manifest`, the payload checks, WebP conversion,
  statistics, and the loss of unsynced files at a power failure. Of the limiter: jitter,
  and several hosts (each has its own lock and slot).
* Of the archive worker: what makes a payload valid (the constant `Images`), and WebP.
* Of the recovery scripts: classification by URL, the deep-decode sample, what the
  reports say; candidates of a hash and the content of pages are constants of `ImageFetch`,
  for URL synthesis and HTML parsing keep no state.
* Of the fetch library: `CheckpointStore` (nothing passes one), the clock of
  `PerHostThrottle`, the hops of a redirect; of the manifest: escaping, header-less files, two writers of one
  file.
* Of release: `--skip-preflight`, `--validate-only`, `--no-zim` and the delivery
  of a bundled ZIM, symbolic links, the pidfile's identity checks.
* Single passes over files with no shared state (inventories, manifest builders, the
  stage audit, snapshot comparison and capture), dump preparation, installation, CI and containers:
  nothing in them depends on an order of events.

## 6. Plan

Done: `IncrementalStage`, `SnapshotMirror`, `ImageWorker`, `HostPacing`, `IAWorker`, `StageImages`,
`ImageRecovery`, `ImageFetch` and `Release`. Every safety and action property that a passing run
checks is also a theorem, and so is the refinement. In order of weight, what is left:

1. `LegacyStage`: the resumable full build of P2 (skip by `stage:done:questions` and
   `index.html`), its drift between Redis and files; abstract promise: every
   done question has a page.
2. The composition of `Release` with `IncrementalStage` over the stage, the marker and
   the three unrelated locks.
3. What the theorems of one-script and one-process environments become under overlap: which
   weaker promise a second finalize, or a second scraper, still leaves standing.
