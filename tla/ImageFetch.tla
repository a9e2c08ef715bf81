----------------------------- MODULE ImageFetch -----------------------------
(***************************************************************************)
(* The image fetch library (recovery/lib/images.py), its configuration and *)
(* its manifest, and the two scripts that download with it:                *)
(* rescue_edge_cases and upgrade_small_ia_images.                          *)
(*                                                                         *)
(* rescue tries the candidate URLs of each hash in order, scrapes pages    *)
(* for more, and records every attempt in a manifest that is read before   *)
(* the run and replaced as a whole after it. upgrade downloads the URL of  *)
(* every row of its input, which may name a hash or a pair again, and keeps*)
(* what is larger than the old image. They share no file: a behaviour is   *)
(* one script, run again and again on its directory, which may be killed   *)
(* anywhere.                                                               *)
(***************************************************************************)
EXTENDS Naturals, Sequences, SequencesExt

CONSTANTS
  Hashes,      \* hashes to rescue, numbered in their sorted order
  Urls,
  Candidates,  \* the URLs of each hash: synthesized_candidates, best first, for
               \* rescue; those of its rows, in their order, for upgrade
  Links,       \* what a URL shows if it is a page: [url, score], as parsed
  Favicons,    \* and its icons
  Payloads,    \* images, by their size in bytes
  Images,      \* those a URL may serve
  OldBytes,    \* upgrade: the old size that the row of a hash and URL states
  MaxRetries,  \* RecoveryConfig.max_retries
  PageLimit,   \* page_fetch_limit
  Layers,      \* what the JSON file and the environment may say
  Same,        \* may a run be given the manifest of an earlier one?
  None

\* What a row says of an attempt; "failed" is every status but ok.
Status == {"candidate", "ok", "failed", "larger", "no_gain"}
Row == [hash : Hashes, url : Urls, status : Status, content : Payloads \cup {None}]
Options == {"dry_run", "fetch"}

ASSUME HashAssumption == Hashes \subseteq Nat /\ Payloads \subseteq Nat
ASSUME CandidateAssumption == IsFiniteSet(Urls) /\ Candidates \in [Hashes -> Seq(Urls)]
ASSUME PageAssumption ==
  /\ Links \in [Urls -> Seq([url : Urls, score : Nat])]
  /\ Favicons \in [Urls -> Seq(Urls)]
ASSUME ImageAssumption == Images \in [Urls -> SUBSET Payloads]
ASSUME OldAssumption == OldBytes \in [Hashes -> [Urls -> Nat]]
ASSUME LimitAssumption == MaxRetries \in Nat /\ PageLimit \in Nat
ASSUME LayerAssumption == Layers \subseteq [Options -> {TRUE, FALSE, None}]
ASSUME InputAssumption == Same \in BOOLEAN
ASSUME NoneAssumption ==
  None \notin Payloads /\ None \notin Hashes /\ None \notin Urls /\ None \notin BOOLEAN

VARIABLES
  file,       \* out-dir/<hash>
  manifest,   \* rescue: the manifest on disk, a sequence of rows
  script,     \* "rescue" or "upgrade"
  phase,      \* where it is
  asked,      \* who asked for downloads: "operator", by --fetch and --no-dry-run;
              \* "environment", by RECOVERY_FETCH=1 and RECOVERY_DRY_RUN=0 with --fetch
  fetch_ok,   \* config.fetch_ok
  todo,       \* the hashes still to process
  hash,       \* the one in hand
  queue,      \* its candidates from index on
  attempted,  \* the URLs tried for it
  pages,      \* pages scraped for it
  url,        \* the URL being downloaded
  attempt,    \* the retries it has had
  rows,       \* the rows of the manifest in memory
  sent,       \* requests made for the hash in hand (capped)
  got         \* the URL each hash was resolved by in this run

disk == <<file, manifest>>
config == <<script, asked, fetch_ok>>
local == <<hash, queue, attempted, pages, url, attempt, sent>>
vars == <<disk, config, local, phase, todo, rows, got>>

Phases == {"off", "next", "pick", "fetch", "scrape", "judge", "close"}
Bound == Cardinality(Urls) * (MaxRetries + 1) + PageLimit

TypeOK ==
  /\ file \in [Hashes -> Payloads \cup {None}]
  /\ manifest \in Seq(Row) /\ rows \in Seq(Row)
  /\ script \in {"rescue", "upgrade"}
  /\ phase \in Phases
  /\ asked \subseteq {"operator", "environment"} /\ fetch_ok \in BOOLEAN
  /\ todo \subseteq Hashes /\ hash \in Hashes \cup {None}
  /\ queue \in Seq(Urls) /\ attempted \subseteq Urls /\ pages \in 0..PageLimit
  /\ url \in Urls \cup {None} /\ attempt \in 0..MaxRetries
  /\ got \in [Hashes -> Urls \cup {None}]
  /\ sent \in 0..(Bound + 1)

-----------------------------------------------------------------------------
(* lib/config.py *)

Over(base, layer) == IF layer = None THEN base ELSE layer
Default == [o \in Options |-> o = "dry_run"]

\* from_env: defaults, then the JSON file, then RECOVERY_* ...
FromEnv(json, env) == [o \in Options |-> Over(Over(Default[o], json[o]), env[o])]

\* ... and from_args: the parser gives both options a value, which wins.
FromArgs(json, env, cli) == [o \in Options |-> Over(FromEnv(json, env)[o], cli[o])]

FetchOk(c) == c["fetch"] /\ ~c["dry_run"]

(* lib/manifest.py *)

FaultyKey(r) == <<r.hash>>               \* one row per hash

Key(r) == <<r.hash, r.url>>
Keys(seq) == {Key(seq[i]) : i \in DOMAIN seq}

\* ManifestWriter.add: the first row on a (hash, url) pair stays.
Add(seq, r) == IF Key(r) \in Keys(seq) THEN seq ELSE Append(seq, r)

Entry(u, status, content) ==
  [hash |-> hash, url |-> u, status |-> status, content |-> content]

(* rescue_edge_cases.py *)

\* The parser's finds on a page: its links, then the icons, which score nothing.
Shown(u) ==
  Links[u] \o [n \in DOMAIN Favicons[u] |-> [url |-> Favicons[u][n], score |-> 0]]

\* page_candidates_enhanced, less what was tried (a set of one sequence): by descending
\* score, in page order among equals, each URL once, so icons last.
PageCandidates(u, tried) ==
  LET s == Shown(u)
      Ahead(i, j) == \/ s[i].score > s[j].score
                     \/ s[i].score = s[j].score /\ i < j
      best == {i \in DOMAIN s :
                 /\ s[i].url \notin tried
                 /\ \A j \in DOMAIN s : s[j].url = s[i].url => ~Ahead(j, i)}
      Places == 1..Cardinality(best)
      sorted == {o \in [Places -> best] : \A m, n \in Places : m < n => Ahead(o[m], o[n])}
  IN {[n \in Places |-> s[o[n]].url] : o \in sorted}

First(n, S) == {h \in S : Cardinality({g \in S : g < h}) < n}

Rest ==
  /\ phase' = "off"
  /\ todo' = {} /\ hash' = None /\ queue' = <<>> /\ attempted' = {} /\ pages' = 0
  /\ url' = None /\ attempt' = 0 /\ sent' = 0
  /\ rows' = <<>>
  /\ asked' = {} /\ fetch_ok' = FALSE
  /\ got' = [h \in Hashes |-> None]

Init ==
  /\ file = [h \in Hashes |-> None]
  /\ manifest = <<>> /\ rows = <<>>
  /\ script \in {"rescue", "upgrade"} /\ phase = "off"
  /\ asked = {} /\ fetch_ok = FALSE
  /\ todo = {} /\ hash = None /\ queue = <<>> /\ attempted = {} /\ pages = 0
  /\ url = None /\ attempt = 0 /\ sent = 0
  /\ got = [h \in Hashes |-> None]

-----------------------------------------------------------------------------
(* Starting a script *)

Opens(c) == c["fetch"] = TRUE /\ c["dry_run"] = FALSE

Configure(json, env, cli) ==
  /\ asked' = {who \in {"operator", "environment"} :
                 /\ cli["fetch"]
                 /\ Opens(IF who = "operator" THEN cli ELSE env)}
  /\ fetch_ok' = FetchOk(FromArgs(json, env, cli))
  /\ got' = [h \in Hashes |-> None]

\* rescue, with or without --limit, on a new manifest or an old one, which the
\* ManifestWriter loads.
StartRescue ==
  /\ phase = "off" /\ script = "rescue"
  /\ \E json, env \in Layers, cli \in [Options -> BOOLEAN] : Configure(json, env, cli)
  /\ \E n \in 1..Cardinality(Hashes), old \in {<<>>} \cup (IF Same THEN {manifest} ELSE {}) :
       /\ manifest' = old /\ rows' = old
       /\ todo' = First(n, Hashes)
  /\ phase' = "next"
  /\ UNCHANGED <<file, script, local>>

\* upgrade; in a dry run it only lists its items.
StartUpgrade ==
  /\ phase = "off" /\ script = "upgrade"
  /\ \E json, env \in Layers, cli \in [Options -> BOOLEAN] : Configure(json, env, cli)
  /\ IF fetch_ok' THEN todo' = Hashes /\ phase' = "next"
     ELSE todo' = {} /\ phase' = "close"
  /\ UNCHANGED <<disk, script, local, rows>>

NextHash ==
  /\ phase = "next" /\ todo # {}
  /\ \E h \in todo :
       /\ \A g \in todo : h <= g
       /\ hash' = h /\ todo' = todo \ {h}
       /\ queue' = Candidates[h]
  /\ attempted' = {} /\ pages' = 0 /\ sent' = 0
  /\ phase' = "pick"
  /\ UNCHANGED <<disk, config, url, attempt, rows, got>>

NoMore ==
  /\ phase = "next" /\ todo = {}
  /\ phase' = "close"
  /\ UNCHANGED <<disk, config, local, todo, rows, got>>

-----------------------------------------------------------------------------
(* download_image and resolve_hash *)

Frame == UNCHANGED <<disk, config, todo, hash, got>>

FaultyPick ==                            \* a URL that comes up again is tried again
  /\ phase = "pick" /\ queue # <<>> /\ fetch_ok
  /\ url' = Head(queue) /\ queue' = Tail(queue)
  /\ attempted' = attempted \cup {url'}
  /\ phase' = "fetch" /\ attempt' = 0
  /\ Frame /\ UNCHANGED <<pages, rows, sent>>

\* A dry run records the candidate and makes no attempt.
List ==
  /\ phase = "pick" /\ queue # <<>> /\ ~fetch_ok
  /\ rows' = Add(rows, Entry(Head(queue), "candidate", None))
  /\ queue' = Tail(queue)
  /\ Frame /\ UNCHANGED <<phase, attempted, pages, url, attempt, sent>>

\* The next candidate; rescue passes over what it tried before.
Pick ==
  /\ phase = "pick" /\ queue # <<>> /\ fetch_ok
  /\ queue' = Tail(queue)
  /\ IF script = "rescue" /\ Head(queue) \in attempted
     THEN UNCHANGED <<url, attempted, phase, attempt>>
     ELSE /\ url' = Head(queue)
          /\ attempted' = attempted \cup {url'}
          /\ phase' = "fetch" /\ attempt' = 0
  /\ Frame /\ UNCHANGED <<pages, rows, sent>>

\* No candidate left: the hash has failed, or is listed.
GiveUp ==
  /\ phase = "pick" /\ queue = <<>>
  /\ phase' = "next"
  /\ Frame /\ UNCHANGED <<queue, attempted, pages, url, attempt, rows, sent>>

Count == sent' = IF sent > Bound THEN sent ELSE sent + 1

FaultyRetryLimit ==                      \* one retry too many
  /\ phase = "fetch" /\ attempt <= MaxRetries
  /\ attempt' = attempt + 1
  /\ Count
  /\ Frame /\ UNCHANGED <<phase, queue, attempted, pages, url, rows>>

\* 429, 403, 408, 425, 5xx or a network error, with retries left.
Retry ==
  /\ phase = "fetch" /\ attempt < MaxRetries
  /\ attempt' = attempt + 1
  /\ Count
  /\ Frame /\ UNCHANGED <<phase, queue, attempted, pages, url, rows>>

\* rescue's writer drops a pair it has; upgrade lists every download.
Note(status, content) ==
  LET e == Entry(url, status, content)
  IN rows' = IF script = "rescue" THEN Add(rows, e) ELSE Append(rows, e)

After == UNCHANGED <<config, todo, hash, queue, attempted, pages, url, attempt>>

\* An image: it is written beside and renamed in, then recorded.
Rescued ==
  /\ phase = "fetch" /\ script = "rescue"
  /\ \E p \in Images[url] : file' = [file EXCEPT ![hash] = p] /\ Note("ok", p)
  /\ got' = [got EXCEPT ![hash] = url]
  /\ phase' = "next" /\ Count
  /\ After /\ UNCHANGED manifest

\* No image. It may be a page: worth a look, PageLimit times per hash.
NoImage ==
  /\ phase = "fetch" /\ Count
  /\ Note("failed", None)
  /\ phase' = IF script = "rescue" /\ pages < PageLimit THEN "scrape" ELSE "pick"
  /\ After /\ UNCHANGED <<disk, got>>

\* Too large or another 4xx, or nothing after all retries; or the URL does not
\* pass validate_url and no request is made.
Refused ==
  /\ phase = "fetch"
  /\ \/ Count
     \/ attempt = 0 /\ UNCHANGED sent
  /\ Note("failed", None)
  /\ phase' = "pick"
  /\ After /\ UNCHANGED <<disk, got>>

FaultyQuotaAgain ==                      \* starts over instead
  /\ phase = "fetch" /\ attempt = MaxRetries /\ Count
  /\ attempt' = 0
  /\ Frame /\ UNCHANGED <<phase, queue, attempted, pages, url, rows>>

\* 429 or 403 after all retries: rescue stops the run, upgrade goes on.
QuotaStop ==
  /\ phase = "fetch" /\ attempt = MaxRetries /\ Count
  /\ Note("failed", None)
  /\ phase' = IF script = "rescue" THEN "close" ELSE "pick"
  /\ After /\ UNCHANGED <<disk, got>>

\* fetch_page_text: a page with links, or nothing to use. One request.
Scrape ==
  /\ phase = "scrape" /\ Count
  /\ pages' = pages + 1
  /\ \/ \E found \in PageCandidates(url, attempted) : queue' = queue \o found
     \/ UNCHANGED queue
  /\ phase' = "pick"
  /\ Frame /\ UNCHANGED <<attempted, url, attempt, rows>>

-----------------------------------------------------------------------------
(* upgrade_items *)

\* The download is in place before it is compared ...
Upgraded ==
  /\ phase = "fetch" /\ script = "upgrade" /\ Count
  /\ \E p \in Images[url] : file' = [file EXCEPT ![hash] = p]
  /\ phase' = "judge"
  /\ After /\ UNCHANGED <<manifest, rows, got>>

FaultyJudge ==                           \* what is no larger stays there
  /\ phase = "judge"
  /\ Note(IF file[hash] > OldBytes[hash][url] THEN "larger" ELSE "no_gain", file[hash])
  /\ phase' = "pick"
  /\ After /\ UNCHANGED <<disk, got, sent>>

\* ... and removed if it is no larger.
Judge ==
  /\ phase = "judge"
  /\ IF file[hash] > OldBytes[hash][url]
     THEN Note("larger", file[hash]) /\ UNCHANGED file
     ELSE Note("no_gain", file[hash]) /\ file' = [file EXCEPT ![hash] = None]
  /\ phase' = "pick"
  /\ After /\ UNCHANGED <<manifest, got, sent>>

-----------------------------------------------------------------------------
\* ManifestWriter.close replaces the manifest; upgrade writes its own report.
Close ==
  /\ phase = "close"
  /\ manifest' = IF script = "rescue" THEN rows ELSE manifest
  /\ Rest
  /\ UNCHANGED <<file, script>>

\* Killed, or a write raises: __exit__ discards what was to be recorded.
Die ==
  /\ phase # "off"
  /\ Rest
  /\ UNCHANGED <<disk, script>>

Step ==
  \/ NextHash \/ NoMore \/ List \/ Pick \/ GiveUp \/ Retry \/ Rescued \/ NoImage
  \/ Refused \/ QuotaStop \/ Scrape \/ Upgraded \/ Judge \/ Close

Next == StartRescue \/ StartUpgrade \/ Step \/ Die

Spec == Init /\ [][Next]_vars

\* Requests time out, back-off is bounded: a script that is not killed goes on.
FairSpec == Spec /\ WF_vars(Step)

-----------------------------------------------------------------------------
(* Properties *)

\* The gate as the code has it: a request is made only if the operator gave both
\* flags, whatever the environment and the JSON file say.
AskedForSockets == [][sent' > sent => "operator" \in asked]_vars

\* The gate as config.py:188-190 and the recovery README have it: with --fetch, the
\* environment can open it.
EnvironmentOpens == "environment" \in asked => fetch_ok

\* Pages that link to each other or to the candidates do not multiply requests:
\* rescue asks for each URL at most MaxRetries + 1 times for a hash, and reads
\* PageLimit pages.
RequestsBounded == script = "rescue" => sent <= Bound

RowOf(h, u) == [hash |-> h, url |-> u, status |-> "ok", content |-> file[h]]

\* What a completed run brought home is recorded with the very bytes on disk, so
\* that a sync accepts it, if the manifest did not already know the URL.
RecordedIfNew ==
  [][Close => \A h \in Hashes : got[h] # None =>
       \/ <<h, got[h]>> \in Keys(manifest)
       \/ RowOf(h, got[h]) \in ToSet(manifest')]_vars

\* The last verdict of upgrade on a hash.
Verdict(r) == r.status \in {"larger", "no_gain"}
LastVerdict(i) ==
  /\ Verdict(rows[i])
  /\ \A j \in DOMAIN rows : j > i /\ rows[j].hash = rows[i].hash => ~Verdict(rows[j])

\* The directory is as the row tells.
Told(r) ==
  IF r.status = "larger"
  THEN file[r.hash] = r.content /\ r.content > OldBytes[r.hash][r.url]
  ELSE file[r.hash] = None

\* However often its input names a hash, what upgrade reports last of it is what its
\* directory holds at the end: the larger image, or none.
UpgradesMatch ==
  phase = "close" /\ script = "upgrade" =>
    \A i \in DOMAIN rows : LastVerdict(i) => Told(rows[i])

\* A run comes to its end: its list of candidates grows while it is worked off,
\* but not for ever.
RunEnds == phase # "off" ~> phase = "off"

=============================================================================
