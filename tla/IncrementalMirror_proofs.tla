---------------------- MODULE IncrementalMirror_proofs ----------------------
(* What a pass leaves behind: fresh pages, a journaled prune, and so what     *)
(* SnapshotMirror says. One process at a time, which never goes back to an    *)
(* older snapshot. Nothing here needs the prune to be right.                  *)
EXTENDS IncrementalStage_proofs

-----------------------------------------------------------------------------
(* The inductive invariant *)

\* The process at work is on the newest snapshot.
Newest == \A r \in Runs : pc[r] # "idle" => snap[r] = newest

\* A page is torn in one direction only: index.html is renamed in first, so that
\* it is of the manifest's snapshot or of a later one.
Tears ==
  \A p \in Posts : IsV2(manifest[p]) =>
    \E s \in Snapshots :
      /\ s <= newest /\ dump[s][p] = manifest[p].version
      /\ html[p] # None =>
           \E t \in Snapshots : s <= t /\ t <= newest /\ dump[t][p] = html[p]

\* From the scan on, what the items of a process have reached.
PassInv(r) ==
  /\ pc[r] = "scan" => \A p \in Posts :
       /\ item[r][p] = "manifest" => html[p] = Mine(r, p)
       /\ item[r][p] \in {"skip", "mark"} => FreshPage(r, p)
       /\ item[r][p] = "ok" /\ p \in Live(snap[r]) => FreshPage(r, p)
  /\ pc[r] \in {"gate", "read", "list"} \/ (pc[r] = "finish" /\ ~prune[r]) =>
       \A p \in Live(snap[r]) : FreshPage(r, p)
  /\ pc[r] \in PrunePC => failures[r] = 0 /\ prune[r]

MirrorInv ==
  /\ dump \in Dumps
  /\ Newest /\ Tears
  /\ \A r \in Runs : PassInv(r)

-----------------------------------------------------------------------------
(* What a worker's step does *)

\* A worker's step brings its item to a place, and the page with it.
Brings(r, p, to) ==
  /\ item' = [item EXCEPT ![r][p] = to]
  /\ \/ /\ to = "manifest" /\ Mine(r, p) \in Versions
        /\ html' = [html EXCEPT ![p] = Mine(r, p)] /\ manifest' = manifest
     \/ /\ to = "mark" /\ item[r][p] = "manifest" /\ Mine(r, p) \in Versions
        /\ manifest' = [manifest EXCEPT ![p] = [schema |-> 2, version |-> Mine(r, p)]]
        /\ html' = html
     \/ /\ html' = html /\ manifest' = manifest
        /\ \/ to \in {"open", "html", "failed"}
           \/ to = "skip" /\ ShouldSkip(p, Mine(r, p))
           \/ to = "ok" /\ (item[r][p] \in {"skip", "mark"} \/ Mine(r, p) = Excluded)

LEMMA ItemEffect ==
  ASSUME TypeOK, ItemsScanned, NEW r \in Runs, NEW p \in Posts, Item(r, p)
  PROVE  \E to \in ItemPC : Brings(r, p, to)
<1> USE DEF ItemStep, ItemTo, stage, redis, Brings
<1>0. item[r][p] \in InFlight => Mine(r, p) \in Versions BY DEF ItemsScanned
<1>t. {"ok", "open", "failed", "skip", "html", "manifest", "mark"} \subseteq ItemPC
      /\ {"skip", "html", "manifest", "mark"} \subseteq InFlight
  BY DEF ItemPC, InFlight
<1>1. CASE ItemExcluded(r, p)
  <2>1. Brings(r, p, "ok") BY <1>1 DEF ItemExcluded
  <2> QED BY <1>t, <2>1
<1>2. CASE ItemOpen(r, p)
  <2>1. Brings(r, p, "open") BY <1>2 DEF ItemOpen
  <2> QED BY <1>t, <2>1
<1>3. CASE ItemOpenFails(r, p)
  <2>1. Brings(r, p, "failed") BY <1>3 DEF ItemOpenFails
  <2> QED BY <1>t, <2>1
<1>4. CASE ItemDecide(r, p)
  <2>1. Brings(r, p, "skip") \/ Brings(r, p, "html") BY <1>4 DEF ItemDecide
  <2> QED BY <1>t, <2>1
<1>5. CASE ItemSkip(r, p)
  <2>1. Brings(r, p, "ok") BY <1>5 DEF ItemSkip
  <2> QED BY <1>t, <2>1
<1>6. CASE ItemSkipFails(r, p)
  <2>1. Brings(r, p, "failed") BY <1>6 DEF ItemSkipFails
  <2> QED BY <1>t, <2>1
<1>7. CASE ItemHtml(r, p)
  <2>1. Brings(r, p, "manifest") BY <1>7, <1>t, <1>0 DEF ItemHtml
  <2> QED BY <1>t, <2>1
<1>8. CASE ItemManifest(r, p)
  <2>1. Brings(r, p, "mark") BY <1>8, <1>t, <1>0 DEF ItemManifest
  <2> QED BY <1>t, <2>1
<1>9. CASE ItemMark(r, p)
  <2>1. Brings(r, p, "ok") BY <1>9 DEF ItemMark
  <2> QED BY <1>t, <2>1
<1>10. CASE ItemFails(r, p)
  <2>1. Brings(r, p, "failed") BY <1>10 DEF ItemFails
  <2> QED BY <1>t, <2>1
<1> QED BY <1>1, <1>2, <1>3, <1>4, <1>5, <1>6, <1>7, <1>8, <1>9, <1>10 DEF Item

\* The heart of FreshAfterPass: a page that looks unchanged is fresh, for if its
\* index.html were of a later snapshot than its manifest, the question would
\* have returned to the text it had before.
LEMMA SkippedIsFresh ==
  ASSUME TypeOK, NeverReverts(dump), Tears, NEW r \in Runs, NEW p \in Posts,
         snap[r] = newest, ShouldSkip(p, Mine(r, p))
  PROVE  FreshPage(r, p)
<1>1. manifest[p] \in Manifest /\ manifest[p].schema = 2 /\ manifest[p].version = Mine(r, p)
      /\ html[p] \in Versions /\ IsV2(manifest[p])
  BY DEF ShouldSkip, IsV2, TypeOK
<1>2. PICK s \in Snapshots, t \in Snapshots :
        /\ s <= t /\ t <= newest
        /\ dump[s][p] = manifest[p].version /\ dump[t][p] = html[p]
  BY <1>1, NamesAssumption DEF Tears
<1>3. html[p] = Mine(r, p)
  <2> SUFFICES ASSUME html[p] # Mine(r, p) PROVE FALSE
    OBVIOUS
  <2>1. snap[r] \in Snapshots /\ dump[snap[r]][p] = Mine(r, p) BY DEF TypeOK, Mine
  <2>2. s # t /\ t # snap[r] BY <1>1, <1>2, <2>1
  <2>3. s < t /\ t < snap[r]
    <3>1. s \in Nat /\ t \in Nat /\ snap[r] \in Nat BY <2>1, SnapshotsAssumption
    <3>2. s <= t /\ t <= snap[r] BY <1>2
    <3> QED BY <2>2, <3>1, <3>2
  <2>4. dump[s][p] \in Versions /\ dump[t][p] \in Versions /\ dump[s][p] # dump[t][p]
    BY <1>1, <1>2 DEF Manifest
  <2> QED BY <1>1, <1>2, <2>1, <2>3, <2>4 DEF NeverReverts
<1>4. manifest[p] = [schema |-> 2, version |-> Mine(r, p)] BY <1>1 DEF Manifest
<1> QED BY <1>3, <1>4 DEF FreshPage

LEMMA ItemKeepsTears ==
  ASSUME TypeOK, ItemsScanned, Newest, Tears, NEW r \in Runs, NEW p \in Posts,
         PassInv(r), Item(r, p)
  PROVE  Tears'
<1>1. pc[r] = "scan" /\ UNCHANGED <<dump, newest, snap>> BY ItemFrame
<1>2. snap[r] = newest /\ snap[r] \in Snapshots /\ newest \in Nat
      /\ dump[snap[r]][p] = Mine(r, p)
  BY <1>1 DEF Newest, TypeOK, Mine
<1>3. CASE UNCHANGED <<html, manifest>>
  BY <1>1, <1>3 DEF Tears
<1>4. CASE html' = [html EXCEPT ![p] = Mine(r, p)] /\ manifest' = manifest
  <2>1. SUFFICES ASSUME NEW d \in Posts, IsV2(manifest[d])
        PROVE  \E s \in Snapshots :
                 /\ s <= newest /\ dump[s][d] = manifest[d].version
                 /\ html'[d] # None =>
                      \E t \in Snapshots : s <= t /\ t <= newest /\ dump[t][d] = html'[d]
    BY <1>1, <1>4 DEF Tears
  <2>2. html'[d] = IF d = p THEN Mine(r, p) ELSE html[d] BY <1>4 DEF TypeOK
  <2>3. PICK s \in Snapshots :
          /\ s <= newest /\ dump[s][d] = manifest[d].version
          /\ html[d] # None =>
               \E t \in Snapshots : s <= t /\ t <= newest /\ dump[t][d] = html[d]
    BY <2>1 DEF Tears
  <2>4. CASE d = p
    <3>1. newest <= newest BY <1>2
    <3> QED BY <1>2, <2>2, <2>3, <2>4, <3>1
  <2>5. CASE d # p BY <2>2, <2>3, <2>5
  <2> QED BY <2>4, <2>5
<1>5. CASE /\ manifest' = [manifest EXCEPT ![p] = [schema |-> 2, version |-> Mine(r, p)]]
           /\ html' = html /\ item[r][p] = "manifest"
  <2>1. html[p] = Mine(r, p) BY <1>1, <1>5 DEF PassInv
  <2>2. newest <= newest BY <1>2
  <2>3. manifest'[p].version = Mine(r, p) /\ \A d \in Posts \ {p} : manifest'[d] = manifest[d]
    BY <1>5 DEF TypeOK
  <2>4. \A d \in Posts \ {p} : IsV2(manifest'[d]) =>
          \E s \in Snapshots :
            /\ s <= newest /\ dump[s][d] = manifest'[d].version
            /\ html[d] # None =>
                 \E t \in Snapshots : s <= t /\ t <= newest /\ dump[t][d] = html[d]
    BY <2>3 DEF Tears
  <2>5. \E s \in Snapshots :
            /\ s <= newest /\ dump[s][p] = manifest'[p].version
            /\ html[p] # None =>
                 \E t \in Snapshots : s <= t /\ t <= newest /\ dump[t][p] = html[p]
    BY <1>2, <2>1, <2>2, <2>3
  <2> QED BY <1>1, <1>5, <2>4, <2>5 DEF Tears
<1> QED BY <1>3, <1>4, <1>5, ItemEffect DEF Brings

LEMMA ItemKeepsPassInv ==
  ASSUME TypeOK, ItemsScanned, NeverReverts(dump), Newest, Tears,
         NEW r \in Runs, NEW p \in Posts, PassInv(r), Item(r, p)
  PROVE  PassInv(r)'
<1>1. pc[r] = "scan" /\ UNCHANGED <<dump, pc, snap>> BY ItemFrame
<1>2. snap[r] = newest BY <1>1 DEF Newest
<1> PICK to \in ItemPC : Brings(r, p, to) BY ItemEffect
<1> USE DEF Brings
<1>3. \A d \in Posts : item'[r][d] = IF d = p THEN to ELSE item[r][d]
  <2>1. item'[r] = [item[r] EXCEPT ![p] = to] /\ item[r] \in [Posts -> ItemPC]
    BY DEF TypeOK
  <2> QED BY <2>1
<1>4. \A d \in Posts \ {p} : html'[d] = html[d] /\ manifest'[d] = manifest[d]
  BY DEF TypeOK
<1>5. \A d \in Posts : Mine(r, d)' = Mine(r, d) BY <1>1 DEF Mine
<1>6. /\ to = "manifest" => html'[p] = Mine(r, p)
      /\ to \in {"skip", "mark"} => FreshPage(r, p)'
      /\ to = "ok" /\ p \in Live(snap[r]) => FreshPage(r, p)'
  <2>1. CASE to = "manifest" BY <2>1 DEF TypeOK
  <2>2. CASE to = "skip" BY <2>2, <1>2, <1>5, SkippedIsFresh DEF FreshPage
  <2>3. CASE to = "mark"
    BY <2>3, <1>1, <1>5 DEF FreshPage, PassInv, TypeOK
  <2>4. CASE to = "ok"
    BY <2>4, <1>1, <1>5, NamesAssumption DEF FreshPage, PassInv, Live, Mine
  <2> QED BY <2>1, <2>2, <2>3, <2>4
<1>7. ASSUME NEW d \in Posts \ {p}
      PROVE  /\ item'[r][d] = "manifest" => html'[d] = Mine(r, d)
             /\ item'[r][d] \in {"skip", "mark"} => FreshPage(r, d)'
             /\ item'[r][d] = "ok" /\ d \in Live(snap[r]) => FreshPage(r, d)'
  BY <1>1, <1>3, <1>4, <1>5 DEF PassInv, FreshPage
<1>8. \A d \in Posts :
        /\ item'[r][d] = "manifest" => html'[d] = Mine(r, d)'
        /\ item'[r][d] \in {"skip", "mark"} => FreshPage(r, d)'
        /\ item'[r][d] = "ok" /\ d \in Live(snap[r])' => FreshPage(r, d)'
  <2>1. Live(snap[r])' = Live(snap[r]) BY <1>1 DEF Live
  <2> QED BY <1>3, <1>5, <1>6, <1>7, <2>1
<1> QED BY <1>1, <1>8 DEF PassInv, PrunePC

-----------------------------------------------------------------------------
(* What the other steps of a process do *)

\* Only rmtree touches the stage, and only Start moves on to another snapshot.
LEMMA RunEffect ==
  ASSUME TypeOK, NEW r \in Runs, Start(r) \/ Step(r) \/ Crash(r),
         ~\E p \in Posts : Item(r, p)
  PROVE  /\ dump' = dump
         /\ ~RemoveFile(r) => html' = html /\ manifest' = manifest
         /\ ~Start(r) => /\ newest' = newest /\ snap' = snap /\ prune' = prune
                         /\ pc[r] # "idle"
<1> USE DEF dumps, opts, local, stage
<1>1. dump' = dump /\ (~RemoveFile(r) => html' = html /\ manifest' = manifest)
  BY DEF Start, Step, Crash, FlushDb, Metadata, ResetSeen, AcquireLock, Rejected,
         EndScan, Gate, ReadSeen, PlanPrune, PickCandidate, RemoveFile, RemoveDir,
         PruneFails, PruneEnds, Finish
<1>2. ~Start(r) => newest' = newest /\ snap' = snap /\ prune' = prune /\ pc[r] # "idle"
  BY DEF Step, Crash, FlushDb, Metadata, ResetSeen, AcquireLock, Rejected, EndScan,
         Gate, ReadSeen, PlanPrune, PickCandidate, RemoveFile, RemoveDir, PruneFails,
         PruneEnds, Finish, Exit, Goto
<1> QED BY <1>1, <1>2

\* rmtree takes one of the two files of its target.
Unlinks(d) ==
  \/ html' = [html EXCEPT ![d] = None] /\ manifest' = manifest
  \/ manifest' = [manifest EXCEPT ![d] = None] /\ html' = html

LEMMA RunKeepsTears ==
  ASSUME TypeOK, Tears, NEW r \in Runs, Start(r) \/ Step(r) \/ Crash(r),
         ~\E p \in Posts : Item(r, p)
  PROVE  Tears'
<1>1. dump' = dump BY RunEffect
<1>2. newest \in Nat /\ newest' \in Nat /\ newest <= newest'
  <2>1. CASE Start(r) BY <2>1, SnapshotsAssumption DEF Start, TypeOK
  <2>2. CASE ~Start(r)
    <3>1. newest' = newest BY <2>2, RunEffect
    <3> QED BY <3>1 DEF TypeOK
  <2> QED BY <2>1, <2>2
<1>3. CASE ~RemoveFile(r)
  <2>1. html' = html /\ manifest' = manifest BY <1>3, RunEffect
  <2>2. \A s \in Snapshots : s <= newest => s <= newest'
    BY <1>2, SnapshotsAssumption
  <2>3. SUFFICES ASSUME NEW d \in Posts, IsV2(manifest[d])
        PROVE  \E s \in Snapshots :
                 /\ s <= newest' /\ dump[s][d] = manifest[d].version
                 /\ html[d] # None =>
                      \E t \in Snapshots : s <= t /\ t <= newest' /\ dump[t][d] = html[d]
    BY <1>1, <2>1 DEF Tears
  <2> QED BY <2>2, <2>3 DEF Tears
<1>4. CASE RemoveFile(r)
  <2>1. newest' = newest BY <1>4 DEF RemoveFile, dumps
  <2>2. Unlinks(target[r]) BY <1>4 DEF RemoveFile, Unlinks
  <2>3. \A d \in Posts :
          /\ html'[d] = html[d] \/ html'[d] = None
          /\ manifest'[d] = manifest[d] \/ manifest'[d] = None
    BY <2>2 DEF Unlinks, TypeOK
  <2>4. SUFFICES ASSUME NEW d \in Posts, IsV2(manifest'[d])
        PROVE  \E s \in Snapshots :
                 /\ s <= newest /\ dump[s][d] = manifest'[d].version
                 /\ html'[d] # None =>
                      \E t \in Snapshots : s <= t /\ t <= newest /\ dump[t][d] = html'[d]
    BY <1>1, <2>1 DEF Tears
  <2>5. manifest'[d] = manifest[d] /\ IsV2(manifest[d]) BY <2>3, <2>4 DEF IsV2
  <2> QED BY <2>3, <2>5 DEF Tears
<1> QED BY <1>3, <1>4

LEMMA NewestStep ==
  ASSUME ~Overlap, InOrder, TypeOK, ItemsScanned, SoleRun, Newest,
         NEW r \in Runs, Start(r) \/ Step(r) \/ Crash(r)
  PROVE  Newest'
<1>1. \A q \in Runs \ {r} : pc'[q] = "idle" BY StepAlone
<1>2. pc'[r] # "idle" => snap'[r] = newest'
  <2>1. CASE \E p \in Posts : Item(r, p)
    BY <2>1, ItemFrame DEF Newest
  <2>2. CASE Start(r)
    <3> PICK s \in Snapshots :
          /\ s >= newest
          /\ newest' = IF s > newest THEN s ELSE newest
          /\ snap' = [snap EXCEPT ![r] = s]
      BY <2>2 DEF Start
    <3>1. newest' = s BY SnapshotsAssumption DEF TypeOK
    <3> QED BY <3>1 DEF TypeOK
  <2>3. CASE ~(\E p \in Posts : Item(r, p)) /\ ~Start(r)
    BY <2>3, RunEffect DEF Newest
  <2> QED BY <2>1, <2>2, <2>3
<1> QED BY <1>1, <1>2 DEF Newest

\* The steps of a process other than its workers', from the scan to its end.
LEMMA RunKeepsPassInv ==
  ASSUME ExecutorRaises, TypeOK, ItemsScanned, NEW r \in Runs,
         Start(r) \/ Step(r) \/ Crash(r), ~\E p \in Posts : Item(r, p),
         RunInv(r), PassInv(r)
  PROVE  PassInv(r)'
<1> USE DEF Goto, dumps, stage, opts, pass, purge, redis, local, PrunePC
<1>1. CASE Start(r) \/ FlushDb(r) \/ ResetSeen(r)
  <2>1. pc'[r] \in {"flush", "meta", "lock"}
    BY <1>1 DEF Start, FlushDb, ResetSeen, TypeOK
  <2> QED BY <2>1 DEF PassInv
<1>2. CASE Exit(r) \/ Metadata(r)
  <2>1. pc'[r] \in {"idle", "reset"} BY <1>2 DEF Exit, Metadata, TypeOK
  <2> QED BY <2>1 DEF PassInv
<1>3. CASE AcquireLock(r)
  <2>1. pc'[r] = "scan" /\ \A p \in Posts : item'[r][p] \in {"none", "queued"}
    BY <1>3 DEF AcquireLock, TypeOK
  <2> QED BY <2>1 DEF PassInv
<1>4. ASSUME UNCHANGED <<dump, html, manifest, snap>>, pc[r] \in {"gate", "read", "list"}
      PROVE  \A p \in Live(snap[r])' : FreshPage(r, p)'
  BY <1>4 DEF PassInv, FreshPage, Mine, Live
<1>5. CASE EndScan(r) /\ ~Exit(r)
  <2>1. pc[r] = "scan" /\ pc'[r] = "gate" /\ UNCHANGED <<dump, html, manifest, snap>>
    BY <1>5 DEF EndScan, TypeOK
  <2>2. \A p \in Live(snap[r]) : item[r][p] = "ok"
    BY <1>5, <2>1 DEF EndScan, Live, ItemPC, RunInv, TypeOK
  <2>3. \A p \in Live(snap[r]) : FreshPage(r, p)
    BY <2>1, <2>2 DEF PassInv, Live
  <2> QED BY <2>1, <2>3 DEF PassInv, FreshPage, Mine, Live
<1>6. CASE Gate(r)
  <2>1. /\ UNCHANGED <<dump, html, manifest, snap, failures, prune>> /\ pc[r] = "gate"
        /\ pc'[r] = "finish" \/ (pc'[r] = "read" /\ failures[r] = 0 /\ prune[r])
    BY <1>6 DEF Gate, TypeOK
  <2> QED BY <1>4, <2>1 DEF PassInv
<1>7. CASE ReadSeen(r)
  <2>1. /\ UNCHANGED <<dump, html, manifest, snap, failures, prune>> /\ pc[r] = "read"
        /\ pc'[r] \in {"list", "finish"}
    BY <1>7 DEF ReadSeen, TypeOK
  <2>2. failures'[r] = 0 /\ prune'[r] BY <2>1 DEF PassInv
  <2> QED BY <1>4, <2>1, <2>2 DEF PassInv
<1>8. CASE \/ PlanPrune(r) \/ RemoveFile(r) \/ RemoveDir(r)
           \/ \E p \in Posts : PickCandidate(r, p)
  <2>1. /\ UNCHANGED <<failures, prune>> /\ pc[r] \in PrunePC
        /\ pc'[r] \in {"prune", "rmtree", "finish"}
    BY <1>8 DEF PlanPrune, PickCandidate, RemoveFile, RemoveDir, TypeOK
  <2>2. failures'[r] = 0 /\ prune'[r] BY <2>1 DEF PassInv
  <2> QED BY <2>1, <2>2 DEF PassInv
<1>9. CASE PruneFails(r) \/ PruneEnds(r)
  <2>1. prune' = prune /\ pc[r] \in {"prune", "rmtree"} /\ pc'[r] = "finish"
    BY <1>9 DEF PruneFails, PruneEnds, TypeOK
  <2> QED BY <2>1 DEF PassInv
<1> QED BY <1>1, <1>2, <1>3, <1>5, <1>6, <1>7, <1>8, <1>9
        DEF Step, Rejected, Finish, Crash

LEMMA MirrorStep ==
  ASSUME ~Overlap, InOrder, ExecutorRaises, \A d \in Dumps : NeverReverts(d),
         TypeOK, ItemsScanned, PruneInv, MirrorInv, [Next]_vars
  PROVE  MirrorInv'
<1> USE DEF MirrorInv
<1>1. CASE UNCHANGED vars
  <2> USE <1>1 DEF vars, dumps, stage, redis, opts, pass, purge, local
  <2>1. Newest' BY DEF Newest
  <2>2. Tears' BY DEF Tears
  <2>3. \A r \in Runs : PassInv(r)'
    BY DEF PassInv, FreshPage, Live, Mine
  <2> QED BY <2>1, <2>2, <2>3
<1>2. CASE Next
  <2> PICK r \in Runs : Start(r) \/ Step(r) \/ Crash(r) BY <1>2 DEF Next
  <2>0. SoleRun /\ RunInv(r) /\ NeverReverts(dump) BY PruneInvSplits
  <2>1. dump' = dump BY ItemFrame, RunEffect
  <2>2. Newest' BY <2>0, NewestStep
  <2>3. Tears' BY ItemKeepsTears, RunKeepsTears
  <2>4. PassInv(r)' BY <2>0, ItemKeepsPassInv, RunKeepsPassInv
  <2>5. ASSUME NEW q \in Runs, q # r PROVE PassInv(q)'
    <3>1. pc'[q] = "idle" BY <2>0, <2>5, StepAlone
    <3> QED BY <3>1 DEF PassInv, PrunePC
  <2> QED BY <2>1, <2>2, <2>3, <2>4, <2>5
<1> QED BY <1>1, <1>2

LEMMA MirrorInit == Init => PruneInv /\ MirrorInv
<1> SUFFICES ASSUME Init PROVE PruneInv /\ MirrorInv
  OBVIOUS
<1>1. PruneInv BY DEF Init, PruneInv, SoleRun, ItemsSeen
<1>2. Newest /\ \A r \in Runs : PassInv(r)
  BY DEF Init, Newest, PassInv, PrunePC
<1>3. Tears
  <2>1. \A p \in Posts : ~IsV2(manifest[p])
    BY DEF Init, IsV2
  <2> QED BY <2>1 DEF Tears
<1> QED BY <1>1, <1>2, <1>3 DEF Init, MirrorInv

-----------------------------------------------------------------------------
(* What a pass leaves *)

\* A pass without failures leaves every question of its snapshot with a page
\* rendered from it until a prune starts to remove, for every history without
\* reverted edits: what an earlier process left between its two renames, or
\* between two unlinks, is never mistaken for a fresh page.
THEOREM PassLeavesFresh ==
  ASSUME ~Overlap, InOrder, ExecutorRaises, \A d \in Dumps : NeverReverts(d)
  PROVE  Spec => []FreshAfterPass
<1>1. TypeOK /\ ItemsScanned /\ PruneInv /\ MirrorInv /\ [Next]_vars
        => PruneInv' /\ MirrorInv'
  BY PruneStep, MirrorStep
<1>2. MirrorInv => FreshAfterPass
  BY DEF MirrorInv, PassInv, FreshAfterPass
<1> QED BY MirrorInit, <1>1, <1>2, TypeCorrect, PTL DEF Spec

-----------------------------------------------------------------------------
(* The journal *)

\* What a process removes is in the plan of its snapshot.
PlanInv ==
  /\ SoleRun
  /\ \A r \in Runs :
       /\ pc[r] \in {"prune", "rmtree"} => todo[r] \subseteq plan[snap[r]]
       /\ pc[r] = "rmtree" => target[r] \in todo[r]

LEMMA PlanStep ==
  ASSUME ~Overlap, TypeOK, ItemsScanned, PlanInv, [Next]_vars
  PROVE  PlanInv'
<1> USE DEF dumps, opts, pass, purge, local
<1>1. CASE UNCHANGED vars BY <1>1 DEF vars, PlanInv, SoleRun
<1>2. CASE Next
  <2> PICK r \in Runs : Start(r) \/ Step(r) \/ Crash(r) BY <1>2 DEF Next
  <2>1. \A q \in Runs \ {r} : pc'[q] = "idle" BY StepAlone DEF PlanInv
  <2>2. SoleRun' BY <2>1 DEF SoleRun
  <2>3. /\ pc'[r] \in {"prune", "rmtree"} => todo'[r] \subseteq plan'[snap'[r]]
        /\ pc'[r] = "rmtree" => target'[r] \in todo'[r]
    <3>1. CASE \E p \in Posts : Item(r, p) BY <3>1, ItemFrame DEF PlanInv
    <3>2. CASE PlanPrune(r)
      <4>1. /\ pc'[r] \in {"finish", "prune"} /\ todo'[r] = Candidates(r) /\ snap' = snap
            /\ pc'[r] = "prune" => plan'[snap[r]] = Candidates(r)
        BY <3>2 DEF PlanPrune, Goto, TypeOK
      <4> QED BY <4>1
    <3>3. CASE \E p \in Posts : PickCandidate(r, p)
      <4>1. /\ pc[r] = "prune" /\ UNCHANGED <<todo, plan, snap>>
            /\ target'[r] \in todo[r]
        BY <3>3 DEF PickCandidate, Goto, TypeOK
      <4> QED BY <4>1 DEF PlanInv
    <3>4. CASE RemoveFile(r) BY <3>4 DEF RemoveFile, PlanInv
    <3>5. CASE RemoveDir(r)
      <4>1. /\ pc[r] = "rmtree" /\ pc'[r] = "prune" /\ UNCHANGED <<plan, snap>>
            /\ todo'[r] \subseteq todo[r]
        BY <3>5 DEF RemoveDir, Goto, TypeOK
      <4> QED BY <4>1 DEF PlanInv
    <3>6. CASE ~(\/ \E p \in Posts : Item(r, p) \/ PickCandidate(r, p)
                 \/ PlanPrune(r) \/ RemoveFile(r) \/ RemoveDir(r))
      <4>1. pc'[r] \notin {"prune", "rmtree"}
        BY <3>6 DEF TypeOK, Start, Step, Crash, FlushDb, Metadata, ResetSeen, AcquireLock,
             Rejected, EndScan, Gate, ReadSeen, PruneFails, PruneEnds, Finish, Exit, Goto
      <4> QED BY <4>1
    <3> QED BY <3>1, <3>2, <3>3, <3>4, <3>5, <3>6
  <2> QED BY <2>1, <2>2, <2>3 DEF PlanInv
<1> QED BY <1>1, <1>2

LEMMA RemovalsArePlanned ==
  ASSUME TypeOK, ItemsScanned, PlanInv, [Next]_vars, NEW p \in Posts, FileLost(p)
  PROVE  \E r \in Runs : target[r] = p /\ p \in plan[snap[r]]
<1>1. CASE UNCHANGED vars BY <1>1 DEF vars, stage, FileLost
<1>2. CASE Next
  <2> PICK r \in Runs : Start(r) \/ Step(r) \/ Crash(r) BY <1>2 DEF Next
  <2>1. CASE \E d \in Posts : Item(r, d)
    BY <2>1, ItemKeepsLegacy DEF FileLost
  <2>2. CASE RemoveFile(r)
    <3>1. target[r] \in todo[r] /\ todo[r] \subseteq plan[snap[r]]
      BY <2>2 DEF RemoveFile, PlanInv
    <3>2. target[r] = p BY <2>2 DEF RemoveFile, FileLost, TypeOK
    <3> QED BY <3>1, <3>2
  <2>3. CASE ~(\E d \in Posts : Item(r, d)) /\ ~RemoveFile(r)
    <3>1. html' = html /\ manifest' = manifest BY <2>3, RunEffect
    <3> QED BY <3>1 DEF FileLost
  <2> QED BY <2>1, <2>2, <2>3
<1> QED BY <1>1, <1>2

\* If runs never overlap, no file is removed before its directory is in the plan
\* on disk, whatever fails in between and whether or not the plan is right.
THEOREM RemovalsJournaled ==
  ASSUME ~Overlap
  PROVE  Spec => JournaledRemovals
<1>1. Init => PlanInv
  BY DEF Init, PlanInv, SoleRun
<1>2. TypeOK /\ ItemsScanned /\ PlanInv /\ [Next]_vars => PlanInv'
  BY PlanStep
<1>3. TypeOK /\ ItemsScanned /\ PlanInv /\ [Next]_vars =>
      [\A p \in Posts : FileLost(p) =>
         \E r \in Runs : target[r] = p /\ p \in plan[snap[r]]]_vars
  BY RemovalsArePlanned
<1> QED BY <1>1, <1>2, <1>3, TypeCorrect, PTL DEF Spec, JournaledRemovals

-----------------------------------------------------------------------------
(* The refinement *)

\* What the stage shows of a page, case by case.
LEMMA PageIs ==
  ASSUME NEW p \in Posts
  PROVE  /\ html[p] = None \/ manifest[p] = None => Page(p) = None
         /\ html[p] # None /\ manifest[p] # None =>
              Page(p) = IF html[p] = manifest[p].version THEN html[p] ELSE "torn"
BY DEF Page, Published

\* With one process at work, the snapshot being synced is its own.
LEMMA SyncingIs ==
  ASSUME NEW r \in Runs, \A q \in Runs \ {r} : pc[q] = "idle"
  PROVE  /\ Syncing = IF pc[r] = "idle" THEN None ELSE snap[r]
         /\ Complete <=> /\ pc[r] \in {"gate", "finish"} \cup PrunePC
                        /\ failures[r] = 0
         /\ Pruning = (pc[r] # "idle" /\ prune[r])
<1>1. Active = IF pc[r] = "idle" THEN {} ELSE {r} BY DEF Active
<1>2. Complete <=> pc[r] \in {"gate", "finish"} \cup PrunePC /\ failures[r] = 0
  BY <1>1 DEF Complete, PrunePC
<1>3. Pruning \in BOOLEAN /\ (Pruning <=> pc[r] # "idle" /\ prune[r])
  BY <1>1 DEF Pruning
<1> QED BY <1>1, <1>2, <1>3 DEF Syncing

\* A worker's step changes a page towards the snapshot, or not at all.
LEMMA ItemRefines ==
  ASSUME ~Overlap, TypeOK, ItemsScanned, SoleRun, NEW r \in Runs, NEW p \in Posts,
         PassInv(r), Item(r, p)
  PROVE  [Mirror!Next]_(Mirror!vars)
<1>1. pc[r] = "scan" /\ UNCHANGED <<dump, pc, snap, prune>> BY ItemFrame
<1>2. \A q \in Runs \ {r} : pc[q] = "idle" /\ pc'[q] = "idle" BY StepAlone DEF Step
<1>3. /\ Syncing = snap[r] /\ Syncing' = Syncing /\ ~Complete /\ Complete' = Complete
      /\ Pruning' = Pruning
  <2>1. Syncing = snap[r] /\ ~Complete BY <1>1, <1>2, SyncingIs DEF PrunePC
  <2>2. Active' = {r} /\ Active = {r} BY <1>1, <1>2 DEF Active
  <2>3. Syncing' = Syncing BY <1>1, <2>2 DEF Syncing
  <2>4. ~Complete' BY <1>1, <2>2 DEF Complete, PrunePC
  <2>5. Complete' = Complete BY <2>1, <2>4 DEF Complete
  <2>6. Pruning' = Pruning BY <1>1, <2>2 DEF Pruning
  <2> QED BY <2>1, <2>3, <2>5, <2>6
<1>4. snap[r] # None /\ snap[r] \in Snapshots BY NamesAssumption DEF TypeOK
<1>5. ASSUME html' = html, manifest' = manifest
      PROVE  UNCHANGED Mirror!vars
  <2>1. \A d \in Posts : Page(d)' = Page(d) BY <1>5 DEF Page, Published
  <2>2. [d \in Posts |-> Page(d)]' = [d \in Posts |-> Page(d)] BY <2>1
  <2> QED BY <1>1, <1>3, <2>2 DEF Mirror!vars
<1>6. ASSUME Mine(r, p) \in Versions,
             \A d \in Posts \ {p} : Page(d)' = Page(d),
             Page(p)' \in {"torn", Mine(r, p)}
      PROVE  Mirror!Update(p)
  <2>1. [d \in Posts |-> Page(d)]' = [[d \in Posts |-> Page(d)] EXCEPT ![p] = Page(p)']
    BY <1>6
  <2>2. p \in Mirror!Live(Syncing) BY <1>3, <1>6 DEF Mirror!Live, Mine
  <2>3. Mine(r, p) = dump[Syncing][p] BY <1>3 DEF Mine
  <2> QED BY <1>1, <1>3, <1>4, <1>6, <2>1, <2>2, <2>3 DEF Mirror!Update
<1> PICK to \in ItemPC : Brings(r, p, to) BY ItemEffect
<1>7. ASSUME Mine(r, p) \in Versions, to = "manifest",
             html' = [html EXCEPT ![p] = Mine(r, p)], manifest' = manifest
      PROVE  [Mirror!Next]_(Mirror!vars)
  <2>1. \A d \in Posts : html'[d] = IF d = p THEN Mine(r, p) ELSE html[d]
    BY <1>7 DEF TypeOK
  <2>2. \A d \in Posts \ {p} : Page(d)' = Page(d) BY <1>7, <2>1 DEF Page, Published
  <2>3. CASE manifest[p] = None
    <3>1. Page(p)' = None /\ Page(p) = None BY <1>7, <2>3 DEF Page, Published
    <3>2. [d \in Posts |-> Page(d)]' = [d \in Posts |-> Page(d)] BY <2>2, <3>1
    <3> QED BY <1>1, <1>3, <3>2 DEF Mirror!vars
  <2>4. CASE manifest[p] # None
    <3>1. html'[p] = Mine(r, p) /\ Mine(r, p) # None
      BY <1>7, <2>1, NamesAssumption
    <3>2. Page(p)' \in {"torn", Mine(r, p)} BY <1>7, <2>4, <3>1 DEF Page, Published
    <3> QED BY <1>6, <1>7, <2>2, <3>2 DEF Mirror!Next
  <2> QED BY <2>3, <2>4
<1>8. ASSUME Mine(r, p) \in Versions, item[r][p] = "manifest", html' = html,
             manifest' = [manifest EXCEPT ![p] = [schema |-> 2, version |-> Mine(r, p)]]
      PROVE  [Mirror!Next]_(Mirror!vars)
  <2>1. \A d \in Posts \ {p} : manifest'[d] = manifest[d] BY <1>8 DEF TypeOK
  <2>2. manifest'[p] = [schema |-> 2, version |-> Mine(r, p)] BY <1>8 DEF TypeOK
  <2>3. html[p] = Mine(r, p) /\ html[p] # None
    BY <1>1, <1>8, NamesAssumption DEF PassInv
  <2>4. \A d \in Posts \ {p} : Page(d)' = Page(d) BY <1>8, <2>1 DEF Page, Published
  <2>5. manifest'[p] # None /\ manifest'[p].version = Mine(r, p)
    <3>1. manifest'[p] \in Manifest BY <1>8, <2>2 DEF Manifest
    <3>2. manifest'[p].version = Mine(r, p) BY <2>2
    <3> QED BY <3>1, <3>2, NamesAssumption
  <2>6. Page(p)' = Mine(r, p) BY <1>8, <2>3, <2>5 DEF Page, Published
  <2> QED BY <1>6, <1>8, <2>4, <2>6 DEF Mirror!Next
<1>9. CASE html' = html /\ manifest' = manifest BY <1>5, <1>9
<1> QED BY <1>7, <1>8, <1>9 DEF Brings

\* Of the other steps only a launch, the end of the scan, a removal and an end
\* show: they are Begin, Completed, Remove and End.
LEMMA RunRefines ==
  ASSUME ~Overlap, ExecutorRaises, TypeOK, ItemsScanned, SoleRun,
         NEW r \in Runs, Start(r) \/ Step(r) \/ Crash(r), ~\E p \in Posts : Item(r, p),
         LegacyInv, RunInv(r), PassInv(r), PassInv(r)'
  PROVE  [Mirror!Next]_(Mirror!vars)
<1>0. \A q \in Runs \ {r} : pc[q] = "idle" /\ pc'[q] = "idle" BY StepAlone
<1>1. dump' = dump BY RunEffect
<1>2. Syncing = IF pc[r] = "idle" THEN None ELSE snap[r] BY <1>0, SyncingIs
<1>3. Syncing' = IF pc'[r] = "idle" THEN None ELSE snap'[r]
  <2>1. Active' = IF pc'[r] = "idle" THEN {} ELSE {r} BY <1>0 DEF Active
  <2> QED BY <2>1 DEF Syncing
<1>4. Complete <=> pc[r] \in {"gate", "finish"} \cup PrunePC /\ failures[r] = 0
  BY <1>0, SyncingIs
<1>5. Complete' <=> pc'[r] \in {"gate", "finish"} \cup PrunePC /\ failures'[r] = 0
  <2>1. Active' = IF pc'[r] = "idle" THEN {} ELSE {r} BY <1>0 DEF Active
  <2> QED BY <2>1 DEF Complete, PrunePC
<1>6. Complete \in BOOLEAN /\ Complete' \in BOOLEAN BY DEF Complete
<1>p. Pruning = (pc[r] # "idle" /\ prune[r]) BY <1>0, SyncingIs
<1>q. Pruning' = (pc'[r] # "idle" /\ prune'[r])
  <2>1. Active' = IF pc'[r] = "idle" THEN {} ELSE {r} BY <1>0 DEF Active
  <2>2. Pruning' \in BOOLEAN /\ (Pruning' <=> pc'[r] # "idle" /\ prune'[r])
    BY <2>1 DEF Pruning
  <2> QED BY <2>2
<1>7. snap[r] \in Snapshots /\ snap[r] # None BY NamesAssumption DEF TypeOK
<1>8. ASSUME html' = html, manifest' = manifest
      PROVE  [p \in Posts |-> Page(p)]' = [p \in Posts |-> Page(p)]
  <2>1. \A p \in Posts : Page(p)' = Page(p) BY <1>8 DEF Page, Published
  <2> QED BY <2>1
<1>9. CASE Start(r)
  <2>1. pc[r] = "idle" /\ pc'[r] = "flush" /\ snap'[r] \in Snapshots
    BY <1>9 DEF Start, Goto, TypeOK
  <2>2. html' = html /\ manifest' = manifest BY <1>9 DEF Start, stage
  <2>3. ~Complete /\ ~Complete' BY <1>4, <1>5, <2>1 DEF PrunePC
  <2>4. Complete' = Complete BY <1>6, <2>3
  <2>5. Pruning' \in BOOLEAN BY DEF Pruning
  <2>6. Mirror!Begin
    BY <1>1, <1>2, <1>3, <1>8, <2>1, <2>2, <2>4, <2>5 DEF Mirror!Begin
  <2> QED BY <2>6 DEF Mirror!Next
<1>10. CASE RemoveFile(r)
  <2>1. /\ UNCHANGED <<snap, prune, pc, failures>> /\ pc[r] = "rmtree"
        /\ Unlinks(target[r])
    BY <1>10 DEF RemoveFile, Unlinks, opts, pass
  <2>2. target[r] \in Posts BY <2>1 DEF LegacyInv, TypeOK
  <2>3. Complete /\ Complete' BY <1>4, <1>5, <2>1 DEF PassInv, PrunePC
  <2>4. /\ Complete' = Complete /\ Syncing' = Syncing /\ Syncing = snap[r]
        /\ Pruning /\ Pruning' = Pruning
    BY <1>2, <1>3, <1>6, <1>p, <1>q, <2>1, <2>3 DEF PassInv, PrunePC
  <2>5. \A p \in Posts : Page(p)' = IF p = target[r] THEN None ELSE Page(p)
    <3>1. html'[target[r]] = None \/ manifest'[target[r]] = None
      BY <2>1, <2>2 DEF Unlinks, TypeOK
    <3>2. \A p \in Posts \ {target[r]} : html'[p] = html[p] /\ manifest'[p] = manifest[p]
      BY <2>1, <2>2 DEF Unlinks, TypeOK
    <3>3. \A p \in Posts : p = target[r] => Page(p)' = None BY <3>1 DEF Page, Published
    <3>4. \A p \in Posts \ {target[r]} : Page(p)' = Page(p)
      BY <3>2 DEF Page, Published
    <3> QED BY <2>2, <3>3, <3>4
  <2>6. [p \in Posts |-> Page(p)]'
          = [[p \in Posts |-> Page(p)] EXCEPT ![target[r]] = None]
    BY <2>5
  <2>7. Mirror!Remove(target[r]) BY <1>1, <2>3, <2>4, <2>6 DEF Mirror!Remove
  <2> QED BY <2>2, <2>7 DEF Mirror!Next
<1>11. CASE ~Start(r) /\ ~RemoveFile(r)
  <2>0. /\ html' = html /\ manifest' = manifest /\ snap' = snap /\ prune' = prune
        /\ pc[r] # "idle"
    BY <1>11, RunEffect
  <2>p. pc'[r] # "idle" => Pruning' = Pruning BY <1>p, <1>q, <2>0
  <2>1. CASE pc'[r] = "idle"
    <3>1. Complete' = FALSE /\ Pruning' = FALSE BY <1>5, <1>6, <1>q, <2>1 DEF PrunePC
    <3> QED BY <1>1, <1>2, <1>3, <1>7, <1>8, <2>0, <2>1, <3>1
            DEF Mirror!End, Mirror!Next
  <2>2. CASE EndScan(r) /\ pc'[r] # "idle"
    <3>1. pc[r] = "scan" /\ pc'[r] = "gate"
      BY <2>2 DEF EndScan, Exit, Goto, TypeOK
    <3>2. Syncing' = Syncing /\ Syncing = snap[r] /\ ~Complete
      BY <1>2, <1>3, <1>4, <2>0, <3>1 DEF PrunePC
    <3>3. CASE Complete'
      <4>1. \A p \in Live(snap[r]) : html[p] = dump[snap[r]][p]
              /\ manifest[p] = [schema |-> 2, version |-> dump[snap[r]][p]]
        BY <1>1, <2>0, <3>1 DEF PassInv, FreshPage, Mine, Live
      <4>2. ASSUME NEW p \in Live(snap[r]) PROVE Page(p) = dump[snap[r]][p]
        <5>1. p \in Posts /\ dump[snap[r]][p] \in Versions BY DEF Live
        <5>2. html[p] = dump[snap[r]][p] BY <4>1
        <5>3. manifest[p] = [schema |-> 2, version |-> dump[snap[r]][p]] BY <4>1
        <5>4. manifest[p] \in Manifest /\ manifest[p].version = dump[snap[r]][p]
          BY <5>1, <5>3 DEF Manifest
        <5> QED BY <5>1, <5>2, <5>4, PageIs, NamesAssumption
      <4>3. \A p \in Mirror!Live(Syncing) : [q \in Posts |-> Page(q)][p] = dump[Syncing][p]
        BY <3>2, <4>2 DEF Mirror!Live, Live
      <4>4. Complete' = TRUE BY <1>6, <3>3
      <4>5. Mirror!Completed
        BY <1>1, <1>7, <1>8, <2>0, <2>2, <2>p, <3>2, <4>3, <4>4
           DEF Mirror!Completed, Mirror!Fresh
      <4> QED BY <4>5 DEF Mirror!Next
    <3>4. CASE ~Complete'
      <4>1. Complete' = Complete BY <1>6, <3>2, <3>4
      <4> QED BY <1>1, <1>8, <2>0, <2>2, <2>p, <3>2, <4>1 DEF Mirror!vars
    <3> QED BY <3>3, <3>4
  <2>3. CASE ~EndScan(r) /\ pc'[r] # "idle"
    <3>1. \/ /\ pc[r] \notin {"gate", "finish"} \cup PrunePC
             /\ pc'[r] \notin {"gate", "finish"} \cup PrunePC
          \/ /\ pc[r] \in {"gate", "finish"} \cup PrunePC
             /\ pc'[r] \in {"gate", "finish"} \cup PrunePC
             /\ failures' = failures
      BY <1>11, <2>3 DEF TypeOK, Step, Crash, FlushDb, Metadata, ResetSeen, AcquireLock,
           Rejected, Gate, ReadSeen, PlanPrune, PickCandidate, RemoveDir, PruneFails,
           PruneEnds, Finish, Exit, Goto, PrunePC, pass, local
    <3>2. Complete' <=> Complete BY <1>4, <1>5, <3>1
    <3>3. Complete' = Complete BY <1>6, <3>2
    <3>4. Syncing' = Syncing BY <1>2, <1>3, <2>0, <2>3
    <3> QED BY <1>1, <1>8, <2>0, <2>3, <2>p, <3>3, <3>4 DEF Mirror!vars
  <2> QED BY <2>1, <2>2, <2>3
<1> QED BY <1>9, <1>10, <1>11

LEMMA StutterRefines ==
  ASSUME UNCHANGED vars
  PROVE  UNCHANGED Mirror!vars
<1> USE DEF vars, dumps, stage, opts, pass, local
<1>1. \A p \in Posts : Page(p)' = Page(p) BY DEF Page, Published
<1>2. [p \in Posts |-> Page(p)]' = [p \in Posts |-> Page(p)] BY <1>1
<1>3. Syncing' = Syncing BY DEF Syncing, Active
<1>4. Complete' = Complete BY DEF Complete, Active
<1>5. Pruning' = Pruning BY DEF Pruning, Active
<1> QED BY <1>2, <1>3, <1>4, <1>5 DEF Mirror!vars

\* Incremental staging does what SnapshotMirror says: seen through the files it
\* publishes, every step of the scraper, its crashes included, is a step of a
\* mirror that knows nothing of files, Redis, workers or journals. Whatever the
\* prune makes of the seen set, a pass that was not asked to prune takes no page.
THEOREM StageRefinesMirror ==
  ASSUME ~Overlap, InOrder, ExecutorRaises, \A d \in Dumps : NeverReverts(d)
  PROVE  Spec => MirrorSpec
<1>1. Init => Mirror!Init
  <2> SUFFICES ASSUME Init PROVE Mirror!Init
    OBVIOUS
  <2>1. PICK v \in Versions :
          /\ html = [p \in Posts |-> IF p \in dir THEN v ELSE None]
          /\ manifest = [p \in Posts |->
               IF p \in dir THEN [schema |-> 1, version |-> v] ELSE None]
    BY DEF Init
  <2>2. \A p \in Posts : Page(p) \in Versions \cup {None}
    <3> TAKE p \in Posts
    <3>1. CASE p \in dir
      <4>1. html[p] = v /\ manifest[p] = [schema |-> 1, version |-> v] BY <2>1, <3>1
      <4>2. manifest[p].version = v BY <4>1
      <4> QED BY <4>1, <4>2 DEF Page, Published
    <3>2. CASE p \notin dir BY <2>1, <3>2 DEF Page, Published
    <3> QED BY <3>1, <3>2
  <2>3. Active = {} BY DEF Init, Active
  <2>4. Complete = FALSE BY <2>3 DEF Complete
  <2>5. Syncing = None BY <2>3 DEF Syncing
  <2>6. Pruning = FALSE BY <2>3 DEF Pruning
  <2> QED BY <2>2, <2>4, <2>5, <2>6 DEF Init, Mirror!Init
<1>2. TypeOK /\ ItemsScanned /\ PruneInv /\ MirrorInv /\ [Next]_vars
        => PruneInv' /\ MirrorInv'
  BY PruneStep, MirrorStep
<1>3. TypeOK /\ ItemsScanned /\ LegacyInv /\ PruneInv /\ MirrorInv /\ [Next]_vars
        => LegacyInv' /\ [Mirror!Next]_(Mirror!vars)
  <2> SUFFICES ASSUME TypeOK, ItemsScanned, LegacyInv, PruneInv, MirrorInv, [Next]_vars
               PROVE  [Mirror!Next]_(Mirror!vars)
    BY LegacyStep
  <2>1. CASE UNCHANGED vars BY <2>1, StutterRefines
  <2>2. CASE Next
    <3> PICK r \in Runs : Start(r) \/ Step(r) \/ Crash(r) BY <2>2 DEF Next
    <3>1. SoleRun /\ RunInv(r) BY PruneInvSplits
    <3>2. PassInv(r) /\ PassInv(r)' BY <1>2 DEF MirrorInv
    <3> QED BY <3>1, <3>2, ItemRefines, RunRefines
  <2> QED BY <2>1, <2>2
<1>4. Init => LegacyInv BY NamesAssumption DEF Init, LegacyInv
<1> QED BY MirrorInit, <1>1, <1>2, <1>3, <1>4, TypeCorrect, PTL
        DEF Spec, MirrorSpec, Mirror!Spec

=============================================================================
