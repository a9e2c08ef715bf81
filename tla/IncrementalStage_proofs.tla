----------------------- MODULE IncrementalStage_proofs -----------------------
(* Theorems about incremental staging, for every number of runs and posts. *)
EXTENDS IncrementalStage, TLAPS

-----------------------------------------------------------------------------
(* Type correctness *)

LEMMA InitTyped == Init => TypeOK
BY SnapshotsAssumption, DumpsAssumption, NamesAssumption
   DEF Init, TypeOK, Manifest, RunPC, ItemPC, Histories

\* Exit only forgets: it preserves the types of everything it assigns.
LEMMA ExitTyped ==
  ASSUME TypeOK, NEW r \in Runs, Exit(r)
  PROVE  /\ pc' \in [Runs -> RunPC] /\ item' \in [Runs -> [Posts -> ItemPC]]
         /\ failures' \in [Runs -> Nat] /\ raised' \in [Runs -> BOOLEAN]
         /\ seenCopy' \in [Runs -> SUBSET Posts] /\ todo' \in [Runs -> SUBSET Posts]
         /\ target' \in [Runs -> Posts \cup {None}]
         /\ files' \in [Runs -> SUBSET {"html", "manifest"}]
         /\ snap' = snap /\ prune' = prune
BY DEF TypeOK, Exit, RunPC, ItemPC, opts

\* No reply is an int or a str, so none is kept.
LEMMA NothingDecoded ==
  ASSUME NEW s \in Snapshots
  PROVE  Decoded(Replies(s)) = {}
<1>1. \A m \in Replies(s) : m[1] = "bytes" BY DEF Replies
<1> QED BY <1>1 DEF Decoded

\* One worker's step: the item it moves stays an item, nothing local changes.
LEMMA ItemTyped ==
  ASSUME TypeOK, ItemsScanned, NEW r \in Runs, NEW p \in Posts, Item(r, p)
  PROVE  TypeOK'
<1> USE DEF TypeOK, ItemStep, ItemTo, dumps, stage, redis, opts, purge, NoFault
<1>t. {"ok", "open", "failed", "skip", "html", "manifest", "mark"} \subseteq ItemPC
  BY DEF ItemPC, InFlight
<1>1. CASE ItemExcluded(r, p)   BY <1>1, <1>t DEF ItemExcluded
<1>2. CASE ItemOpen(r, p)       BY <1>2, <1>t DEF ItemOpen
<1>3. CASE ItemOpenFails(r, p)
  <2>1. PICK from \in {"queued", "open"} : ItemStep(r, p, from, "failed")
    BY <1>3 DEF ItemOpenFails
  <2> QED BY <1>3, <2>1, <1>t DEF ItemOpenFails, Uncounted
<1>4. CASE ItemDecide(r, p)     BY <1>4, <1>t DEF ItemDecide
<1>5. CASE ItemSkip(r, p)       BY <1>5, <1>t DEF ItemSkip
<1>6. CASE ItemSkipFails(r, p)  BY <1>6, <1>t DEF ItemSkipFails, Uncounted
<1>7. CASE ItemHtml(r, p)
  <2>1. Mine(r, p) \in Versions BY <1>7 DEF ItemHtml, ItemsScanned, InFlight
  <2> QED BY <1>7, <1>t, <2>1 DEF ItemHtml
<1>8. CASE ItemManifest(r, p)
  <2>1. Mine(r, p) \in Versions BY <1>8 DEF ItemManifest, ItemsScanned, InFlight
  <2>2. [schema |-> 2, version |-> Mine(r, p)] \in Manifest BY <2>1 DEF Manifest
  <2> QED BY <1>8, <1>t, <2>2 DEF ItemManifest
<1>9. CASE ItemMark(r, p)       BY <1>9, <1>t DEF ItemMark
<1>10. CASE ItemFails(r, p)
  <2>1. item' \in [Runs -> [Posts -> ItemPC]] BY <1>10, <1>t DEF ItemFails
  <2>2. seen' = seen \/ seen' = [seen EXCEPT ![snap[r]] = @ \cup {p}]
    BY <1>10 DEF ItemFails
  <2>3. raised' \in [Runs -> BOOLEAN] BY <1>10 DEF ItemFails, Counted
  <2>4. failures' \in [Runs -> Nat]
    <3>1. failures' = [failures EXCEPT ![r] = failures[r] + 1]
      BY <1>10 DEF ItemFails, Counted
    <3>2. failures[r] + 1 \in Nat OBVIOUS
    <3> QED BY <3>1, <3>2
  <2>5. seen' \in [Snapshots -> SUBSET Posts] BY <2>2
  <2> QED BY <1>10, <2>1, <2>3, <2>4, <2>5 DEF ItemFails
<1> QED BY <1>1, <1>2, <1>3, <1>4, <1>5, <1>6, <1>7, <1>8, <1>9, <1>10 DEF Item

\* The same for every other step of a process.
LEMMA RunTyped ==
  ASSUME TypeOK, NEW r \in Runs, Start(r) \/ Step(r) \/ Crash(r),
         ~\E p \in Posts : Item(r, p)
  PROVE  TypeOK'
<1> USE DEF TypeOK, Goto, dumps, stage, redis, opts, pass, purge, local
<1>t. {"idle", "flush", "meta", "reset", "lock", "scan", "gate", "read", "list",
       "prune", "rmtree", "finish"} = RunPC
  BY DEF RunPC
<1>1. CASE Start(r)         BY <1>1, <1>t, SnapshotsAssumption DEF Start
<1>2. CASE FlushDb(r)       BY <1>2, <1>t DEF FlushDb
<1>3. CASE Metadata(r)      BY <1>3, <1>t, ExitTyped DEF Metadata
<1>4. CASE ResetSeen(r)     BY <1>4, <1>t DEF ResetSeen
<1>5. CASE AcquireLock(r)   BY <1>5, <1>t DEF AcquireLock, ItemPC
<1>6. CASE Rejected(r)      BY <1>6, ExitTyped DEF Rejected
<1>7. CASE EndScan(r)       BY <1>7, <1>t, ExitTyped DEF EndScan
<1>8. CASE Gate(r)          BY <1>8, <1>t DEF Gate
<1>9. CASE ReadSeen(r)
  <2>1. Decoded(Replies(snap[r])) = {} BY NothingDecoded
  <2>2. seenCopy' = [seenCopy EXCEPT ![r] = {}] \/ seenCopy' = seenCopy
    BY <1>9, <2>1 DEF ReadSeen
  <2>3. seenCopy' \in [Runs -> SUBSET Posts] BY <2>2
  <2> QED BY <1>9, <1>t, <2>3 DEF ReadSeen
<1>10. CASE PlanPrune(r)    BY <1>10, <1>t DEF PlanPrune, Candidates
<1>11. CASE \E p \in Posts : PickCandidate(r, p)
  <2> PICK p \in Posts : PickCandidate(r, p) BY <1>11
  <2>1. files' \in [Runs -> SUBSET {"html", "manifest"}] BY DEF PickCandidate
  <2>2. target' \in [Runs -> Posts \cup {None}] BY DEF PickCandidate
  <2> QED BY <2>1, <2>2, <1>t DEF PickCandidate
<1>12. CASE RemoveFile(r)
  <2>0. \/ files' = [files EXCEPT ![r] = files[r] \ {"html"}]
        \/ files' = [files EXCEPT ![r] = files[r] \ {"manifest"}]
    BY <1>12 DEF RemoveFile
  <2>1. files' \in [Runs -> SUBSET {"html", "manifest"}]
    <3> DEFINE F == {"html", "manifest"}
    <3>1. files \in [Runs -> SUBSET F] OBVIOUS
    <3> HIDE DEF F
    <3>2. files[r] \ {"html"} \in SUBSET F /\ files[r] \ {"manifest"} \in SUBSET F
      BY <3>1
    <3>3. files' \in [Runs -> SUBSET F] BY <2>0, <3>1, <3>2 DEF TypeOK
    <3> QED BY <3>3 DEF F
  <2>2. html' \in [Posts -> Versions \cup {None}] BY <1>12 DEF RemoveFile
  <2>3. manifest' \in [Posts -> Manifest \cup {None}] BY <1>12 DEF RemoveFile
  <2> QED BY <1>12, <2>1, <2>2, <2>3 DEF RemoveFile
<1>13. CASE RemoveDir(r)    BY <1>13, <1>t DEF RemoveDir
<1>14. CASE PruneFails(r)   BY <1>14, <1>t DEF PruneFails
<1>15. CASE PruneEnds(r)    BY <1>15, <1>t DEF PruneEnds
<1>16. CASE Finish(r)       BY <1>16, ExitTyped DEF Finish
<1>17. CASE Crash(r)        BY <1>17, ExitTyped DEF Crash
<1> QED BY <1>1, <1>2, <1>3, <1>4, <1>5, <1>6, <1>7, <1>8, <1>9, <1>10, <1>11,
           <1>12, <1>13, <1>14, <1>15, <1>16, <1>17 DEF Step

-----------------------------------------------------------------------------
(* Where work is in flight *)

\* A worker's step moves one item of a scanning run and nothing else local.
LEMMA ItemFrame ==
  ASSUME TypeOK, ItemsScanned, NEW r \in Runs, NEW p \in Posts, Item(r, p)
  PROVE  /\ pc[r] = "scan"
         /\ UNCHANGED <<dump, newest, lock, plan, pc, snap, prune, seenCopy, todo, target>>
         /\ \E to \in ItemPC :
              /\ item' = [item EXCEPT ![r][p] = to]
              /\ to \in InFlight => Mine(r, p) \in Versions
<1> USE DEF ItemStep, ItemTo, dumps, opts, purge, InFlight, ItemPC
<1>1. CASE ItemExcluded(r, p)   BY <1>1 DEF ItemExcluded
<1>2. CASE ItemOpen(r, p)       BY <1>2 DEF ItemOpen
<1>3. CASE ItemOpenFails(r, p)  BY <1>3 DEF ItemOpenFails
<1>4. CASE ItemDecide(r, p)     BY <1>4 DEF ItemDecide, ItemsScanned
<1>5. CASE ItemSkip(r, p)       BY <1>5 DEF ItemSkip
<1>6. CASE ItemSkipFails(r, p)  BY <1>6 DEF ItemSkipFails
<1>7. CASE ItemHtml(r, p)       BY <1>7 DEF ItemHtml, ItemsScanned
<1>8. CASE ItemManifest(r, p)   BY <1>8 DEF ItemManifest, ItemsScanned
<1>9. CASE ItemMark(r, p)       BY <1>9 DEF ItemMark
<1>10. CASE ItemFails(r, p)     BY <1>10 DEF ItemFails
<1> QED BY <1>1, <1>2, <1>3, <1>4, <1>5, <1>6, <1>7, <1>8, <1>9, <1>10 DEF Item

LEMMA ItemsScannedStep ==
  ASSUME TypeOK, ItemsScanned, NEW r \in Runs, Start(r) \/ Step(r) \/ Crash(r)
  PROVE  ItemsScanned'
<1>1. CASE \E p \in Posts : Item(r, p)
  <2> PICK p \in Posts : Item(r, p) BY <1>1
  <2> PICK to \in ItemPC :
        /\ item' = [item EXCEPT ![r][p] = to]
        /\ to \in InFlight => Mine(r, p) \in Versions
    BY ItemFrame
  <2>1. UNCHANGED <<dump, pc, snap>> /\ pc[r] = "scan" BY ItemFrame
  <2>2. \A q \in Runs \ {r} : item'[q] = item[q] BY DEF TypeOK
  <2>3. item'[r][p] = to /\ \A d \in Posts \ {p} : item'[r][d] = item[r][d]
    <3>1. item'[r] = [item[r] EXCEPT ![p] = to] /\ item[r] \in [Posts -> ItemPC]
      BY DEF TypeOK
    <3> QED BY <3>1
  <2> SUFFICES ASSUME NEW q \in Runs, NEW d \in Posts, item'[q][d] \in InFlight
               PROVE  pc'[q] = "scan" /\ Mine(q, d)' \in Versions
    BY DEF ItemsScanned
  <2> QED BY <2>1, <2>2, <2>3 DEF ItemsScanned, Mine
<1>2. CASE ~\E p \in Posts : Item(r, p)
  <2>1. dump' = dump /\ (pc[r] # "idle" => snap' = snap)
    BY <1>2 DEF Start, Step, Crash, FlushDb, Metadata, ResetSeen, AcquireLock,
         Rejected, EndScan, Gate, ReadSeen, PlanPrune, PickCandidate, RemoveFile,
         RemoveDir, PruneFails, PruneEnds, Finish, Exit, Goto, dumps, opts, local
  <2>2. \A q \in Runs \ {r} : pc'[q] = pc[q] /\ snap'[q] = snap[q] /\ item'[q] = item[q]
    BY <1>2 DEF TypeOK, Start, Step, Crash, FlushDb, Metadata, ResetSeen, AcquireLock,
         Rejected, EndScan, Gate, ReadSeen, PlanPrune, PickCandidate, RemoveFile,
         RemoveDir, PruneFails, PruneEnds, Finish, Exit, Goto, dumps, opts, pass, local
  <2>3. \A p \in Posts : item'[r][p] \notin InFlight
    <3>1. CASE AcquireLock(r) BY <3>1 DEF AcquireLock, TypeOK, InFlight
    <3>2. CASE EndScan(r)     BY <3>2 DEF EndScan, Exit, local, pass, TypeOK, InFlight
    <3>3. CASE Exit(r)        BY <3>3 DEF Exit, TypeOK, InFlight
    <3>4. CASE ~(AcquireLock(r) \/ EndScan(r) \/ Exit(r))
      <4>1. item' = item /\ pc[r] # "scan"
        BY <1>2, <3>4 DEF Start, Step, Crash, FlushDb, Metadata, ResetSeen, Rejected,
             Gate, ReadSeen, PlanPrune, PickCandidate, RemoveFile, RemoveDir,
             PruneFails, PruneEnds, Finish, Goto, pass, local
      <4> QED BY <4>1 DEF ItemsScanned
    <3> QED BY <3>1, <3>2, <3>3, <3>4
  <2> QED BY <2>1, <2>2, <2>3 DEF ItemsScanned, Mine
<1> QED BY <1>1, <1>2

LEMMA TypeStep ==
  ASSUME TypeOK, ItemsScanned, [Next]_vars
  PROVE  TypeOK' /\ ItemsScanned'
<1>1. CASE UNCHANGED vars
  BY <1>1 DEF vars, dumps, stage, redis, opts, pass, purge, local, TypeOK,
              ItemsScanned, Mine
<1>2. CASE Next
  <2> PICK r \in Runs : Start(r) \/ Step(r) \/ Crash(r) BY <1>2 DEF Next
  <2> QED BY ItemTyped, RunTyped, ItemsScannedStep
<1> QED BY <1>1, <1>2

\* Every variable keeps its type, whatever runs, crashes and failures there are.
THEOREM TypeCorrect == Spec => [](TypeOK /\ ItemsScanned)
<1>1. Init => TypeOK /\ ItemsScanned
  BY InitTyped DEF Init, ItemsScanned, InFlight
<1>2. TypeOK /\ ItemsScanned /\ [Next]_vars => (TypeOK /\ ItemsScanned)'
  BY TypeStep
<1> QED BY <1>1, <1>2, PTL DEF Spec

-----------------------------------------------------------------------------
(* The lock *)

\* At most one process scans, and it is the holder of .incremental.lock,
\* whatever the operator starts and whatever dies.
THEOREM ScanExclusion == Spec => []ScanHoldsLock
<1>1. Init => ScanHoldsLock
  BY NamesAssumption DEF Init, ScanHoldsLock
<1>2. TypeOK /\ ItemsScanned /\ ScanHoldsLock /\ [Next]_vars => ScanHoldsLock'
  <2> SUFFICES ASSUME TypeOK, ItemsScanned, ScanHoldsLock, [Next]_vars
               PROVE  ScanHoldsLock'
    OBVIOUS
  <2>1. CASE UNCHANGED vars
    BY <2>1 DEF vars, ScanHoldsLock
  <2>2. CASE Next
    <3> PICK r \in Runs : Start(r) \/ Step(r) \/ Crash(r) BY <2>2 DEF Next
    <3>1. CASE \E p \in Posts : Item(r, p)
      BY <3>1, ItemFrame DEF ScanHoldsLock
    <3>2. CASE AcquireLock(r) \/ EndScan(r) \/ Crash(r)
      <4>1. \A q \in Runs \ {r} : pc'[q] = pc[q]
        BY <3>2 DEF AcquireLock, EndScan, Crash, Exit, Goto, TypeOK
      <4>2. CASE AcquireLock(r)
        <5>1. pc'[r] = "scan" /\ lock' = r /\ lock = None
          BY <4>2 DEF AcquireLock, Goto, TypeOK
        <5> QED BY <4>1, <5>1, NamesAssumption DEF ScanHoldsLock
      <4>3. CASE EndScan(r)
        <5>1. pc[r] = "scan" /\ pc'[r] # "scan" /\ lock' = None
          BY <4>3 DEF EndScan, Exit, Goto, TypeOK
        <5> QED BY <4>1, <5>1, NamesAssumption DEF ScanHoldsLock
      <4>4. CASE Crash(r)
        <5>1. pc'[r] = "idle" /\ lock' = IF lock = r THEN None ELSE lock
          BY <4>4 DEF Crash, Exit, TypeOK
        <5> QED BY <4>1, <5>1, NamesAssumption DEF ScanHoldsLock
      <4> QED BY <3>2, <4>2, <4>3, <4>4
    <3>3. CASE ~(\E p \in Posts : Item(r, p))
               /\ ~(AcquireLock(r) \/ EndScan(r) \/ Crash(r))
      <4>1. lock' = lock /\ pc[r] # "scan" /\ pc'[r] # "scan"
        BY <3>3 DEF TypeOK, Start, Step, FlushDb, Metadata, ResetSeen, Rejected, Gate,
             ReadSeen, PlanPrune, PickCandidate, RemoveFile, RemoveDir, PruneFails,
             PruneEnds, Finish, Exit, Goto
      <4>2. \A q \in Runs \ {r} : pc'[q] = pc[q]
        BY <3>3 DEF TypeOK, Start, Step, FlushDb, Metadata, ResetSeen, Rejected, Gate,
             ReadSeen, PlanPrune, PickCandidate, RemoveFile, RemoveDir, PruneFails,
             PruneEnds, Finish, Exit, Goto
      <4> QED BY <4>1, <4>2 DEF ScanHoldsLock
    <3> QED BY <3>1, <3>2, <3>3
  <2> QED BY <2>1, <2>2
<1> QED BY <1>1, <1>2, TypeCorrect, PTL DEF Spec

-----------------------------------------------------------------------------
(* Legacy pages *)

IsV1(m) == m # None /\ m.schema = 1

\* A worker never writes a schema 1 manifest and never takes index.html away.
LEMMA ItemKeepsLegacy ==
  ASSUME TypeOK, ItemsScanned, NEW r \in Runs, NEW p \in Posts, Item(r, p),
         NEW d \in Posts
  PROVE  /\ html[d] # None => html'[d] # None
         /\ manifest[d] # None => manifest'[d] # None
         /\ manifest'[d] = manifest[d] \/ manifest'[d].schema = 2
<1>1. CASE ItemHtml(r, p)
  <2>1. Mine(r, p) # None
    BY <1>1, NamesAssumption DEF ItemHtml, ItemStep, ItemsScanned, InFlight
  <2> QED BY <1>1, <2>1 DEF ItemHtml, TypeOK
<1>2. CASE ItemManifest(r, p)
  <2> DEFINE m == [schema |-> 2, version |-> Mine(r, p)]
  <2>1. manifest' = [manifest EXCEPT ![p] = m] BY <1>2 DEF ItemManifest
  <2>2. html' = html BY <1>2 DEF ItemManifest
  <2>3. Mine(r, p) \in Versions
    BY <1>2 DEF ItemManifest, ItemStep, ItemsScanned, InFlight
  <2>4. m # None /\ m.schema = 2 BY <2>3, NamesAssumption DEF Manifest
  <2> QED BY <2>1, <2>2, <2>4 DEF TypeOK
<1>3. CASE ~ItemHtml(r, p) /\ ~ItemManifest(r, p)
  <2>1. html' = html /\ manifest' = manifest
    BY <1>3 DEF Item, ItemExcluded, ItemOpen, ItemOpenFails, ItemDecide, ItemSkip,
         ItemSkipFails, ItemMark, ItemFails, stage
  <2> QED BY <2>1
<1> QED BY <1>1, <1>2, <1>3

\* Every other step leaves legacy pages alone: only rmtree unlinks files, and
\* its target was never a legacy page.
LEMMA RunKeepsLegacy ==
  ASSUME TypeOK, LegacyInv, NEW r \in Runs, Start(r) \/ Step(r) \/ Crash(r),
         ~\E p \in Posts : Item(r, p), NEW d \in Posts
  PROVE  /\ manifest'[d] = manifest[d] \/ manifest'[d] = None
         /\ IsV1(manifest[d]) => manifest'[d] = manifest[d] /\ html'[d] = html[d]
<1>1. CASE RemoveFile(r)
  <2>1. target[r] \in todo[r] /\ target[r] \in Posts
    BY <1>1 DEF RemoveFile, LegacyInv, TypeOK
  <2>2. ~IsV1(manifest[target[r]]) BY <2>1 DEF LegacyInv, IsV1
  <2> QED BY <1>1, <2>1, <2>2 DEF RemoveFile, TypeOK
<1>2. CASE ~RemoveFile(r)
  <2>1. html' = html /\ manifest' = manifest
    BY <1>2 DEF Start, Step, Crash, FlushDb, Metadata, ResetSeen, AcquireLock, Rejected,
         EndScan, Gate, ReadSeen, PlanPrune, PickCandidate, RemoveDir, PruneFails,
         PruneEnds, Finish, stage
  <2> QED BY <2>1
<1> QED BY <1>1, <1>2

\* What a step does to the candidates of any run.
LEMMA TodoStep ==
  ASSUME TypeOK, ItemsScanned, LegacyInv, NEW r \in Runs, Start(r) \/ Step(r) \/ Crash(r),
         NEW q \in Runs
  PROVE  /\ todo'[q] \subseteq todo[q] \cup {p \in Posts : IsV2(manifest[p])}
         /\ pc'[q] = "rmtree" => target'[q] \in todo'[q]
<1>1. CASE \E p \in Posts : Item(r, p)
  BY <1>1, ItemFrame DEF LegacyInv
<1>2. CASE ~\E p \in Posts : Item(r, p)
  <2>1. CASE q # r
    <3>1. todo'[q] = todo[q] /\ pc'[q] = pc[q] /\ target'[q] = target[q]
      BY <1>2, <2>1 DEF TypeOK, Start, Step, Crash, FlushDb, Metadata, ResetSeen,
           AcquireLock, Rejected, EndScan, Gate, ReadSeen, PlanPrune, PickCandidate,
           RemoveFile, RemoveDir, PruneFails, PruneEnds, Finish, Exit, Goto, purge, local
    <3> QED BY <3>1 DEF LegacyInv
  <2>2. CASE q = r
    <3>1. CASE Exit(r) BY <3>1, <2>2 DEF Exit, TypeOK
    <3>2. CASE PlanPrune(r)
      BY <3>2, <2>2 DEF PlanPrune, Goto, Candidates, TypeOK
    <3>3. CASE PickCandidate(r, target'[r])
      BY <3>3, <2>2 DEF PickCandidate, TypeOK
    <3>4. CASE RemoveDir(r) BY <3>4, <2>2 DEF RemoveDir, Goto, TypeOK
    <3>5. CASE ~(Exit(r) \/ PlanPrune(r) \/ PickCandidate(r, target'[r]) \/ RemoveDir(r))
      <4>1. ~\E p \in Posts : PickCandidate(r, p)
        BY <3>5 DEF PickCandidate, TypeOK
      <4>2. todo'[r] = todo[r] /\ (pc'[r] = "rmtree" => pc[r] = "rmtree" /\ target' = target)
        BY <1>2, <3>5, <4>1 DEF TypeOK, Start, Step, Crash, FlushDb, Metadata, ResetSeen,
             AcquireLock, Rejected, EndScan, Gate, ReadSeen, RemoveFile, PruneFails,
             PruneEnds, Finish, Goto, purge, local
      <4> QED BY <4>2, <2>2 DEF LegacyInv
    <3> QED BY <3>1, <3>2, <3>3, <3>4, <3>5
  <2> QED BY <2>1, <2>2
<1> QED BY <1>1, <1>2

LEMMA LegacyStep ==
  ASSUME TypeOK, ItemsScanned, LegacyInv, [Next]_vars
  PROVE  /\ LegacyInv'
         /\ \A d \in Posts : IsV1(manifest[d]) => html'[d] # None /\ manifest'[d] # None
<1>1. CASE UNCHANGED vars
  BY <1>1 DEF vars, stage, purge, local, LegacyInv, IsV1
<1>2. CASE Next
  <2> PICK r \in Runs : Start(r) \/ Step(r) \/ Crash(r) BY <1>2 DEF Next
  <2>1. \A d \in Posts :
          /\ IsV1(manifest[d]) => html'[d] # None /\ manifest'[d] # None
          /\ IsV1(manifest'[d]) => manifest'[d] = manifest[d]
    <3>1. CASE \E p \in Posts : Item(r, p)
      BY <3>1, ItemKeepsLegacy DEF LegacyInv, IsV1
    <3>2. CASE ~\E p \in Posts : Item(r, p)
      BY <3>2, RunKeepsLegacy DEF LegacyInv, IsV1
    <3> QED BY <3>1, <3>2
  <2>2. \A d \in Posts : IsV1(manifest'[d]) => html'[d] # None
    BY <2>1
  <2>3. \A q \in Runs : \A p \in todo'[q] : ~IsV1(manifest'[p])
    <3> TAKE q \in Runs
    <3> TAKE p \in todo'[q]
    <3>1. p \in Posts /\ p \in todo[q] \cup {d \in Posts : IsV2(manifest[d])}
      BY TodoStep DEF TypeOK
    <3>2. ~IsV1(manifest[p]) BY <3>1 DEF LegacyInv, IsV1, IsV2
    <3> QED BY <3>1, <3>2, <2>1
  <2>4. \A q \in Runs : pc'[q] = "rmtree" => target'[q] \in todo'[q]
    BY TodoStep
  <2>5. TypeOK' BY TypeStep
  <2>6. \A q \in Runs : \A p \in todo'[q] : manifest'[p] = None \/ manifest'[p].schema = 2
    BY <2>3, <2>5 DEF TypeOK, IsV1, Manifest
  <2> QED BY <2>1, <2>2, <2>4, <2>6 DEF LegacyInv, IsV1
<1> QED BY <1>1, <1>2

\* No schema 1 page ever loses a file, under any interleaving of any number of
\* runs, whether or not the lock, the gate and the seen set do their part.
THEOREM LegacyPagesKept == Spec => LegacyKept
<1>1. Init => LegacyInv
  BY NamesAssumption DEF Init, LegacyInv
<1>2. TypeOK /\ ItemsScanned /\ LegacyInv /\ [Next]_vars => LegacyInv'
  BY LegacyStep
<1>3. TypeOK /\ ItemsScanned /\ LegacyInv /\ [Next]_vars =>
      [\A p \in Posts : manifest[p] # None /\ manifest[p].schema = 1
         => html'[p] # None /\ manifest'[p] # None]_vars
  BY LegacyStep DEF IsV1
<1> QED BY <1>1, <1>2, <1>3, TypeCorrect, PTL DEF Spec, LegacyKept

-----------------------------------------------------------------------------
(* The gate of the prune: what it lets through, and what it knows, with the *)
(* failures surfacing                                                       *)

\* A run's own part of ScannedInv.
RunScanned(r) ==
  /\ pc[r] = "scan" => \A p \in Live(snap[r]) :
       /\ item[r][p] # "none"
       /\ item[r][p] = "failed" => raised[r]
  /\ pc[r] \in {"gate"} \cup PrunePC =>
       \A p \in Live(snap[r]) : item[r][p] = "ok"
  /\ pc[r] \in PrunePC => prune[r] /\ failures[r] = 0

\* A run's own part of PruneInv.
RunInv(r) ==
  /\ pc[r] = "scan" => \A p \in Live(snap[r]) :
       /\ item[r][p] # "none"
       /\ item[r][p] = "ok" => p \in seen[snap[r]]
       /\ item[r][p] = "failed" => raised[r]
  /\ pc[r] \in {"gate", "read"} => Live(snap[r]) \subseteq seen[snap[r]]

LEMMA PruneInvSplits == PruneInv <=> SoleRun /\ \A r \in Runs : RunInv(r)
BY DEF PruneInv, ItemsSeen, RunInv

\* What a worker's step adds to the seen set and to the failures.
LEMMA ItemRecords ==
  ASSUME TypeOK, ItemsScanned, ExecutorRaises,
         NEW r \in Runs, NEW p \in Posts, Item(r, p)
  PROVE  /\ seen[snap[r]] \subseteq seen'[snap[r]]
         /\ raised[r] => raised'[r]
         /\ \E to \in ItemPC :
              /\ item' = [item EXCEPT ![r][p] = to]
              /\ to # "none"
              /\ to = "ok" /\ Mine(r, p) \in Versions => p \in seen'[snap[r]]
              /\ to = "failed" => raised'[r]
<1> USE DEF ItemStep, ItemTo, ItemPC, InFlight, NoFault, redis, TypeOK
<1>1. CASE ItemExcluded(r, p)   BY <1>1, NamesAssumption DEF ItemExcluded
<1>2. CASE ItemOpen(r, p)       BY <1>2 DEF ItemOpen
<1>3. CASE ItemOpenFails(r, p)  BY <1>3 DEF ItemOpenFails, Uncounted
<1>4. CASE ItemDecide(r, p)
  <2>1. \/ item' = [item EXCEPT ![r][p] = "skip"]
        \/ item' = [item EXCEPT ![r][p] = "html"]
    BY <1>4 DEF ItemDecide
  <2>2. seen' = seen /\ raised' = raised BY <1>4 DEF ItemDecide
  <2> QED BY <2>1, <2>2
<1>5. CASE ItemSkip(r, p)       BY <1>5 DEF ItemSkip
<1>6. CASE ItemSkipFails(r, p)  BY <1>6 DEF ItemSkipFails, Uncounted
<1>7. CASE ItemHtml(r, p)       BY <1>7 DEF ItemHtml
<1>8. CASE ItemManifest(r, p)   BY <1>8 DEF ItemManifest
<1>9. CASE ItemMark(r, p)       BY <1>9 DEF ItemMark
<1>10. CASE ItemFails(r, p)
  <2>1. item' = [item EXCEPT ![r][p] = "failed"] BY <1>10 DEF ItemFails
  <2>2. seen[snap[r]] \subseteq seen'[snap[r]] BY <1>10 DEF ItemFails
  <2>3. raised'[r] BY <1>10 DEF ItemFails, Counted
  <2> QED BY <2>1, <2>2, <2>3
<1> QED BY <1>1, <1>2, <1>3, <1>4, <1>5, <1>6, <1>7, <1>8, <1>9, <1>10 DEF Item

LEMMA ItemKeepsRunInv ==
  ASSUME TypeOK, ItemsScanned, ExecutorRaises,
         NEW r \in Runs, NEW p \in Posts, Item(r, p), RunInv(r)
  PROVE  RunInv(r)'
<1>1. pc[r] = "scan" /\ UNCHANGED <<dump, pc, snap>> BY ItemFrame
<1> PICK to \in ItemPC :
      /\ item' = [item EXCEPT ![r][p] = to]
      /\ to # "none"
      /\ to = "ok" /\ Mine(r, p) \in Versions => p \in seen'[snap[r]]
      /\ to = "failed" => raised'[r]
  BY ItemRecords
<1>2. seen[snap[r]] \subseteq seen'[snap[r]] /\ (raised[r] => raised'[r])
  BY ItemRecords
<1>3. item'[r] = [item[r] EXCEPT ![p] = to] /\ item[r] \in [Posts -> ItemPC]
  BY DEF TypeOK
<1>4. \A d \in Posts : item'[r][d] = IF d = p THEN to ELSE item[r][d]
  BY <1>3
<1>5. \A d \in Live(snap[r]) :
        /\ item'[r][d] # "none"
        /\ item'[r][d] = "ok" => d \in seen'[snap[r]]
        /\ item'[r][d] = "failed" => raised'[r]
  BY <1>1, <1>2, <1>4 DEF RunInv, Live, Mine
<1> QED BY <1>1, <1>5 DEF RunInv, Live

\* The steps of a process other than its workers', from the scan to the removals.
LEMMA RunKeepsRunInv ==
  ASSUME TypeOK, ItemsScanned, NEW r \in Runs,
         Start(r) \/ Step(r) \/ Crash(r), ~\E p \in Posts : Item(r, p), RunInv(r)
  PROVE  RunInv(r)'
<1> USE DEF TypeOK, RunInv, Goto, dumps, opts, pass, purge, redis, local
<1>1. CASE Start(r) \/ FlushDb(r) \/ ResetSeen(r)
  BY <1>1 DEF Start, FlushDb, ResetSeen
<1>2. CASE Exit(r) BY <1>2 DEF Exit
<1>3. CASE Metadata(r) BY <1>3 DEF Metadata, Exit
<1>4. CASE AcquireLock(r)
  <2>1. \A p \in Posts : item'[r][p] = IF Mine(r, p) = Absent THEN "none" ELSE "queued"
    BY <1>4 DEF AcquireLock
  <2>2. UNCHANGED <<dump, snap>> /\ pc'[r] = "scan" BY <1>4 DEF AcquireLock
  <2> QED BY <2>1, <2>2, NamesAssumption DEF Live, Mine
<1>5. CASE EndScan(r) /\ ~Exit(r)
  <2>1. pc[r] = "scan" /\ pc'[r] = "gate" /\ UNCHANGED <<dump, snap, seen>>
    BY <1>5 DEF EndScan
  <2>2. \A p \in Live(snap[r]) : item[r][p] = "ok"
    BY <1>5 DEF EndScan, Live, ItemPC
  <2> QED BY <2>1, <2>2 DEF Live
<1>6. CASE Gate(r)     BY <1>6 DEF Gate, Live
<1>7. CASE ReadSeen(r)
  <2>1. pc'[r] \in {"list", "finish"} BY <1>7 DEF ReadSeen
  <2> QED BY <2>1
<1>8. CASE PlanPrune(r)    BY <1>8 DEF PlanPrune
<1>9. CASE \E p \in Posts : PickCandidate(r, p) BY <1>9 DEF PickCandidate
<1>10. CASE RemoveFile(r)  BY <1>10 DEF RemoveFile
<1>11. CASE RemoveDir(r)   BY <1>11 DEF RemoveDir
<1>12. CASE PruneFails(r) \/ PruneEnds(r)  BY <1>12 DEF PruneFails, PruneEnds
<1> QED BY <1>1, <1>2, <1>3, <1>4, <1>5, <1>6, <1>7, <1>8, <1>9, <1>10, <1>11, <1>12
        DEF Step, Rejected, Finish, Crash

\* Only the process that steps changes its place, and it steps alone.
LEMMA StepAlone ==
  ASSUME TypeOK, ItemsScanned, ~Overlap, SoleRun, NEW r \in Runs,
         Start(r) \/ Step(r) \/ Crash(r)
  PROVE  \A q \in Runs \ {r} : pc[q] = "idle" /\ pc'[q] = "idle"
<1>1. \A q \in Runs \ {r} : pc'[q] = pc[q]
  <2>1. CASE \E p \in Posts : Item(r, p) BY <2>1, ItemFrame
  <2>2. CASE ~\E p \in Posts : Item(r, p)
    BY <2>2 DEF TypeOK, Start, Step, Crash, FlushDb, Metadata, ResetSeen, AcquireLock,
         Rejected, EndScan, Gate, ReadSeen, PlanPrune, PickCandidate, RemoveFile,
         RemoveDir, PruneFails, PruneEnds, Finish, Exit, Goto
  <2> QED BY <2>1, <2>2
<1>2. CASE Start(r)
  BY <1>1, <1>2 DEF Start
<1>3. CASE ~Start(r)
  <2>1. pc[r] # "idle"
    <3>1. CASE \E p \in Posts : Item(r, p) BY <3>1, ItemFrame
    <3>2. CASE ~\E p \in Posts : Item(r, p)
      BY <1>3, <3>2 DEF Step, Crash, FlushDb, Metadata, ResetSeen, AcquireLock,
           Rejected, EndScan, Gate, ReadSeen, PlanPrune, PickCandidate, RemoveFile,
           RemoveDir, PruneFails, PruneEnds, Finish, Goto
    <3> QED BY <3>1, <3>2
  <2> QED BY <1>1, <2>1 DEF SoleRun
<1> QED BY <1>2, <1>3

LEMMA PruneStep ==
  ASSUME ~Overlap, ExecutorRaises,
         TypeOK, ItemsScanned, PruneInv, [Next]_vars
  PROVE  PruneInv'
<1>0. SoleRun /\ \A r \in Runs : RunInv(r) BY PruneInvSplits
<1>1. CASE UNCHANGED vars
  BY <1>1 DEF vars, dumps, redis, opts, pass, purge, local, PruneInv, SoleRun,
              ItemsSeen, Live
<1>2. CASE Next
  <2> PICK r \in Runs : Start(r) \/ Step(r) \/ Crash(r) BY <1>2 DEF Next
  <2>1. \A q \in Runs \ {r} : pc'[q] = "idle" BY <1>0, StepAlone
  <2>2. SoleRun' BY <2>1 DEF SoleRun
  <2>3. RunInv(r)'
    BY <1>0, ItemKeepsRunInv, RunKeepsRunInv
  <2>4. \A q \in Runs \ {r} : RunInv(q)' BY <2>1 DEF RunInv
  <2> QED BY <2>2, <2>3, <2>4 DEF PruneInv, RunInv, ItemsSeen
<1> QED BY <1>1, <1>2

\* A step of one process leaves what the others have in memory alone.
LEMMA OthersKept ==
  ASSUME TypeOK, ItemsScanned, NEW r \in Runs, Start(r) \/ Step(r) \/ Crash(r),
         NEW q \in Runs \ {r}
  PROVE  /\ dump' = dump
         /\ pc'[q] = pc[q] /\ snap'[q] = snap[q] /\ prune'[q] = prune[q]
         /\ item'[q] = item[q] /\ failures'[q] = failures[q] /\ raised'[q] = raised[q]
<1>1. CASE \E p \in Posts : Item(r, p)
  <2> PICK p \in Posts : Item(r, p) BY <1>1
  <2>1. UNCHANGED <<dump, pc, snap, prune>> /\ item'[q] = item[q]
    BY ItemFrame DEF TypeOK
  <2>2. failures'[q] = failures[q] /\ raised'[q] = raised[q]
    BY DEF TypeOK, Item, ItemExcluded, ItemOpen, ItemOpenFails, ItemDecide, ItemSkip,
         ItemSkipFails, ItemHtml, ItemManifest, ItemMark, ItemFails, NoFault, Counted,
         Uncounted
  <2> QED BY <2>1, <2>2
<1>2. CASE ~\E p \in Posts : Item(r, p)
  <2>1. dump' = dump
    BY <1>2 DEF Start, Step, Crash, FlushDb, Metadata, ResetSeen, AcquireLock,
         Rejected, EndScan, Gate, ReadSeen, PlanPrune, PickCandidate, RemoveFile,
         RemoveDir, PruneFails, PruneEnds, Finish, dumps
  <2>2. pc'[q] = pc[q] /\ snap'[q] = snap[q] /\ prune'[q] = prune[q]
    BY <1>2 DEF TypeOK, Start, Step, Crash, FlushDb, Metadata, ResetSeen, AcquireLock,
         Rejected, EndScan, Gate, ReadSeen, PlanPrune, PickCandidate, RemoveFile,
         RemoveDir, PruneFails, PruneEnds, Finish, Exit, Goto, opts, local
  <2>3. item'[q] = item[q] /\ failures'[q] = failures[q] /\ raised'[q] = raised[q]
    BY <1>2 DEF TypeOK, Start, Step, Crash, FlushDb, Metadata, ResetSeen, AcquireLock,
         Rejected, EndScan, Gate, ReadSeen, PlanPrune, PickCandidate, RemoveFile,
         RemoveDir, PruneFails, PruneEnds, Finish, Exit, pass, local
  <2> QED BY <2>1, <2>2, <2>3
<1> QED BY <1>1, <1>2

LEMMA ItemKeepsScanned ==
  ASSUME TypeOK, ItemsScanned, ExecutorRaises,
         NEW r \in Runs, NEW p \in Posts, Item(r, p), RunScanned(r)
  PROVE  RunScanned(r)'
<1>1. pc[r] = "scan" /\ UNCHANGED <<dump, pc, snap>> BY ItemFrame
<1> PICK to \in ItemPC :
      /\ item' = [item EXCEPT ![r][p] = to]
      /\ to # "none"
      /\ to = "failed" => raised'[r]
  BY ItemRecords
<1>2. raised[r] => raised'[r] BY ItemRecords
<1>3. item'[r] = [item[r] EXCEPT ![p] = to] /\ item[r] \in [Posts -> ItemPC]
  BY DEF TypeOK
<1>4. \A d \in Posts : item'[r][d] = IF d = p THEN to ELSE item[r][d]
  BY <1>3
<1>5. \A d \in Live(snap[r]) :
        /\ item'[r][d] # "none"
        /\ item'[r][d] = "failed" => raised'[r]
  BY <1>1, <1>2, <1>4 DEF RunScanned, Live
<1> QED BY <1>1, <1>5 DEF RunScanned, Live, PrunePC

LEMMA RunKeepsScanned ==
  ASSUME TypeOK, ItemsScanned, NEW r \in Runs,
         Start(r) \/ Step(r) \/ Crash(r), ~\E p \in Posts : Item(r, p), RunScanned(r)
  PROVE  RunScanned(r)'
<1> USE DEF TypeOK, RunScanned, Goto, PrunePC
<1>1. CASE Start(r) \/ FlushDb(r) \/ ResetSeen(r)
  BY <1>1 DEF Start, FlushDb, ResetSeen
<1>2. CASE Exit(r) \/ Metadata(r) BY <1>2 DEF Exit, Metadata
<1>3. CASE AcquireLock(r)
  <2>1. \A p \in Posts : item'[r][p] = IF Mine(r, p) = Absent THEN "none" ELSE "queued"
    BY <1>3 DEF AcquireLock
  <2>2. UNCHANGED <<dump, snap>> /\ pc'[r] = "scan" BY <1>3 DEF AcquireLock, dumps, opts
  <2> QED BY <2>1, <2>2, NamesAssumption DEF Live, Mine
<1>4. CASE EndScan(r) /\ ~Exit(r)
  <2>1. pc[r] = "scan" /\ pc'[r] = "gate" /\ UNCHANGED <<dump, snap, item>>
    BY <1>4 DEF EndScan, dumps, local, opts, pass
  <2>2. \A p \in Live(snap[r]) : item[r][p] = "ok"
    BY <1>4 DEF EndScan, Live, ItemPC
  <2> QED BY <2>1, <2>2 DEF Live
<1>5. CASE Gate(r)
  <2>1. /\ UNCHANGED <<dump, snap, item, prune, failures>> /\ pc[r] = "gate"
        /\ pc'[r] = "finish" \/ (pc'[r] = "read" /\ prune[r] /\ failures[r] = 0)
    BY <1>5 DEF Gate, dumps, local, opts, pass
  <2> QED BY <2>1 DEF Live
<1>6. CASE \/ ReadSeen(r) \/ PlanPrune(r) \/ RemoveFile(r) \/ RemoveDir(r)
           \/ \E p \in Posts : PickCandidate(r, p)
  <2>1. /\ UNCHANGED <<dump, snap, item, prune, failures>> /\ pc[r] \in PrunePC
        /\ pc'[r] \in PrunePC \cup {"finish"}
    BY <1>6 DEF ReadSeen, PlanPrune, PickCandidate, RemoveFile, RemoveDir, dumps, opts, pass
  <2> QED BY <2>1 DEF Live
<1>7. CASE PruneFails(r) \/ PruneEnds(r)  BY <1>7 DEF PruneFails, PruneEnds
<1> QED BY <1>1, <1>2, <1>3, <1>4, <1>5, <1>6, <1>7 DEF Step, Rejected, Finish, Crash

LEMMA ScannedStep ==
  ASSUME ExecutorRaises, TypeOK, ItemsScanned, ScannedInv, [Next]_vars
  PROVE  ScannedInv'
<1>0. \A r \in Runs : RunScanned(r) BY DEF ScannedInv, RunScanned
<1>1. CASE UNCHANGED vars
  BY <1>1 DEF vars, dumps, opts, pass, local, ScannedInv, Live
<1>2. CASE Next
  <2> PICK r \in Runs : Start(r) \/ Step(r) \/ Crash(r) BY <1>2 DEF Next
  <2>1. RunScanned(r)' BY <1>0, ItemKeepsScanned, RunKeepsScanned
  <2>2. ASSUME NEW q \in Runs \ {r} PROVE RunScanned(q)'
    <3>1. RunScanned(q) BY <1>0
    <3>2. /\ dump' = dump
          /\ pc'[q] = pc[q] /\ snap'[q] = snap[q] /\ prune'[q] = prune[q]
          /\ item'[q] = item[q] /\ failures'[q] = failures[q] /\ raised'[q] = raised[q]
      BY OthersKept
    <3> QED BY <3>1, <3>2 DEF RunScanned, Live
  <2>3. \A q \in Runs : RunScanned(q)' BY <2>1, <2>2
  <2> QED BY <2>3 DEF ScannedInv, RunScanned
<1> QED BY <1>1, <1>2

\* A file disappears only in rmtree, which is reached only through the gate.
LEMMA RemovalsAreGated ==
  ASSUME TypeOK, ItemsScanned, ScannedInv, [Next]_vars, NEW p \in Posts, FileLost(p)
  PROVE  \E r \in Runs :
           /\ target[r] = p /\ prune[r] /\ failures[r] = 0
           /\ \A q \in Live(snap[r]) : item[r][q] = "ok"
<1>1. CASE UNCHANGED vars BY <1>1 DEF vars, stage, FileLost
<1>2. CASE Next
  <2> PICK r \in Runs : Start(r) \/ Step(r) \/ Crash(r) BY <1>2 DEF Next
  <2>1. CASE \E d \in Posts : Item(r, d)
    BY <2>1, ItemKeepsLegacy DEF FileLost
  <2>2. CASE RemoveFile(r)
    <3>1. pc[r] \in PrunePC BY <2>2 DEF RemoveFile, PrunePC
    <3>2. target[r] = p BY <2>2 DEF RemoveFile, FileLost, TypeOK
    <3> QED BY <3>1, <3>2 DEF ScannedInv
  <2>3. CASE ~(\E d \in Posts : Item(r, d)) /\ ~RemoveFile(r)
    <3>1. html' = html /\ manifest' = manifest
      BY <2>3 DEF Start, Step, Crash, FlushDb, Metadata, ResetSeen, AcquireLock, Rejected,
           EndScan, Gate, ReadSeen, PlanPrune, PickCandidate, RemoveDir, PruneFails,
           PruneEnds, Finish, stage
    <3> QED BY <3>1 DEF FileLost
  <2> QED BY <2>1, <2>2, <2>3
<1> QED BY <1>1, <1>2

\* If an item's exception surfaces, no staged file disappears but by a process that
\* was asked to prune, scanned every question of its snapshot and saw none fail,
\* however many processes overlap, whatever they see of each other in Redis.
THEOREM PruneFollowsScan ==
  ASSUME ExecutorRaises
  PROVE  Spec => PrunesAfterScan
<1>1. Init => ScannedInv
  BY DEF Init, ScannedInv, PrunePC
<1>2. TypeOK /\ ItemsScanned /\ ScannedInv /\ [Next]_vars => ScannedInv'
  BY ScannedStep
<1>3. TypeOK /\ ItemsScanned /\ ScannedInv /\ [Next]_vars =>
      [\A p \in Posts : FileLost(p) =>
         \E r \in Runs :
           /\ target[r] = p /\ prune[r] /\ failures[r] = 0
           /\ \A q \in Live(snap[r]) : item[r][q] = "ok"]_vars
  BY RemovalsAreGated
<1> QED BY <1>1, <1>2, <1>3, TypeCorrect, PTL DEF Spec, PrunesAfterScan

\* If runs never overlap and an item's exception surfaces, the prune gate opens on
\* a seen set that holds every question of the snapshot.
THEOREM GateKnowsAll ==
  ASSUME ~Overlap, ExecutorRaises
  PROVE  Spec => []SeenCoversScan
<1>1. Init => PruneInv
  BY DEF Init, PruneInv, SoleRun, ItemsSeen
<1>2. TypeOK /\ ItemsScanned /\ PruneInv /\ [Next]_vars => PruneInv'
  BY PruneStep
<1>3. PruneInv => SeenCoversScan
  BY DEF PruneInv, SeenCoversScan
<1> QED BY <1>1, <1>2, <1>3, TypeCorrect, PTL DEF Spec

=============================================================================
