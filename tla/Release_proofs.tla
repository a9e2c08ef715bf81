--------------------------- MODULE Release_proofs ---------------------------
(* Proofs about Release, for any pages, restores, assemblies and flavours. *)
EXTENDS Release, TLAPS

USE ReleaseAssumption

-----------------------------------------------------------------------------
(* The inductive invariant *)

Holding == {"validate", "begin", "stop", "copy", "orphan", "start", "verify"}
Writing == {"stop", "copy", "orphan", "start", "verify"}
Gated == {"audit", "compare", "promote"}

\* The page is as the bundle of r has it.
AsBundled(r, p) == stage[p] = IF p \in Bundle[r] THEN r ELSE None

\* A restore that is under way holds the lock alone; from the removal of the
\* marker on there is none.  A fresh one found the stage empty; a page that rsync
\* has been through, or has no need to, is as the bundle has it and stays so.
RestoreInv(r) ==
  /\ rpc[r] \in Holding => restoreLock = {r}
  /\ rpc[r] \in Writing => ~marker
  /\ rpc[r] = "stop" /\ mode[r] = "fresh" => \A p \in Pages : stage[p] = None
  /\ rpc[r] \in {"copy", "orphan"} => \A p \in Pages \ todo[r] : AsBundled(r, p)
  /\ rpc[r] \in {"start", "verify"} => \A p \in Pages : AsBundled(r, p)

\* Nobody else is in the lock.
LockInv == \A x \in restoreLock : x \in Restores /\ rpc[x] \in Holding

StageInv == LockInv /\ MarkerHonest /\ \A r \in Restores : RestoreInv(r)

\* A ZIM packed in peace has the pages that the preflight counted.
Whole(z) == z.calm => VerifySnapshot(z.pages)

\* What the preflight saw is packed or still there, unless rsync has been at work;
\* what is new under TMP_DIR, the partial and, before the manifest, the promoted
\* ZIM are the run's own.
AssembleInv(a) ==
  /\ apc[a] \notin {"build", "orphan"} => read[a] = {}
  /\ apc[a] = "build" =>
       /\ tmp \subseteq before[a]
       /\ calm => VerifySnapshot(read[a] \cup (unread[a] \cap Present))
  /\ apc[a] = "locate" =>
       \A z \in tmp \ before[a] : z.by = a /\ Whole(z)
  /\ apc[a] \in Gated =>
       partial[a] \in Zim /\ partial[a].by = a /\ Whole(partial[a])
  /\ apc[a] \in {"compare", "promote"} => partial[a].sound
  /\ apc[a] = "describe" =>
       final[FlavourOf[a]] \in Zim /\ final[FlavourOf[a]].by = a
  /\ apc[a] = "publish" =>
       described[a] \in Manifest /\ described[a].zim.by = described[a].run

ReleaseInv ==
  WholeIfCalm /\ RightFlavour /\ ManifestOwn /\ \A a \in Assemblies : AssembleInv(a)

-----------------------------------------------------------------------------
(* Type correctness *)

LEMMA InitTyped == Init => TypeOK
<1> SUFFICES ASSUME Init PROVE TypeOK
  OBVIOUS
<1> USE DEF Init
<1>1. /\ rpc \in [Restores -> RestoreSteps] /\ mode \in [Restores -> Modes]
      /\ todo \in [Restores -> SUBSET Pages] /\ restoreLock \subseteq Restores \cup {"daemon"}
  BY DEF RestoreSteps
<1>2. /\ apc \in [Assemblies -> AssemblySteps]
      /\ \A a \in Assemblies :
           apc[a] \notin Ended \cup {"idle", "count", "admitted"} => assembleLock = a
  BY DEF AssemblySteps
<1>3. /\ final \in [Flavours -> Zim \cup {None}] /\ manifest \in [Flavours -> Manifest \cup {None}]
      /\ partial \in [Assemblies -> Zim \cup {None}]
      /\ described \in [Assemblies -> Manifest \cup {None}]
  OBVIOUS
<1> QED BY <1>1, <1>2, <1>3 DEF TypeOK

LEMMA RestoreTyped ==
  ASSUME TypeOK, NEW r \in Restores, Restore(r) PROVE TypeOK'
<1> USE DEF TypeOK, RestoreGo, RestoreEnd, RestoreSteps, restoreAlone, buildVars, outVars
<1>1. CASE CheckMarker(r) BY <1>1 DEF CheckMarker
<1>2. CASE TakeRestoreLock(r) BY <1>2 DEF TakeRestoreLock
<1>3. CASE Validate(r) BY <1>3 DEF Validate
<1>4. CASE Begin(r)
  <2>1. \/ RestoreEnd(r, "begin", "failed") /\ UNCHANGED marker
        \/ RestoreGo(r, "begin", "stop") /\ marker' = FALSE /\ UNCHANGED restoreLock
    BY <1>4 DEF Begin
  <2>2. UNCHANGED <<stage, redis, mode, todo, restoreAlone>> BY <1>4 DEF Begin
  <2>3. rpc' \in [Restores -> RestoreSteps] BY <2>1
  <2>4. marker' \in BOOLEAN /\ restoreLock' \subseteq Restores \cup {"daemon"} BY <2>1
  <2> QED BY <2>2, <2>3, <2>4
<1>5. CASE StopRedis(r)
  <2>1. rpc' \in [Restores -> RestoreSteps] BY <1>5 DEF StopRedis
  <2>2. todo' \in [Restores -> SUBSET Pages] BY <1>5 DEF StopRedis, Visited
  <2> QED BY <1>5, <2>1, <2>2 DEF StopRedis
<1>6. CASE Copy(r)
  <2>1. PICK p \in todo[r] :
          /\ stage' = [stage EXCEPT ![p] = IF p \in Bundle[r] THEN r ELSE None]
          /\ todo' = [todo EXCEPT ![r] = @ \ {p}]
    BY <1>6 DEF Copy
  <2>2. stage' \in [Pages -> Restores \cup {None}] /\ todo' \in [Restores -> SUBSET Pages]
    BY <2>1
  <2>3. calm' \in BOOLEAN BY <1>6 DEF Copy
  <2> QED BY <1>6, <2>2, <2>3 DEF Copy
<1>7. CASE CopyEnd(r) BY <1>7 DEF CopyEnd
<1>8. CASE StartRedis(r)
  <2>1. rpc' \in [Restores -> RestoreSteps] BY <1>8 DEF StartRedis
  <2>2. restoreLock' \subseteq Restores \cup {"daemon"} BY <1>8 DEF StartRedis, DaemonLock
  <2>3. redis' \in BOOLEAN BY <1>8 DEF StartRedis
  <2> QED BY <1>8, <2>1, <2>2, <2>3 DEF StartRedis
<1>9. CASE VerifyRestore(r) BY <1>9 DEF VerifyRestore
<1>10. CASE KillRestore(r) BY <1>10 DEF KillRestore
<1>11. CASE OrphanRsyncEnds(r) BY <1>11 DEF OrphanRsyncEnds
<1> QED
  BY <1>1, <1>2, <1>3, <1>4, <1>5, <1>6, <1>7, <1>8, <1>9, <1>10, <1>11 DEF Restore

LEMMA AssembleTyped ==
  ASSUME TypeOK, NEW a \in Assemblies, AssembleInv(a), Assemble(a) PROVE TypeOK'
<1> USE DEF TypeOK, Go, End, Die, Forget, AssemblySteps, Ended, restoreVars, buildVars, outVars
<1>0. FlavourOf[a] \in Flavours BY DEF Flavours
<1>1. CASE Admit(a) BY <1>1 DEF Admit
<1>2. CASE CountPages(a) BY <1>2 DEF CountPages
<1>3. CASE TakeAssembleLock(a) BY <1>3 DEF TakeAssembleLock, AssembleLockHeld
<1>4. CASE Status(a) BY <1>4 DEF Status
<1>5. CASE Snapshot(a)
  <2>1. apc' \in [Assemblies -> AssemblySteps] /\ assembleLock' \in Assemblies \cup {None}
        /\ partial' \in [Assemblies -> Zim \cup {None}]
        /\ \A b \in Assemblies :
             apc'[b] \notin Ended \cup {"idle", "count", "admitted"} => assembleLock' = b
    BY <1>5 DEF Snapshot
  <2>2. before' = before \/ before' = [before EXCEPT ![a] = tmp] BY <1>5 DEF Snapshot
  <2>3. (unread' = unread \/ unread' = [unread EXCEPT ![a] = Pages]) /\ calm' \in BOOLEAN
    BY <1>5 DEF Snapshot
  <2>4. before' \in [Assemblies -> SUBSET Zim] /\ unread' \in [Assemblies -> SUBSET Pages]
    BY <2>2, <2>3
  <2> QED BY <1>5, <2>1, <2>3, <2>4 DEF Snapshot
<1>6. CASE Pack(a) BY <1>6 DEF Pack
<1>7. CASE SotokiEnds(a)
  <2>1. PICK sound \in BOOLEAN : tmp' = tmp \cup {[by |-> a, pages |-> read[a], sound |-> sound, calm |-> calm]}
    BY <1>7 DEF SotokiEnds
  <2>2. tmp' \subseteq Zim BY <2>1 DEF Zim
  <2> QED BY <1>7, <2>2 DEF SotokiEnds
<1>8. CASE SotokiFails(a) BY <1>8 DEF SotokiFails
<1>9. CASE Locate(a) BY <1>9 DEF Locate, NewZims
<1>10. CASE Audit(a) BY <1>10 DEF Audit
<1>11. CASE Compare(a) BY <1>11 DEF Compare
<1>12. CASE Promote(a) BY <1>0, <1>12 DEF Promote
<1>13. CASE Describe(a)
  <2>1. [run |-> a, zim |-> final[FlavourOf[a]]] \in Manifest
    BY <1>13 DEF Describe, AssembleInv, Manifest
  <2> QED BY <1>13, <2>1 DEF Describe
<1>14. CASE Publish(a) BY <1>0, <1>14 DEF Publish
<1>15. CASE Kill(a) BY <1>15 DEF Kill
<1> QED
  BY <1>1, <1>2, <1>3, <1>4, <1>5, <1>6, <1>7, <1>8, <1>9, <1>10, <1>11, <1>12, <1>13,
     <1>14, <1>15 DEF Assemble

-----------------------------------------------------------------------------
(* The stage, its marker and the restore lock *)

LEMMA InitStage == Init => StageInv
BY DEF Init, StageInv, LockInv, MarkerHonest, RestoreInv, AsBundled, Holding, Writing, Present

\* Only one restore is under way.
LEMMA RestoreAlone ==
  ASSUME StageInv, NEW r \in Restores, NEW s \in Restores,
         rpc[r] \in Holding, rpc[s] \in Holding
  PROVE  r = s
BY DEF StageInv, RestoreInv

LEMMA RestoreKeepsStage ==
  ASSUME TypeOK, StageInv, NEW r \in Restores, Restore(r) PROVE StageInv'
<1> USE DEF TypeOK, StageInv, LockInv, RestoreInv, AsBundled, MarkerHonest, Present,
            Holding, Writing, RestoreGo, RestoreEnd
<1>0. \A s \in Restores \ {r} : rpc'[s] = rpc[s]
  BY DEF Restore, CheckMarker, TakeRestoreLock, Validate, Begin, StopRedis, Copy, CopyEnd,
         StartRedis, VerifyRestore, KillRestore, OrphanRsyncEnds
<1>1. CASE CheckMarker(r) BY <1>1 DEF CheckMarker
<1>2. CASE TakeRestoreLock(r)
  <2>1. CASE restoreLock = {} BY <1>2, <2>1 DEF TakeRestoreLock
  <2>2. CASE restoreLock # {} BY <1>0, <1>2, <2>2 DEF TakeRestoreLock
  <2> QED BY <2>1, <2>2
<1>3. CASE Validate(r) BY <1>3, RestoreAlone DEF Validate
<1>4. CASE Begin(r) BY <1>4, RestoreAlone DEF Begin
<1>5. CASE StopRedis(r)
  <2>1. CASE rpc'[r] = "copy"
    <3>1. restoreLock' = restoreLock /\ todo'[r] = Visited(r) /\ UNCHANGED <<stage, marker, mode>>
      BY <1>5, <2>1 DEF StopRedis
    <3>2. \A p \in Pages \ todo'[r] : AsBundled(r, p)'
      BY <1>5, <3>1 DEF StopRedis, Visited, Modes
    <3> QED BY <1>0, <1>5, <2>1, <3>1, <3>2, RestoreAlone DEF StopRedis
  <2>2. CASE rpc'[r] # "copy" BY <1>0, <1>5, <2>2, RestoreAlone DEF StopRedis
  <2> QED BY <2>1, <2>2
<1>6. CASE Copy(r) BY <1>6, RestoreAlone DEF Copy
<1>7. CASE CopyEnd(r) BY <1>7, RestoreAlone DEF CopyEnd
<1>8. CASE StartRedis(r) BY <1>8, RestoreAlone DEF StartRedis, DaemonLock
<1>9. CASE VerifyRestore(r) BY <1>9, RestoreAlone DEF VerifyRestore
<1>10. CASE KillRestore(r) BY <1>10, RestoreAlone DEF KillRestore, Ended
<1>11. CASE OrphanRsyncEnds(r) BY <1>11, RestoreAlone DEF OrphanRsyncEnds
<1> QED
  BY <1>1, <1>2, <1>3, <1>4, <1>5, <1>6, <1>7, <1>8, <1>9, <1>10, <1>11 DEF Restore

\* bin/redis takes a free lock and gives it back.
LEMMA RedisToolKeepsStage == ASSUME StageInv, RedisTool PROVE StageInv'
BY DEF StageInv, LockInv, RestoreInv, AsBundled, MarkerHonest, Present, Holding, Writing,
       RedisTool, DaemonLock

\* bin/assemble only looks.
LEMMA AssembleKeepsStage ==
  ASSUME StageInv, NEW a \in Assemblies, Assemble(a) PROVE StageInv'
<1>1. UNCHANGED restoreVars
  BY DEF Assemble, Admit, CountPages, TakeAssembleLock, Status, Snapshot, Pack, SotokiEnds,
         SotokiFails, Locate, Audit, Compare, Promote, Describe, Publish, Kill
<1> QED
  BY <1>1 DEF restoreVars, StageInv, LockInv, RestoreInv, AsBundled, MarkerHonest, Present,
     Holding, Writing

-----------------------------------------------------------------------------
(* What is promoted and what its manifest says *)

LEMMA InitRelease == Init => ReleaseInv
BY DEF Init, ReleaseInv, WholeIfCalm, RightFlavour, ManifestOwn, AssembleInv, Gated

\* A restore touches nothing of an assembly's but the pages, and that ends the calm.
LEMMA RestoreKeepsRelease ==
  ASSUME TypeOK, ReleaseInv, NEW r \in Restores, Restore(r) PROVE ReleaseInv'
<1> USE DEF restoreAlone, buildVars, outVars
<1>1. UNCHANGED <<apc, read, unread, tmp, before, outVars>>
  BY DEF Restore, CheckMarker, TakeRestoreLock, Validate, Begin, StopRedis, Copy, CopyEnd,
         StartRedis, VerifyRestore, KillRestore, OrphanRsyncEnds
<1>2. calm' => calm /\ Present' = Present
  BY DEF Restore, CheckMarker, TakeRestoreLock, Validate, Begin, StopRedis, Copy, CopyEnd,
         StartRedis, VerifyRestore, KillRestore, OrphanRsyncEnds, Present
<1>3. ASSUME NEW a \in Assemblies PROVE AssembleInv(a)'
  <2>1. AssembleInv(a) BY DEF ReleaseInv
  <2> QED BY <1>1, <1>2, <2>1 DEF AssembleInv, VerifySnapshot, Whole
<1> QED
  BY <1>1, <1>3 DEF ReleaseInv, WholeIfCalm, RightFlavour, ManifestOwn, VerifySnapshot

LEMMA RedisToolKeepsRelease == ASSUME ReleaseInv, RedisTool PROVE ReleaseInv'
<1>1. UNCHANGED <<Present, apc, buildVars, outVars>> BY DEF RedisTool, restoreAlone, Present
<1>2. ASSUME NEW a \in Assemblies PROVE AssembleInv(a)'
  BY <1>1 DEF ReleaseInv, AssembleInv, Whole, VerifySnapshot, buildVars, outVars
<1> QED
  BY <1>1, <1>2 DEF ReleaseInv, WholeIfCalm, RightFlavour, ManifestOwn, VerifySnapshot,
     buildVars, outVars

Running == AssemblySteps \ (Ended \cup {"idle", "count", "admitted"})

\* Only one assembly is under way, a sotoki it left behind included.
LEMMA AssembleAlone ==
  ASSUME TypeOK, NEW a \in Assemblies, NEW b \in Assemblies,
         apc[a] \in Running, apc[b] \in Running
  PROVE  a = b
BY DEF TypeOK, Running

\* An assembly leaves the others as they are: it runs alone, or has no more
\* than looked.
LEMMA OthersKept ==
  ASSUME TypeOK, NEW a \in Assemblies, NEW b \in Assemblies, a # b,
         AssembleInv(b), Assemble(a)
  PROVE  AssembleInv(b)'
<1>1. apc'[b] = apc[b] /\ stage' = stage
  BY DEF TypeOK, Assemble, Admit, CountPages, TakeAssembleLock, Status, Snapshot, Pack,
         SotokiEnds, SotokiFails, Locate, Audit, Compare, Promote, Describe, Publish, Kill,
         Go, End, Die, restoreVars
<1>2. CASE Admit(a) \/ CountPages(a) \/ TakeAssembleLock(a)
  <2>1. UNCHANGED <<buildVars, outVars>>
    BY <1>2 DEF Admit, CountPages, TakeAssembleLock
  <2> QED BY <1>1, <2>1 DEF AssembleInv, Present, VerifySnapshot, buildVars, outVars
<1>3. CASE ~(Admit(a) \/ CountPages(a) \/ TakeAssembleLock(a))
  <2>1. apc[a] \in Running
    BY <1>3 DEF TypeOK, Assemble, Status, Snapshot, Pack, SotokiEnds, SotokiFails, Locate,
       Audit, Compare, Promote, Describe, Publish, Kill, Go, End, Die, Running,
       AssemblySteps, Ended
  <2>2. apc'[b] \notin Running BY <1>1, <2>1, AssembleAlone
  <2>3. read'[b] = read[b]
    BY <1>3 DEF TypeOK, Assemble, Status, Snapshot, Pack, SotokiEnds, SotokiFails, Locate,
       Audit, Compare, Promote, Describe, Publish, Kill, Forget, buildVars
  <2>4. read'[b] = {} BY <1>1, <2>2, <2>3 DEF AssembleInv, Running, AssemblySteps, Ended
  <2>5. apc'[b] \in AssemblySteps BY <1>1 DEF TypeOK
  <2> QED BY <2>2, <2>4, <2>5 DEF AssembleInv, Running, AssemblySteps, Ended, Gated
<1> QED BY <1>2, <1>3

\* The outputs, unless this is the step that promotes or publishes.
LEMMA OutputsKept ==
  ASSUME ReleaseInv, UNCHANGED <<final, manifest>>
  PROVE  (WholeIfCalm /\ RightFlavour /\ ManifestOwn)'
BY DEF ReleaseInv, WholeIfCalm, RightFlavour, ManifestOwn, VerifySnapshot

LEMMA OwnKept ==
  ASSUME TypeOK, NEW a \in Assemblies, AssembleInv(a), Assemble(a) PROVE AssembleInv(a)'
<1> USE DEF TypeOK, AssembleInv, Go, End, Die, Forget, Gated, restoreVars, buildVars, outVars
<1>0. FlavourOf[a] \in Flavours BY DEF Flavours
<1>1. CASE Admit(a) BY <1>1 DEF Admit
<1>2. CASE CountPages(a) BY <1>2 DEF CountPages
<1>3. CASE TakeAssembleLock(a) BY <1>3 DEF TakeAssembleLock
<1>4. CASE Status(a) BY <1>4 DEF Status
<1>5. CASE Snapshot(a)
  <2>1. CASE ~Die(a, "snapshot")
    <3>1. SnapshotPasses /\ apc'[a] = "build" /\ tmp' = tmp /\ before'[a] = tmp /\ read' = read
          /\ unread'[a] = Pages /\ Present' = Present /\ apc[a] = "snapshot"
      BY <1>5, <2>1 DEF Snapshot, Present
    <3>2. read[a] \cup (Pages \cap Present) = Present BY <3>1 DEF Present
    <3>3. VerifySnapshot(read[a] \cup (Pages \cap Present)) BY <3>1, <3>2 DEF SnapshotPasses
    <3> QED BY <3>1, <3>3 DEF VerifySnapshot
  <2>2. CASE Die(a, "snapshot") BY <1>5, <2>2 DEF Snapshot
  <2> QED BY <2>1, <2>2
<1>6. CASE Pack(a)
  <2>1. PICK p \in unread[a] :
          /\ unread' = [unread EXCEPT ![a] = @ \ {p}]
          /\ read' = [read EXCEPT ![a] = @ \cup ({p} \cap Present)]
    BY <1>6 DEF Pack
  <2>2. apc[a] \in {"build", "orphan"} /\ UNCHANGED <<stage, apc, tmp, before, calm>>
    BY <1>6 DEF Pack
  <2>3. read'[a] \cup (unread'[a] \cap Present') = read[a] \cup (unread[a] \cap Present)
    BY <2>1, <2>2 DEF Present
  <2>4. calm' => VerifySnapshot(read'[a] \cup (unread'[a] \cap Present')) \/ apc'[a] # "build"
    BY <2>2, <2>3
  <2>5. UNCHANGED <<partial, final, described>> BY <1>6 DEF Pack
  <2> QED BY <2>2, <2>4, <2>5 DEF Whole, VerifySnapshot
<1>7. CASE SotokiEnds(a)
  <2>1. CASE apc[a] = "build"
    <3>1. PICK sound \in BOOLEAN : tmp' = tmp \cup {[by |-> a, pages |-> read[a], sound |-> sound, calm |-> calm]}
      BY <1>7 DEF SotokiEnds
    <3>2. apc'[a] = "locate" /\ before' = before /\ unread[a] = {} BY <1>7, <2>1 DEF SotokiEnds
    <3>3. read[a] \cup (unread[a] \cap Present) = read[a] BY <3>2
    <3>4. calm => VerifySnapshot(read[a]) BY <2>1, <3>3
    <3>5. read'[a] = {} BY <1>7 DEF SotokiEnds
    <3> QED BY <2>1, <3>1, <3>2, <3>4, <3>5 DEF VerifySnapshot, Whole
  <2>2. CASE apc[a] # "build" BY <1>7, <2>2 DEF SotokiEnds
  <2> QED BY <2>1, <2>2
<1>8. CASE SotokiFails(a) BY <1>8 DEF SotokiFails
<1>9. CASE Locate(a)
  <2>1. CASE Cardinality(NewZims(a)) = 1
    <3>1. PICK z \in tmp \ before[a] : apc'[a] = "audit" /\ partial'[a] = z
      BY <1>9, <2>1 DEF Locate, NewZims
    <3>2. z \in Zim /\ z.by = a /\ Whole(z) BY <1>9, <3>1 DEF Locate
    <3>3. read'[a] = {} BY <1>9 DEF Locate
    <3> QED BY <3>1, <3>2, <3>3 DEF VerifySnapshot, Whole
  <2>2. CASE Cardinality(NewZims(a)) # 1 BY <1>9, <2>2 DEF Locate
  <2> QED BY <2>1, <2>2
<1>10. CASE Audit(a) BY <1>10 DEF Audit, AuditPasses, VerifySnapshot, Whole
<1>11. CASE Compare(a) BY <1>11 DEF Compare, VerifySnapshot, Whole
<1>12. CASE Promote(a) BY <1>0, <1>12 DEF Promote
<1>13. CASE Describe(a)
  <2>1. [run |-> a, zim |-> final[FlavourOf[a]]] \in Manifest
    BY <1>13 DEF Describe, Manifest
  <2> QED BY <1>13, <2>1 DEF Describe
<1>14. CASE Publish(a) BY <1>14 DEF Publish
<1>15. CASE Kill(a) BY <1>15 DEF Kill, Ended
<1> QED
  BY <1>1, <1>2, <1>3, <1>4, <1>5, <1>6, <1>7, <1>8, <1>9, <1>10, <1>11, <1>12, <1>13,
     <1>14, <1>15 DEF Assemble

LEMMA AssembleKeepsRelease ==
  ASSUME TypeOK, ReleaseInv, NEW a \in Assemblies, Assemble(a) PROVE ReleaseInv'
<1>0. FlavourOf[a] \in Flavours BY DEF Flavours
<1>1. ASSUME NEW b \in Assemblies PROVE AssembleInv(b)'
  BY OthersKept, OwnKept DEF ReleaseInv
<1>2. AssembleInv(a) BY DEF ReleaseInv
<1>3. CASE Promote(a)
  <2>1. partial[a] \in Zim /\ partial[a].by = a /\ Whole(partial[a])
        /\ partial[a].sound
    BY <1>2, <1>3 DEF Promote, Go, AssembleInv, Gated
  <2>2. final' = [final EXCEPT ![FlavourOf[a]] = partial[a]] /\ manifest' = manifest
    BY <1>3 DEF Promote
  <2>3. \A f \in Flavours :
          final'[f] = IF f = FlavourOf[a] THEN partial[a] ELSE final[f]
    BY <2>2 DEF TypeOK
  <2>4. WholeIfCalm' BY <2>1, <2>3 DEF ReleaseInv, WholeIfCalm, VerifySnapshot, Whole
  <2>5. RightFlavour' BY <2>1, <2>3 DEF ReleaseInv, RightFlavour
  <2>6. ManifestOwn' BY <2>2 DEF ReleaseInv, ManifestOwn
  <2> QED BY <1>1, <2>4, <2>5, <2>6 DEF ReleaseInv
<1>4. CASE Publish(a)
  <2>1. described[a] \in Manifest /\ described[a].zim.by = described[a].run
    BY <1>2, <1>4 DEF Publish, End, Go, AssembleInv
  <2>2. manifest' = [manifest EXCEPT ![FlavourOf[a]] = described[a]] /\ final' = final
    BY <1>4 DEF Publish
  <2>3. ManifestOwn' BY <2>1, <2>2 DEF ReleaseInv, ManifestOwn, TypeOK
  <2>4. WholeIfCalm' /\ RightFlavour'
    BY <2>2 DEF ReleaseInv, WholeIfCalm, RightFlavour, VerifySnapshot
  <2> QED BY <1>1, <2>3, <2>4 DEF ReleaseInv
<1>5. CASE ~Promote(a) /\ ~Publish(a)
  <2>1. UNCHANGED <<final, manifest>>
    BY <1>5 DEF Assemble, Admit, CountPages, TakeAssembleLock, Status, Snapshot, Pack,
       SotokiEnds, SotokiFails, Locate, Audit, Compare, Describe, Kill, outVars
  <2> QED BY <1>1, <2>1, OutputsKept DEF ReleaseInv
<1> QED BY <1>3, <1>4, <1>5

-----------------------------------------------------------------------------
(* The theorems *)

Inv == TypeOK /\ StageInv /\ ReleaseInv

LEMMA InvInit == Init => Inv
BY InitTyped, InitStage, InitRelease DEF Inv

LEMMA InvStep == Inv /\ [Next]_vars => Inv'
<1> SUFFICES ASSUME Inv, [Next]_vars PROVE Inv' OBVIOUS
<1> USE DEF Inv
<1>1. ASSUME NEW r \in Restores, Restore(r) PROVE Inv'
  BY <1>1, RestoreTyped, RestoreKeepsStage, RestoreKeepsRelease
<1>2. ASSUME NEW a \in Assemblies, Assemble(a) PROVE Inv'
  <2>1. AssembleInv(a) BY DEF ReleaseInv
  <2> QED BY <1>2, <2>1, AssembleTyped, AssembleKeepsStage, AssembleKeepsRelease
<1>3. CASE RedisTool
  <2>1. TypeOK'
    BY <1>3 DEF RedisTool, DaemonLock, TypeOK, restoreAlone, buildVars, outVars
  <2> QED BY <1>3, <2>1, RedisToolKeepsStage, RedisToolKeepsRelease
<1>4. CASE UNCHANGED vars
  <2>1. UNCHANGED <<restoreVars, assembleLock, apc, buildVars, outVars>> BY <1>4 DEF vars
  <2>2. TypeOK' BY <2>1 DEF TypeOK, restoreVars, buildVars, outVars
  <2>3. StageInv'
    BY <2>1 DEF StageInv, LockInv, RestoreInv, AsBundled, MarkerHonest, Present, Holding,
       Writing, restoreVars
  <2>4. ReleaseInv'
    BY <2>1 DEF ReleaseInv, WholeIfCalm, RightFlavour, ManifestOwn, AssembleInv, Whole, Present,
       restoreVars, buildVars, outVars
  <2> QED BY <2>2, <2>3, <2>4
<1> QED BY <1>1, <1>2, <1>3, <1>4 DEF Next

LEMMA ReleaseInvariant == Spec => []Inv
<1> QED BY InvInit, InvStep, PTL DEF Spec

\* Every variable keeps its type, and one assembly at a time is past the lock of
\* bin/assemble, whatever runs and dies.
THEOREM ReleaseTyped == Spec => []TypeOK
<1>1. Inv => TypeOK BY DEF Inv
<1> QED BY ReleaseInvariant, <1>1, PTL

\* restore-baseline's marker is only ever over an empty stage or one whole bundle.
THEOREM MarkerVouches == Spec => []MarkerHonest
<1>1. Inv => MarkerHonest BY DEF Inv, StageInv
<1> QED BY ReleaseInvariant, <1>1, PTL

\* No daemon and no dead process keeps .restore.lock from the next restore.
THEOREM RestoreLockComesFree == Spec => []RestoreLockFree
<1>1. Inv => RestoreLockFree
  BY DEF Inv, StageInv, LockInv, RestoreLockFree, Holding, Ended
<1> QED BY ReleaseInvariant, <1>1, PTL

\* Every ZIM bin/assemble promotes is sound, and within the baseline's tolerance if
\* no rsync moved a page between the preflight and the end of sotoki; whatever
\* restores and assemblies are killed, refused or left running in the background.
THEOREM PromotionWholeIfCalm == Spec => []WholeIfCalm
<1>1. Inv => WholeIfCalm BY DEF Inv, ReleaseInv
<1> QED BY ReleaseInvariant, <1>1, PTL

\* Every promoted ZIM was built for the output name it has.
THEOREM PromotionOfItsFlavour == Spec => []RightFlavour
<1>1. Inv => RightFlavour BY DEF Inv, ReleaseInv
<1> QED BY ReleaseInvariant, <1>1, PTL

\* Every release manifest records the checksum of its own run's ZIM.
THEOREM ManifestOfItsRun == Spec => []ManifestOwn
<1>1. Inv => ManifestOwn BY DEF Inv, ReleaseInv
<1> QED BY ReleaseInvariant, <1>1, PTL

=============================================================================
