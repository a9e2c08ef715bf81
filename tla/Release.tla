------------------------------ MODULE Release -------------------------------
(* Releasing a ZIM: bin/restore-baseline puts a bundle on the stage,        *)
(* bin/assemble has sotoki build a ZIM of it, puts it through the gates     *)
(* (scripts/audit_zim.py, scripts/compare_baseline.py) and promotes it.     *)
(* Any number of either may be started and killed; the two take different   *)
(* locks, and only the marker .sotoki-rebuild-ok and the preflight tie them.*)
(*                                                                          *)
(* A question page is present or absent, and which bundle it came from is   *)
(* kept; its content is not.  Bundles may have different pages: a restore   *)
(* with --replace removes those that its bundle lacks.  What zimcheck and   *)
(* the header checks find in a ZIM is one bit, sound, that sotoki's build   *)
(* chooses.  SIGKILL is the death modelled: the EXIT trap of bin/assemble   *)
(* does not run.                                                            *)
EXTENDS Integers, FiniteSets

CONSTANTS
  Pages,       \* the question pages of all bundles
  Restores,    \* runs of restore-baseline, each with a bundle of its own
  Bundle,      \* the pages that are in it
  NoRedis,     \* the restores with --no-redis
  Questions,   \* the number of question pages the baseline states
  Tolerance,   \* what verify_snapshot.py allows a count to be off, in percent
  Assemblies,  \* runs of bin/assemble
  FlavourOf,   \* the flavour, and so the output name, of each assembly
  Others,      \* entries of a ZIM that are not question pages
  Zimdump,     \* is zimdump in PATH?
  None

Flavours == {FlavourOf[a] : a \in Assemblies}
Modes == {"fresh", "replace"}

ASSUME ReleaseAssumption ==
  /\ IsFiniteSet(Pages)
  /\ Bundle \in [Restores -> SUBSET Pages] /\ NoRedis \subseteq Restores
  /\ Questions \in Nat \ {0} /\ Tolerance \in Nat
  /\ Restores \cap Assemblies = {}
  /\ Others \in Nat
  /\ Zimdump \in BOOLEAN
  /\ None \notin Restores \cup Assemblies

VARIABLES
  stage,     \* the bundle each page of WORK_ROOT/stage came from, None if absent
  marker,    \* WORK_ROOT/.sotoki-rebuild-ok
  redis,     \* is the owned instance running?
  restoreLock, \* who holds .restore.lock: runs of restore, or the daemon
  rpc, mode, todo, \* per restore: its place, --replace or not, what rsync has left
  assembleLock,  \* the assembly whose processes hold .assemble.lock
  apc,       \* per assembly: its place
  read, unread, \* per assembly: the pages sotoki packed, and those to come
  tmp, before, \* the ZIMs under TMP_DIR, and ZIMS_BEFORE of each assembly
  calm,      \* history: no rsync has touched a page since the last preflight
  partial,   \* per assembly: OUT_NAME.partial.$$
  final,     \* per flavour: the promoted ZIM
  described, \* per assembly: the manifest it is writing
  manifest   \* per flavour: OUT_NAME.manifest.json

restoreVars == <<stage, marker, redis, restoreLock, rpc, mode, todo>>
buildVars == <<read, unread, tmp, before, calm>>
outVars == <<partial, final, described, manifest>>
vars == <<restoreVars, assembleLock, apc, buildVars, outVars>>

Zim == [by : Assemblies, pages : SUBSET Pages, sound : BOOLEAN, calm : BOOLEAN]
Manifest == [run : Assemblies, zim : Zim]

RestoreSteps == {"idle", "checked", "validate", "begin", "stop", "copy",
                 "start", "verify", "orphan", "done", "failed", "killed"}
AssemblySteps == {"idle", "count", "admitted", "status", "snapshot", "build", "locate",
                  "audit", "compare", "promote", "describe", "publish",
                  "orphan", "done", "failed", "killed"}
Ended == {"done", "failed", "killed"}

TypeOK ==
  /\ stage \in [Pages -> Restores \cup {None}]
  /\ marker \in BOOLEAN
  /\ redis \in BOOLEAN
  /\ restoreLock \subseteq Restores \cup {"daemon"}
  /\ rpc \in [Restores -> RestoreSteps]
  /\ mode \in [Restores -> Modes]
  /\ todo \in [Restores -> SUBSET Pages]
  /\ assembleLock \in Assemblies \cup {None}
  /\ apc \in [Assemblies -> AssemblySteps]
  /\ read \in [Assemblies -> SUBSET Pages]
  /\ unread \in [Assemblies -> SUBSET Pages]
  /\ tmp \subseteq Zim
  /\ before \in [Assemblies -> SUBSET Zim]
  /\ calm \in BOOLEAN
  /\ partial \in [Assemblies -> Zim \cup {None}]
  /\ final \in [Flavours -> Zim \cup {None}]
  /\ described \in [Assemblies -> Manifest \cup {None}]
  /\ manifest \in [Flavours -> Manifest \cup {None}]
  /\ \A a \in Assemblies :
       apc[a] \notin Ended \cup {"idle", "count", "admitted"} => assembleLock = a

Present == {p \in Pages : stage[p] # None}

\* bootstrap made the skeleton and, on an empty WORK_ROOT, the marker.
Init ==
  /\ stage = [p \in Pages |-> None]
  /\ marker \in BOOLEAN
  /\ redis = FALSE
  /\ restoreLock = {}
  /\ rpc = [r \in Restores |-> "idle"]
  /\ mode \in [Restores -> Modes]
  /\ todo = [r \in Restores |-> {}]
  /\ assembleLock = None
  /\ apc = [a \in Assemblies |-> "idle"]
  /\ read = [a \in Assemblies |-> {}]
  /\ unread = [a \in Assemblies |-> {}]
  /\ tmp = {}
  /\ before = [a \in Assemblies |-> {}]
  /\ calm = TRUE
  /\ partial = [a \in Assemblies |-> None]
  /\ final = [f \in Flavours |-> None]
  /\ described = [a \in Assemblies |-> None]
  /\ manifest = [f \in Flavours |-> None]

-----------------------------------------------------------------------------
(* scripts/verify_snapshot.py, as far as the stage goes. *)

\* A count near the baseline's.
WithinTolerance(n) ==
  LET off == IF n > Questions THEN n - Questions ELSE Questions - n
  IN  off * 100 <= Tolerance * Questions

VerifySnapshot(pages) == pages # {} /\ WithinTolerance(Cardinality(pages))

-----------------------------------------------------------------------------
(* bin/restore-baseline *)

RestoreGo(r, from, to) == rpc[r] = from /\ rpc' = [rpc EXCEPT ![r] = to]

RestoreEnd(r, from, to) ==
  RestoreGo(r, from, to) /\ restoreLock' = restoreLock \ {r}

restoreAlone == <<assembleLock, apc, buildVars, outVars>>

\* --replace asks for the marker, before the lock is taken.
CheckMarker(r) ==
  /\ IF mode[r] = "replace" /\ ~marker
       THEN RestoreGo(r, "idle", "failed")
       ELSE RestoreGo(r, "idle", "checked")
  /\ UNCHANGED <<stage, marker, redis, restoreLock, mode, todo, restoreAlone>>

\* flock -n: a lock held by anyone ends the run.
TakeRestoreLock(r) ==
  /\ IF restoreLock = {}
       THEN RestoreGo(r, "checked", "validate") /\ restoreLock' = {r}
       ELSE RestoreGo(r, "checked", "failed") /\ UNCHANGED restoreLock
  /\ UNCHANGED <<stage, marker, redis, mode, todo, restoreAlone>>

\* Entries, checksums, layout and listing hash of the bundle, all read-only; a
\* bundle without any page fails.
Validate(r) ==
  /\ \/ Bundle[r] # {} /\ RestoreGo(r, "validate", "begin") /\ UNCHANGED restoreLock
     \/ RestoreEnd(r, "validate", "failed")
  /\ UNCHANGED <<stage, marker, redis, mode, todo, restoreAlone>>

\* A fresh restore wants an empty stage.  The marker of the run before goes when a
\* restore is about to write.
Begin(r) ==
  /\ IF mode[r] = "fresh" /\ Present # {}
       THEN RestoreEnd(r, "begin", "failed") /\ UNCHANGED marker
       ELSE RestoreGo(r, "begin", "stop") /\ marker' = FALSE /\ UNCHANGED restoreLock
  /\ UNCHANGED <<stage, redis, mode, todo, restoreAlone>>

\* What rsync has to go through: with --delete what the bundle lacks as well.
FaultyVisited(r) == Bundle[r]
Visited(r) == IF mode[r] = "replace" THEN Pages ELSE Bundle[r]

\* An instance that is not this kit's own is not stopped and ends the run.
StopRedis(r) ==
  /\ \/ /\ RestoreGo(r, "stop", "copy") /\ UNCHANGED restoreLock
        /\ redis' = (redis /\ r \in NoRedis)
        /\ todo' = [todo EXCEPT ![r] = Visited(r)]
     \/ r \notin NoRedis /\ RestoreEnd(r, "stop", "failed") /\ UNCHANGED <<redis, todo>>
  /\ UNCHANGED <<stage, marker, mode, restoreAlone>>

\* rsync moves one page into place or deletes it; it goes on when the script is
\* killed.
Copy(r) == \E p \in todo[r] :
  /\ rpc[r] \in {"copy", "orphan"} /\ UNCHANGED rpc
  /\ stage' = [stage EXCEPT ![p] = IF p \in Bundle[r] THEN r ELSE None]
  /\ todo' = [todo EXCEPT ![r] = @ \ {p}]
  /\ calm' = FALSE
  /\ UNCHANGED <<marker, redis, restoreLock, mode>>
  /\ UNCHANGED <<assembleLock, apc, read, unread, tmp, before, outVars>>

\* A copy that is through, or one that failed with what it had done.
CopyEnd(r) ==
  /\ \/ todo[r] = {} /\ RestoreGo(r, "copy", "start") /\ UNCHANGED restoreLock
     \/ RestoreEnd(r, "copy", "failed")
  /\ UNCHANGED <<stage, marker, redis, mode, todo, restoreAlone>>

\* The daemon closes its copy of the lock's descriptor before it starts.
FaultyDaemonLock(holders) == holders \cup {"daemon"}
DaemonLock(holders) == holders

StartRedis(r) ==
  /\ \/ /\ RestoreGo(r, "start", "verify")
        /\ IF r \in NoRedis THEN UNCHANGED <<redis, restoreLock>>
           ELSE redis' = TRUE /\ restoreLock' = DaemonLock(restoreLock)
     \/ r \notin NoRedis /\ RestoreEnd(r, "start", "failed") /\ UNCHANGED redis
  /\ UNCHANGED <<stage, marker, mode, todo, restoreAlone>>

\* bin/redis start and stop of the operator take the lock while they run.
RedisTool ==
  /\ restoreLock = {}
  /\ redis' = ~redis
  /\ restoreLock' = IF redis THEN {} ELSE DaemonLock({})
  /\ UNCHANGED <<stage, marker, rpc, mode, todo, restoreAlone>>

\* The marker is written after verify_snapshot.py alone; image or key counts
\* outside the tolerance, which are not modelled, may fail it.
VerifyRestore(r) ==
  /\ \/ VerifySnapshot(Present) /\ marker' = TRUE /\ RestoreEnd(r, "verify", "done")
     \/ UNCHANGED marker /\ RestoreEnd(r, "verify", "failed")
  /\ UNCHANGED <<stage, redis, mode, todo, restoreAlone>>

\* The lock's descriptor is inherited: a killed script's rsync still holds it.
KillRestore(r) ==
  /\ IF rpc[r] = "copy"
       THEN RestoreGo(r, "copy", "orphan") /\ UNCHANGED restoreLock
       ELSE /\ rpc[r] \notin Ended \cup {"idle", "checked", "orphan"}
            /\ RestoreEnd(r, rpc[r], "killed")
  /\ UNCHANGED <<stage, marker, redis, mode, todo, restoreAlone>>

\* The rsync left behind ends, or is killed too.
OrphanRsyncEnds(r) ==
  /\ RestoreEnd(r, "orphan", "killed")
  /\ UNCHANGED <<stage, marker, redis, mode, todo, restoreAlone>>

Restore(r) ==
  \/ CheckMarker(r) \/ TakeRestoreLock(r) \/ Validate(r) \/ Begin(r) \/ StopRedis(r)
  \/ Copy(r) \/ CopyEnd(r) \/ StartRedis(r) \/ VerifyRestore(r)
  \/ KillRestore(r) \/ OrphanRsyncEnds(r)

-----------------------------------------------------------------------------
(* bin/assemble *)

Go(a, from, to) == apc[a] = from /\ apc' = [apc EXCEPT ![a] = to]

\* The run ends and the kernel drops its lock.
End(a, from, to) == Go(a, from, to) /\ assembleLock' = None

\* What a run keeps in memory is gone when it ends.
Forget(a, f, empty) == f' = [f EXCEPT ![a] = empty]

\* die, or set -e: the EXIT trap removes the partial.
Die(a, from) ==
  /\ End(a, from, "failed")
  /\ partial' = [partial EXCEPT ![a] = None]

\* No marker, no assembly; it is not looked at again.
Admit(a) ==
  /\ IF marker THEN Go(a, "idle", "count") ELSE Go(a, "idle", "failed")
  /\ UNCHANGED <<restoreVars, assembleLock, buildVars, outVars>>

\* The staged pages are counted, still before the lock.
CountPages(a) ==
  /\ IF Present # {} THEN Go(a, "count", "admitted") ELSE Go(a, "count", "failed")
  /\ UNCHANGED <<restoreVars, assembleLock, buildVars, outVars>>

\* flock -n on .assemble.lock.
FaultyAssembleLockHeld == FALSE
AssembleLockHeld == assembleLock # None

TakeAssembleLock(a) ==
  /\ IF AssembleLockHeld
       THEN Go(a, "admitted", "failed") /\ UNCHANGED assembleLock
       ELSE Go(a, "admitted", "status") /\ assembleLock' = a
  /\ UNCHANGED <<restoreVars, buildVars, outVars>>

\* bin/redis status takes the restore lock itself: without it, not "running".
Status(a) ==
  /\ IF restoreLock = {} /\ redis
       THEN Go(a, "status", "snapshot") /\ UNCHANGED <<assembleLock, partial>>
       ELSE Die(a, "status")
  /\ UNCHANGED <<restoreVars, buildVars, final, described, manifest>>

\* verify_snapshot.py --require-redis.
FaultySnapshotPasses == Present # {} /\ redis
SnapshotPasses == VerifySnapshot(Present) /\ redis

\* Then the list of the ZIMs that are under TMP_DIR already.  Image and key counts,
\* the free space and a sotoki that is not the patched one may end the run.
Snapshot(a) ==
  /\ \/ /\ SnapshotPasses
        /\ Go(a, "snapshot", "build")
        /\ before' = [before EXCEPT ![a] = tmp]
        /\ unread' = [unread EXCEPT ![a] = Pages]
        /\ calm' = TRUE
        /\ UNCHANGED <<assembleLock, partial>>
     \/ Die(a, "snapshot") /\ UNCHANGED <<before, unread, calm>>
  /\ UNCHANGED <<restoreVars, read, tmp, final, described, manifest>>

\* sotoki --assemble-only packs a page, if it is there.
Pack(a) == \E p \in unread[a] :
  /\ apc[a] \in {"build", "orphan"}
  /\ unread' = [unread EXCEPT ![a] = @ \ {p}]
  /\ read' = [read EXCEPT ![a] = @ \cup ({p} \cap Present)]
  /\ UNCHANGED <<restoreVars, assembleLock, apc, tmp, before, calm, outVars>>

\* It writes the ZIM, under a name of its own.  A sotoki whose bin/assemble was
\* killed does so too, and then gives up the lock it inherited.
SotokiEnds(a) ==
  /\ unread[a] = {}
  /\ \/ Go(a, "build", "locate") /\ UNCHANGED assembleLock
     \/ End(a, "orphan", "killed")
  /\ \E sound \in BOOLEAN :
       tmp' = tmp \cup {[by |-> a, pages |-> read[a], sound |-> sound, calm |-> calm]}
  /\ Forget(a, read, {})
  /\ UNCHANGED <<restoreVars, unread, before, calm, outVars>>

\* It fails; bin/assemble ends with it.
SotokiFails(a) ==
  /\ \/ Die(a, "build")
     \/ End(a, "orphan", "killed") /\ UNCHANGED partial
  /\ Forget(a, read, {}) /\ Forget(a, unread, {}) /\ Forget(a, before, {})
  /\ UNCHANGED <<restoreVars, tmp, calm, final, described, manifest>>

\* The produced ZIM: one that was not there before.
FaultyNewZims(a) == {CHOOSE z \in tmp : TRUE}
NewZims(a) == tmp \ before[a]

\* There must be exactly one; it becomes the partial.
Locate(a) ==
  /\ apc[a] = "locate"
  /\ IF Cardinality(NewZims(a)) = 1
       THEN \E z \in NewZims(a) :
              /\ Go(a, "locate", "audit")
              /\ partial' = [partial EXCEPT ![a] = z]
              /\ tmp' = tmp \ {z}
              /\ UNCHANGED assembleLock
       ELSE Die(a, "locate") /\ UNCHANGED tmp
  /\ Forget(a, before, {})
  /\ UNCHANGED <<restoreVars, read, unread, calm, final, described, manifest>>

-----------------------------------------------------------------------------
(* The gates *)

\* More entries than 90% of the baseline's questions, whatever entries they are.
EnoughEntries(z) == 10 * (Others + Cardinality(z.pages)) > 9 * Questions

\* content() hands None for the zimdump binary, so every sampled entry fails.
SamplesPass == ~Zimdump

AuditPasses(z) == z.sound /\ EnoughEntries(z) /\ SamplesPass

Audit(a) ==
  /\ apc[a] = "audit"
  /\ IF AuditPasses(partial[a])
       THEN Go(a, "audit", "compare") /\ UNCHANGED <<assembleLock, partial>>
       ELSE Die(a, "audit")
  /\ UNCHANGED <<restoreVars, buildVars, final, described, manifest>>

\* Of the stage's pages compare_baseline.py wants a minimum only, here one: a
\* count outside the tolerance is a warning.
ComparePasses == Present # {}

\* Images, bytes and entries, which are not modelled, may fail it.
Compare(a) ==
  /\ \/ /\ ComparePasses
        /\ Go(a, "compare", "promote") /\ UNCHANGED <<assembleLock, partial>>
     \/ Die(a, "compare")
  /\ UNCHANGED <<restoreVars, buildVars, final, described, manifest>>

-----------------------------------------------------------------------------
(* Promotion and manifest *)

\* One rename; the trap has no partial to remove any more.
Promote(a) ==
  /\ Go(a, "promote", "describe")
  /\ final' = [final EXCEPT ![FlavourOf[a]] = partial[a]]
  /\ partial' = [partial EXCEPT ![a] = None]
  /\ UNCHANGED <<restoreVars, assembleLock, buildVars, described, manifest>>

\* The size and the sha256 are read back from the final path.
Describe(a) ==
  /\ Go(a, "describe", "publish")
  /\ described' = [described EXCEPT ![a] = [run |-> a, zim |-> final[FlavourOf[a]]]]
  /\ UNCHANGED <<restoreVars, assembleLock, buildVars, partial, final, manifest>>

Publish(a) ==
  /\ End(a, "publish", "done")
  /\ manifest' = [manifest EXCEPT ![FlavourOf[a]] = described[a]]
  /\ Forget(a, described, None)
  /\ UNCHANGED <<restoreVars, buildVars, partial, final>>

\* SIGKILL.  While sotoki builds it keeps the lock and goes on.
Kill(a) ==
  /\ \/ Go(a, "build", "orphan") /\ UNCHANGED assembleLock
     \/ /\ apc[a] \notin Ended \cup {"idle", "count", "admitted", "build", "orphan"}
        /\ End(a, apc[a], "killed")
  /\ Forget(a, described, None) /\ Forget(a, before, {})
  /\ UNCHANGED <<restoreVars, read, unread, tmp, calm, partial, final, manifest>>

Assemble(a) ==
  \/ Admit(a) \/ CountPages(a) \/ TakeAssembleLock(a) \/ Status(a) \/ Snapshot(a)
  \/ Pack(a) \/ SotokiEnds(a) \/ SotokiFails(a) \/ Locate(a)
  \/ Audit(a) \/ Compare(a) \/ Promote(a) \/ Describe(a) \/ Publish(a) \/ Kill(a)

Next == RedisTool \/ (\E r \in Restores : Restore(r)) \/ (\E a \in Assemblies : Assemble(a))

Spec == Init /\ [][Next]_vars

-----------------------------------------------------------------------------
(* Properties *)

\* "Written only after every check passes": under the marker the stage is the
\* empty one of bootstrap or exactly the pages of one bundle, never part of one
\* and never two mixed, whenever a restore was killed or refused.
MarkerHonest ==
  marker =>
    \/ Present = {}
    \/ \E r \in Restores :
         \A p \in Pages : stage[p] = IF p \in Bundle[r] THEN r ELSE None

\* "Question page count is never zero and never shrinks by more than the documented
\* deletion delta" (docs/verification.md:174): a promoted ZIM has as many questions
\* as the baseline, within the tolerance, whatever restores run meanwhile.
PromotedWhole == \A f \in Flavours :
  final[f] # None => VerifySnapshot(final[f].pages)

\* What holds of the code: a promoted ZIM is sound, and has those questions if no
\* restore touched the stage between the preflight and the end of packing; restores
\* that began, waited, failed or died earlier, and kills of other assemblies, do not
\* matter.  The gates after the build count entries of any kind.
WholeIfCalm == \A f \in Flavours :
  final[f] # None =>
    final[f].sound /\ (final[f].calm => VerifySnapshot(final[f].pages))

\* The ZIM at an output name was built by an assembly of that flavour, whatever
\* killed assemblies and their sotokis left under TMP_DIR.
RightFlavour == \A f \in Flavours :
  final[f] # None => FlavourOf[final[f].by] = f

\* A manifest tells of the run that built the ZIM whose checksum it records.
ManifestOwn == \A f \in Flavours :
  manifest[f] # None => manifest[f].zim.by = manifest[f].run

\* Once no restore runs the restore lock is free: the daemon that one started
\* must not hold it, or no restore and no bin/redis call is possible again.
RestoreLockFree ==
  (\A r \in Restores : rpc[r] \in Ended \cup {"idle", "checked"}) => restoreLock = {}

\* "Entry-level checks via zimdump if present" (docs/verification.md:131): a sound
\* ZIM with enough entries passes the audit with zimdump as it does without.
SoundPasses ==
  [][\A a \in Assemblies :
       apc[a] = "audit" /\ apc'[a] = "failed"
         => ~(partial[a].sound /\ EnoughEntries(partial[a]))]_vars

=============================================================================
