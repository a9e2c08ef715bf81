-------------------------- MODULE ImageRecovery_proofs --------------------------
(* Proofs about the worker and the recovery scripts over one out-dir, one      *)
(* results.jsonl and one stage, for any manifest, archive and set of images.   *)
EXTENDS ImageRecovery, IAWorker_proofs

\* Never two scripts at once.
Alone == \A s, t \in Scripts : s = t

-----------------------------------------------------------------------------
(* The inductive invariants *)

\* Every ok line tells the bytes of the file of its hash, now and later, if the
\* hash has one name ...
LinesInv == \A h \in Hashes : \A l \in results[h] :
  l.status = "ok" => l.content \in Payloads /\ (Single(h) => file[h] = l.content)

\* ... because only a payload is ever reported as ok.
OkHoldsPayload ==
  /\ entry # None /\ IsOk(entry.row) => entry.row.content \in Payloads
  /\ \A h \in Hashes :
       /\ IsOk(txn[h]) => txn[h].content \in Payloads
       /\ IsOk(rows[h]) => rows[h].content \in Payloads

\* The sync manifest agrees with out-dir on such a hash, and a file of one that
\* sync has judged does not change before it is copied.
ManifestInv == \A h \in Hashes :
  Single(h) /\ manifest[h] \in Payloads => file[h] = manifest[h]
CopyInv == \A s \in Scripts :
  tool[s] = "sync" /\ at[s] # None /\ Single(at[s]) =>
    manifest[at[s]] \in Payloads /\ file[at[s]] = manifest[at[s]]

\* Only a live sync or finalize is about to write, and never over a real image;
\* finalize not over a placeholder either.
WriteInv == \A s \in Scripts : at[s] # None =>
  /\ tool[s] \in {"sync", "finalize"} /\ live[s]
  /\ images[at[s]] \notin Payloads
  /\ tool[s] = "finalize" => ~Stage!IsValid(images[at[s]])

\* What verify has not found wrong is right and stays so, as what it has passed.
Right(h) == manifest[h] # None =>
  /\ Stage!IsValid(images[h])
  /\ manifest[h] \in Payloads => images[h] \notin Confirmed
VerdictInv ==
  /\ verdict = "pass" => \A h \in Hashes : Right(h)
  /\ \A s \in Scripts : tool[s] = "verify" =>
       \A h \in Hashes : h \in work[s] \cup found[s] \/ Right(h)

\* A file that is no image is on no list, so that nothing replaces it.
TornInv == \A h \in Hashes : images[h] = "torn" =>
  /\ h \notin pending
  /\ \A s \in Scripts :
       /\ tool[s] = "classify" => h \notin found[s]
       /\ tool[s] = "finalize" => h \notin work[s]
       /\ at[s] # h

\* How far the documented order has come, and each of its scripts.
Recovered(h) == manifest[h] \in Payloads /\ Single(h) =>
  images[h] # None /\ images[h] \notin Confirmed
StageOrder ==
  /\ through >= 1 => \A h \in Hashes : Recovered(h)
  /\ through = 2 => \A h \in Hashes : images[h] = None => h \in pending
  /\ through = 3 => \A h \in Hashes : images[h] # None
ScriptOrder(s) ==
  /\ tool[s] = "sync" /\ live[s] =>
       \A h \in Hashes : Recovered(h) \/ h \in work[s] \cup {at[s]}
  /\ tool[s] = "classify" =>
       \A h \in Hashes : images[h] = None => h \in work[s] \cup found[s]
  /\ tool[s] = "finalize" /\ live[s] /\ through = 2 =>
       \A h \in Hashes : images[h] = None => h \in work[s] \cup {at[s]}
OrderInv == StageOrder /\ \A s \in Scripts : ScriptOrder(s)

-----------------------------------------------------------------------------
(* The scripts leave the worker alone *)

LEMMA ScriptFrame ==
  ASSUME Stage!Next PROVE UNCHANGED <<file, results>>
<1> USE DEF Stage!sources
<1>1. CASE Stage!BuildManifest BY <1>1 DEF Stage!BuildManifest
<1>2. ASSUME NEW s \in Scripts, Stage!Run(s) PROVE UNCHANGED <<file, results>>
  BY <1>2 DEF Stage!Run, Stage!StartSync, Stage!StartClassify, Stage!StartFinalize,
     Stage!StartVerify, Stage!Start, Stage!SyncLook, Stage!ClassifyLook,
     Stage!FinalizeLook, Stage!VerifyLook, Stage!Look, Stage!SyncCopy,
     Stage!FinalizeWrite, Stage!Write, Stage!SyncEnd, Stage!ClassifyEnd,
     Stage!FinalizeEnd, Stage!VerifyEnd, Stage!Abort
<1> QED BY <1>1, <1>2 DEF Stage!Next

LEMMA WorkerOrScripts ==
  ASSUME [RecoveryNext]_allVars
  PROVE  /\ [Next]_vars
         /\ UNCHANGED stageVars \/ (Stage!Next /\ UNCHANGED vars)
BY ScriptFrame DEF RecoveryNext, allVars, vars, disk, run

\* Whatever the scripts do, the worker runs as if it were alone, so that all that
\* is proved of it holds beside them.
THEOREM WorkerUndisturbed == RecoverySpec => Spec
<1>1. RecoveryInit => Init BY DEF RecoveryInit
<1>2. [RecoveryNext]_allVars => [Next]_vars BY WorkerOrScripts
<1> QED BY <1>1, <1>2, PTL DEF RecoverySpec, Spec

-----------------------------------------------------------------------------
(* Types *)

LEMMA EndTyped ==
  ASSUME Stage!TypeOK, NEW s \in Scripts, Stage!End(s)
  PROVE  /\ tool' \in [Scripts -> Stage!Tools] /\ live' \in [Scripts -> BOOLEAN]
         /\ work' \in [Scripts -> SUBSET Hashes] /\ found' \in [Scripts -> SUBSET Hashes]
         /\ at' \in [Scripts -> Hashes \cup {None}]
         /\ \A q \in Scripts : tool'[q] = "none" => work'[q] = {} /\ at'[q] = None
BY DEF Stage!TypeOK, Stage!End, Stage!Tools

LEMMA StartTyped ==
  ASSUME Stage!TypeOK, NEW s \in Scripts, NEW t \in Stage!Tools \ {"none"},
         NEW hashes \in SUBSET Hashes, NEW l \in BOOLEAN, Stage!Start(s, t, hashes, l),
         through' \in {through, 0}
  PROVE  Stage!TypeOK'
BY DEF Stage!TypeOK, Stage!Start, Stage!files

\* What the four looks do, each by its own test.
Moves(s, h) ==
  /\ h \in work[s] /\ at[s] = None /\ work' = [work EXCEPT ![s] = @ \ {h}]
  /\ UNCHANGED <<images, manifest, pending, verdict, tool, live, through>>
Judges(s, h, wanted) ==
  /\ at' = IF wanted /\ live[s] THEN [at EXCEPT ![s] = h] ELSE at
  /\ found' = found
Notes(s, h, wanted) ==
  /\ found' = IF wanted THEN [found EXCEPT ![s] = @ \cup {h}] ELSE found
  /\ at' = at

LEMMA Looks ==
  ASSUME Stage!TypeOK, NEW s \in Scripts
  PROVE  /\ Stage!SyncLook(s) => tool[s] = "sync" /\
              \E h \in work[s] : Moves(s, h) /\ Judges(s, h, Stage!Applies(h))
         /\ Stage!ClassifyLook(s) => tool[s] = "classify" /\
              \E h \in work[s] : Moves(s, h) /\ Notes(s, h, Stage!IsMissing(h))
         /\ Stage!FinalizeLook(s) => tool[s] = "finalize" /\
              \E h \in work[s] : Moves(s, h) /\ Judges(s, h, Stage!IsUnavailable(h))
         /\ Stage!VerifyLook(s) => tool[s] = "verify" /\
              \E h \in work[s] : Moves(s, h) /\ Notes(s, h, Stage!HasProblem(h))
<1> USE DEF Stage!Look, Stage!files, Moves
<1>0. at[s] = None => [at EXCEPT ![s] = None] = at BY DEF Stage!TypeOK
<1>1. Stage!SyncLook(s) => tool[s] = "sync" /\
              \E h \in work[s] : Moves(s, h) /\ Judges(s, h, Stage!Applies(h))
  BY <1>0 DEF Stage!SyncLook, Judges
<1>2. Stage!ClassifyLook(s) => tool[s] = "classify" /\
              \E h \in work[s] : Moves(s, h) /\ Notes(s, h, Stage!IsMissing(h))
  BY DEF Stage!ClassifyLook, Notes
<1>3. Stage!FinalizeLook(s) => tool[s] = "finalize" /\
              \E h \in work[s] : Moves(s, h) /\ Judges(s, h, Stage!IsUnavailable(h))
  BY <1>0 DEF Stage!FinalizeLook, Judges
<1>4. Stage!VerifyLook(s) => tool[s] = "verify" /\
              \E h \in work[s] : Moves(s, h) /\ Notes(s, h, Stage!HasProblem(h))
  BY DEF Stage!VerifyLook, Notes
<1> QED BY <1>1, <1>2, <1>3, <1>4

LEMMA LookTyped ==
  ASSUME Stage!TypeOK, NEW s \in Scripts, NEW h \in work[s], tool[s] # "none",
         NEW wanted \in BOOLEAN, Moves(s, h), Judges(s, h, wanted) \/ Notes(s, h, wanted)
  PROVE  Stage!TypeOK'
<1> USE DEF Moves, Judges, Notes
<1>1. h \in Hashes BY DEF Stage!TypeOK
<1>2. work' \in [Scripts -> SUBSET Hashes] BY DEF Stage!TypeOK
<1>3. at' \in [Scripts -> Hashes \cup {None}] BY <1>1 DEF Stage!TypeOK
<1>4. found' \in [Scripts -> SUBSET Hashes] BY <1>1 DEF Stage!TypeOK
<1>5. \A q \in Scripts : tool[q] = "none" => work'[q] = {} /\ at'[q] = None
  BY DEF Stage!TypeOK
<1> QED BY <1>2, <1>3, <1>4, <1>5 DEF Stage!TypeOK

LEMMA StageTyped ==
  ASSUME TypeOK, Stage!TypeOK, Stage!Next
  PROVE  Stage!TypeOK'
<1> USE DEF Stage!files, Stage!script
<1>1. CASE Stage!BuildManifest
  BY <1>1 DEF Stage!BuildManifest, Stage!TypeOK
<1>2. ASSUME NEW s \in Scripts, Stage!Run(s) PROVE Stage!TypeOK'
  <2>t. {"sync", "classify", "finalize", "verify"} \subseteq Stage!Tools \ {"none"}
    BY DEF Stage!Tools
  <2>1. CASE Stage!StartSync(s)
    BY <2>1, <2>t, StartTyped DEF Stage!StartSync
  <2>2. CASE Stage!StartClassify(s) BY <2>2, <2>t, StartTyped DEF Stage!StartClassify
  <2>3. CASE Stage!StartFinalize(s)
    <3>1. PICK l \in BOOLEAN, hashes \in SUBSET Hashes :
            Stage!Start(s, "finalize", hashes, l) /\ through' \in {through, 0}
      <4>1. pending \in SUBSET Hashes /\ \A h \in pending : {h} \in SUBSET Hashes
        BY DEF Stage!TypeOK
      <4> QED BY <2>3, <4>1 DEF Stage!StartFinalize
    <3> QED BY <2>t, <3>1, StartTyped
  <2>4. CASE Stage!StartVerify(s) BY <2>4, <2>t, StartTyped DEF Stage!StartVerify
  <2>5. CASE Stage!SyncLook(s) \/ Stage!ClassifyLook(s)
             \/ Stage!FinalizeLook(s) \/ Stage!VerifyLook(s)
    <3>1. \A h \in Hashes : /\ Stage!Applies(h) \in BOOLEAN /\ Stage!IsMissing(h) \in BOOLEAN
                            /\ Stage!IsUnavailable(h) \in BOOLEAN
                            /\ Stage!HasProblem(h) \in BOOLEAN
      BY DEF Stage!Applies, Stage!IsMissing, Stage!IsUnavailable, Stage!HasProblem
    <3>2. work[s] \subseteq Hashes BY DEF Stage!TypeOK
    <3> QED BY <2>5, <3>1, <3>2, Looks, LookTyped
  <2>6. CASE Stage!SyncCopy(s)
    <3>1. at[s] \in Hashes /\ file[at[s]] \in Payloads
      BY <2>6 DEF Stage!SyncCopy, TypeOK, Stage!TypeOK
    <3>2. images' \in [Hashes -> Stage!Bytes \cup {None}]
      BY <2>6, <3>1 DEF Stage!SyncCopy, Stage!Write, Stage!TypeOK, Stage!Bytes
    <3>3. at' \in [Scripts -> Hashes \cup {None}]
      BY <2>6 DEF Stage!SyncCopy, Stage!Write, Stage!TypeOK
    <3>4. \A q \in Scripts : tool[q] = "none" => at'[q] = None
      BY <2>6 DEF Stage!SyncCopy, Stage!Write, Stage!TypeOK
    <3> QED BY <2>6, <3>2, <3>3, <3>4 DEF Stage!SyncCopy, Stage!Write, Stage!TypeOK
  <2>7. CASE Stage!FinalizeWrite(s)
    <3>1. images' \in [Hashes -> Stage!Bytes \cup {None}]
      BY <2>7 DEF Stage!FinalizeWrite, Stage!Write, Stage!TypeOK, Stage!Bytes,
         Stage!Placeholders
    <3>2. at' \in [Scripts -> Hashes \cup {None}]
      BY <2>7 DEF Stage!FinalizeWrite, Stage!Write, Stage!TypeOK
    <3>3. \A q \in Scripts : tool[q] = "none" => at'[q] = None
      BY <2>7 DEF Stage!FinalizeWrite, Stage!Write, Stage!TypeOK
    <3> QED BY <2>7, <3>1, <3>2, <3>3 DEF Stage!FinalizeWrite, Stage!Write, Stage!TypeOK
  <2>8. CASE Stage!SyncEnd(s) \/ Stage!ClassifyEnd(s) \/ Stage!FinalizeEnd(s)
             \/ Stage!VerifyEnd(s) \/ Stage!Abort(s)
    <3>1. Stage!End(s) /\ UNCHANGED <<images, manifest>>
      BY <2>8 DEF Stage!SyncEnd, Stage!ClassifyEnd, Stage!FinalizeEnd, Stage!VerifyEnd,
         Stage!Abort, Stage!Done
    <3>2. pending' \in SUBSET Hashes /\ verdict' \in {"none", "pass", "fail"}
          /\ through' \in 0..3
      BY <2>8 DEF Stage!SyncEnd, Stage!ClassifyEnd, Stage!FinalizeEnd, Stage!VerifyEnd,
         Stage!Abort, Stage!Reach, Stage!TypeOK
    <3> QED BY <3>1, <3>2, EndTyped DEF Stage!TypeOK
  <2> QED BY <1>2, <2>1, <2>2, <2>3, <2>4, <2>5, <2>6, <2>7, <2>8 DEF Stage!Run
<1> QED BY <1>1, <1>2 DEF Stage!Next

\* Every variable of the worker and of the scripts keeps its type, however many
\* scripts overlap, whatever is confirmed and whatever dies.
THEOREM RecoveryTypes == RecoverySpec => []RecoveryTypeOK
<1>1. RecoveryInit => Stage!TypeOK
  BY BytesAssumption DEF RecoveryInit, Stage!Init, Stage!TypeOK, Stage!Bytes, Stage!Placeholders,
     Stage!Recorded, Stage!Tools
<1>2. TypeOK /\ Stage!TypeOK /\ [RecoveryNext]_allVars => Stage!TypeOK'
  <2> SUFFICES ASSUME TypeOK, Stage!TypeOK, [RecoveryNext]_allVars PROVE Stage!TypeOK'
    OBVIOUS
  <2>1. CASE UNCHANGED stageVars BY <2>1 DEF stageVars, Stage!TypeOK
  <2>2. CASE Stage!Next BY <2>2, StageTyped
  <2> QED BY <2>1, <2>2, WorkerOrScripts
<1>3. TypeOK /\ Stage!TypeOK => RecoveryTypeOK BY DEF RecoveryTypeOK
<1> QED BY WorkerUndisturbed, ArchiveTypes, <1>1, <1>2, <1>3, PTL DEF RecoverySpec

-----------------------------------------------------------------------------
(* What is written *)

Puts(s, t, bytes) ==
  /\ tool[s] = t /\ at[s] \in Hashes
  /\ images' = [images EXCEPT ![at[s]] = bytes]
  /\ at' = [at EXCEPT ![s] = None]
  /\ UNCHANGED <<manifest, pending, verdict, tool, live, work, found, through>>

Copies(s) == file[at[s]] \in Payloads /\ Puts(s, "sync", file[at[s]])

LEMMA Writes ==
  ASSUME TypeOK, Stage!TypeOK, NEW s \in Scripts
  PROVE  /\ Stage!SyncCopy(s) => Copies(s)
         /\ Stage!FinalizeWrite(s) => Puts(s, "finalize", "final")
BY DEF TypeOK, Stage!TypeOK, Stage!SyncCopy, Stage!FinalizeWrite, Stage!Write, Copies, Puts

\* Of the steps of a script only the two writes touch the images.
LEMMA ImageFrame ==
  ASSUME TypeOK, Stage!TypeOK, Stage!Next
  PROVE  \/ images' = images
         \/ \E s \in Scripts : Copies(s) \/ Puts(s, "finalize", "final")
<1> USE DEF Stage!files
<1>1. CASE Stage!BuildManifest BY <1>1 DEF Stage!BuildManifest
<1>2. ASSUME NEW s \in Scripts, Stage!Run(s),
             ~Stage!SyncCopy(s), ~Stage!FinalizeWrite(s)
      PROVE  images' = images
  BY <1>2 DEF Stage!Run, Stage!StartSync, Stage!StartClassify, Stage!StartFinalize,
     Stage!StartVerify, Stage!Start, Stage!SyncLook, Stage!ClassifyLook,
     Stage!FinalizeLook, Stage!VerifyLook, Stage!Look, Stage!SyncEnd, Stage!ClassifyEnd,
     Stage!FinalizeEnd, Stage!VerifyEnd, Stage!Abort
<1> QED BY <1>1, <1>2, Writes DEF Stage!Next

\* A script that starts or ends holds no hash to write.
LEMMA Boundaries ==
  ASSUME Stage!TypeOK, NEW s \in Scripts
  PROVE  /\ Stage!StartSync(s) \/ Stage!StartClassify(s) \/ Stage!StartFinalize(s)
              \/ Stage!StartVerify(s)
              => /\ tool[s] = "none" /\ at[s] = None /\ found'[s] = {}
                 /\ UNCHANGED <<images, manifest, pending, verdict, at>>
                 /\ through' \in {through, 0}
                 /\ \A q \in Scripts \ {s} : tool'[q] = tool[q] /\ live'[q] = live[q]
         /\ Stage!SyncEnd(s) \/ Stage!ClassifyEnd(s) \/ Stage!FinalizeEnd(s)
              \/ Stage!VerifyEnd(s) \/ Stage!Abort(s)
              => /\ tool[s] # "none" /\ tool'[s] = "none" /\ at'[s] = None
                 /\ UNCHANGED <<images, manifest>>
                 /\ \A q \in Scripts \ {s} :
                      tool'[q] = tool[q] /\ live'[q] = live[q] /\ at'[q] = at[q]
<1> USE DEF Stage!files, Stage!TypeOK
<1>1. ASSUME NEW t, NEW hashes, NEW l, Stage!Start(s, t, hashes, l)
      PROVE  /\ tool[s] = "none" /\ at[s] = None /\ found'[s] = {}
             /\ UNCHANGED <<images, manifest, pending, verdict, at>>
             /\ \A q \in Scripts \ {s} : tool'[q] = tool[q] /\ live'[q] = live[q]
  BY <1>1 DEF Stage!Start
<1>2. ASSUME Stage!End(s)
      PROVE  /\ tool'[s] = "none" /\ at'[s] = None
             /\ \A q \in Scripts \ {s} :
                  tool'[q] = tool[q] /\ live'[q] = live[q] /\ at'[q] = at[q]
  BY <1>2 DEF Stage!End
<1>3. Stage!SyncEnd(s) \/ Stage!ClassifyEnd(s) \/ Stage!FinalizeEnd(s)
        \/ Stage!VerifyEnd(s) \/ Stage!Abort(s)
        => Stage!End(s) /\ tool[s] # "none" /\ UNCHANGED <<images, manifest>>
  BY DEF Stage!SyncEnd, Stage!ClassifyEnd, Stage!FinalizeEnd, Stage!VerifyEnd,
     Stage!Abort, Stage!Done
<1> QED
  BY <1>1, <1>2, <1>3 DEF Stage!StartSync, Stage!StartClassify, Stage!StartFinalize,
     Stage!StartVerify

LEMMA WriteStep ==
  ASSUME Alone, TypeOK, Stage!TypeOK, WriteInv, [RecoveryNext]_allVars
  PROVE  WriteInv'
<1>1. CASE UNCHANGED stageVars BY <1>1 DEF stageVars, WriteInv
<1>2. CASE Stage!BuildManifest
  BY <1>2 DEF Stage!BuildManifest, Stage!script, WriteInv
<1>3. ASSUME NEW s \in Scripts, Stage!Run(s) PROVE WriteInv'
  <2>0. \A q \in Scripts : q = s BY DEF Alone
  <2>1. CASE Stage!StartSync(s) \/ Stage!StartClassify(s) \/ Stage!StartFinalize(s)
             \/ Stage!StartVerify(s)
    BY <2>0, <2>1, Boundaries DEF WriteInv
  <2>2. CASE Stage!SyncEnd(s) \/ Stage!ClassifyEnd(s) \/ Stage!FinalizeEnd(s)
             \/ Stage!VerifyEnd(s) \/ Stage!Abort(s)
    BY <2>0, <2>2, Boundaries DEF WriteInv
  <2>3. CASE Stage!ClassifyLook(s) \/ Stage!VerifyLook(s)
    <3>1. UNCHANGED <<images, tool, live, at>> BY <2>3, Looks DEF Moves, Notes
    <3> QED BY <3>1 DEF WriteInv
  <2>4. CASE Stage!SyncLook(s)
    <3>1. PICK h \in work[s] : Moves(s, h) /\ Judges(s, h, Stage!Applies(h))
      BY <2>4, Looks
    <3>2. Stage!Applies(h) => images[h] \notin Payloads
      BY PayloadsAssumption, SpecAssumption, NoneAssumption
         DEF Stage!Applies, Stage!IsPlaceholder
    <3>3. at'[s] # None => at'[s] = h /\ Stage!Applies(h) /\ live[s]
      BY <3>1 DEF Moves, Judges, Stage!TypeOK
    <3> QED BY <2>0, <2>4, <3>1, <3>2, <3>3, Looks DEF Moves, WriteInv
  <2>5. CASE Stage!FinalizeLook(s)
    <3>1. PICK h \in work[s] : Moves(s, h) /\ Judges(s, h, Stage!IsUnavailable(h))
      BY <2>5, Looks
    <3>2. Stage!IsUnavailable(h) =>
            ~Stage!IsValid(images[h]) /\ images[h] \notin Payloads
      BY DEF Stage!IsUnavailable, Stage!IsValid
    <3>3. at'[s] # None => at'[s] = h /\ Stage!IsUnavailable(h) /\ live[s]
      BY <3>1 DEF Moves, Judges, Stage!TypeOK
    <3> QED BY <2>0, <2>5, <3>1, <3>2, <3>3, Looks DEF Moves, WriteInv
  <2>6. CASE Stage!SyncCopy(s) \/ Stage!FinalizeWrite(s)
    <3>1. at'[s] = None BY <2>6, Writes DEF Copies, Puts, Stage!TypeOK
    <3> QED BY <2>0, <3>1 DEF WriteInv
  <2> QED BY <1>3, <2>1, <2>2, <2>3, <2>4, <2>5, <2>6 DEF Stage!Run
<1> QED BY <1>1, <1>2, <1>3, WorkerOrScripts DEF Stage!Next

LEMMA WriteInvariant ==
  ASSUME Alone
  PROVE  RecoverySpec => [](Stage!TypeOK /\ TypeOK /\ WriteInv)
<1>1. RecoveryInit => WriteInv BY DEF RecoveryInit, Stage!Init, WriteInv
<1>2. RecoveryTypeOK /\ WriteInv /\ [RecoveryNext]_allVars => WriteInv'
  BY WriteStep DEF RecoveryTypeOK
<1>3. RecoveryTypeOK /\ WriteInv => Stage!TypeOK /\ TypeOK /\ WriteInv
  BY DEF RecoveryTypeOK
<1> QED BY RecoveryTypes, <1>1, <1>2, <1>3, PTL DEF RecoverySpec

\* With one script at a time a real image on the stage is never touched again: a
\* finalize does not go by its list, a sync not by its manifest, but each by its
\* own look, whatever the spec confirms and whatever the worker does meanwhile.
THEOREM RealImagesKept ==
  ASSUME Alone
  PROVE  RecoverySpec => RealKept
<1> DEFINE Kept == \A h \in Hashes : images[h] \in Payloads => images'[h] = images[h]
<1>1. Stage!TypeOK /\ TypeOK /\ WriteInv /\ [RecoveryNext]_allVars => [Kept]_allVars
  <2> SUFFICES ASSUME Stage!TypeOK, TypeOK, WriteInv, [RecoveryNext]_allVars PROVE Kept
    OBVIOUS
  <2>1. CASE images' = images BY <2>1
  <2>2. ASSUME NEW s \in Scripts, Copies(s) \/ Puts(s, "finalize", "final") PROVE Kept
    <3>1. \A h \in Hashes : h # at[s] => images'[h] = images[h]
      BY <2>2 DEF Copies, Puts, Stage!TypeOK
    <3>2. images[at[s]] \notin Payloads
      BY <2>2, BytesAssumption, HashOfItem DEF Copies, Puts, WriteInv
    <3> QED BY <3>1, <3>2
  <2> QED BY <2>1, <2>2, WorkerOrScripts, ImageFrame DEF stageVars
<1> QED BY WriteInvariant, <1>1, PTL DEF RecoverySpec, RealKept

-----------------------------------------------------------------------------
(* From the worker's file to the manifest *)

\* The worker never writes over the file of a hash that has one name.
LEMMA FileSticks ==
  ASSUME TypeOK, LoopInv, FreshInv, [Next]_vars
  PROVE  \A h \in Hashes : Single(h) /\ file[h] # None => file'[h] = file[h]
<1>1. ASSUME NEW i \in Items, Extract(i)
      PROVE  \A h \in Hashes : Single(h) /\ file[h] # None => file'[h] = file[h]
  <2>1. Single(HashOf[i]) => file[HashOf[i]] = None BY <1>1 DEF Extract, Reach, FreshInv
  <2> QED BY <1>1, <2>1 DEF Extract, TypeOK
<1>2. CASE file' = file BY <1>2
<1> QED
  BY <1>1, <1>2 DEF Next, Step, vars, disk, Launch, OpenShard, Refuse, Raise, Blame, Record,
     RecordRaises, LineRaises, Commit, Finish, Die

LEMMA PayloadStep ==
  ASSUME TypeOK, LoopInv, OkHoldsPayload, [Next]_vars
  PROVE  OkHoldsPayload'
<1> USE DEF OkHoldsPayload
<1>1. ASSUME NEW i \in Items, Extract(i) PROVE OkHoldsPayload'
  <2>1. PICK c \in Payloads :
          entry' = [item |-> i, row |-> [status |-> "ok", content |-> c], tried |-> TRUE]
    BY <1>1 DEF Extract, Report
  <2>2. entry'.row.content = c BY <2>1
  <2> QED BY <1>1, <2>2 DEF Extract, Reach
<1>2. ASSUME NEW i \in Items, Refuse(i) \/ Raise(i) \/ Blame(i) PROVE OkHoldsPayload'
  <2>1. entry'.row = Failed /\ UNCHANGED <<txn, rows>>
    BY <1>2 DEF Refuse, Raise, Blame, Report, Reach
  <2> QED BY <2>1, FailedRow
<1>3. CASE Record \/ RecordRaises \/ LineRaises
  <2>1. rows' = rows /\ (entry' = None \/ entry'.row = Failed) /\ entry # None
    BY <1>3 DEF Record, RecordRaises, LineRaises, Report, disk
  <2>2. \A h \in Hashes : txn'[h] = txn[h] \/ txn'[h] = entry.row
    BY <1>3, <2>1, InsertTyped DEF Record, RecordRaises, LineRaises
  <2> QED BY <2>1, <2>2, FailedRow
<1>4. CASE Commit BY <1>4 DEF Commit, Latest, NoRow, IsOk
<1>5. CASE Gone /\ UNCHANGED rows BY <1>5 DEF Gone, NoRow, IsOk
<1>6. CASE UNCHANGED <<entry, txn, rows>> BY <1>6
<1> QED
  BY <1>1, <1>2, <1>3, <1>4, <1>5, <1>6 DEF Next, Step, vars, disk, run, Launch, OpenShard,
     Finish, Die

LEMMA LinesStep ==
  ASSUME TypeOK, LoopInv, FreshInv, DiskInv, OkHoldsPayload, LinesInv, [Next]_vars
  PROVE  LinesInv'
<1>1. \A h \in Hashes : \A l \in results[h] :
        l.status = "ok" => l.content \in Payloads /\ (Single(h) => file'[h] = l.content)
  BY FileSticks, NoneAssumption DEF LinesInv
<1>2. CASE Record
  <2>1. file' = file /\ entry # None /\ entry \in Entry /\ HashOf[entry.item] \in Hashes
    BY <1>2, InsertTyped DEF Record
  <2>2. \A h \in Hashes : \A l \in results'[h] :
          l \in results[h] \/ (h = HashOf[entry.item] /\ l = entry.row)
    BY <1>2, <2>1 DEF Record, TypeOK
  <2>3. entry.row \in Row /\ entry.row # None BY <2>1, NoneAssumption DEF Entry
  <2>4. entry.row.status = "ok" =>
          /\ entry.row.content \in Payloads
          /\ Single(HashOf[entry.item]) => file[HashOf[entry.item]] = entry.row.content
    BY <2>1, <2>3 DEF DiskInv, Backed, OkHoldsPayload, IsOk
  <2> QED BY <1>1, <2>1, <2>2, <2>4 DEF LinesInv
<1>3. CASE Finish
  <2>1. file' = file /\ \A h \in Hashes : results'[h] = {rows[h]} \ {None}
    BY <1>3 DEF Finish
  <2>2. \A h \in Hashes : rows[h] # None /\ rows[h].status = "ok"
          => rows[h].content \in Payloads /\ (Single(h) => file[h] = rows[h].content)
    BY DEF DiskInv, OkIsOnDisk, Backed, OkHoldsPayload, IsOk
  <2> QED BY <2>1, <2>2 DEF LinesInv
<1>4. CASE results' = results BY <1>1, <1>4 DEF LinesInv
<1> QED
  BY <1>2, <1>3, <1>4 DEF Next, Step, vars, disk, Launch, OpenShard, Extract, Refuse, Raise,
     Blame, Reach, RecordRaises, LineRaises, Commit, Die

\* Each ok line of a hash with one name tells the bytes in out-dir, before its
\* commit and after a run that died: a sync manifest may be made at any time.
LEMMA LinesTell == RecoverySpec => [](TypeOK /\ LoopInv /\ FreshInv /\ LinesInv)
<1>1. Init => OkHoldsPayload /\ LinesInv
  BY DEF Init, OkHoldsPayload, LinesInv, NoRow, IsOk
<1>2. TypeOK /\ LoopInv /\ FreshInv /\ DiskInv /\ OkHoldsPayload /\ LinesInv /\ [Next]_vars
        => OkHoldsPayload' /\ LinesInv'
  BY PayloadStep, LinesStep
<1> QED BY WorkerUndisturbed, ArchiveTypes, DiskInvariant, <1>1, <1>2, PTL DEF Spec

LEMMA ManifestStep ==
  ASSUME TypeOK, LoopInv, FreshInv, LinesInv, ManifestInv, [RecoveryNext]_allVars
  PROVE  ManifestInv'
<1>1. CASE UNCHANGED stageVars
  <2>1. \A h \in Hashes : Single(h) /\ file[h] # None => file'[h] = file[h]
    BY WorkerOrScripts, FileSticks
  <2> QED BY <1>1, <2>1, NoneAssumption DEF stageVars, ManifestInv
<1>2. CASE Stage!BuildManifest /\ UNCHANGED vars
  <2> SUFFICES ASSUME NEW h \in Hashes, Single(h), manifest'[h] \in Payloads
               PROVE  file[h] = manifest'[h]
    BY <1>2 DEF ManifestInv, vars, disk
  <2>1. \E r \in results[h] : r.status = "ok" /\ manifest'[h] = r.content
    BY <1>2, PayloadsAssumption, NoneAssumption DEF Stage!BuildManifest, Stage!Listed
  <2> QED BY <2>1 DEF LinesInv
<1>3. ASSUME NEW s \in Scripts, Stage!Run(s), UNCHANGED vars PROVE ManifestInv'
  <2>1. manifest' = manifest
    BY <1>3 DEF Stage!files, Stage!Run, Stage!StartSync, Stage!StartClassify,
       Stage!StartFinalize, Stage!StartVerify, Stage!Start, Stage!SyncLook,
       Stage!ClassifyLook, Stage!FinalizeLook, Stage!VerifyLook, Stage!Look,
       Stage!SyncCopy, Stage!FinalizeWrite, Stage!Write, Stage!SyncEnd,
       Stage!ClassifyEnd, Stage!FinalizeEnd, Stage!VerifyEnd, Stage!Abort
  <2> QED BY <1>3, <2>1 DEF ManifestInv, vars, disk
<1> QED BY <1>1, <1>2, <1>3, WorkerOrScripts DEF Stage!Next

LEMMA CopyStep ==
  ASSUME TypeOK, LoopInv, FreshInv, Stage!TypeOK, CopyInv, [RecoveryNext]_allVars
  PROVE  CopyInv'
<1>0. \A h \in Hashes : Single(h) /\ file[h] \in Payloads => file'[h] = file[h]
  BY WorkerOrScripts, FileSticks, NoneAssumption
<1>1. CASE UNCHANGED stageVars
  BY <1>0, <1>1 DEF stageVars, CopyInv, Stage!TypeOK
<1>2. CASE Stage!BuildManifest
  BY <1>2 DEF Stage!BuildManifest, Stage!script, CopyInv
<1>3. ASSUME NEW s \in Scripts, Stage!Run(s), UNCHANGED vars PROVE CopyInv'
  <2>0. file' = file BY <1>3 DEF vars, disk
  <2>1. CASE Stage!StartSync(s) \/ Stage!StartClassify(s) \/ Stage!StartFinalize(s)
             \/ Stage!StartVerify(s)
    BY <2>0, <2>1, Boundaries DEF CopyInv
  <2>2. CASE Stage!SyncEnd(s) \/ Stage!ClassifyEnd(s) \/ Stage!FinalizeEnd(s)
             \/ Stage!VerifyEnd(s) \/ Stage!Abort(s)
    BY <2>0, <2>2, Boundaries DEF CopyInv
  <2>3. CASE Stage!ClassifyLook(s) \/ Stage!VerifyLook(s)
    <3>1. UNCHANGED <<manifest, tool, at>> BY <2>3, Looks DEF Moves, Notes
    <3> QED BY <2>0, <3>1 DEF CopyInv
  <2>4. CASE Stage!SyncLook(s)
    <3>1. PICK h \in work[s] : Moves(s, h) /\ Judges(s, h, Stage!Applies(h))
      BY <2>4, Looks
    <3>2. h \in Hashes BY DEF Stage!TypeOK
    <3>3. Stage!Applies(h) => manifest[h] \in Payloads /\ file[h] = manifest[h]
      BY <3>2, BytesAssumption DEF Stage!Applies, Stage!IsValid, Stage!Bytes, TypeOK
    <3>4. at'[s] # None => at'[s] = h /\ Stage!Applies(h)
      BY <3>1 DEF Moves, Judges, Stage!TypeOK
    <3>5. \A q \in Scripts \ {s} : at'[q] = at[q] BY <3>1 DEF Judges, Stage!TypeOK
    <3> QED BY <2>0, <3>1, <3>3, <3>4, <3>5 DEF Moves, CopyInv
  <2>5. CASE Stage!FinalizeLook(s)
    <3>1. PICK h \in work[s] : Moves(s, h) /\ Judges(s, h, Stage!IsUnavailable(h))
      BY <2>5, Looks
    <3>2. \A q \in Scripts \ {s} : at'[q] = at[q] BY <3>1 DEF Judges, Stage!TypeOK
    <3>3. tool'[s] = "finalize" BY <2>5, <3>1, Looks DEF Moves
    <3> QED BY <2>0, <3>1, <3>2, <3>3 DEF Moves, CopyInv
  <2>6. CASE Stage!SyncCopy(s) \/ Stage!FinalizeWrite(s)
    <3>1. /\ at'[s] = None /\ \A q \in Scripts \ {s} : at'[q] = at[q]
          /\ UNCHANGED <<manifest, tool>>
      BY <2>6, Writes DEF Copies, Puts, Stage!TypeOK
    <3> QED BY <2>0, <3>1 DEF CopyInv
  <2> QED BY <1>3, <2>1, <2>2, <2>3, <2>4, <2>5, <2>6 DEF Stage!Run
<1> QED BY <1>1, <1>2, <1>3, WorkerOrScripts DEF Stage!Next

LEMMA CopyInvariant ==
  RecoverySpec => [](TypeOK /\ Stage!TypeOK /\ ManifestInv /\ CopyInv)
<1>1. RecoveryInit => ManifestInv /\ CopyInv
  BY NoneAssumption DEF RecoveryInit, Stage!Init, ManifestInv, CopyInv
<1>2. /\ TypeOK /\ LoopInv /\ FreshInv /\ LinesInv /\ RecoveryTypeOK
      /\ ManifestInv /\ CopyInv /\ [RecoveryNext]_allVars
      => ManifestInv' /\ CopyInv'
  BY ManifestStep, CopyStep DEF RecoveryTypeOK
<1>3. RecoveryTypeOK => TypeOK /\ Stage!TypeOK BY DEF RecoveryTypeOK
<1> QED BY RecoveryTypes, LinesTell, <1>1, <1>2, <1>3, PTL DEF RecoverySpec

\* What a sync puts on the stage for a hash that has one name is what the manifest
\* records, for any manifest of the worker, which may name other hashes twice, any
\* number of scripts that overlap, a worker at work and whatever the spec confirms:
\* between the check and the copy no one writes over a file that is there.
THEOREM SyncCopiesRecorded == RecoverySpec => SyncedIsRecorded
<1> DEFINE Synced == \A h \in Hashes :
      Single(h) /\ images'[h] # images[h] /\ images'[h] \in Payloads
        => images'[h] = manifest[h]
<1>1. TypeOK /\ Stage!TypeOK /\ CopyInv /\ [RecoveryNext]_allVars => [Synced]_allVars
  <2> SUFFICES ASSUME TypeOK, Stage!TypeOK, CopyInv, [RecoveryNext]_allVars PROVE Synced
    OBVIOUS
  <2>1. CASE images' = images BY <2>1
  <2>2. ASSUME NEW s \in Scripts, Copies(s) PROVE Synced
    <3>1. \A h \in Hashes : images'[h] = IF h = at[s] THEN file[at[s]] ELSE images[h]
      BY <2>2 DEF Copies, Puts, Stage!TypeOK
    <3>2. at[s] # None BY <2>2, BytesAssumption DEF Copies, Puts
    <3>3. Single(at[s]) => file[at[s]] = manifest[at[s]]
      BY <2>2, <3>2 DEF Copies, Puts, CopyInv
    <3> QED BY <3>1, <3>3
  <2>3. ASSUME NEW s \in Scripts, Puts(s, "finalize", "final") PROVE Synced
    <3>1. \A h \in Hashes : images'[h] = IF h = at[s] THEN "final" ELSE images[h]
      BY <2>3 DEF Puts, Stage!TypeOK
    <3> QED BY <3>1, PayloadsAssumption DEF Stage!Placeholders
  <2> QED BY <2>1, <2>2, <2>3, WorkerOrScripts, ImageFrame DEF stageVars
<1> QED BY CopyInvariant, <1>1, PTL DEF RecoverySpec, SyncedIsRecorded

-----------------------------------------------------------------------------
(* The verdict, for one script at a time *)

LEMMA RightSticks ==
  ASSUME TypeOK, Stage!TypeOK, WriteInv, Stage!Next, manifest' = manifest,
         NEW h \in Hashes, Right(h)
  PROVE  Right(h)'
<1> USE DEF Right, Stage!IsValid
<1>1. CASE images' = images BY <1>1
<1>2. ASSUME NEW s \in Scripts, Copies(s) PROVE Right(h)'
  <2>1. images'[h] = images[h] \/ images'[h] \in Payloads
    BY <1>2 DEF Copies, Puts, Stage!TypeOK
  <2>2. Payloads \cap Confirmed = {} BY PayloadsAssumption, SpecAssumption
  <2> QED BY <2>1, <2>2
<1>3. ASSUME NEW s \in Scripts, Puts(s, "finalize", "final") PROVE Right(h)'
  <2>1. images'[h] = IF h = at[s] THEN "final" ELSE images[h]
    BY <1>3 DEF Puts, Stage!TypeOK
  <2>2. ~Stage!IsValid(images[at[s]])
    BY <1>3, BytesAssumption DEF Puts, WriteInv
  <2> QED BY <2>1, <2>2
<1> QED BY <1>1, <1>2, <1>3, ImageFrame

LEMMA VerdictStep ==
  ASSUME Alone, TypeOK, Stage!TypeOK, WriteInv, VerdictInv, [RecoveryNext]_allVars
  PROVE  VerdictInv'
<1> USE DEF VerdictInv
<1>1. CASE UNCHANGED stageVars BY <1>1 DEF stageVars, Right
<1>2. CASE Stage!BuildManifest
  BY <1>2 DEF Stage!BuildManifest, Stage!script
<1>3. ASSUME NEW s \in Scripts, Stage!Run(s), Stage!Next PROVE VerdictInv'
  <2>0. \A q \in Scripts : q = s BY DEF Alone
  <2>1. CASE Stage!StartSync(s) \/ Stage!StartClassify(s) \/ Stage!StartFinalize(s)
    <3>1. UNCHANGED <<images, manifest, verdict>> BY <2>1, Boundaries
    <3>2. tool'[s] # "verify"
      BY <2>1 DEF Stage!StartSync, Stage!StartClassify, Stage!StartFinalize, Stage!Start,
         Stage!TypeOK
    <3> QED BY <2>0, <3>1, <3>2 DEF Right
  <2>2. CASE Stage!StartVerify(s)
    <3>1. UNCHANGED <<images, manifest, verdict>> BY <2>2, Boundaries
    <3>2. work'[s] = {h \in Hashes : manifest[h] # None}
      BY <2>2 DEF Stage!StartVerify, Stage!Start, Stage!TypeOK
    <3> QED BY <2>0, <3>1, <3>2 DEF Right
  <2>3. CASE Stage!SyncLook(s) \/ Stage!FinalizeLook(s) \/ Stage!ClassifyLook(s)
    <3>1. UNCHANGED <<images, manifest, verdict, tool>> /\ tool[s] # "verify"
      BY <2>3, Looks DEF Moves
    <3> QED BY <2>0, <3>1 DEF Right
  <2>4. CASE Stage!VerifyLook(s)
    <3>1. PICK h \in work[s] : Moves(s, h) /\ Notes(s, h, Stage!HasProblem(h))
      BY <2>4, Looks
    <3>2. ~Stage!HasProblem(h) => Right(h)
      BY DEF Stage!HasProblem, Stage!IsPlaceholder, Stage!IsValid, Right
    <3>3. UNCHANGED <<images, manifest, verdict, tool>> /\ tool[s] = "verify"
      BY <2>4, <3>1, Looks DEF Moves
    <3>4. /\ work'[s] = work[s] \ {h}
          /\ found'[s] = IF Stage!HasProblem(h) THEN found[s] \cup {h} ELSE found[s]
      BY <3>1 DEF Moves, Notes, Stage!TypeOK
    <3>5. \A g \in Hashes : g \in work'[s] \cup found'[s] \/ Right(g)
      BY <3>2, <3>3, <3>4
    <3> QED BY <2>0, <3>3, <3>5 DEF Right
  <2>5. CASE Stage!SyncCopy(s) \/ Stage!FinalizeWrite(s)
    <3>1. UNCHANGED <<manifest, verdict, tool>> /\ tool[s] # "verify"
      BY <2>5, Writes DEF Copies, Puts
    <3> QED BY <1>3, <2>0, <3>1, RightSticks
  <2>6. CASE Stage!VerifyEnd(s)
    <3>1. /\ UNCHANGED <<images, manifest>> /\ tool[s] = "verify" /\ work[s] = {}
          /\ tool'[s] = "none" /\ verdict' = IF found[s] = {} THEN "pass" ELSE "fail"
      BY <2>6, Boundaries DEF Stage!VerifyEnd, Stage!Done
    <3>2. verdict' = "pass" => \A h \in Hashes : Right(h) BY <3>1
    <3> QED BY <2>0, <3>1, <3>2 DEF Right
  <2>7. CASE Stage!SyncEnd(s) \/ Stage!ClassifyEnd(s) \/ Stage!FinalizeEnd(s)
             \/ Stage!Abort(s)
    <3>1. UNCHANGED <<images, manifest, verdict>> /\ tool'[s] = "none"
      BY <2>7, Boundaries DEF Stage!SyncEnd, Stage!ClassifyEnd, Stage!FinalizeEnd,
         Stage!Abort, Stage!files
    <3> QED BY <2>0, <3>1 DEF Right
  <2> QED BY <1>3, <2>1, <2>2, <2>3, <2>4, <2>5, <2>6, <2>7 DEF Stage!Run
<1> QED BY <1>1, <1>2, <1>3, WorkerOrScripts DEF Stage!Next

\* When verify_images passes, each image of the manifest is there and decodes and
\* over none that was recovered lies a placeholder of the spec, and so it stays until
\* the manifest is made anew, whatever scripts run, die or start over meanwhile and
\* whichever placeholder, if any, the spec confirms.
THEOREM VerdictSound ==
  ASSUME Alone
  PROVE  RecoverySpec => []PassIsSound
<1>1. RecoveryInit => VerdictInv BY DEF RecoveryInit, Stage!Init, VerdictInv
<1>2. TypeOK /\ Stage!TypeOK /\ WriteInv /\ VerdictInv /\ [RecoveryNext]_allVars
        => VerdictInv'
  BY VerdictStep
<1>3. VerdictInv => PassIsSound
  BY NoneAssumption DEF VerdictInv, Right, PassIsSound, Stage!IsValid
<1> QED BY WriteInvariant, <1>1, <1>2, <1>3, PTL DEF RecoverySpec

-----------------------------------------------------------------------------
(* The documented order *)

\* A hash that a live sync leaves alone has no recovered image, or the stage has
\* one already, or what passes for one.
LEMMA NothingToSync ==
  ASSUME TypeOK, Stage!TypeOK, ManifestInv, NEW h \in Hashes, ~Stage!Applies(h)
  PROVE  Recovered(h)
<1> SUFFICES ASSUME manifest[h] \in Payloads, Single(h)
             PROVE  images[h] # None /\ images[h] \notin Confirmed
  BY DEF Recovered
<1>1. file[h] = manifest[h] BY DEF ManifestInv
<1>2. Stage!IsValid(file[h]) /\ ~Stage!IsPlaceholder(file[h])
  BY <1>1, PayloadsAssumption, SpecAssumption DEF Stage!IsValid, Stage!IsPlaceholder
<1> QED BY <1>1, <1>2 DEF Stage!Applies, Stage!IsPlaceholder

\* No write undoes what the order has reached.
LEMMA WritesOnlyAdd ==
  ASSUME TypeOK, Stage!TypeOK, WriteInv, TornInv, NEW s \in Scripts,
         Copies(s) \/ Puts(s, "finalize", "final")
  PROVE  /\ \A h \in Hashes : images'[h] = "torn" => images[h] = "torn"
         /\ \A h \in Hashes : images'[h] = None => images[h] = None
         /\ \A h \in Hashes : Recovered(h) => Recovered(h)'
<1>1. CASE Copies(s)
  <2>1. /\ file[at[s]] \in Payloads /\ manifest' = manifest
        /\ \A h \in Hashes : images'[h] = IF h = at[s] THEN file[at[s]] ELSE images[h]
    BY <1>1 DEF Copies, Puts, Stage!TypeOK
  <2>2. file[at[s]] # None /\ file[at[s]] # "torn" /\ file[at[s]] \notin Confirmed
    BY <2>1, PayloadsAssumption, NoneAssumption, SpecAssumption
  <2> QED BY <2>1, <2>2 DEF Recovered
<1>2. CASE Puts(s, "finalize", "final")
  <2>1. /\ at[s] \in Hashes /\ manifest' = manifest /\ tool[s] = "finalize"
        /\ \A h \in Hashes : images'[h] = IF h = at[s] THEN "final" ELSE images[h]
    BY <1>2 DEF Puts, Stage!TypeOK
  <2>2. ~Stage!IsValid(images[at[s]]) /\ images[at[s]] # "torn"
    BY <2>1, BytesAssumption DEF WriteInv, TornInv
  <2>3. images[at[s]] = None
    BY <2>1, <2>2 DEF Stage!TypeOK, Stage!Bytes, Stage!IsValid
  <2>4. None # "final" BY BytesAssumption DEF Stage!Bytes, Stage!Placeholders
  <2> QED BY <2>1, <2>3, <2>4 DEF Recovered
<1> QED BY <1>1, <1>2

LEMMA TornStep ==
  ASSUME Alone, TypeOK, Stage!TypeOK, WriteInv, TornInv, [RecoveryNext]_allVars
  PROVE  TornInv'
<1>1. CASE UNCHANGED stageVars BY <1>1 DEF stageVars, TornInv
<1>2. CASE Stage!BuildManifest
  BY <1>2 DEF Stage!BuildManifest, Stage!script, TornInv
<1>3. ASSUME NEW s \in Scripts, Stage!Run(s) PROVE TornInv'
  <2>0. \A q \in Scripts : q = s BY DEF Alone
  <2>t. "torn" \notin Confirmed /\ None # "torn"
    BY SpecAssumption, BytesAssumption DEF Stage!Placeholders, Stage!Bytes
  <2>1. CASE Stage!StartSync(s) \/ Stage!StartClassify(s) \/ Stage!StartFinalize(s)
             \/ Stage!StartVerify(s)
    <3>1. UNCHANGED <<images, pending, at>> /\ found'[s] = {} BY <2>1, Boundaries
    <3>2. tool'[s] = "finalize" => work'[s] \subseteq pending
      BY <2>1 DEF Stage!StartSync, Stage!StartClassify, Stage!StartFinalize,
         Stage!StartVerify, Stage!Start, Stage!TypeOK
    <3> QED BY <2>0, <3>1, <3>2 DEF TornInv
  <2>2. CASE Stage!SyncLook(s)
    <3>1. PICK h \in work[s] : Moves(s, h) /\ Judges(s, h, Stage!Applies(h))
      BY <2>2, Looks
    <3>2. tool'[s] = "sync" /\ UNCHANGED <<images, pending>>
      BY <2>2, <3>1, Looks DEF Moves
    <3>3. at'[s] # None => Stage!Applies(at'[s])
      BY <3>1 DEF Moves, Judges, Stage!TypeOK
    <3>4. \A g \in Hashes : images[g] = "torn" => at'[s] # g
      BY <2>t, <3>3, BytesAssumption DEF Stage!Applies, Stage!IsPlaceholder
    <3> QED BY <2>0, <3>2, <3>4 DEF TornInv
  <2>3. CASE Stage!ClassifyLook(s)
    <3>1. PICK h \in work[s] : Moves(s, h) /\ Notes(s, h, Stage!IsMissing(h))
      BY <2>3, Looks
    <3>2. tool[s] = "classify" /\ UNCHANGED <<images, pending, tool, at>>
      BY <2>3, <3>1, Looks DEF Moves, Notes
    <3>3. \A g \in found'[s] : g \in found[s] \/ (g = h /\ Stage!IsMissing(h))
      BY <3>1 DEF Notes, Stage!TypeOK
    <3>4. images[h] = "torn" => ~Stage!IsMissing(h)
      BY <2>t DEF Stage!IsMissing, Stage!IsPlaceholder
    <3> QED BY <2>0, <3>2, <3>3, <3>4 DEF TornInv
  <2>4. CASE Stage!FinalizeLook(s)
    <3>1. PICK h \in work[s] : Moves(s, h) /\ Judges(s, h, Stage!IsUnavailable(h))
      BY <2>4, Looks
    <3>2. tool[s] = "finalize" /\ UNCHANGED <<images, pending, tool>>
      BY <2>4, <3>1, Looks DEF Moves
    <3>3. work'[s] \subseteq work[s] /\ (at'[s] = h \/ at'[s] = None)
      BY <3>1 DEF Moves, Judges, Stage!TypeOK
    <3> QED BY <2>0, <3>2, <3>3, BytesAssumption DEF TornInv
  <2>5. CASE Stage!VerifyLook(s)
    <3>1. tool[s] = "verify" /\ UNCHANGED <<images, pending, tool, at>>
      BY <2>5, Looks DEF Moves, Notes
    <3> QED BY <2>0, <3>1 DEF TornInv
  <2>6. CASE Stage!SyncCopy(s) \/ Stage!FinalizeWrite(s)
    <3>1. /\ at'[s] = None /\ UNCHANGED <<pending, tool, work, found>>
      BY <2>6, Writes DEF Copies, Puts, Stage!TypeOK
    <3>2. \A g \in Hashes : images'[g] = "torn" => images[g] = "torn"
      BY <2>6, Writes, WritesOnlyAdd
    <3> QED BY <2>0, <3>1, <3>2, BytesAssumption DEF TornInv
  <2>7. CASE Stage!SyncEnd(s) \/ Stage!ClassifyEnd(s) \/ Stage!FinalizeEnd(s)
             \/ Stage!VerifyEnd(s) \/ Stage!Abort(s)
    <3>1. images' = images /\ tool'[s] = "none" /\ at'[s] = None BY <2>7, Boundaries
    <3>2. pending' = pending \/ (tool[s] = "classify" /\ pending' = found[s])
      BY <2>7 DEF Stage!SyncEnd, Stage!ClassifyEnd, Stage!FinalizeEnd, Stage!VerifyEnd,
         Stage!Abort, Stage!Done, Stage!files
    <3> QED BY <2>0, <3>1, <3>2, BytesAssumption DEF TornInv
  <2> QED BY <1>3, <2>1, <2>2, <2>3, <2>4, <2>5, <2>6, <2>7 DEF Stage!Run
<1> QED BY <1>1, <1>2, <1>3, WorkerOrScripts DEF Stage!Next

LEMMA StartKeepsOrder ==
  ASSUME TypeOK, Stage!TypeOK, OrderInv, NEW s \in Scripts,
         Stage!StartSync(s) \/ Stage!StartClassify(s) \/ Stage!StartFinalize(s)
           \/ Stage!StartVerify(s)
  PROVE  StageOrder' /\ ScriptOrder(s)'
<1>1. UNCHANGED <<images, manifest, pending, at>> /\ through' \in {through, 0}
  BY Boundaries
<1>2. StageOrder' BY <1>1 DEF OrderInv, StageOrder, Recovered
<1>3. CASE Stage!StartSync(s)
  <2>1. tool'[s] = "sync" /\ work'[s] = {h \in Hashes : manifest[h] # None}
    BY <1>3 DEF Stage!StartSync, Stage!Start, Stage!TypeOK
  <2>2. \A h \in Hashes : Recovered(h)' \/ h \in work'[s]
    BY <1>1, <2>1, NoneAssumption DEF Recovered
  <2> QED BY <1>2, <2>1, <2>2 DEF ScriptOrder
<1>4. CASE Stage!StartClassify(s)
  <2>1. tool'[s] = "classify" /\ work'[s] = Hashes
    BY <1>4 DEF Stage!StartClassify, Stage!Start, Stage!TypeOK
  <2> QED BY <1>2, <2>1 DEF ScriptOrder
<1>5. CASE Stage!StartFinalize(s)
  <2>1. tool'[s] = "finalize" /\ (work'[s] = pending \/ through' = 0)
    BY <1>5 DEF Stage!StartFinalize, Stage!Start, Stage!TypeOK
  <2> QED BY <1>1, <1>2, <2>1 DEF ScriptOrder, OrderInv, StageOrder
<1>6. CASE Stage!StartVerify(s)
  <2>1. tool'[s] = "verify" BY <1>6 DEF Stage!StartVerify, Stage!Start, Stage!TypeOK
  <2> QED BY <1>2, <2>1 DEF ScriptOrder
<1> QED BY <1>3, <1>4, <1>5, <1>6

LEMMA LookKeepsOrder ==
  ASSUME TypeOK, Stage!TypeOK, ManifestInv, OrderInv, NEW s \in Scripts, UNCHANGED vars,
         Stage!SyncLook(s) \/ Stage!ClassifyLook(s) \/ Stage!FinalizeLook(s)
           \/ Stage!VerifyLook(s)
  PROVE  StageOrder' /\ ScriptOrder(s)'
<1>1. UNCHANGED <<images, manifest, pending, tool, live, through>> BY Looks DEF Moves
<1>2. StageOrder' BY <1>1 DEF OrderInv, StageOrder, Recovered
<1>3. CASE Stage!SyncLook(s)
  <2>1. tool[s] = "sync" BY <1>3, Looks
  <2>2. PICK h \in work[s] : Moves(s, h) /\ Judges(s, h, Stage!Applies(h)) BY <1>3, Looks
  <2>3. h \in Hashes BY DEF Stage!TypeOK
  <2>4. /\ work'[s] = work[s] \ {h} /\ at[s] = None
        /\ Stage!Applies(h) /\ live[s] => at'[s] = h
    BY <2>2 DEF Moves, Judges, Stage!TypeOK
  <2>5. ~Stage!Applies(h) => Recovered(h)
    BY <2>3, NothingToSync
  <2>6. live[s] => \A g \in Hashes : Recovered(g) \/ g \in work'[s] \cup {at'[s]}
    BY <2>1, <2>4, <2>5, BytesAssumption DEF OrderInv, ScriptOrder
  <2> QED BY <1>1, <1>2, <2>1, <2>6 DEF ScriptOrder, Recovered
<1>4. CASE Stage!ClassifyLook(s)
  <2>1. tool[s] = "classify" BY <1>4, Looks
  <2>2. PICK h \in work[s] : Moves(s, h) /\ Notes(s, h, Stage!IsMissing(h)) BY <1>4, Looks
  <2>3. /\ work'[s] = work[s] \ {h} /\ found[s] \subseteq found'[s]
        /\ images[h] = None => h \in found'[s]
    BY <2>2 DEF Moves, Notes, Stage!IsMissing, Stage!TypeOK
  <2>4. \A g \in Hashes : images[g] = None => g \in work'[s] \cup found'[s]
    BY <2>1, <2>3 DEF OrderInv, ScriptOrder
  <2> QED BY <1>1, <1>2, <2>1, <2>4 DEF ScriptOrder
<1>5. CASE Stage!FinalizeLook(s)
  <2>1. tool[s] = "finalize" BY <1>5, Looks
  <2>2. PICK h \in work[s] : Moves(s, h) /\ Judges(s, h, Stage!IsUnavailable(h))
    BY <1>5, Looks
  <2>3. /\ work'[s] = work[s] \ {h} /\ at[s] = None
        /\ Stage!IsUnavailable(h) /\ live[s] => at'[s] = h
    BY <2>2 DEF Moves, Judges, Stage!TypeOK
  <2>4. images[h] = None => Stage!IsUnavailable(h)
    BY BytesAssumption, SpecAssumption DEF Stage!IsUnavailable, Stage!IsValid, Stage!Bytes,
       Stage!Placeholders
  <2>5. live[s] /\ through = 2 =>
          \A g \in Hashes : images[g] = None => g \in work'[s] \cup {at'[s]}
    BY <2>1, <2>3, <2>4, BytesAssumption DEF OrderInv, ScriptOrder
  <2> QED BY <1>1, <1>2, <2>1, <2>5 DEF ScriptOrder
<1>6. CASE Stage!VerifyLook(s)
  <2>1. tool[s] = "verify" BY <1>6, Looks
  <2> QED BY <1>1, <1>2, <2>1 DEF ScriptOrder
<1> QED BY <1>3, <1>4, <1>5, <1>6

LEMMA WriteKeepsOrder ==
  ASSUME TypeOK, Stage!TypeOK, WriteInv, TornInv, OrderInv, NEW s \in Scripts,
         Stage!SyncCopy(s) \/ Stage!FinalizeWrite(s)
  PROVE  StageOrder' /\ ScriptOrder(s)'
<1>1. UNCHANGED <<manifest, pending, tool, live, work, found, through>>
  BY Writes DEF Copies, Puts
<1>2. /\ \A h \in Hashes : images'[h] = None => images[h] = None
      /\ \A h \in Hashes : Recovered(h) => Recovered(h)'
  BY Writes, WritesOnlyAdd
<1>3. StageOrder' BY <1>1, <1>2 DEF OrderInv, StageOrder
<1>4. CASE Stage!SyncCopy(s)
  <2>1. tool[s] = "sync" /\ images'[at[s]] \in Payloads
    BY <1>4, Writes DEF Copies, Puts, Stage!TypeOK
  <2>2. \A h \in Hashes : h = at[s] => Recovered(h)'
    BY <2>1, PayloadsAssumption, NoneAssumption, SpecAssumption DEF Recovered
  <2>3. live[s] => \A h \in Hashes : Recovered(h)' \/ h \in work[s]
    BY <1>2, <2>1, <2>2 DEF OrderInv, ScriptOrder
  <2> QED BY <1>1, <1>3, <2>1, <2>3 DEF ScriptOrder
<1>5. CASE Stage!FinalizeWrite(s)
  <2>1. tool[s] = "finalize" /\ images'[at[s]] # None
    BY <1>5, Writes, BytesAssumption DEF Puts, Stage!TypeOK, Stage!Bytes, Stage!Placeholders
  <2>2. live[s] /\ through = 2 => \A h \in Hashes : images'[h] = None => h \in work[s]
    BY <1>2, <2>1 DEF OrderInv, ScriptOrder
  <2> QED BY <1>1, <1>3, <2>1, <2>2 DEF ScriptOrder
<1> QED BY <1>4, <1>5

LEMMA EndKeepsOrder ==
  ASSUME TypeOK, Stage!TypeOK, OrderInv, NEW s \in Scripts,
         Stage!SyncEnd(s) \/ Stage!ClassifyEnd(s) \/ Stage!FinalizeEnd(s)
           \/ Stage!VerifyEnd(s) \/ Stage!Abort(s)
  PROVE  StageOrder' /\ ScriptOrder(s)'
<1>1. UNCHANGED <<images, manifest>> /\ tool'[s] = "none" BY Boundaries
<1>2. ScriptOrder(s)' BY <1>1 DEF ScriptOrder
<1>3. \A h \in Hashes : Recovered(h)' = Recovered(h) BY <1>1 DEF Recovered
<1>4. CASE Stage!SyncEnd(s)
  <2>1. /\ tool[s] = "sync" /\ work[s] = {} /\ at[s] = None /\ pending' = pending
        /\ through' = IF live[s] THEN 1 ELSE through
    BY <1>4 DEF Stage!SyncEnd, Stage!Done, Stage!Reach, Stage!files
  <2>2. live[s] => \A h \in Hashes : Recovered(h)
    BY <2>1, BytesAssumption DEF OrderInv, ScriptOrder
  <2> QED BY <1>1, <1>2, <1>3, <2>1, <2>2 DEF OrderInv, StageOrder
<1>5. CASE Stage!ClassifyEnd(s)
  <2>1. /\ tool[s] = "classify" /\ work[s] = {} /\ pending' = found[s]
        /\ through' = IF through = 0 THEN 0 ELSE 2
    BY <1>5 DEF Stage!ClassifyEnd, Stage!Done
  <2>2. \A h \in Hashes : images[h] = None => h \in pending'
    BY <2>1 DEF OrderInv, ScriptOrder
  <2>3. through' # 0 => \A h \in Hashes : Recovered(h)
    BY <2>1 DEF OrderInv, StageOrder, Stage!TypeOK
  <2> QED BY <1>1, <1>2, <1>3, <2>1, <2>2, <2>3 DEF OrderInv, StageOrder
<1>6. CASE Stage!FinalizeEnd(s)
  <2>1. /\ tool[s] = "finalize" /\ work[s] = {} /\ at[s] = None /\ pending' = pending
        /\ through' = IF live[s] /\ through = 2 THEN 3 ELSE through
    BY <1>6 DEF Stage!FinalizeEnd, Stage!Done, Stage!Reach, Stage!files
  <2>2. live[s] /\ through = 2 => \A h \in Hashes : images[h] # None
    BY <2>1, BytesAssumption DEF OrderInv, ScriptOrder
  <2> QED BY <1>1, <1>2, <1>3, <2>1, <2>2 DEF OrderInv, StageOrder
<1>7. CASE Stage!VerifyEnd(s) \/ Stage!Abort(s)
  <2>1. pending' = pending /\ through' = through
    BY <1>7 DEF Stage!VerifyEnd, Stage!Abort, Stage!files
  <2> QED BY <1>1, <1>2, <1>3, <2>1 DEF OrderInv, StageOrder
<1> QED BY <1>4, <1>5, <1>6, <1>7

LEMMA OrderStep ==
  ASSUME Alone, TypeOK, Stage!TypeOK, ManifestInv, WriteInv, TornInv, OrderInv,
         [RecoveryNext]_allVars
  PROVE  OrderInv'
<1>1. CASE UNCHANGED stageVars
  BY <1>1 DEF stageVars, OrderInv, StageOrder, ScriptOrder, Recovered
<1>2. CASE Stage!BuildManifest
  <2>1. UNCHANGED <<images, tool>> /\ through' = 0
        /\ \A s \in Scripts : tool[s] = "none"
    BY <1>2 DEF Stage!BuildManifest, Stage!script
  <2> QED BY <2>1 DEF OrderInv, StageOrder, ScriptOrder
<1>3. ASSUME NEW s \in Scripts, Stage!Run(s), UNCHANGED vars PROVE OrderInv'
  <2>1. StageOrder' /\ ScriptOrder(s)'
    BY <1>3, StartKeepsOrder, LookKeepsOrder, WriteKeepsOrder, EndKeepsOrder DEF Stage!Run
  <2>2. \A q \in Scripts : q = s BY DEF Alone
  <2> QED BY <2>1, <2>2 DEF OrderInv
<1> QED BY <1>1, <1>2, <1>3, WorkerOrScripts DEF Stage!Next

\* The documented order converges: once a live sync, a classify and a live finalize
\* have run through in this order, no image is missing, and what was recovered is on
\* the stage wherever nothing lay that a sync does not replace. Scripts may have died
\* and been started over, dry runs, plain lists and verifications may come between,
\* the stage may hold files that are no images, the spec may confirm either
\* placeholder or none, and the worker may run or die at any moment, over a manifest
\* that names hashes twice.
THEOREM OrderConverges ==
  ASSUME Alone
  PROVE  RecoverySpec => []Converges
<1>1. RecoveryInit => TornInv /\ OrderInv
  BY BytesAssumption, NoneAssumption
     DEF RecoveryInit, Stage!Init, TornInv, OrderInv, StageOrder, ScriptOrder, Stage!Bytes
<1>2. TypeOK /\ Stage!TypeOK /\ ManifestInv /\ WriteInv /\ TornInv /\ OrderInv
        /\ [RecoveryNext]_allVars => TornInv' /\ OrderInv'
  BY TornStep, OrderStep
<1>3. Stage!TypeOK /\ OrderInv => Converges
  <2> SUFFICES ASSUME Stage!TypeOK, OrderInv, through = 3, NEW h \in Hashes
               PROVE  /\ images[h] # None
                      /\ manifest[h] \in Payloads /\ Single(h) =>
                           images[h] \in Payloads \cup Unclaimed
    BY DEF Converges
  <2>1. images[h] # None /\ Recovered(h) BY DEF OrderInv, StageOrder
  <2>2. images[h] \in Stage!Bytes BY <2>1 DEF Stage!TypeOK
  <2> QED BY <2>1, <2>2 DEF Recovered, Unclaimed, Stage!Bytes
<1> QED BY WriteInvariant, CopyInvariant, <1>1, <1>2, <1>3, PTL DEF RecoverySpec

=============================================================================
