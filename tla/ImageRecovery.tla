--------------------------- MODULE ImageRecovery ---------------------------
(***************************************************************************)
(* The way of an image from the archive to the stage: the worker           *)
(* (IAWorker) and the scripts (StageImages) over the worker's out-dir and  *)
(* results.jsonl. The worker may run, die and be started again at any      *)
(* moment of a script.                                                     *)
(***************************************************************************)
EXTENDS IAWorker

CONSTANTS Confirmed, Torn, Scripts

VARIABLES
  images, manifest, pending, verdict, tool, live, work, at, found, through

Stage == INSTANCE StageImages WITH out <- file, todo <- work

ASSUME BytesAssumption == None \notin Stage!Bytes \cup Hashes
\* No archive holds a placeholder of this pipeline as an image of its own.
ASSUME PayloadsAssumption ==
  Payloads \cap (Stage!Placeholders \cup {"torn", "failed"}) = {}
\* A spec records one size and one sha256, or none.
ASSUME SpecAssumption ==
  Confirmed \subseteq Stage!Placeholders /\ \A p, q \in Confirmed : p = q
ASSUME TornAssumption == Torn \in BOOLEAN

stageVars ==
  <<images, manifest, pending, verdict, tool, live, work, at, found, through>>
allVars == <<vars, stageVars>>

RecoveryInit == Init /\ Stage!Init

RecoveryNext ==
  \/ Next /\ UNCHANGED stageVars
  \/ Stage!Next /\ UNCHANGED <<rows, txn, run>>

RecoverySpec == RecoveryInit /\ [][RecoveryNext]_allVars

-----------------------------------------------------------------------------
(* Properties *)

RecoveryTypeOK == TypeOK /\ Stage!TypeOK

\* Real stage images are never touched (docs/nas-worker.md), neither by a sync
\* nor by a finalize that goes by a list made before the sync.
RealKept ==
  [][\A h \in Hashes : images[h] \in Payloads => images'[h] = images[h]]_allVars

\* What a sync puts on the stage is what the manifest records, although the file
\* is read again after the check and the worker may be running: for every hash
\* that one row of the worker's manifest names.
SyncedIsRecorded ==
  [][\A h \in Hashes :
       Single(h) /\ images'[h] # images[h] /\ images'[h] \in Payloads
         => images'[h] = manifest[h]]_allVars

\* What a sync does not replace: a placeholder that the spec does not confirm,
\* which passes for a real image, and a file that is no image.
Unclaimed == (Stage!Placeholders \ Confirmed) \cup {"torn"}

\* The documented order, sync, classify, finalize, on any manifest and after any
\* number of aborted scripts, leaves no image missing; and what was recovered is
\* on the stage, unless something that sync does not replace was there before.
Converges ==
  through = 3 =>
    \A h \in Hashes :
      /\ images[h] # None
      /\ manifest[h] \in Payloads /\ Single(h) => images[h] \in Payloads \cup Unclaimed

\* A PASS of verify_images: every image of the manifest is there and decodes, and
\* over a recovered one lies at most a placeholder that the spec does not confirm.
\* So it remains until the manifest is made anew, whatever scripts run meanwhile.
PassIsSound ==
  verdict = "pass" =>
    \A h \in Hashes :
      /\ manifest[h] # None => images[h] \in Payloads \cup Stage!Placeholders
      /\ manifest[h] \in Payloads => images[h] \notin Confirmed

\* verify_images "fails on missing/invalid/placeholder recovered entries"
\* (recovery/README.md), so that a PASS has every recovered image on the stage.
PassIsHonest ==
  verdict = "pass" => \A h \in Hashes : manifest[h] \in Payloads => images[h] \in Payloads

\* load_pending "tolerates ... a plain one-column hash list", and a live finalize
\* that ends "leaves no pending hash without a stage file".
ListServed ==
  [][\A s \in Scripts : Stage!FinalizeEnd(s) /\ live[s] =>
       \A h \in pending : images[h] # None]_allVars

=============================================================================
