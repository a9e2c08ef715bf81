---------------------------- MODULE StageImages ----------------------------
(***************************************************************************)
(* The images of the stage and the scripts of the recovery pipeline that   *)
(* read or write them: classify_missing, sync_to_stage,                    *)
(* finalize_unavailable and verify_images.                                 *)
(*                                                                         *)
(* A script goes through its hashes one at a time; between the look at a   *)
(* file and the write that the look decides anything may happen. What      *)
(* joins the scripts are files: the sync manifest that the operator makes  *)
(* from the results of a worker, and the list of what is still missing.    *)
(***************************************************************************)
EXTENDS Naturals, FiniteSets

CONSTANTS
  Hashes,      \* the images the staged pages refer to (the inventory)
  Payloads,    \* recovered images
  Confirmed,   \* the placeholders whose size and sha256 the spec confirms
  Torn,        \* may the stage hold a file that is no image?
  Scripts,     \* script runs that may overlap
  None

\* What a file may hold: a recovered image, the placeholder that sotoki staged,
\* the one that finalize writes, or nothing that decodes.
Placeholders == {"sotoki", "final"}
Bytes == Payloads \cup Placeholders \cup {"torn"}

VARIABLES
  out,       \* the recovered files, --source-dir/<hash>
  results,   \* the worker's results.jsonl: the rows on each hash
  images,    \* stage/images/<hash>
  manifest,  \* the sync manifest: hash to recovered content, None if no row
  pending,   \* the classified-remaining list
  verdict,   \* of the last verify_images on this manifest
  tool,      \* the script each run executes
  live,      \* with --no-dry-run
  todo,      \* the hashes it has still to look at
  at,        \* the one it is about to write
  found,     \* classify: what is missing; verify: what has a problem
  through    \* how far the documented order has come with this manifest

files == <<images, manifest, pending, verdict>>
script == <<tool, live, todo, at, found>>
sources == <<out, results>>

Tools == {"none", "sync", "classify", "finalize", "verify"}
\* "failed": a row without content_sha256.
Recorded == Payloads \cup {"failed", None}

TypeOK ==
  /\ images \in [Hashes -> Bytes \cup {None}]
  /\ manifest \in [Hashes -> Recorded]
  /\ pending \subseteq Hashes
  /\ verdict \in {"none", "pass", "fail"}
  /\ tool \in [Scripts -> Tools]
  /\ live \in [Scripts -> BOOLEAN]
  /\ todo \in [Scripts -> SUBSET Hashes]
  /\ at \in [Scripts -> Hashes \cup {None}]
  /\ found \in [Scripts -> SUBSET Hashes]
  /\ \A s \in Scripts : tool[s] = "none" => todo[s] = {} /\ at[s] = None
  /\ through \in 0..3

Init ==
  /\ images \in [Hashes -> {None, "sotoki"} \cup (IF Torn THEN {"torn"} ELSE {})]
  /\ manifest = [h \in Hashes |-> None]
  /\ pending = {} /\ verdict = "none"
  /\ tool = [s \in Scripts |-> "none"] /\ live = [s \in Scripts |-> FALSE]
  /\ todo = [s \in Scripts |-> {}] /\ at = [s \in Scripts |-> None]
  /\ found = [s \in Scripts |-> {}]
  /\ through = 0

-----------------------------------------------------------------------------
(* lib/images.py *)

\* Size and sha256 are the spec's.
IsPlaceholder(x) == x \in Confirmed

\* Magic bytes and decode: a placeholder is a perfectly valid image.
IsValid(x) == x \in Payloads \cup Placeholders

(* What each script decides about one hash *)

FaultyApplies(h) ==                      \* as rsync --ignore-existing would
  out[h] # None /\ out[h] = manifest[h] /\ images[h] = None

FaultyApplies_Unrecorded(h) ==           \* whatever the row says
  IsValid(out[h]) /\ ~IsPlaceholder(out[h]) /\ (images[h] = None \/ IsPlaceholder(images[h]))

\* analyze_sync: the source is an image, no placeholder and the recorded one;
\* the target is absent or a confirmed placeholder.
Applies(h) ==
  /\ IsValid(out[h]) /\ ~IsPlaceholder(out[h])
  /\ out[h] = manifest[h]
  /\ images[h] = None \/ IsPlaceholder(images[h])

\* classify_missing.
IsMissing(h) == images[h] = None \/ IsPlaceholder(images[h])

FaultyIsUnavailable(h) == ~IsPlaceholder(images[h])          \* H10 alone

\* finalize_hashes: no placeholder, by spec or by its bytes, and no valid image.
IsUnavailable(h) == images[h] \notin Confirmed \cup {"final"} /\ ~IsValid(images[h])

FaultyHasProblem(h) == ~IsValid(images[h])                   \* H6 alone

\* verify_stage: missing, empty or invalid, or a placeholder though recovered.
HasProblem(h) ==
  \/ ~IsValid(images[h])
  \/ manifest[h] \in Payloads /\ IsPlaceholder(images[h])

-----------------------------------------------------------------------------
(* The operator *)

Start(s, t, hashes, l) ==
  /\ tool[s] = "none"
  /\ tool' = [tool EXCEPT ![s] = t]
  /\ live' = [live EXCEPT ![s] = l]
  /\ todo' = [todo EXCEPT ![s] = hashes]
  /\ found' = [found EXCEPT ![s] = {}]
  /\ UNCHANGED <<sources, files, at>>

FaultyEnd(s) ==                          \* the list of a killed script stays
  /\ tool' = [tool EXCEPT ![s] = "none"]
  /\ at' = [at EXCEPT ![s] = None]
  /\ live' = [live EXCEPT ![s] = FALSE]
  /\ found' = [found EXCEPT ![s] = {}]
  /\ UNCHANGED todo

End(s) ==
  /\ tool' = [tool EXCEPT ![s] = "none"]
  /\ todo' = [todo EXCEPT ![s] = {}]
  /\ at' = [at EXCEPT ![s] = None]
  /\ live' = [live EXCEPT ![s] = FALSE]
  /\ found' = [found EXCEPT ![s] = {}]

\* What the rows on a hash make of it: of several ok ones, any one's content.
Listed(h) ==
  LET Oks == {r \in results[h] : r.status = "ok"}
  IN IF results[h] = {} THEN {None}
     ELSE IF Oks = {} THEN {"failed"} ELSE {r.content : r \in Oks}

\* Step 4 of the production workflow: a row of results.jsonl that is ok brings
\* the sha256 of the bytes on disk; between two script runs.
BuildManifest ==
  /\ \A s \in Scripts : tool[s] = "none"
  /\ \E h \in Hashes : results[h] # {}
  /\ manifest' \in {m \in [Hashes -> Recorded] : \A h \in Hashes : m[h] \in Listed(h)}
  /\ through' = 0 /\ verdict' = "none"
  /\ UNCHANGED <<sources, images, pending, script>>

StartSync(s) ==
  /\ \E l \in BOOLEAN : Start(s, "sync", {h \in Hashes : manifest[h] # None}, l)
  /\ UNCHANGED through

StartClassify(s) == Start(s, "classify", Hashes, TRUE) /\ UNCHANGED through

\* The list is the TSV of classify_missing, or its hashes alone: then load_pending
\* takes the first line for the header, and no later one has a "hash" column. The
\* documented order hands over the TSV.
StartFinalize(s) ==
  /\ pending # {}
  /\ \E l \in BOOLEAN :
       \/ Start(s, "finalize", pending, l) /\ UNCHANGED through
       \/ \E first \in pending : Start(s, "finalize", {first}, l) /\ through' = 0

StartVerify(s) ==
  Start(s, "verify", {h \in Hashes : manifest[h] # None}, TRUE) /\ UNCHANGED through

-----------------------------------------------------------------------------
(* The scripts *)

\* The next hash is looked at: wanted says whether this script acts on it.
Look(s, t, wanted(_)) ==
  /\ tool[s] = t /\ at[s] = None
  /\ \E h \in todo[s] :
       /\ todo' = [todo EXCEPT ![s] = @ \ {h}]
       /\ IF ~wanted(h) THEN UNCHANGED <<at, found>>
          ELSE IF t \in {"classify", "verify"}
               THEN found' = [found EXCEPT ![s] = @ \cup {h}] /\ UNCHANGED at
               ELSE /\ at' = [at EXCEPT ![s] = IF live[s] THEN h ELSE None]
                    /\ UNCHANGED found
  /\ UNCHANGED <<sources, files, tool, live, through>>

SyncLook(s) == Look(s, "sync", Applies)
ClassifyLook(s) == Look(s, "classify", IsMissing)
FinalizeLook(s) == Look(s, "finalize", IsUnavailable)
VerifyLook(s) == Look(s, "verify", HasProblem)

\* copy_atomic reads the source anew, and write_placeholder_for makes its bytes;
\* both rename a temporary file in.
Write(s, t, bytes) ==
  /\ tool[s] = t /\ at[s] # None
  /\ images' = [images EXCEPT ![at[s]] = bytes]
  /\ at' = [at EXCEPT ![s] = None]
  /\ UNCHANGED <<sources, manifest, pending, verdict, tool, live, todo, found, through>>

SyncCopy(s) == at[s] # None /\ out[at[s]] # None /\ Write(s, "sync", out[at[s]])
FinalizeWrite(s) == Write(s, "finalize", "final")

Done(s, t) == tool[s] = t /\ todo[s] = {} /\ at[s] = None /\ End(s)
Reach(step, ok) == through' = IF ok THEN step ELSE through

SyncEnd(s) ==
  Done(s, "sync") /\ Reach(1, live[s]) /\ UNCHANGED <<sources, files>>

ClassifyEnd(s) ==
  /\ Done(s, "classify")
  /\ pending' = found[s]
  /\ through' = IF through = 0 THEN 0 ELSE 2
  /\ UNCHANGED <<sources, images, manifest, verdict>>

FinalizeEnd(s) ==
  Done(s, "finalize") /\ Reach(3, live[s] /\ through = 2) /\ UNCHANGED <<sources, files>>

VerifyEnd(s) ==
  /\ Done(s, "verify")
  /\ verdict' = IF found[s] = {} THEN "pass" ELSE "fail"
  /\ UNCHANGED <<sources, images, manifest, pending, through>>

\* Killed, or a write raises: what it has written stays, its report is lost.
Abort(s) ==
  tool[s] # "none" /\ End(s) /\ UNCHANGED <<sources, files, through>>

-----------------------------------------------------------------------------
Run(s) ==
  \/ StartSync(s) \/ SyncLook(s) \/ SyncCopy(s) \/ SyncEnd(s)
  \/ StartClassify(s) \/ ClassifyLook(s) \/ ClassifyEnd(s)
  \/ StartFinalize(s) \/ FinalizeLook(s) \/ FinalizeWrite(s) \/ FinalizeEnd(s)
  \/ StartVerify(s) \/ VerifyLook(s) \/ VerifyEnd(s)
  \/ Abort(s)

Next == BuildManifest \/ \E s \in Scripts : Run(s)

=============================================================================
