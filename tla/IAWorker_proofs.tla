--------------------------- MODULE IAWorker_proofs ---------------------------
(* Proofs about IAWorker, for any manifest, archive and payloads. *)
EXTENDS IAWorker, TLAPS

USE ItemsAssumption, HashOfAssumption, NameOfAssumption, ShardOfAssumption,
    StorageAssumption, NoneAssumption

\* What a loop works on is the shard that is open, which no later loop opens.
LoopInv ==
  /\ phase = "off" => picked = {}
  /\ phase \notin Looping => shard = {} /\ todo = {} /\ entry = None /\ txn = NoRow
  /\ entry # None => entry.item \in shard
  /\ \A i \in shard : ShardOfItem(i) \notin shards
  /\ \A h \in Hashes : txn[h] # None => \E i \in shard : HashOf[i] = h

\* A row without a line is about to be replaced: by the error that record() is
\* called with again, or by the loop that calls the whole shard an error.
LineInv ==
  \A h \in Hashes : txn[h] # None =>
    \/ txn[h] \in results[h]
    \/ entry # None /\ HashOf[entry.item] = h
    \/ phase = "abort" /\ \E i \in todo : HashOf[i] = h

\* What is still to be extracted, if it has a hash of its own, is neither on disk
\* nor ok anywhere ...
FreshInv ==
  /\ \A i \in picked : ShardOfItem(i) \in shards /\ Single(HashOf[i]) =>
       file[HashOf[i]] = None /\ ~IsOk(rows[HashOf[i]])
  /\ \A i \in shard : Single(HashOf[i]) => ~IsOk(rows[HashOf[i]])
  /\ phase = "members" => \A i \in todo :
       /\ Single(HashOf[i]) => file[HashOf[i]] = None /\ txn[HashOf[i]] = None
       /\ entry # None => entry.item # i

\* ... and what is ok, or about to be, is on disk.
DiskInv ==
  /\ OkIsOnDisk
  /\ \A h \in Hashes : IsOk(txn[h]) => Backed(h, txn[h])
  /\ entry # None /\ IsOk(entry.row) => Backed(HashOf[entry.item], entry.row)

-----------------------------------------------------------------------------
(* Types and loops *)

LEMMA HashOfItem == \A i \in Items : HashOf[i] \in Hashes
OBVIOUS

LEMMA ShardOfItems == \A i \in Items : ShardOfItem(i) \in {ShardOf[n] : n \in Names}
BY DEF ShardOfItem

LEMMA FailedRow == Failed \in Row /\ ~IsOk(Failed)
BY DEF Failed, Row, Status, IsOk

LEMMA InitTyped == Init => TypeOK /\ LoopInv
BY DEF Init, TypeOK, LoopInv, NoRow, Looping

LEMMA GoneTyped ==
  ASSUME TypeOK, Gone, UNCHANGED <<file, rows>>,
         results' \in [Hashes -> SUBSET Row]
  PROVE  TypeOK' /\ LoopInv'
BY DEF Gone, TypeOK, LoopInv, NoRow, Looping

LEMMA ReportMade ==
  ASSUME NEW i \in Items, NEW row \in Row, NEW tried \in BOOLEAN, Report(i, row, tried)
  PROVE  entry' \in Entry /\ entry' # None /\ entry'.item = i /\ entry'.row = row
<1>1. entry' = [item |-> i, row |-> row, tried |-> tried] BY DEF Report
<1>2. entry' \in Entry BY <1>1 DEF Entry
<1> QED BY <1>1, <1>2

\* One member or item is reached and reported.
LEMMA ReportTyped ==
  ASSUME TypeOK, LoopInv, NEW i \in Items, NEW row \in Row, NEW tried \in BOOLEAN,
         Reach(i), Report(i, row, tried), file' \in [Hashes -> Payloads \cup {None}]
  PROVE  TypeOK' /\ LoopInv'
<1>1. [item |-> i, row |-> row, tried |-> tried] \in Entry BY DEF Entry
<1>2. entry' \in Entry /\ entry'.item = i BY <1>1 DEF Report
<1>3. TypeOK' BY <1>2 DEF TypeOK, Reach
<1>4. LoopInv' BY <1>2 DEF TypeOK, Reach, LoopInv, ShardOfItem, Looping
<1> QED BY <1>3, <1>4

LEMMA InsertTyped ==
  ASSUME TypeOK, entry # None, Insert
  PROVE  /\ txn' \in [Hashes -> Row \cup {None}]
         /\ entry \in Entry /\ entry.item \in Items /\ HashOf[entry.item] \in Hashes
         /\ txn'[HashOf[entry.item]] = entry.row /\ entry.row \in Row
         /\ \A h \in Hashes \ {HashOf[entry.item]} : txn'[h] = txn[h]
BY DEF TypeOK, Entry, Insert

LEMMA StepTyped ==
  ASSUME TypeOK, LoopInv, Step PROVE TypeOK' /\ LoopInv'
<1> USE DEF disk
<1>1. CASE OpenShard
  <2>1. PICK s \in shards :
          /\ shards' = shards \ {s}
          /\ shard' = {i \in picked : ShardOfItem(i) = s}
          /\ \/ phase' = "members" /\ todo' = Wanted(shard')
             \/ phase' \in {"missing", "abort"} /\ todo' = shard'
    BY <1>1 DEF OpenShard
  <2>2. todo' \subseteq shard' BY <2>1 DEF Wanted
  <2>3. UNCHANGED <<disk, txn, picked, entry>> /\ phase = "shards" BY <1>1 DEF OpenShard
  <2>4. TypeOK' BY <2>1, <2>2, <2>3 DEF TypeOK, Looping
  <2>5. entry = None /\ \A h \in Hashes : txn[h] = None
    BY <2>3 DEF LoopInv, Looping, NoRow
  <2>6. LoopInv' BY <2>1, <2>3, <2>5 DEF LoopInv, Looping, ShardOfItem
  <2> QED BY <2>4, <2>6
<1>2. ASSUME NEW i \in Items, Extract(i) PROVE TypeOK' /\ LoopInv'
  <2>1. PICK c \in Payloads :
          /\ file' = [file EXCEPT ![HashOf[i]] = c]
          /\ Report(i, [status |-> "ok", content |-> c], TRUE)
    BY <1>2 DEF Extract
  <2>2. [status |-> "ok", content |-> c] \in Row BY DEF Row, Status
  <2>3. file' \in [Hashes -> Payloads \cup {None}] BY <2>1 DEF TypeOK
  <2> QED BY <1>2, <2>1, <2>2, <2>3, ReportTyped DEF Extract
<1>3. ASSUME NEW i \in Items, Refuse(i) \/ Raise(i) \/ Blame(i) PROVE TypeOK' /\ LoopInv'
  <2>1. PICK tried \in BOOLEAN : Report(i, Failed, tried)
    BY <1>3 DEF Refuse, Raise, Blame
  <2>2. Reach(i) /\ UNCHANGED file BY <1>3 DEF Refuse, Raise, Blame
  <2>3. file' \in [Hashes -> Payloads \cup {None}] BY <2>2 DEF TypeOK
  <2> QED BY <2>1, <2>2, <2>3, FailedRow, ReportTyped
<1>4. CASE Record
  <2>1. results' \in [Hashes -> SUBSET Row]
    BY <1>4, InsertTyped DEF Record, TypeOK
  <2>2. TypeOK' BY <1>4, <2>1, InsertTyped DEF Record, TypeOK
  <2>3. phase \in Looping /\ entry.item \in shard BY <1>4 DEF Record, LoopInv
  <2>4. LoopInv' BY <1>4, <2>3, InsertTyped DEF Record, LoopInv, ShardOfItem
  <2> QED BY <2>2, <2>4
<1>5. CASE RecordRaises
  <2>1. [item |-> entry.item, row |-> Failed, tried |-> FALSE] \in Entry
    BY <1>5, FailedRow DEF RecordRaises, TypeOK, Entry
  <2>2. entry' \in Entry /\ entry'.item = entry.item BY <1>5, <2>1 DEF RecordRaises, Report
  <2>3. TypeOK' BY <1>5, <2>2, InsertTyped DEF RecordRaises, TypeOK
  <2>4. phase \in Looping /\ entry.item \in shard BY <1>5 DEF RecordRaises, LoopInv
  <2>5. LoopInv' BY <1>5, <2>2, <2>4, InsertTyped DEF RecordRaises, LoopInv, ShardOfItem
  <2> QED BY <2>3, <2>5
<1>6. CASE LineRaises
  <2>1. TypeOK' BY <1>6, InsertTyped DEF LineRaises, TypeOK, Looping
  <2>2. entry.item \in shard BY <1>6 DEF LineRaises, LoopInv
  <2>3. LoopInv' BY <1>6, <2>2, InsertTyped DEF LineRaises, LoopInv, ShardOfItem, Looping
  <2> QED BY <2>1, <2>3
<1>7. CASE Commit
  <2>1. rows' \in [Hashes -> Row \cup {None}] /\ txn' \in [Hashes -> Row \cup {None}]
    BY <1>7 DEF Commit, TypeOK, Latest, NoRow
  <2>2. TypeOK' BY <1>7, <2>1 DEF Commit, TypeOK
  <2>3. LoopInv' BY <1>7 DEF Commit, LoopInv, Looping, NoRow
  <2> QED BY <2>2, <2>3
<1>8. CASE Finish
  <2>1. results' \in [Hashes -> SUBSET Row] BY <1>8 DEF Finish, TypeOK
  <2> QED BY <1>8, <2>1, GoneTyped DEF Finish
<1> QED BY <1>1, <1>2, <1>3, <1>4, <1>5, <1>6, <1>7, <1>8 DEF Step

LEMMA LoopStep == TypeOK /\ LoopInv /\ [Next]_vars => TypeOK' /\ LoopInv'
<1> SUFFICES ASSUME TypeOK, LoopInv, [Next]_vars PROVE TypeOK' /\ LoopInv' OBVIOUS
<1>1. CASE Launch
  <2>1. picked' \subseteq Items /\ shards' = {ShardOfItem(i) : i \in picked'}
    BY <1>1 DEF Launch
  <2>2. shards' \subseteq {ShardOf[n] : n \in Names} BY <2>1, ShardOfItems
  <2>3. shard = {} /\ todo = {} /\ entry = None /\ txn = NoRow
    BY <1>1 DEF Launch, LoopInv, Looping
  <2>4. TypeOK' BY <1>1, <2>1, <2>2, <2>3 DEF Launch, TypeOK, disk
  <2>5. LoopInv' BY <1>1, <2>3 DEF Launch, LoopInv, NoRow, Looping
  <2> QED BY <2>4, <2>5
<1>2. CASE Die BY <1>2, GoneTyped DEF Die, disk, TypeOK
<1>3. CASE UNCHANGED vars BY <1>3 DEF vars, disk, run, TypeOK, LoopInv, ShardOfItem
<1> QED BY <1>1, <1>2, <1>3, StepTyped DEF Next

\* Every variable keeps its type, and what is inserted belongs to the shard that is
\* open.
THEOREM ArchiveTypes == Spec => [](TypeOK /\ LoopInv)
BY InitTyped, LoopStep, PTL DEF Spec

-----------------------------------------------------------------------------
(* Rows and lines *)

LEMMA LineStep == TypeOK /\ LoopInv /\ LineInv /\ [Next]_vars => LineInv'
<1> SUFFICES ASSUME TypeOK, LoopInv, LineInv, [Next]_vars PROVE LineInv' OBVIOUS
<1> USE DEF disk
<1>1. CASE Launch \/ OpenShard
  <2>1. txn' = NoRow BY <1>1 DEF Launch, OpenShard, LoopInv, Looping
  <2> QED BY <2>1 DEF LineInv, NoRow
<1>2. ASSUME NEW i \in Items, Extract(i) \/ Refuse(i) \/ Raise(i) \/ Blame(i) PROVE LineInv'
  <2>1. PICK row \in Row, tried \in BOOLEAN : Report(i, row, tried)
    <3>1. CASE Extract(i) BY <3>1 DEF Extract, Row, Status
    <3>2. CASE Refuse(i) \/ Raise(i) \/ Blame(i)
      BY <3>2, FailedRow DEF Refuse, Raise, Blame
    <3> QED BY <1>2, <3>1, <3>2
  <2>2. Reach(i) BY <1>2 DEF Extract, Refuse, Raise, Blame
  <2>3. entry' # None /\ entry'.item = i BY <2>1, ReportMade
  <2> QED BY <2>2, <2>3 DEF Reach, LineInv
<1>3. CASE Record
  <2>1. \A h \in Hashes : results[h] \subseteq results'[h]
    BY <1>3, InsertTyped DEF Record, TypeOK
  <2>2. txn'[HashOf[entry.item]] \in results'[HashOf[entry.item]]
    BY <1>3, InsertTyped DEF Record, TypeOK
  <2> QED BY <1>3, <2>1, <2>2, InsertTyped DEF Record, LineInv
<1>4. CASE RecordRaises
  <2>1. entry' # None /\ entry'.item = entry.item
    <3>1. entry.item \in Items /\ Report(entry.item, Failed, FALSE)
      BY <1>4 DEF RecordRaises, TypeOK, Entry
    <3> QED BY <3>1, FailedRow, ReportMade
  <2> QED BY <1>4, <2>1, InsertTyped DEF RecordRaises, LineInv
<1>5. CASE LineRaises
  <2>1. phase' = "abort" /\ todo' = shard /\ results' = results BY <1>5 DEF LineRaises
  <2>2. entry.item \in shard BY <1>5 DEF LineRaises, LoopInv
  <2> QED BY <1>5, <2>1, <2>2, InsertTyped DEF LineRaises, LineInv
<1>6. CASE Commit \/ Finish \/ Die
  <2>1. txn' = NoRow BY <1>6 DEF Commit, Finish, Die, Gone
  <2> QED BY <2>1 DEF LineInv, NoRow
<1>7. CASE UNCHANGED vars BY <1>7 DEF vars, run, LineInv
<1> QED BY <1>1, <1>2, <1>3, <1>4, <1>5, <1>6, <1>7 DEF Next, Step

LEMMA RowsStep == TypeOK /\ LineInv /\ RowsHaveLines /\ [Next]_vars => RowsHaveLines'
<1> SUFFICES ASSUME TypeOK, LineInv, RowsHaveLines, [Next]_vars PROVE RowsHaveLines'
  OBVIOUS
<1> USE DEF RowsHaveLines
<1>1. CASE Commit
  <2>1. \A h \in Hashes : txn[h] # None => txn[h] \in results[h]
    BY <1>1 DEF Commit, LineInv
  <2> QED BY <1>1, <2>1 DEF Commit, Latest
<1>2. CASE Record
  <2>1. \A h \in Hashes : results[h] \subseteq results'[h]
    BY <1>2, InsertTyped DEF Record, TypeOK
  <2> QED BY <1>2, <2>1 DEF Record
<1>3. CASE Finish BY <1>3 DEF Finish
<1>4. CASE UNCHANGED <<rows, results>> BY <1>4
<1> QED
  BY <1>1, <1>2, <1>3, <1>4 DEF Next, Step, vars, disk, Launch, OpenShard, Extract, Refuse,
     Raise, Blame, Reach, RecordRaises, LineRaises, Die

\* Every committed row has its line, whatever write of results.jsonl failed and
\* wherever a run died, duplicate hashes included.
THEOREM RowsKeepLines == Spec => []RowsHaveLines
<1>1. Init => LineInv /\ RowsHaveLines BY DEF Init, LineInv, RowsHaveLines, NoRow
<1> QED BY ArchiveTypes, <1>1, LineStep, RowsStep, PTL DEF Spec

-----------------------------------------------------------------------------
(* The disk and the checkpoint *)

LEMMA InitOnDisk == Init => FreshInv /\ DiskInv
BY DEF Init, FreshInv, DiskInv, OkIsOnDisk, NoRow, IsOk

LEMMA LaunchOnDisk ==
  ASSUME TypeOK, LoopInv, FreshInv, DiskInv, Launch PROVE FreshInv' /\ DiskInv'
<1>1. UNCHANGED <<file, rows, txn, shard, todo, entry>> /\ shard = {} /\ todo = {}
  BY DEF Launch, disk, LoopInv, Looping
<1>2. \A i \in picked' : i \in Items /\ ~Done(HashOf[i]) BY DEF Launch
<1>3. FreshInv' BY <1>1, <1>2 DEF FreshInv, Done
<1>4. DiskInv' BY <1>1 DEF DiskInv, OkIsOnDisk, Backed
<1> QED BY <1>3, <1>4

LEMMA OpenOnDisk ==
  ASSUME TypeOK, LoopInv, FreshInv, DiskInv, OpenShard PROVE FreshInv' /\ DiskInv'
<1>1. PICK s \in shards :
        /\ shards' = shards \ {s}
        /\ shard' = {i \in picked : ShardOfItem(i) = s}
        /\ \/ phase' = "members" /\ todo' = Wanted(shard')
           \/ phase' \in {"missing", "abort"} /\ todo' = shard'
  BY DEF OpenShard
<1>2. UNCHANGED <<file, rows, txn, picked, entry>> BY DEF OpenShard, disk
<1>3. entry = None /\ \A h \in Hashes : txn[h] = None
  BY DEF OpenShard, LoopInv, Looping, NoRow
<1>4. todo' \subseteq shard' /\ shard' \subseteq picked /\ shard' \subseteq Items
  BY <1>1 DEF Wanted, TypeOK
<1>5. \A i \in shard' : Single(HashOf[i]) => file[HashOf[i]] = None /\ ~IsOk(rows[HashOf[i]])
  BY <1>1 DEF FreshInv
<1>6. FreshInv' BY <1>1, <1>2, <1>3, <1>4, <1>5 DEF FreshInv, ShardOfItem
<1>7. DiskInv' BY <1>2 DEF DiskInv, OkIsOnDisk, Backed
<1> QED BY <1>6, <1>7

LEMMA ExtractOnDisk ==
  ASSUME TypeOK, LoopInv, FreshInv, DiskInv, NEW i \in Items, Extract(i)
  PROVE  FreshInv' /\ DiskInv'
<1>1. PICK c \in Payloads :
        /\ file' = [file EXCEPT ![HashOf[i]] = c]
        /\ entry' = [item |-> i, row |-> [status |-> "ok", content |-> c], tried |-> TRUE]
  BY DEF Extract, Report
<1>2. /\ phase = "members" /\ entry = None /\ i \in todo /\ todo' = todo \ {i}
      /\ UNCHANGED <<rows, results, txn, phase, picked, shards, shard>>
  BY DEF Extract, Reach
<1>3. i \in shard /\ HashOf[i] \in Hashes BY <1>2 DEF TypeOK
<1>4. Single(HashOf[i]) => ~IsOk(rows[HashOf[i]]) /\ ~IsOk(txn[HashOf[i]])
  BY <1>2 DEF FreshInv, TypeOK, IsOk
<1>5. file'[HashOf[i]] = c /\ c # None
      /\ \A h \in Hashes : h # HashOf[i] => file'[h] = file[h]
  BY <1>1, <1>3 DEF TypeOK
<1>6. \A j \in Items : j # i /\ Single(HashOf[j]) => HashOf[j] # HashOf[i] BY DEF Single
<1>7. \A j \in Items : j # i /\ Single(HashOf[j]) => file'[HashOf[j]] = file[HashOf[j]]
  BY <1>5, <1>6
<1>8. \A j \in picked : ShardOfItem(j) \in shards => j # i BY <1>3 DEF LoopInv
<1>9. FreshInv' BY <1>1, <1>2, <1>7, <1>8 DEF FreshInv, TypeOK, ShardOfItem
<1>10. \A h \in Hashes, row \in Row :
         Backed(h, row) /\ (h = HashOf[i] => ~Single(h)) => Backed(h, row)'
  BY <1>5 DEF Backed
<1>11. OkIsOnDisk'
  <2> SUFFICES ASSUME NEW h \in Hashes, IsOk(rows[h]) PROVE Backed(h, rows[h])'
    BY <1>2 DEF OkIsOnDisk
  <2>1. rows[h] \in Row BY DEF TypeOK, IsOk
  <2> QED BY <1>2, <1>4, <1>10, <2>1 DEF DiskInv, OkIsOnDisk, Backed
<1>12. \A h \in Hashes : IsOk(txn'[h]) => Backed(h, txn[h])'
  <2> SUFFICES ASSUME NEW h \in Hashes, IsOk(txn[h]) PROVE Backed(h, txn[h])'
    BY <1>2
  <2>1. txn[h] \in Row BY DEF TypeOK, IsOk
  <2> QED BY <1>2, <1>4, <1>10, <2>1 DEF DiskInv, Backed
<1>13. Backed(HashOf[i], [status |-> "ok", content |-> c])' BY <1>5 DEF Backed
<1>14. DiskInv' BY <1>1, <1>11, <1>12, <1>13 DEF DiskInv, Backed
<1> QED BY <1>9, <1>14

LEMMA ReportOnDisk ==
  ASSUME TypeOK, LoopInv, FreshInv, DiskInv, NEW i \in Items,
         Refuse(i) \/ Raise(i) \/ Blame(i)
  PROVE  FreshInv' /\ DiskInv'
<1>1. PICK tried \in BOOLEAN : entry' = [item |-> i, row |-> Failed, tried |-> tried]
  BY DEF Refuse, Raise, Blame, Report
<1>2. /\ i \in todo /\ todo' = todo \ {i}
      /\ UNCHANGED <<file, rows, txn, phase, picked, shards, shard>>
  BY DEF Refuse, Raise, Blame, Reach
<1>3. FreshInv' BY <1>1, <1>2 DEF FreshInv, ShardOfItem
<1>4. DiskInv' BY <1>1, <1>2, FailedRow DEF DiskInv, OkIsOnDisk, Backed
<1> QED BY <1>3, <1>4

LEMMA RecordOnDisk ==
  ASSUME TypeOK, LoopInv, FreshInv, DiskInv, Record \/ RecordRaises \/ LineRaises
  PROVE  FreshInv' /\ DiskInv'
<1>1. UNCHANGED <<file, rows, picked, shards, shard>> /\ entry # None
  BY DEF Record, RecordRaises, LineRaises, disk
<1>2. \A h \in Hashes :
        txn'[h] = txn[h] \/ (h = HashOf[entry.item] /\ txn'[h] = entry.row)
  <2>1. CASE Insert BY <1>1, <2>1, InsertTyped
  <2>2. CASE UNCHANGED txn BY <2>2
  <2> QED BY <2>1, <2>2 DEF Record, RecordRaises, LineRaises
<1>3. \/ entry' = None
      \/ entry'.item = entry.item /\ entry'.row = Failed
  BY DEF Record, RecordRaises, LineRaises, Report
<1>4. phase' = "members" => phase = "members" /\ todo' = todo
  BY DEF Record, RecordRaises, LineRaises
<1>5. \A i \in todo : i \in Items BY DEF TypeOK
<1>6. entry.item \in Items BY <1>1 DEF TypeOK, Entry
<1>7. phase = "members" =>
        \A i \in todo : Single(HashOf[i]) => txn'[HashOf[i]] = txn[HashOf[i]]
  <2> SUFFICES ASSUME phase = "members", NEW i \in todo, Single(HashOf[i])
               PROVE  txn'[HashOf[i]] = txn[HashOf[i]]
    OBVIOUS
  <2>1. entry.item # i BY <1>1 DEF FreshInv
  <2>2. HashOf[entry.item] # HashOf[i] BY <1>5, <1>6, <2>1 DEF Single
  <2> QED BY <1>2, <1>5, <2>2
<1>8. FreshInv' BY <1>1, <1>3, <1>4, <1>7 DEF FreshInv, ShardOfItem
<1>9. DiskInv' BY <1>1, <1>2, <1>3, FailedRow DEF DiskInv, OkIsOnDisk, Backed
<1> QED BY <1>8, <1>9

\* The commit touches the rows of the open shard only.
LEMMA CommitOnDisk ==
  ASSUME TypeOK, LoopInv, FreshInv, DiskInv, Commit
  PROVE  FreshInv' /\ DiskInv'
<1>1. /\ UNCHANGED <<file, picked, shards, todo, entry>> /\ shard' = {} /\ todo = {}
      /\ entry = None
  BY DEF Commit
<1>2. \A h \in Hashes : rows'[h] = Latest(h) /\ txn'[h] = None BY DEF Commit, NoRow
<1>3. \A i \in picked : i \in Items /\ HashOf[i] \in Hashes BY DEF TypeOK
<1>4. \A i \in picked : ShardOfItem(i) \in shards /\ Single(HashOf[i]) => txn[HashOf[i]] = None
  BY <1>3 DEF LoopInv, Single, TypeOK
<1>5. FreshInv' BY <1>1, <1>2, <1>3, <1>4 DEF FreshInv, Latest, ShardOfItem
<1>6. DiskInv' BY <1>1, <1>2 DEF DiskInv, OkIsOnDisk, Backed, Latest, IsOk
<1> QED BY <1>5, <1>6

LEMMA GoneOnDisk ==
  ASSUME DiskInv, Gone, UNCHANGED <<file, rows>> PROVE FreshInv' /\ DiskInv'
BY DEF Gone, FreshInv, DiskInv, OkIsOnDisk, Backed, NoRow, IsOk

LEMMA DiskInvariant == Spec => [](FreshInv /\ DiskInv)
<1>1. TypeOK /\ LoopInv /\ FreshInv /\ DiskInv /\ [Next]_vars => FreshInv' /\ DiskInv'
  <2> SUFFICES ASSUME TypeOK, LoopInv, FreshInv, DiskInv, [Next]_vars
               PROVE  FreshInv' /\ DiskInv'
    OBVIOUS
  <2>1. CASE UNCHANGED vars
    BY <2>1 DEF vars, disk, run, FreshInv, DiskInv, OkIsOnDisk, Backed, ShardOfItem
  <2>2. CASE Die BY <2>2, GoneOnDisk DEF Die, disk
  <2>3. CASE Finish BY <2>3, GoneOnDisk DEF Finish
  <2> QED
    BY <2>1, <2>2, <2>3, LaunchOnDisk, OpenOnDisk, ExtractOnDisk, ReportOnDisk, RecordOnDisk,
       CommitOnDisk DEF Next, Step
<1> QED BY ArchiveTypes, InitOnDisk, <1>1, PTL DEF Spec

\* What the checkpoint calls ok is in out-dir, as recorded if one row of the
\* manifest names the hash: for any manifest, whatever raises and wherever runs die.
THEOREM ArchiveRowsOnDisk == Spec => []OkIsOnDisk
BY DiskInvariant, PTL DEF DiskInv

-----------------------------------------------------------------------------
(* Completed hashes *)

\* A hash that is ok when no run is going on is picked by no later run.
Completed(h, r, c) ==
  /\ rows[h] = r /\ file[h] = c
  /\ txn[h] = None
  /\ \A i \in picked : HashOf[i] # h

LEMMA StepSpares ==
  ASSUME TypeOK, LoopInv, NEW h \in Hashes, NEW r, NEW c, Completed(h, r, c), Step
  PROVE  Completed(h, r, c)'
<1> USE DEF Completed
<1>1. ASSUME NEW i \in Items, Extract(i) PROVE Completed(h, r, c)'
  <2>1. HashOf[i] # h BY <1>1 DEF Extract, Reach, TypeOK
  <2> QED BY <1>1, <2>1 DEF Extract, Reach, TypeOK
<1>2. CASE Record \/ RecordRaises \/ LineRaises
  <2>1. entry # None /\ UNCHANGED <<file, rows, picked>>
    BY <1>2 DEF Record, RecordRaises, LineRaises, disk
  <2>2. entry.item \in picked BY <2>1 DEF LoopInv, TypeOK
  <2>3. txn'[h] = txn[h]
    <3>1. CASE Insert BY <2>1, <2>2, <3>1, InsertTyped
    <3>2. CASE UNCHANGED txn BY <3>2
    <3> QED BY <1>2, <3>1, <3>2 DEF Record, RecordRaises, LineRaises
  <2> QED BY <2>1, <2>3
<1>3. CASE Commit BY <1>3 DEF Commit, Latest, NoRow
<1>4. CASE Finish BY <1>4 DEF Finish, Gone, NoRow
<1>5. CASE UNCHANGED <<file, rows, txn, picked>> BY <1>5
<1> QED
  BY <1>1, <1>2, <1>3, <1>4, <1>5 DEF Step, OpenShard, Refuse, Raise, Blame, Reach, disk

\* Completed hashes survive every later run, row and file: for any manifest and
\* archive, whatever raises and wherever runs die.
THEOREM ArchiveCompletedStays == Spec => CompletedSurvive
<1> SUFFICES ASSUME NEW h \in Hashes, NEW r \in [status : {"ok"}, content : Payloads],
                    NEW c \in Payloads
             PROVE  Spec => [](phase = "off" /\ rows[h] = r /\ file[h] = c
                                 => [](rows[h] = r /\ file[h] = c))
  BY DEF CompletedSurvive
<1> DEFINE K == Completed(h, r, c)
<1>1. TypeOK /\ LoopInv /\ phase = "off" /\ rows[h] = r /\ file[h] = c => K
  <2> SUFFICES ASSUME TypeOK, LoopInv, phase = "off", rows[h] = r, file[h] = c PROVE K
    OBVIOUS
  <2> QED BY DEF LoopInv, Completed, NoRow, Looping
<1>2. TypeOK /\ LoopInv /\ K /\ [Next]_vars => K'
  <2> SUFFICES ASSUME TypeOK, LoopInv, K, [Next]_vars PROVE K' OBVIOUS
  <2>1. CASE Launch
    <3>1. IsOk(r) BY NoneAssumption DEF IsOk, Row, Status
    <3>2. \A i \in picked' : HashOf[i] # h BY <2>1, <3>1 DEF Launch, Done, Completed
    <3> QED BY <2>1, <3>2 DEF Launch, Completed, disk
  <2>2. CASE Die BY <2>2 DEF Die, Gone, Completed, NoRow, disk
  <2>3. CASE UNCHANGED vars BY <2>3 DEF vars, disk, run, Completed
  <2> QED BY <2>1, <2>2, <2>3, StepSpares DEF Next
<1>3. K => rows[h] = r /\ file[h] = c BY DEF Completed
<1> QED BY ArchiveTypes, <1>1, <1>2, <1>3, PTL DEF Spec

=============================================================================
