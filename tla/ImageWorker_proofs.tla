-------------------------- MODULE ImageWorker_proofs --------------------------
(* Proofs about ImageWorker, for any manifest, pool size and retry limit. *)
EXTENDS ImageWorker, TLAPS

USE HashOfAssumption, RetriesAssumption, StorageAssumption, WorkerNamesAssumption

Inv == TypeOK /\ PoolInv

LEMMA RowFacts ==
  /\ Failed \in Row
  /\ \A s \in Status, c \in Payloads \cup {None} : [status |-> s, content |-> c] \in Row
  /\ None \notin Row
BY DEF Failed, Row, Status

LEMMA FirstSubset == ASSUME NEW n, NEW S PROVE First(n, S) \subseteq S
BY DEF First

\* A fresh or an ended run: nothing in memory, nothing uncommitted.
LEMMA ResetTyped ==
  ASSUME TypeOK, Reset, main' = "off", txn' = NoRow, file' = file, rows' = rows,
         results' \subseteq Line
  PROVE  TypeOK' /\ PoolInv'
<1>1. txn' \in [Hashes -> Row \cup {None}] BY DEF NoRow
<1>2. pc' \in [Workers -> Quiet \cup Saving \cup {"fetch"}] BY DEF Reset, Quiet
<1>3. at' \in [Workers -> Items \cup {None}] /\ attempt' \in [Workers -> 0..MaxRetries]
  BY DEF Reset
<1>4. outcome' \in [Workers -> Row] BY RowFacts DEF Reset
<1>5. TypeOK' BY <1>1, <1>2, <1>3, <1>4 DEF TypeOK, Reset
<1>6. \A w \in Workers : pc'[w] = "idle" /\ at'[w] = None BY DEF Reset
<1>7. PoolInv' BY <1>6 DEF PoolInv, Reset, Busy, Saving
<1> QED BY <1>5, <1>7

LEMMA InitTyped == Init => TypeOK /\ PoolInv
<1> SUFFICES ASSUME Init PROVE TypeOK /\ PoolInv OBVIOUS
<1>1. rows \in [Hashes -> Row \cup {None}] /\ txn \in [Hashes -> Row \cup {None}]
  BY DEF Init, NoRow
<1>2. pc \in [Workers -> Quiet \cup Saving \cup {"fetch"}] BY DEF Init, Quiet
<1>3. at \in [Workers -> Items \cup {None}] /\ attempt \in [Workers -> 0..MaxRetries]
  BY DEF Init
<1>4. outcome \in [Workers -> Row] BY RowFacts DEF Init
<1>5. TypeOK BY <1>1, <1>2, <1>3, <1>4 DEF TypeOK, Init
<1>6. \A w \in Workers : pc[w] = "idle" /\ at[w] = None BY DEF Init
<1>7. PoolInv BY <1>6 DEF PoolInv, Init, Busy, Saving
<1> QED BY <1>5, <1>7

\* fetch ends: the worker keeps its item and goes on to save an outcome.
LEMMA DecideTyped ==
  ASSUME TypeOK, PoolInv, NEW w \in Workers, NEW place \in Saving, NEW s \in Status,
         NEW c \in Payloads \cup {None}, Decide(w, place, s, c)
  PROVE  TypeOK' /\ PoolInv'
<1> USE DEF Decide, Become, Frame, disk
<1>1. outcome' \in [Workers -> Row] BY RowFacts DEF TypeOK
<1>2. attempt' \in [Workers -> 0..MaxRetries] BY DEF TypeOK
<1>3. TypeOK' BY <1>1, <1>2 DEF TypeOK
<1>4. \A v \in Workers : pc'[v] \in Busy <=> pc[v] \in Busy
  BY DEF TypeOK, Busy, Saving
<1>5. PoolInv' BY <1>4 DEF PoolInv
<1> QED BY <1>3, <1>5

\* One step of a worker, whichever it is.
LEMMA WorkTyped ==
  ASSUME TypeOK, PoolInv, NEW w \in Workers, Work(w)
  PROVE  TypeOK' /\ PoolInv'
<1> USE DEF Become, Frame, disk, pool
<1>1. CASE Take(w)
  <2>1. PICK i \in queue :
          /\ queue' = queue \ {i}
          /\ IF stop THEN UNCHANGED pool
             ELSE /\ Become(w, "fetch")
                  /\ at' = [at EXCEPT ![w] = i]
                  /\ UNCHANGED <<attempt, outcome>>
    BY <1>1 DEF Take
  <2>2. i \in Items /\ i # None BY DEF TypeOK
  <2>3. TypeOK' BY <1>1, <2>1, <2>2 DEF Take, TypeOK
  <2>a. main' = "work" /\ main = "work" /\ picked' = picked BY <1>1 DEF Take
  <2>4. CASE stop
    <3>1. pc' = pc /\ at' = at BY <2>1, <2>4
    <3>2. PoolInv' BY <2>1, <2>a, <3>1 DEF PoolInv
    <3> QED BY <2>3, <3>2
  <2>5. CASE ~stop
    <3>1. \A v \in Workers \ {w} : pc'[v] = pc[v] /\ at'[v] = at[v]
      BY <2>1, <2>5 DEF TypeOK
    <3>2. pc'[w] = "fetch" /\ at'[w] = i BY <2>1, <2>5 DEF TypeOK
    <3>3. \A v \in Workers : at[v] # i BY DEF PoolInv, TypeOK
    <3>4. i \in picked BY DEF TypeOK
    <3>5. PoolInv'
      <4>1. \A v \in Workers : pc'[v] \in Busy <=> at'[v] # None
        BY <2>2, <3>1, <3>2 DEF PoolInv, Busy
      <4>2. \A v \in Workers : at'[v] # None => at'[v] \in picked' \ queue'
        BY <2>1, <2>a, <3>1, <3>2, <3>4 DEF PoolInv
      <4>3. \A u, v \in Workers : at'[u] = at'[v] /\ at'[u] # None => u = v
        BY <3>1, <3>2, <3>3 DEF PoolInv
      <4> QED BY <2>a, <4>1, <4>2, <4>3 DEF PoolInv
    <3> QED BY <2>3, <3>5
  <2> QED BY <2>3, <2>4, <2>5
<1>2. CASE Retry(w)
  <2>1. attempt' \in [Workers -> 0..MaxRetries] BY <1>2 DEF Retry, TypeOK
  <2> QED BY <1>2, <2>1 DEF Retry, TypeOK, PoolInv
<1>3. CASE Fetched(w)
  BY <1>3, DecideTyped DEF Fetched, Saving, Status
<1>4. CASE Refused(w)
  BY <1>4, DecideTyped DEF Refused, Saving, Status
<1>5. CASE OutOfQuota(w)
  BY <1>5, DecideTyped DEF OutOfQuota, Saving, Status
<1>6. CASE FetchRaises(w)
  BY <1>6, DecideTyped DEF FetchRaises, Saving, Status
<1>7. ASSUME pc[w] \in Saving PROVE at[w] \in Items /\ Mine(w) \in Hashes
  BY <1>7 DEF PoolInv, Busy, Mine, TypeOK
<1>8. CASE Promote(w)
  <2>1. \A v \in Workers : pc'[v] \in Busy <=> pc[v] \in Busy
    BY <1>8 DEF Promote, TypeOK, Busy, Saving
  <2>2. outcome[w].content \in Payloads \cup {None} BY DEF TypeOK, Row
  <2>3. file' \in [Hashes -> Payloads \cup {None}] BY <1>8, <2>2 DEF Promote, TypeOK
  <2>4. TypeOK' BY <1>8, <2>3 DEF Promote, TypeOK, Saving
  <2>5. PoolInv' BY <1>8, <2>1 DEF Promote, PoolInv
  <2> QED BY <2>4, <2>5
<1>9. CASE Insert(w)
  <2>1. \A v \in Workers : pc'[v] \in Busy <=> pc[v] \in Busy
    BY <1>9 DEF Insert, TypeOK, Busy, Saving
  <2>2. txn' \in [Hashes -> Row \cup {None}] BY <1>9 DEF Insert, TypeOK
  <2>3. TypeOK' BY <1>9, <2>2 DEF Insert, TypeOK, Saving
  <2>4. main # "off" BY <1>9 DEF Insert, PoolInv, Busy, Saving
  <2>5. PoolInv' BY <1>9, <2>1, <2>4 DEF Insert, PoolInv
  <2> QED BY <2>3, <2>5
<1>10. CASE Commit(w)
  <2>1. \A v \in Workers : pc'[v] \in Busy <=> pc[v] \in Busy
    BY <1>10 DEF Commit, TypeOK, Busy, Saving
  <2>2. rows' \in [Hashes -> Row \cup {None}] BY <1>10 DEF Commit, TypeOK, Inserted
  <2>3. txn' \in [Hashes -> Row \cup {None}] BY <1>10 DEF Commit, NoRow
  <2>4. TypeOK' BY <1>10, <2>2, <2>3 DEF Commit, TypeOK, Saving
  <2>5. PoolInv' BY <1>10, <2>1 DEF Commit, PoolInv
  <2> QED BY <2>4, <2>5
<1>11. ASSUME pc[w] = "line" PROVE MyLine(w) \in Line
  BY <1>7, <1>11 DEF MyLine, Line, TypeOK, Saving
<1>12. CASE Append(w)
  <2>1. pc[w] = "line" BY <1>12 DEF Append
  <2>2. at[w] \in Items BY <1>7, <2>1 DEF Saving
  <2>3. \A v \in Workers \ {w} : pc'[v] = pc[v] /\ at'[v] = at[v]
    BY <1>12 DEF Append, TypeOK
  <2>4. pc'[w] = "idle" /\ at'[w] = None BY <1>12 DEF Append, TypeOK
  <2>5. outcome' \in [Workers -> Row] BY <1>12, RowFacts DEF Append, TypeOK
  <2>6. stop' \in BOOLEAN BY <1>12 DEF Append, TypeOK
  <2>7. results' \subseteq Line BY <1>11, <1>12, <2>1 DEF Append, TypeOK
  <2>8. pc' \in [Workers -> Quiet \cup Saving \cup {"fetch"}]
        /\ at' \in [Workers -> Items \cup {None}]
    BY <1>12 DEF Append, TypeOK, Quiet
  <2>9. PoolInv' BY <1>12, <2>3, <2>4 DEF Append, PoolInv, Busy, Saving
  <2>10. at[w] \in picked BY <2>1 DEF PoolInv, Busy, Saving
  <2> QED BY <1>12, <2>5, <2>6, <2>7, <2>8, <2>9, <2>10 DEF Append, TypeOK
<1>13. CASE SaveRaises(w)
  <2>1. results' \subseteq Line
    BY <1>11, <1>13 DEF SaveRaises, TypeOK
  <2>2. CASE outcome[w].status = "error"
    <3>1. \A v \in Workers \ {w} : pc'[v] = pc[v] /\ at'[v] = at[v]
      BY <1>13, <2>2 DEF SaveRaises, TypeOK
    <3>2. pc'[w] = "dead" /\ at'[w] = None BY <1>13, <2>2 DEF SaveRaises, TypeOK
    <3>3. PoolInv' BY <1>13, <3>1, <3>2 DEF SaveRaises, PoolInv, Busy, Saving
    <3>4. TypeOK' BY <1>13, <2>1, <2>2 DEF SaveRaises, TypeOK, Quiet
    <3> QED BY <3>3, <3>4
  <2>3. CASE outcome[w].status # "error"
    <3>1. \A v \in Workers : pc'[v] \in Busy <=> pc[v] \in Busy
      BY <1>13, <2>3 DEF SaveRaises, TypeOK, Busy, Saving
    <3>2. outcome' \in [Workers -> Row] BY <1>13, <2>3, RowFacts DEF SaveRaises, TypeOK
    <3>3. PoolInv' BY <1>13, <2>3, <3>1 DEF SaveRaises, PoolInv
    <3>4. TypeOK' BY <1>13, <2>1, <2>3, <3>2 DEF SaveRaises, TypeOK, Saving
    <3> QED BY <3>3, <3>4
  <2> QED BY <2>2, <2>3
<1> QED BY <1>1, <1>2, <1>3, <1>4, <1>5, <1>6, <1>8, <1>9, <1>10, <1>12, <1>13 DEF Work

\* A run starts on pending items only.
LEMMA LaunchTyped ==
  ASSUME TypeOK, PoolInv, Launch
  PROVE  TypeOK' /\ PoolInv' /\ picked' \subseteq Pending /\ queue' = picked'
<1>1. PICK n \in 1..Cardinality(Items) : picked' = First(n, Pending) BY DEF Launch
<1>2. picked' \subseteq Pending BY <1>1, FirstSubset
<1>3. picked' \subseteq Items BY <1>2 DEF Pending
<1>4. TypeOK'
  <2>1. seen = {} BY DEF Launch, PoolInv, TypeOK
  <2> QED BY <1>3, <2>1 DEF Launch, TypeOK, disk, pool
<1>5. \A w \in Workers : at[w] = None BY DEF Launch, PoolInv
<1>6. PoolInv' BY <1>5 DEF Launch, PoolInv, disk, pool
<1> QED BY <1>2, <1>4, <1>6 DEF Launch

\* The steps of main_async that end a run.
LEMMA EndTyped ==
  ASSUME TypeOK, PoolInv, Joined \/ Rewrite \/ Crash
  PROVE  TypeOK' /\ PoolInv'
<1>1. CASE Crash
  BY <1>1, ResetTyped DEF Crash, disk, TypeOK
<1>2. CASE Rewrite
  <2>1. \A h \in Hashes : Inserted(h) # None => [hash |-> h, row |-> Inserted(h)] \in Line
    BY DEF Inserted, TypeOK, Line
  <2>2. results' \subseteq Line BY <1>2, <2>1 DEF Rewrite
  <2> QED BY <1>2, <2>2, ResetTyped DEF Rewrite
<1>3. CASE Joined
  <2>1. CASE \E w \in Workers : pc[w] = "dead"
    BY <1>3, <2>1, ResetTyped DEF Joined, disk, TypeOK
  <2>2. CASE ~\E w \in Workers : pc[w] = "dead"
    <3>1. main' = "rewrite" /\ UNCHANGED <<disk, txn, picked, queue, stop, seen, pool>>
      BY <1>3, <2>2 DEF Joined
    <3>2. TypeOK' BY <3>1 DEF TypeOK, disk, pool
    <3>3. \A w \in Workers : at[w] = None
      BY <1>3 DEF Joined, PoolInv, Quiet, Busy, Saving, TypeOK
    <3>4. queue = {} BY <1>3 DEF Joined
    <3>5. PoolInv' BY <3>1, <3>3, <3>4 DEF PoolInv, pool
    <3> QED BY <3>2, <3>5
  <2> QED BY <2>1, <2>2
<1> QED BY <1>1, <1>2, <1>3

LEMMA InvStep == TypeOK /\ PoolInv /\ [Next]_vars => TypeOK' /\ PoolInv'
<1> SUFFICES ASSUME TypeOK, PoolInv, [Next]_vars PROVE TypeOK' /\ PoolInv' OBVIOUS
<1>1. CASE UNCHANGED vars BY <1>1 DEF vars, disk, pool, TypeOK, PoolInv
<1> QED BY <1>1, LaunchTyped, EndTyped, WorkTyped DEF Next

\* Type correctness, and a worker has an item of its own exactly while it works.
THEOREM WorkerTypes == Spec => [](TypeOK /\ PoolInv)
BY InitTyped, InvStep, PTL DEF Spec

-----------------------------------------------------------------------------
(* The disk and the checkpoint *)

LEMMA InitOnDisk == Init => FreshInv /\ DiskInv
<1> SUFFICES ASSUME Init PROVE FreshInv /\ DiskInv OBVIOUS
<1>1. \A h \in Hashes : rows[h] = None /\ txn[h] = None BY DEF Init, NoRow
<1>2. \A w \in Workers : pc[w] = "idle" BY DEF Init
<1>3. FreshInv BY <1>2 DEF Init, FreshInv
<1>4. DiskInv BY <1>1, <1>2 DEF DiskInv, OkIsOnDisk, IsOk
<1> QED BY <1>3, <1>4

LEMMA HashAt ==
  ASSUME TypeOK, PoolInv, NEW w \in Workers, pc[w] \in Busy
  PROVE  at[w] \in Items /\ Mine(w) \in Hashes
BY DEF TypeOK, PoolInv, Mine

\* A hash with a single row in the manifest that a worker is at is neither queued
\* nor worked on by another.
LEMMA OwnHash ==
  ASSUME TypeOK, PoolInv, NEW w \in Workers, pc[w] \in Busy, Single(Mine(w))
  PROVE  /\ \A i \in queue : HashOf[i] # Mine(w)
         /\ \A v \in Workers \ {w} : pc[v] \in Busy => Mine(v) # Mine(w)
<1> USE DEF TypeOK, PoolInv, Mine
<1>1. at[w] \in Items /\ at[w] \notin queue OBVIOUS
<1>2. \A i \in queue : i \in Items OBVIOUS
<1>3. \A v \in Workers \ {w} : pc[v] \in Busy => at[v] \in Items /\ at[v] # at[w] OBVIOUS
<1> QED BY <1>1, <1>2, <1>3 DEF Single

LEMMA WorkOnDisk ==
  ASSUME TypeOK, PoolInv, FreshInv, DiskInv, NEW w \in Workers, Work(w)
  PROVE  FreshInv' /\ DiskInv'
<1> USE DEF Become, Frame, disk, pool
<1>busy. /\ "fetch" \in Busy /\ "promote" \in Busy /\ "insert" \in Busy
         /\ "commit" \in Busy /\ "line" \in Busy
  BY DEF Busy, Saving
<1>queue. \A i \in queue : HashOf[i] \in Hashes BY DEF TypeOK
<1>1. CASE Take(w)
  <2>1. PICK i \in queue :
          /\ queue' = queue \ {i}
          /\ IF stop THEN UNCHANGED pool
             ELSE /\ Become(w, "fetch")
                  /\ at' = [at EXCEPT ![w] = i]
                  /\ UNCHANGED <<attempt, outcome>>
    BY <1>1 DEF Take
  <2>2. UNCHANGED <<file, rows, txn>> BY <1>1 DEF Take
  <2>3. CASE stop BY <2>1, <2>2, <2>3 DEF FreshInv, DiskInv, OkIsOnDisk, Backed, Open, Mine
  <2>4. CASE ~stop
    <3>1. \A v \in Workers \ {w} : pc'[v] = pc[v] /\ at'[v] = at[v]
      BY <2>1, <2>4 DEF TypeOK
    <3>2. pc'[w] = "fetch" /\ at'[w] = i /\ outcome' = outcome BY <2>1, <2>4 DEF TypeOK
    <3>3. FreshInv' BY <2>1, <2>2, <3>1, <3>2 DEF FreshInv, Open, Mine
    <3>4. DiskInv' BY <2>2, <3>1, <3>2 DEF DiskInv, OkIsOnDisk, Backed, Mine
    <3> QED BY <3>3, <3>4
  <2> QED BY <2>3, <2>4
<1>2. CASE Retry(w)
  BY <1>2 DEF Retry, FreshInv, DiskInv, OkIsOnDisk, Backed, Open, Mine
<1>3. ASSUME Fetched(w) \/ Refused(w) \/ OutOfQuota(w) \/ FetchRaises(w)
      PROVE  FreshInv' /\ DiskInv'
  <2>1. PICK place \in {"promote", "insert"}, status \in Status,
             content \in Payloads \cup {None} :
          /\ Decide(w, place, status, content)
          /\ place = "insert" => status # "ok"
          /\ place = "promote" => content # None
    <3>1. CASE Fetched(w)
      <4>1. PICK c \in Payloads : Decide(w, "promote", "ok", c) BY <3>1 DEF Fetched
      <4>2. c # None BY WorkerNamesAssumption
      <4> QED BY <4>1, <4>2 DEF Status
    <3>2. CASE Refused(w) \/ OutOfQuota(w) \/ FetchRaises(w)
      BY <3>2 DEF Refused, OutOfQuota, FetchRaises, Status
    <3> QED BY <1>3, <3>1, <3>2
  <2>2. UNCHANGED <<file, rows, txn, queue, at>> BY <2>1 DEF Decide
  <2>3. \A v \in Workers \ {w} : pc'[v] = pc[v] /\ outcome'[v] = outcome[v]
    BY <2>1 DEF Decide, TypeOK
  <2>4. pc[w] = "fetch" BY <2>1 DEF Decide
  <2>5. pc'[w] = place /\ outcome'[w].status = status /\ outcome'[w].content = content
    BY <2>1 DEF Decide, TypeOK
  <2>6. FreshInv' BY <2>1, <2>2, <2>3, <2>4, <2>5 DEF FreshInv, Open, Mine
  <2>7. DiskInv' BY <2>1, <2>2, <2>3, <2>5 DEF DiskInv, OkIsOnDisk, Backed, Mine
  <2> QED BY <2>6, <2>7
<1>4. CASE Promote(w)
  <2>1. pc[w] = "promote" /\ UNCHANGED <<rows, txn, queue, at, outcome>>
    BY <1>4 DEF Promote
  <2>2. Mine(w) \in Hashes BY <2>1, <1>busy, HashAt
  <2>3. /\ file'[Mine(w)] = outcome[w].content /\ outcome[w].content # None
        /\ \A h \in Hashes \ {Mine(w)} : file'[h] = file[h]
    BY <1>4, <2>1, <2>2 DEF Promote, TypeOK, DiskInv
  <2>4. pc'[w] = "insert" /\ \A v \in Workers \ {w} : pc'[v] = pc[v]
    BY <1>4 DEF Promote, TypeOK
  <2>5. FreshInv' BY <2>1, <2>4 DEF FreshInv, Open, Mine
  \* Whatever else is backed stays so: another hash, or this one with several rows.
  <2>6. ASSUME NEW h \in Hashes, NEW row, Backed(h, row), h = Mine(w) => ~Single(h)
        PROVE  Backed(h, row)'
    BY <2>3, <2>6 DEF Backed
  <2>7. \A h \in Hashes : IsOk(rows[h]) \/ IsOk(txn[h]) => (h = Mine(w) => ~Single(h))
    BY <2>1 DEF FreshInv, Open
  <2>8. \A v \in Workers \ {w} : pc[v] \in Busy =>
          Mine(v) \in Hashes /\ (Mine(v) = Mine(w) => ~Single(Mine(v)))
    BY <2>1, <1>busy, HashAt, OwnHash
  <2>9. \A h \in Hashes : IsOk(rows[h]) => Backed(h, rows[h])'
    BY <2>1, <2>6, <2>7 DEF DiskInv, OkIsOnDisk, Backed
  <2>10. \A h \in Hashes : IsOk(txn[h]) => Backed(h, txn[h])'
    BY <2>6, <2>7, <2>1 DEF DiskInv, Backed
  <2>11. \A v \in Workers \ {w} :
           pc[v] \in {"insert", "commit", "line"} /\ outcome[v].status = "ok" =>
             Backed(Mine(v), outcome[v])'
    BY <2>6, <2>8, <2>1, <1>busy DEF DiskInv, Backed, Mine
  <2>12. Backed(Mine(w), outcome[w])' BY <2>1, <2>3 DEF Backed, Mine
  <2>13. DiskInv'
    BY <2>1, <2>4, <2>9, <2>10, <2>11, <2>12 DEF DiskInv, OkIsOnDisk, Backed, Mine
  <2> QED BY <2>5, <2>13
<1>5. CASE Insert(w)
  <2>1. pc[w] = "insert" /\ UNCHANGED <<file, rows, queue, at, outcome>>
    BY <1>5 DEF Insert
  <2>2. Mine(w) \in Hashes BY <2>1, <1>busy, HashAt
  <2>3. /\ txn'[Mine(w)] = outcome[w]
        /\ \A h \in Hashes \ {Mine(w)} : txn'[h] = txn[h]
    BY <1>5, <2>2 DEF Insert, TypeOK
  <2>4. pc'[w] = "commit" /\ \A v \in Workers \ {w} : pc'[v] = pc[v]
    BY <1>5 DEF Insert, TypeOK
  <2>5. ASSUME NEW h \in Hashes, Single(h), Open(h), h # Mine(w) PROVE Open(h)'
    BY <2>1, <2>3, <2>5 DEF Open
  <2>6. \A i \in queue : Single(HashOf[i]) => HashOf[i] # Mine(w)
    BY <2>1, <1>busy, OwnHash
  <2>7. \A v \in Workers \ {w} : pc[v] \in Busy =>
          Mine(v) \in Hashes /\ (Single(Mine(v)) => Mine(v) # Mine(w))
    BY <2>1, <1>busy, HashAt, OwnHash
  <2>8. \A i \in queue : Single(HashOf[i]) => Open(HashOf[i])'
    BY <2>5, <2>6, <1>queue DEF FreshInv
  <2>9. \A v \in Workers \ {w} : pc[v] \in {"fetch", "promote"} /\ Single(Mine(v)) =>
          Open(Mine(v))'
    BY <2>1, <2>5, <2>7, <1>busy DEF FreshInv, Open, Mine
  <2>10. FreshInv' BY <2>1, <2>4, <2>8, <2>9 DEF FreshInv, Open, Mine
  <2>11. IsOk(outcome[w]) => Backed(Mine(w), outcome[w])
    BY <2>1 DEF DiskInv, IsOk
  <2>12. DiskInv' BY <2>1, <2>3, <2>4, <2>11 DEF DiskInv, OkIsOnDisk, Backed, Mine
  <2> QED BY <2>10, <2>12
<1>6. CASE Commit(w)
  <2>1. pc[w] = "commit" /\ UNCHANGED <<file, queue, at, outcome>>
    BY <1>6 DEF Commit
  <2>2. \A h \in Hashes : rows'[h] = Inserted(h) /\ txn'[h] = None
    BY <1>6 DEF Commit, NoRow
  <2>3. pc'[w] = "line" /\ \A v \in Workers \ {w} : pc'[v] = pc[v]
    BY <1>6 DEF Commit, TypeOK
  <2>4. \A h \in Hashes : Open(h) => Open(h)' BY <2>2 DEF Open, Inserted, IsOk
  <2>5. \A v \in Workers : pc[v] \in Busy => Mine(v) \in Hashes BY HashAt
  <2>6. FreshInv'
    BY <2>1, <2>3, <2>4, <2>5, <1>queue, <1>busy DEF FreshInv, Mine
  <2>7. \A h \in Hashes : IsOk(Inserted(h)) => Backed(h, Inserted(h))
    BY DEF DiskInv, OkIsOnDisk, Inserted, IsOk
  <2>8. DiskInv' BY <2>1, <2>2, <2>3, <2>7 DEF DiskInv, OkIsOnDisk, Backed, Mine, IsOk
  <2> QED BY <2>6, <2>8
<1>7. CASE Append(w)
  <2>1. UNCHANGED <<file, rows, txn, queue>> BY <1>7 DEF Append
  <2>2. /\ pc'[w] = "idle"
        /\ \A v \in Workers \ {w} :
             pc'[v] = pc[v] /\ at'[v] = at[v] /\ outcome'[v] = outcome[v]
    BY <1>7 DEF Append, TypeOK
  <2>3. FreshInv' BY <2>1, <2>2 DEF FreshInv, Open, Mine
  <2>4. DiskInv' BY <2>1, <2>2 DEF DiskInv, OkIsOnDisk, Backed, Mine
  <2> QED BY <2>3, <2>4
<1>8. CASE SaveRaises(w)
  <2>1. UNCHANGED <<file, rows, txn, queue>> BY <1>8 DEF SaveRaises
  <2>2. /\ pc'[w] = "dead" \/ (pc'[w] = "insert" /\ outcome'[w] = Failed)
        /\ \A v \in Workers \ {w} :
             pc'[v] = pc[v] /\ at'[v] = at[v] /\ outcome'[v] = outcome[v]
    <3>1. CASE outcome[w].status = "error" BY <1>8, <3>1 DEF SaveRaises, TypeOK
    <3>2. CASE outcome[w].status # "error" BY <1>8, <3>2 DEF SaveRaises, TypeOK
    <3> QED BY <3>1, <3>2
  <2>3. FreshInv' BY <2>1, <2>2 DEF FreshInv, Open, Mine
  <2>4. DiskInv' BY <2>1, <2>2 DEF DiskInv, OkIsOnDisk, Backed, Mine, Failed
  <2> QED BY <2>3, <2>4
<1> QED BY <1>1, <1>2, <1>3, <1>4, <1>5, <1>6, <1>7, <1>8 DEF Work

\* The steps of main_async: no worker is at work after them, and what they queue
\* is pending in a checkpoint with nothing uncommitted.
LEMMA MainOnDisk ==
  ASSUME TypeOK, PoolInv, FreshInv, DiskInv, Launch \/ Joined \/ Rewrite \/ Crash
  PROVE  FreshInv' /\ DiskInv'
<1>1. CASE Launch
  <2>1. queue' \subseteq Pending BY <1>1, LaunchTyped
  <2>2. UNCHANGED <<file, rows, txn, pc, at, outcome>> BY <1>1 DEF Launch, disk, pool
  <2>3. txn = NoRow /\ \A w \in Workers : at[w] = None BY <1>1 DEF Launch, PoolInv
  <2>4. \A i \in queue' : Open(HashOf[i])
    <3>1. \A i \in Items : HashOf[i] \in Hashes OBVIOUS
    <3> QED BY <2>1, <2>3, <3>1 DEF Pending, Open, NoRow, IsOk
  <2>5. FreshInv' BY <2>2, <2>4 DEF FreshInv, Open, Mine
  <2>6. DiskInv' BY <2>2 DEF DiskInv, OkIsOnDisk, Backed, Mine
  <2> QED BY <2>5, <2>6
<1>2. ASSUME Reset, txn' = NoRow, UNCHANGED <<file, rows>> PROVE FreshInv' /\ DiskInv'
  <2>1. queue' = {} /\ \A w \in Workers : pc'[w] = "idle" BY <1>2 DEF Reset
  <2>2. FreshInv' BY <2>1 DEF FreshInv
  <2>3. \A h \in Hashes : txn'[h] = None BY <1>2 DEF NoRow
  <2>4. DiskInv' BY <1>2, <2>1, <2>3 DEF DiskInv, OkIsOnDisk, Backed, IsOk
  <2> QED BY <2>2, <2>4
<1>3. CASE Rewrite BY <1>2, <1>3 DEF Rewrite
<1>4. CASE Crash BY <1>2, <1>4 DEF Crash, disk
<1>5. CASE Joined
  <2>1. CASE \E w \in Workers : pc[w] = "dead" BY <1>2, <1>5, <2>1 DEF Joined, disk
  <2>2. CASE ~\E w \in Workers : pc[w] = "dead"
    <3>1. UNCHANGED <<file, rows, txn, queue, pc, at, outcome>>
      BY <1>5, <2>2 DEF Joined, disk, pool
    <3> QED BY <3>1 DEF FreshInv, DiskInv, OkIsOnDisk, Backed, Open, Mine
  <2> QED BY <2>1, <2>2
<1> QED BY <1>1, <1>3, <1>4, <1>5

\* The whole inductive invariant.
LEMMA DiskInvariant == Spec => [](TypeOK /\ PoolInv /\ FreshInv /\ DiskInv)
<1> DEFINE I == TypeOK /\ PoolInv /\ FreshInv /\ DiskInv
<1>1. Init => I BY InitTyped, InitOnDisk
<1>2. I /\ [Next]_vars => I'
  <2> SUFFICES ASSUME I, [Next]_vars PROVE I' OBVIOUS
  <2>1. TypeOK' /\ PoolInv' BY InvStep
  <2>2. CASE UNCHANGED vars
    <3>1. FreshInv' BY <2>2 DEF vars, disk, pool, FreshInv, Open, Mine
    <3>2. DiskInv' BY <2>2 DEF vars, disk, pool, DiskInv, OkIsOnDisk, Backed, Mine
    <3> QED BY <2>1, <3>1, <3>2
  <2>3. FreshInv' /\ DiskInv' BY <2>2, MainOnDisk, WorkOnDisk DEF Next, vars
  <2> QED BY <2>1, <2>3
<1> QED BY <1>1, <1>2, PTL DEF Spec

\* What the checkpoint calls ok is on disk, as recorded if one row of the manifest
\* names the hash: for any manifest, whatever writes fail and wherever runs die.
THEOREM OkRowsOnDisk == Spec => []OkIsOnDisk
BY DiskInvariant, PTL DEF DiskInv

-----------------------------------------------------------------------------
(* Completed hashes *)

\* A hash that is ok when no run is going on is picked by no later run.
Completed(h, r, c) ==
  /\ rows[h] = r /\ file[h] = c
  /\ txn[h] = None
  /\ \A i \in picked : HashOf[i] # h

LEMMA WorkSpares ==
  ASSUME TypeOK, PoolInv, NEW h \in Hashes, NEW r, NEW c, Completed(h, r, c),
         NEW w \in Workers, Work(w)
  PROVE  Completed(h, r, c)'
<1> USE DEF Frame, Completed
<1>busy. "promote" \in Busy /\ "insert" \in Busy BY DEF Busy, Saving
<1>own. pc[w] \in Busy => Mine(w) # h BY DEF PoolInv, Mine
<1>1. CASE Promote(w)
  BY <1>1, <1>own, <1>busy DEF Promote, TypeOK
<1>2. CASE Insert(w)
  BY <1>2, <1>own, <1>busy DEF Insert, disk, TypeOK
<1>3. CASE Commit(w)
  BY <1>3 DEF Commit, Inserted, NoRow
<1>4. CASE UNCHANGED <<file, rows, txn, picked>>
  BY <1>4
<1> QED
  BY <1>1, <1>2, <1>3, <1>4 DEF Work, disk, Take, Retry, Fetched, Refused, OutOfQuota,
     FetchRaises, Decide, Append, SaveRaises

LEMMA MainSpares ==
  ASSUME TypeOK, PoolInv, NEW h \in Hashes, NEW r, NEW c, Completed(h, r, c), IsOk(r),
         Launch \/ Joined \/ Rewrite \/ Crash
  PROVE  Completed(h, r, c)'
<1> USE DEF Completed
<1>1. CASE Launch
  <2>1. picked' \subseteq Pending BY <1>1, LaunchTyped
  <2>2. \A i \in picked' : HashOf[i] # h BY <2>1 DEF Pending
  <2> QED BY <1>1, <2>2 DEF Launch, disk
<1>2. ASSUME txn' = NoRow, Reset, UNCHANGED <<file, rows>> PROVE Completed(h, r, c)'
  BY <1>2 DEF NoRow, Reset
<1>3. CASE Rewrite BY <1>2, <1>3 DEF Rewrite
<1>4. CASE Crash BY <1>2, <1>4 DEF Crash, disk
<1>5. CASE Joined BY <1>2, <1>5 DEF Joined, disk
<1> QED BY <1>1, <1>3, <1>4, <1>5

\* Completed hashes survive every later run, row and file: for any manifest, one
\* that names a hash several times included, whatever writes fail.
THEOREM CompletedStays == Spec => CompletedSurvive
<1> SUFFICES ASSUME NEW h \in Hashes, NEW r \in [status : {"ok"}, content : Payloads],
                    NEW c \in Payloads
             PROVE  Spec => [](main = "off" /\ rows[h] = r /\ file[h] = c
                                 => [](rows[h] = r /\ file[h] = c))
  BY DEF CompletedSurvive
<1> DEFINE K == Completed(h, r, c)
<1>1. TypeOK /\ PoolInv /\ main = "off" /\ rows[h] = r /\ file[h] = c => K
  BY DEF PoolInv, Completed, NoRow
<1>2. IsOk(r)
  <2>1. r.status = "ok" /\ r \in Row BY DEF Row, Status
  <2> QED BY <2>1, RowFacts DEF IsOk
<1>3. TypeOK /\ PoolInv /\ K /\ [Next]_vars => K'
  <2>1. CASE UNCHANGED vars BY <2>1 DEF vars, disk, Completed
  <2> QED BY <1>2, <2>1, WorkSpares, MainSpares DEF Next
<1>4. K => rows[h] = r /\ file[h] = c BY DEF Completed
<1> QED BY WorkerTypes, <1>1, <1>3, <1>4, PTL DEF Spec

-----------------------------------------------------------------------------
(* Lines *)

\* The file of an ok line is there.
LineInv == \A l \in results : IsOk(l.row) => file[l.hash] # None

LEMMA LineStep ==
  TypeOK /\ PoolInv /\ FreshInv /\ DiskInv /\ LineInv /\ [Next]_vars => LineInv'
<1> SUFFICES ASSUME TypeOK, PoolInv, DiskInv, LineInv, [Next]_vars PROVE LineInv' OBVIOUS
<1> USE DEF disk, Frame
<1>1. CASE Rewrite
  <2>1. \A h \in Hashes : IsOk(Inserted(h)) => file[h] # None
    BY DEF DiskInv, OkIsOnDisk, Backed, Inserted, IsOk
  <2> QED BY <1>1, <2>1 DEF Rewrite, LineInv
<1>2. ASSUME NEW w \in Workers, Append(w) \/ SaveRaises(w) PROVE LineInv'
  <2>1. file' = file BY <1>2 DEF Append, SaveRaises
  <2>2. \/ results' = results
        \/ pc[w] = "line" /\ results' = results \cup {MyLine(w)}
    BY <1>2 DEF Append, SaveRaises
  <2>3. pc[w] = "line" /\ IsOk(outcome[w]) => file[Mine(w)] # None
    BY DEF DiskInv, Backed, IsOk
  <2> QED BY <2>1, <2>2, <2>3 DEF LineInv, MyLine
<1>3. ASSUME NEW w \in Workers, Promote(w) PROVE LineInv'
  <2>1. results' = results /\ outcome[w].content # None BY <1>3 DEF Promote, DiskInv
  <2>2. \A h \in Hashes : file[h] # None => file'[h] # None
    BY <1>3, <2>1 DEF Promote, TypeOK
  <2>3. \A l \in results : l.hash \in Hashes BY DEF TypeOK, Line
  <2> QED BY <2>1, <2>2, <2>3 DEF LineInv
<1>4. CASE UNCHANGED <<file, results>> BY <1>4 DEF LineInv
<1> QED
  BY <1>1, <1>2, <1>3, <1>4 DEF Next, vars, Launch, Joined, Crash, Work, Take, Retry,
     Fetched, Refused, OutOfQuota, FetchRaises, Decide, Insert, Commit

\* For a hash with one row in the manifest, as long as no write fails: what is
\* inserted and not committed is some worker's that is about to commit, and
\* replaces no ok row; a worker's own row is the last on its hash; an ok line has
\* its row.
RowInv ==
  /\ \A w \in Workers : pc[w] = "insert" /\ Single(Mine(w)) => Open(Mine(w))
  /\ \A h \in Hashes : txn[h] # None /\ Single(h) =>
       ~IsOk(rows[h]) /\ \E w \in Workers : pc[w] = "commit" /\ Mine(w) = h
  /\ \A w \in Workers : pc[w] = "commit" /\ Single(Mine(w)) =>
       Inserted(Mine(w)) = outcome[w]
  /\ \A w \in Workers : pc[w] = "line" /\ Single(Mine(w)) =>
       rows[Mine(w)] = outcome[w] /\ txn[Mine(w)] = None
  /\ \A l \in results : IsOk(l.row) /\ Single(l.hash) => rows[l.hash] = l.row

LEMMA InitRows == Init => RowInv
BY DEF Init, RowInv, NoRow

LEMMA WorkKeepsRows ==
  ASSUME ~StorageFails, TypeOK, PoolInv, FreshInv, RowInv, NEW w \in Workers, Work(w)
  PROVE  RowInv'
<1> USE DEF Become, Frame, disk, pool
<1>busy. /\ "fetch" \in Busy /\ "promote" \in Busy /\ "insert" \in Busy
         /\ "commit" \in Busy /\ "line" \in Busy
  BY DEF Busy, Saving
<1>1. CASE Take(w)
  <2>1. UNCHANGED <<rows, results, txn, outcome>> BY <1>1 DEF Take
  <2>2. \A v \in Workers \ {w} : pc'[v] = pc[v] /\ at'[v] = at[v]
    BY <1>1 DEF Take, TypeOK
  <2>3. pc[w] = "idle" /\ pc'[w] \in {"idle", "fetch"} BY <1>1 DEF Take, TypeOK
  <2> QED BY <2>1, <2>2, <2>3 DEF RowInv, Open, Mine, Inserted
<1>2. CASE Retry(w) BY <1>2 DEF Retry, RowInv, Open, Mine, Inserted
<1>3. ASSUME Fetched(w) \/ Refused(w) \/ OutOfQuota(w) \/ FetchRaises(w) PROVE RowInv'
  <2>1. PICK place \in {"promote", "insert"}, status \in Status,
             content \in Payloads \cup {None} : Decide(w, place, status, content)
    BY <1>3 DEF Fetched, Refused, OutOfQuota, FetchRaises, Status
  <2>2. pc[w] = "fetch" /\ UNCHANGED <<rows, results, txn, at>> BY <2>1 DEF Decide
  <2>3. \A v \in Workers \ {w} : pc'[v] = pc[v] /\ outcome'[v] = outcome[v]
    BY <2>1 DEF Decide, TypeOK
  <2>4. pc'[w] = place BY <2>1 DEF Decide, TypeOK
  <2>5. Single(Mine(w)) => Open(Mine(w)) BY <2>2 DEF FreshInv
  <2> QED BY <2>2, <2>3, <2>4, <2>5 DEF RowInv, Open, Mine, Inserted
<1>4. CASE Promote(w)
  <2>1. pc[w] = "promote" /\ UNCHANGED <<rows, results, txn, at, outcome>>
    BY <1>4 DEF Promote
  <2>2. pc'[w] = "insert" /\ \A v \in Workers \ {w} : pc'[v] = pc[v]
    BY <1>4 DEF Promote, TypeOK
  <2>3. Single(Mine(w)) => Open(Mine(w)) BY <2>1 DEF FreshInv
  <2> QED BY <2>1, <2>2, <2>3 DEF RowInv, Open, Mine, Inserted
<1>5. CASE Insert(w)
  <2>1. pc[w] = "insert" /\ UNCHANGED <<rows, results, at, outcome>> BY <1>5 DEF Insert
  <2>2. Mine(w) \in Hashes BY <2>1, <1>busy, HashAt
  <2>3. /\ txn'[Mine(w)] = outcome[w]
        /\ \A h \in Hashes \ {Mine(w)} : txn'[h] = txn[h]
    BY <1>5, <2>2 DEF Insert, TypeOK
  <2>4. pc'[w] = "commit" /\ \A v \in Workers \ {w} : pc'[v] = pc[v]
    BY <1>5 DEF Insert, TypeOK
  <2>5. outcome[w] # None BY RowFacts DEF TypeOK
  <2>6. \A v \in Workers : Mine(v)' = Mine(v) BY <2>1 DEF Mine
  <2>7. \A v \in Workers \ {w} : pc[v] \in Busy /\ Single(Mine(v)) =>
          Mine(v) \in Hashes \ {Mine(w)}
    BY <2>1, <1>busy, HashAt, OwnHash
  <2>8. \A v \in Workers : pc'[v] = "insert" /\ Single(Mine(v)) => Open(Mine(v))'
    <3> SUFFICES ASSUME NEW v \in Workers, pc'[v] = "insert", Single(Mine(v))
                 PROVE  Open(Mine(v))'
      OBVIOUS
    <3>1. v # w /\ pc[v] = "insert" BY <2>4
    <3>2. txn'[Mine(v)] = txn[Mine(v)] BY <2>3, <2>7, <3>1, <1>busy
    <3> QED BY <2>1, <2>6, <3>1, <3>2 DEF RowInv, Open
  <2>9. \A h \in Hashes : txn'[h] # None /\ Single(h) =>
          ~IsOk(rows'[h]) /\ \E v \in Workers : pc'[v] = "commit" /\ Mine(v)' = h
    <3> SUFFICES ASSUME NEW h \in Hashes, txn'[h] # None, Single(h)
                 PROVE  ~IsOk(rows'[h]) /\ \E v \in Workers : pc'[v] = "commit" /\ Mine(v)' = h
      OBVIOUS
    <3>1. CASE h = Mine(w) BY <2>1, <2>4, <2>6, <3>1 DEF RowInv, Open
    <3>2. CASE h # Mine(w)
      <4>1. txn[h] # None BY <2>3, <3>2
      <4>2. PICK v \in Workers : pc[v] = "commit" /\ Mine(v) = h BY <4>1 DEF RowInv
      <4> QED BY <2>1, <2>4, <2>6, <4>1, <4>2 DEF RowInv
    <3> QED BY <3>1, <3>2
  <2>10. \A v \in Workers : pc'[v] = "commit" /\ Single(Mine(v)) =>
           Inserted(Mine(v))' = outcome'[v]
    <3> SUFFICES ASSUME NEW v \in Workers, pc'[v] = "commit", Single(Mine(v))
                 PROVE  Inserted(Mine(v))' = outcome'[v]
      OBVIOUS
    <3>1. CASE v = w BY <2>1, <2>3, <2>5, <2>6, <3>1 DEF Inserted
    <3>2. CASE v # w
      <4>1. pc[v] = "commit" BY <2>4, <3>2
      <4>2. txn'[Mine(v)] = txn[Mine(v)] BY <2>3, <2>7, <3>2, <4>1, <1>busy
      <4> QED BY <2>1, <2>6, <4>1, <4>2 DEF RowInv, Inserted
    <3> QED BY <3>1, <3>2
  <2>11. \A v \in Workers : pc'[v] = "line" /\ Single(Mine(v)) =>
           rows'[Mine(v)'] = outcome'[v] /\ txn'[Mine(v)'] = None
    <3> SUFFICES ASSUME NEW v \in Workers, pc'[v] = "line", Single(Mine(v))
                 PROVE  rows'[Mine(v)'] = outcome'[v] /\ txn'[Mine(v)'] = None
      OBVIOUS
    <3>1. v # w /\ pc[v] = "line" BY <2>4
    <3>2. txn'[Mine(v)] = txn[Mine(v)] BY <2>3, <2>7, <3>1, <1>busy
    <3> QED BY <2>1, <2>6, <3>1, <3>2 DEF RowInv
  <2> QED BY <2>1, <2>6, <2>8, <2>9, <2>10, <2>11 DEF RowInv
<1>6. CASE Commit(w)
  <2>1. pc[w] = "commit" /\ UNCHANGED <<results, at, outcome>> BY <1>6 DEF Commit
  <2>2. \A h \in Hashes : rows'[h] = Inserted(h) /\ txn'[h] = None
    BY <1>6 DEF Commit, NoRow
  <2>3. pc'[w] = "line" /\ \A v \in Workers \ {w} : pc'[v] = pc[v]
    BY <1>6 DEF Commit, TypeOK
  <2>4. \A v \in Workers : pc[v] \in Busy => Mine(v) \in Hashes BY HashAt
  <2>5. \A v \in Workers : Mine(v)' = Mine(v) BY <2>1 DEF Mine
  <2>6. \A v \in Workers : pc'[v] = "insert" /\ Single(Mine(v)) => Open(Mine(v))'
    BY <2>2, <2>3, <2>4, <2>5, <1>busy DEF RowInv, Open, Inserted, IsOk
  <2>7. \A v \in Workers : pc'[v] = "commit" /\ Single(Mine(v)) =>
          Inserted(Mine(v))' = outcome'[v]
    BY <2>1, <2>2, <2>3, <2>4, <2>5, <1>busy DEF RowInv, Inserted
  <2>8. \A v \in Workers : pc'[v] = "line" /\ Single(Mine(v)) =>
          rows'[Mine(v)'] = outcome'[v] /\ txn'[Mine(v)'] = None
    BY <2>1, <2>2, <2>3, <2>4, <2>5, <1>busy DEF RowInv, Inserted
  <2>9. \A l \in results' : IsOk(l.row) /\ Single(l.hash) => rows'[l.hash] = l.row
    <3>1. \A l \in results : l.hash \in Hashes BY DEF TypeOK, Line
    <3> QED BY <2>1, <2>2, <3>1 DEF RowInv, Inserted
  <2> QED BY <2>2, <2>5, <2>6, <2>7, <2>8, <2>9 DEF RowInv
<1>7. CASE Append(w)
  <2>1. pc[w] = "line" /\ UNCHANGED <<rows, txn>> /\ results' = results \cup {MyLine(w)}
    BY <1>7 DEF Append
  <2>2. /\ pc'[w] = "idle"
        /\ \A v \in Workers \ {w} :
             pc'[v] = pc[v] /\ at'[v] = at[v] /\ outcome'[v] = outcome[v]
    BY <1>7 DEF Append, TypeOK
  <2>3. \A l \in results' : IsOk(l.row) /\ Single(l.hash) => rows'[l.hash] = l.row
    BY <2>1 DEF RowInv, MyLine
  <2> QED BY <2>1, <2>2, <2>3 DEF RowInv, Open, Mine, Inserted
<1>8. CASE SaveRaises(w) BY <1>8 DEF SaveRaises
<1> QED BY <1>1, <1>2, <1>3, <1>4, <1>5, <1>6, <1>7, <1>8 DEF Work

LEMMA MainKeepsRows ==
  ASSUME TypeOK, PoolInv, RowInv, Launch \/ Joined \/ Rewrite \/ Crash
  PROVE  RowInv'
<1>1. CASE Launch
  BY <1>1 DEF Launch, disk, pool, RowInv, Open, Mine, Inserted
<1>2. ASSUME Reset, txn' = NoRow, UNCHANGED <<rows, results>> PROVE RowInv'
  <2>1. \A w \in Workers : pc'[w] = "idle" BY <1>2 DEF Reset
  <2> QED BY <1>2, <2>1 DEF RowInv, NoRow
<1>3. CASE Rewrite
  <2>1. \A w \in Workers : pc[w] \notin Busy BY <1>3 DEF Rewrite, PoolInv
  <2>2. \A h \in Hashes : Single(h) => txn[h] = None BY <2>1 DEF RowInv, Busy, Saving
  <2>3. \A l \in results' : Single(l.hash) => rows[l.hash] = l.row
    BY <1>3, <2>2 DEF Rewrite, Inserted
  <2>4. \A w \in Workers : pc'[w] = "idle" BY <1>3 DEF Rewrite, Reset
  <2> QED BY <1>3, <2>3, <2>4 DEF Rewrite, RowInv, NoRow
<1>4. CASE Crash BY <1>2, <1>4 DEF Crash, disk
<1>5. CASE Joined
  <2>1. CASE \E w \in Workers : pc[w] = "dead" BY <1>2, <1>5, <2>1 DEF Joined, disk
  <2>2. CASE ~\E w \in Workers : pc[w] = "dead"
    BY <1>5, <2>2 DEF Joined, disk, pool, RowInv, Open, Mine, Inserted
  <2> QED BY <2>1, <2>2
<1> QED BY <1>1, <1>3, <1>4, <1>5

LEMMA RowInvariant ==
  ASSUME ~StorageFails
  PROVE  Spec => []RowInv
<1> DEFINE I == TypeOK /\ PoolInv /\ FreshInv /\ DiskInv
<1>1. I /\ RowInv /\ [Next]_vars => RowInv'
  <2>1. CASE UNCHANGED vars BY <2>1 DEF vars, disk, pool, RowInv, Open, Mine, Inserted
  <2> QED BY <2>1, WorkKeepsRows, MainKeepsRows DEF Next
<1> QED BY DiskInvariant, InitRows, <1>1, PTL DEF Spec

\* A sync that goes by results.jsonl finds a file for its ok lines, those of runs
\* that died included; the file that the line records if no write has failed and
\* one row of the manifest names the hash.
THEOREM OkLinesMatch == Spec => []OkLinesOnDisk
<1>1. Spec => []LineInv
  <2>1. Init => LineInv BY DEF Init, LineInv
  <2> QED BY DiskInvariant, <2>1, LineStep, PTL DEF Spec
<1>2. CASE StorageFails
  <2>1. LineInv => OkLinesOnDisk BY <1>2 DEF LineInv, OkLinesOnDisk
  <2> QED BY <1>1, <2>1, PTL
<1>3. CASE ~StorageFails
  <2>1. TypeOK /\ DiskInv /\ RowInv /\ LineInv => OkLinesOnDisk
    <3>1. TypeOK => \A l \in results : l.hash \in Hashes BY DEF TypeOK, Line
    <3> QED BY <3>1 DEF DiskInv, OkIsOnDisk, Backed, RowInv, LineInv, OkLinesOnDisk
  <2> QED BY <1>1, <1>3, <2>1, DiskInvariant, RowInvariant, PTL
<1> QED BY <1>2, <1>3

-----------------------------------------------------------------------------
(* Accounting for the items of a run, whatever the manifest and the disk do *)

\* A row is there when a commit is due and from then on; an item that is neither
\* queued, nor held, nor counted was dropped after a stop or lost with its worker;
\* and a stop has left a line.
QuotaLine(i) == \E l \in results : l.hash = HashOf[i] /\ l.row.status = "quota"
AccountInv ==
  /\ \A w \in Workers : pc[w] = "commit" => Inserted(Mine(w)) # None
  /\ \A w \in Workers : pc[w] = "line" => rows[Mine(w)] # None
  /\ \A i \in seen : rows[HashOf[i]] # None
  /\ \A i \in picked : \/ i \in queue \cup seen \/ stop
                       \/ \E w \in Workers : at[w] = i \/ pc[w] = "dead"
  /\ stop => \E i \in seen : QuotaLine(i)
  /\ main # "work" => \A w \in Workers : pc[w] # "dead"

LEMMA InitAccount == Init => AccountInv
BY DEF Init, AccountInv

\* The steps of main_async that end a run start the account anew.
LEMMA MainAccounts ==
  ASSUME TypeOK, PoolInv, AccountInv, Launch \/ Joined \/ Rewrite \/ Crash
  PROVE  AccountInv'
<1>1. CASE Launch
  <2>1. picked = {} /\ seen = {} /\ queue' = picked'
        /\ UNCHANGED <<file, rows, results, txn, stop, seen, pc, at, attempt, outcome>>
    BY <1>1 DEF Launch, PoolInv, TypeOK, disk, pool
  <2>2. main # "work" BY <1>1 DEF Launch
  <2> QED BY <2>1, <2>2 DEF AccountInv, QuotaLine, Inserted, Mine
<1>2. ASSUME Reset PROVE AccountInv'
  <2>1. \A w \in Workers : pc'[w] = "idle" BY <1>2 DEF Reset
  <2> QED BY <1>2, <2>1 DEF Reset, AccountInv
<1>3. CASE Rewrite BY <1>2, <1>3 DEF Rewrite
<1>4. CASE Crash BY <1>2, <1>4 DEF Crash
<1>5. CASE Joined
  <2>1. CASE \E w \in Workers : pc[w] = "dead" BY <1>2, <1>5, <2>1 DEF Joined
  <2>2. CASE ~\E w \in Workers : pc[w] = "dead"
    BY <1>5, <2>2 DEF Joined, disk, pool, AccountInv, QuotaLine, Inserted, Mine
  <2> QED BY <2>1, <2>2
<1> QED BY <1>1, <1>3, <1>4, <1>5

\* What one worker's step leaves to the others.
LEMMA WorkLocal ==
  ASSUME TypeOK, PoolInv, NEW w \in Workers, Work(w)
  PROVE  /\ picked' = picked /\ main' = main /\ main = "work"
         /\ results \subseteq results'
         /\ \A v \in Workers \ {w} :
              pc'[v] = pc[v] /\ at'[v] = at[v] /\ outcome'[v] = outcome[v]
<1> USE DEF Become, Frame, disk, pool
<1>1. main = "work"
  <2>1. pc[w] \in Busy \/ Take(w)
    BY DEF Work, Retry, Fetched, Refused, OutOfQuota, FetchRaises, Decide, Promote,
      Insert, Commit, Append, SaveRaises, Busy, Saving
  <2> QED BY <2>1 DEF Take, PoolInv
<1>2. picked' = picked /\ main' = main
  BY DEF Work, Take, Retry, Fetched, Refused, OutOfQuota, FetchRaises, Decide, Promote,
    Insert, Commit, Append, SaveRaises
<1>3. results \subseteq results'
  BY DEF Work, Take, Retry, Fetched, Refused, OutOfQuota, FetchRaises, Decide, Promote,
    Insert, Commit, Append, SaveRaises
<1>4. \A v \in Workers \ {w} : pc'[v] = pc[v] /\ at'[v] = at[v] /\ outcome'[v] = outcome[v]
  <2>1. CASE Take(w) BY <2>1 DEF Take, TypeOK
  <2>2. CASE SaveRaises(w) BY <2>2 DEF SaveRaises, TypeOK
  <2>3. CASE Append(w) BY <2>3 DEF Append, TypeOK
  <2> QED
    BY <2>1, <2>2, <2>3 DEF Work, Retry, Fetched, Refused, OutOfQuota, FetchRaises,
      Decide, Promote, Insert, Commit, TypeOK
<1> QED BY <1>1, <1>2, <1>3, <1>4

\* A step that keeps the checkpoint, the counts and the item of the worker, which
\* goes to no place where it would owe a row.
LEMMA IdleAccounts ==
  ASSUME TypeOK, PoolInv, AccountInv, NEW w \in Workers, Work(w),
         UNCHANGED <<rows, txn, queue, stop, seen, at>>,
         pc'[w] \notin {"commit", "line", "dead"}, pc[w] # "dead"
  PROVE  AccountInv'
<1>1. \A v \in Workers : Mine(v)' = Mine(v) BY DEF Mine
<1>2. \A i \in picked' : \/ i \in queue' \cup seen' \/ stop'
                         \/ \E v \in Workers : at'[v] = i \/ pc'[v] = "dead"
  BY WorkLocal DEF AccountInv
<1>3. stop' => \E i \in seen' : QuotaLine(i)' BY WorkLocal DEF AccountInv, QuotaLine
<1> QED BY <1>1, <1>2, <1>3, WorkLocal DEF AccountInv, Inserted

LEMMA WorkAccounts ==
  ASSUME TypeOK, PoolInv, AccountInv, NEW w \in Workers, Work(w)
  PROVE  AccountInv'
<1> USE DEF Become, Frame, disk, pool
<1>busy. Saving \subseteq Busy /\ "commit" \in Saving /\ "line" \in Saving
         /\ "insert" \in Saving
  BY DEF Busy, Saving
<1>seen. \A i \in seen : i \in Items /\ HashOf[i] \in Hashes BY DEF TypeOK
<1>1. CASE Take(w)
  <2>1. PICK i \in queue :
          /\ queue' = queue \ {i}
          /\ IF stop THEN UNCHANGED pool
             ELSE Become(w, "fetch") /\ at' = [at EXCEPT ![w] = i]
    BY <1>1 DEF Take
  <2>2. UNCHANGED <<rows, results, txn, stop, seen>> /\ pc[w] = "idle" BY <1>1 DEF Take
  <2>3. pc'[w] \in {"idle", "fetch"} BY <2>1, <2>2 DEF TypeOK
  <2>4. ~stop => at'[w] = i BY <2>1 DEF TypeOK
  <2>5. at[w] = None BY <2>2 DEF PoolInv, Busy, Saving
  <2>6. \A j \in picked' : \/ j \in queue' \cup seen' \/ stop'
                           \/ \E v \in Workers : at'[v] = j \/ pc'[v] = "dead"
    <3> SUFFICES ASSUME NEW j \in picked, ~stop, j \notin queue', j \notin seen
                 PROVE  \E v \in Workers : at'[v] = j \/ pc'[v] = "dead"
      BY <2>2, WorkLocal
    <3>1. CASE j = i BY <2>4, <3>1
    <3>2. CASE j # i
      <4>1. PICK v \in Workers : at[v] = j \/ pc[v] = "dead" BY <2>1, <3>2 DEF AccountInv
      <4>2. v # w BY <2>2, <2>5, <4>1, WorkerNamesAssumption DEF TypeOK
      <4> QED BY <4>1, <4>2, WorkLocal
    <3> QED BY <3>1, <3>2
  <2>7. \A v \in Workers : pc'[v] \in {"commit", "line"} =>
          pc[v] = pc'[v] /\ Mine(v)' = Mine(v)
    BY <2>3, WorkLocal DEF Mine
  <2> QED BY <2>2, <2>6, <2>7, WorkLocal DEF AccountInv, QuotaLine, Inserted
<1>2. CASE Retry(w)
  BY <1>2, IdleAccounts DEF Retry
<1>3. ASSUME Fetched(w) \/ Refused(w) \/ OutOfQuota(w) \/ FetchRaises(w)
      PROVE  AccountInv'
  <2>1. PICK place \in {"promote", "insert"}, status \in Status,
             content \in Payloads \cup {None} : Decide(w, place, status, content)
    BY <1>3 DEF Fetched, Refused, OutOfQuota, FetchRaises, Status
  <2>2. pc'[w] = place /\ pc[w] = "fetch" BY <2>1 DEF Decide, TypeOK
  <2> QED BY <2>1, <2>2, IdleAccounts DEF Decide
<1>4. CASE Promote(w)
  <2>1. pc'[w] = "insert" /\ pc[w] = "promote" BY <1>4 DEF Promote, TypeOK
  <2> QED BY <1>4, <2>1, IdleAccounts DEF Promote
<1>5. CASE Insert(w)
  <2>1. pc[w] = "insert" /\ UNCHANGED <<rows, results, queue, stop, seen, at, outcome>>
    BY <1>5 DEF Insert
  <2>2. Mine(w) \in Hashes BY <2>1, <1>busy, HashAt
  <2>3. outcome[w] # None BY RowFacts DEF TypeOK
  <2>4. txn'[Mine(w)] = outcome[w] /\ \A h \in Hashes \ {Mine(w)} : txn'[h] = txn[h]
    BY <1>5, <2>2 DEF Insert, TypeOK
  <2>5. \A h \in Hashes : Inserted(h) # None => Inserted(h)' # None
    BY <2>1, <2>3, <2>4 DEF Inserted
  <2>6. pc'[w] = "commit" BY <1>5 DEF Insert, TypeOK
  <2>7. \A v \in Workers : Mine(v)' = Mine(v) BY <2>1 DEF Mine
  <2>8. Inserted(Mine(w))' # None BY <2>3, <2>4, <2>7 DEF Inserted
  <2>9. \A v \in Workers : pc'[v] = "commit" => Inserted(Mine(v))' # None
    <3> SUFFICES ASSUME NEW v \in Workers \ {w}, pc'[v] = "commit"
                 PROVE  Inserted(Mine(v))' # None
      BY <2>8
    <3>1. pc[v] = "commit" BY WorkLocal
    <3>2. Mine(v) \in Hashes BY <3>1, <1>busy, HashAt
    <3>3. Inserted(Mine(v)) # None BY <3>1 DEF AccountInv
    <3> QED BY <2>1, <2>3, <2>4, <2>7, <3>2, <3>3 DEF Inserted
  <2>10. \A i \in picked' : \/ i \in queue' \cup seen' \/ stop'
                            \/ \E v \in Workers : at'[v] = i \/ pc'[v] = "dead"
    <3> SUFFICES ASSUME NEW i \in picked, ~stop, i \notin queue, i \notin seen
                 PROVE  \E v \in Workers : at'[v] = i \/ pc'[v] = "dead"
      BY <2>1, WorkLocal
    <3>1. PICK v \in Workers : at[v] = i \/ pc[v] = "dead" BY DEF AccountInv
    <3> QED BY <2>1, <3>1, WorkLocal
  <2> QED BY <2>1, <2>6, <2>7, <2>9, <2>10, WorkLocal DEF AccountInv, QuotaLine
<1>6. CASE Commit(w)
  <2>1. pc[w] = "commit" /\ UNCHANGED <<results, queue, stop, seen, at, outcome>>
    BY <1>6 DEF Commit
  <2>2. \A h \in Hashes : rows'[h] = Inserted(h) /\ txn'[h] = None
    BY <1>6 DEF Commit, NoRow
  <2>3. \A h \in Hashes : rows[h] # None => rows'[h] # None BY <2>2 DEF Inserted
  <2>4. \A v \in Workers : Mine(v)' = Mine(v) BY <2>1 DEF Mine
  <2>5. pc'[w] = "line" BY <1>6 DEF Commit, TypeOK
  <2>6. \A v \in Workers : pc'[v] \in {"commit", "line"} => rows'[Mine(v)] # None
    <3> SUFFICES ASSUME NEW v \in Workers, pc'[v] \in {"commit", "line"}
                 PROVE  rows'[Mine(v)] # None
      OBVIOUS
    <3>1. pc[v] \in {"commit", "line"} BY <2>1, WorkLocal
    <3>2. Mine(v) \in Hashes BY <3>1, <1>busy, HashAt
    <3> QED BY <2>2, <2>3, <3>1, <3>2 DEF AccountInv
  <2>7. \A v \in Workers : pc'[v] = "commit" => Inserted(Mine(v))' # None
    BY <2>4, <2>6 DEF Inserted
  <2>8. \A v \in Workers : pc'[v] = "line" => rows'[Mine(v)'] # None BY <2>4, <2>6
  <2>9. \A i \in picked' : \/ i \in queue' \cup seen' \/ stop'
                           \/ \E v \in Workers : at'[v] = i \/ pc'[v] = "dead"
    <3> SUFFICES ASSUME NEW i \in picked, ~stop, i \notin queue, i \notin seen
                 PROVE  \E v \in Workers : at'[v] = i \/ pc'[v] = "dead"
      BY <2>1, WorkLocal
    <3>1. PICK v \in Workers : at[v] = i \/ pc[v] = "dead" BY DEF AccountInv
    <3> QED BY <2>1, <3>1, WorkLocal
  <2>10. \A i \in seen' : rows'[HashOf[i]] # None BY <2>1, <2>3, <1>seen DEF AccountInv
  <2> QED BY <2>1, <2>5, <2>7, <2>8, <2>9, <2>10, WorkLocal DEF AccountInv, QuotaLine
<1>7. CASE Append(w)
  <2>1. pc[w] = "line" /\ UNCHANGED <<rows, txn, queue>> BY <1>7 DEF Append
  <2>2. results' = results \cup {MyLine(w)} /\ seen' = seen \cup {at[w]}
        /\ stop' = (stop \/ outcome[w].status = "quota")
    BY <1>7 DEF Append
  <2>3. pc'[w] = "idle" /\ at'[w] = None BY <1>7 DEF Append, TypeOK
  <2>4. rows[HashOf[at[w]]] # None BY <2>1 DEF AccountInv, Mine
  <2>5. stop' => \E i \in seen' : QuotaLine(i)'
    <3>1. CASE stop BY <2>2, <3>1 DEF AccountInv, QuotaLine
    <3>2. CASE ~stop /\ stop'
      <4>1. outcome[w].status = "quota" BY <2>2, <3>2
      <4>2. MyLine(w).hash = HashOf[at[w]] /\ MyLine(w).row.status = "quota"
        BY <4>1 DEF MyLine, Mine
      <4> QED BY <2>2, <4>2 DEF QuotaLine
    <3> QED BY <3>1, <3>2
  <2>6. \A i \in picked' : \/ i \in queue' \cup seen' \/ stop'
                           \/ \E v \in Workers : at'[v] = i \/ pc'[v] = "dead"
    <3> SUFFICES ASSUME NEW i \in picked, ~stop', i \notin queue, i \notin seen'
                 PROVE  \E v \in Workers : at'[v] = i \/ pc'[v] = "dead"
      BY <2>1, WorkLocal
    <3>1. PICK v \in Workers : at[v] = i \/ pc[v] = "dead" BY <2>2 DEF AccountInv
    <3>2. v # w BY <2>1, <2>2, <3>1
    <3> QED BY <3>1, <3>2, WorkLocal
  <2>7. \A v \in Workers : pc'[v] \in {"commit", "line"} =>
          pc[v] = pc'[v] /\ Mine(v)' = Mine(v)
    BY <2>3, WorkLocal DEF Mine
  <2> QED BY <2>1, <2>2, <2>3, <2>4, <2>5, <2>6, <2>7, WorkLocal DEF AccountInv, Inserted
<1>8. CASE SaveRaises(w)
  <2>1. UNCHANGED <<rows, txn, queue, stop, seen>> /\ pc[w] \in Saving
    BY <1>8 DEF SaveRaises
  <2>2. \/ pc'[w] = "dead"
        \/ pc'[w] = "insert" /\ at' = at
    <3>1. CASE outcome[w].status = "error" BY <1>8, <3>1 DEF SaveRaises, TypeOK
    <3>2. CASE outcome[w].status # "error" BY <1>8, <3>2 DEF SaveRaises, TypeOK
    <3> QED BY <3>1, <3>2
  <2>3. CASE pc'[w] = "insert" /\ at' = at
    <3>1. pc[w] # "dead" BY <2>1 DEF Saving
    <3> QED BY <2>1, <2>3, <3>1, IdleAccounts
  <2>4. CASE pc'[w] = "dead"
    <3>1. \A v \in Workers : pc'[v] \in {"commit", "line"} =>
            pc[v] = pc'[v] /\ Mine(v)' = Mine(v)
      BY <2>4, WorkLocal DEF Mine
    <3>2. stop' => \E i \in seen' : QuotaLine(i)'
      BY <2>1, WorkLocal DEF AccountInv, QuotaLine
    <3> QED BY <2>1, <2>4, <3>1, <3>2, WorkLocal DEF AccountInv, Inserted
  <2> QED BY <2>2, <2>3, <2>4
<1> QED BY <1>1, <1>2, <1>3, <1>4, <1>5, <1>6, <1>7, <1>8 DEF Work

LEMMA AccountInvariant == Spec => []AccountInv
<1>1. TypeOK /\ PoolInv /\ AccountInv /\ [Next]_vars => AccountInv'
  <2>1. CASE UNCHANGED vars
    BY <2>1 DEF vars, disk, pool, AccountInv, QuotaLine, Inserted, Mine
  <2> QED BY <2>1, WorkAccounts, MainAccounts DEF Next
<1> QED BY WorkerTypes, InitAccount, <1>1, PTL DEF Spec

\* Without duplicate hashes, what a worker records stays the last word on its item.
LastInv ==
  /\ \A w \in Workers : pc[w] = "commit" => Inserted(Mine(w)) = outcome[w]
  /\ \A w \in Workers : pc[w] = "line" =>
       rows[Mine(w)] = outcome[w] /\ txn[Mine(w)] = None
  /\ \A w \in Workers : at[w] \notin seen
  /\ \A i \in seen : i \notin queue /\ txn[HashOf[i]] = None
  /\ stop => \E i \in seen : QuotaLine(i) /\ rows[HashOf[i]].status = "quota"

LEMMA MainLasts ==
  ASSUME TypeOK, PoolInv, LastInv, Launch \/ Joined \/ Rewrite \/ Crash
  PROVE  LastInv'
<1>1. CASE Launch
  <2>1. picked = {} /\ seen = {} /\ UNCHANGED <<rows, results, txn, stop, seen, pool>>
    BY <1>1 DEF Launch, PoolInv, TypeOK, disk
  <2> QED BY <2>1 DEF LastInv, QuotaLine, Inserted, Mine, pool
<1>2. ASSUME Reset PROVE LastInv'
  <2>1. \A w \in Workers : pc'[w] = "idle" BY <1>2 DEF Reset
  <2> QED BY <1>2, <2>1 DEF Reset, LastInv
<1>3. CASE Rewrite BY <1>2, <1>3 DEF Rewrite
<1>4. CASE Crash BY <1>2, <1>4 DEF Crash
<1>5. CASE Joined
  <2>1. CASE \E w \in Workers : pc[w] = "dead" BY <1>2, <1>5, <2>1 DEF Joined
  <2>2. CASE ~\E w \in Workers : pc[w] = "dead"
    BY <1>5, <2>2 DEF Joined, disk, pool, LastInv, QuotaLine, Inserted, Mine
  <2> QED BY <2>1, <2>2
<1> QED BY <1>1, <1>3, <1>4, <1>5

\* Nobody works on the hash of an item that is counted.
LEMMA OtherHash ==
  ASSUME NoDuplicates, TypeOK, PoolInv, LastInv, NEW w \in Workers, pc[w] \in Busy,
         NEW i \in seen
  PROVE  HashOf[i] # Mine(w)
BY HashAt DEF NoDuplicates, Single, TypeOK, LastInv, Mine

LEMMA WorkLasts ==
  ASSUME NoDuplicates, TypeOK, PoolInv, LastInv, NEW w \in Workers, Work(w)
  PROVE  LastInv'
<1> USE DEF Become, Frame, disk, pool
<1>busy. Saving \subseteq Busy /\ "commit" \in Saving /\ "line" \in Saving
         /\ "insert" \in Saving
  BY DEF Busy, Saving
<1>seen. \A i \in seen : i \in Items /\ HashOf[i] \in Hashes BY DEF TypeOK
<1>stop. ASSUME UNCHANGED <<stop, seen>>, \A i \in seen : rows'[HashOf[i]] = rows[HashOf[i]]
         PROVE  stop' => \E i \in seen' : QuotaLine(i)' /\ rows'[HashOf[i]].status = "quota"
  BY <1>stop, WorkLocal DEF LastInv, QuotaLine
\* The steps that leave the checkpoint and the counts alone.
<1>quiet. ASSUME UNCHANGED <<rows, txn, stop, seen>>, queue' \subseteq queue,
                 pc'[w] \notin {"commit", "line"}, at'[w] \notin seen
          PROVE  LastInv'
  <2>1. \A v \in Workers : pc'[v] \in {"commit", "line"} =>
          pc[v] = pc'[v] /\ Mine(v)' = Mine(v) /\ outcome'[v] = outcome[v]
    BY <1>quiet, WorkLocal DEF Mine
  <2>2. \A v \in Workers : at'[v] \notin seen' BY <1>quiet, WorkLocal DEF LastInv
  <2> QED BY <1>quiet, <1>stop, <2>1, <2>2 DEF LastInv, Inserted
<1>1. CASE Take(w)
  <2>1. PICK i \in queue :
          /\ queue' = queue \ {i}
          /\ IF stop THEN UNCHANGED pool
             ELSE Become(w, "fetch") /\ at' = [at EXCEPT ![w] = i]
    BY <1>1 DEF Take
  <2>2. UNCHANGED <<rows, txn, stop, seen>> /\ pc[w] = "idle" BY <1>1 DEF Take
  <2>3. pc'[w] \in {"idle", "fetch"} BY <2>1, <2>2 DEF TypeOK
  <2>4. at'[w] \notin seen BY <2>1 DEF LastInv, TypeOK
  <2> QED BY <1>quiet, <2>1, <2>2, <2>3, <2>4
<1>2. CASE Retry(w)
  <2>1. at'[w] \notin seen /\ pc'[w] = "fetch" BY <1>2 DEF Retry, LastInv
  <2> QED BY <1>2, <1>quiet, <2>1 DEF Retry
<1>3. ASSUME Fetched(w) \/ Refused(w) \/ OutOfQuota(w) \/ FetchRaises(w)
      PROVE  LastInv'
  <2>1. PICK place \in {"promote", "insert"}, status \in Status,
             content \in Payloads \cup {None} : Decide(w, place, status, content)
    BY <1>3 DEF Fetched, Refused, OutOfQuota, FetchRaises, Status
  <2>2. pc'[w] = place /\ at'[w] \notin seen BY <2>1 DEF Decide, TypeOK, LastInv
  <2> QED BY <1>quiet, <2>1, <2>2 DEF Decide
<1>4. CASE Promote(w)
  <2>1. pc'[w] = "insert" /\ at'[w] \notin seen BY <1>4 DEF Promote, TypeOK, LastInv
  <2> QED BY <1>4, <1>quiet, <2>1 DEF Promote
<1>5. CASE Insert(w)
  <2>1. pc[w] = "insert" /\ UNCHANGED <<rows, results, queue, stop, seen, at, outcome>>
    BY <1>5 DEF Insert
  <2>2. /\ Mine(w) \in Hashes
        /\ \A v \in Workers \ {w} : pc[v] \in Busy => Mine(v) # Mine(w)
    BY <2>1, <1>busy, HashAt, OwnHash DEF NoDuplicates
  <2>3. txn'[Mine(w)] = outcome[w] /\ \A h \in Hashes \ {Mine(w)} : txn'[h] = txn[h]
    BY <1>5, <2>2 DEF Insert, TypeOK
  <2>4. outcome[w] # None BY RowFacts DEF TypeOK
  <2>5. \A v \in Workers : Mine(v)' = Mine(v) BY <2>1 DEF Mine
  <2>6. \A v \in Workers : pc[v] \in Busy => Mine(v) \in Hashes BY HashAt
  <2>7. pc'[w] = "commit" BY <1>5 DEF Insert, TypeOK
  <2>8. \A v \in Workers : pc'[v] = "commit" => Inserted(Mine(v))' = outcome'[v]
    <3> SUFFICES ASSUME NEW v \in Workers \ {w}, pc'[v] = "commit"
                 PROVE  Inserted(Mine(v))' = outcome'[v]
      BY <2>1, <2>3, <2>4, <2>5 DEF Inserted
    <3>1. pc[v] = "commit" BY WorkLocal
    <3>2. txn'[Mine(v)] = txn[Mine(v)] BY <2>2, <2>3, <2>6, <3>1, <1>busy
    <3> QED BY <2>1, <2>5, <3>1, <3>2 DEF LastInv, Inserted
  <2>9. \A v \in Workers : pc'[v] = "line" =>
          rows'[Mine(v)'] = outcome'[v] /\ txn'[Mine(v)'] = None
    <3> SUFFICES ASSUME NEW v \in Workers \ {w}, pc'[v] = "line"
                 PROVE  rows'[Mine(v)'] = outcome'[v] /\ txn'[Mine(v)'] = None
      BY <2>7
    <3>1. pc[v] = "line" BY WorkLocal
    <3>2. txn'[Mine(v)] = txn[Mine(v)] BY <2>2, <2>3, <2>6, <3>1, <1>busy
    <3> QED BY <2>1, <2>5, <3>1, <3>2 DEF LastInv
  <2>10. \A i \in seen : HashOf[i] # Mine(w) BY <2>1, <1>busy, OtherHash
  <2>11. \A i \in seen' : i \notin queue' /\ txn'[HashOf[i]] = None
    BY <2>1, <2>3, <2>10, <1>seen DEF LastInv
  <2> QED BY <2>1, <2>8, <2>9, <2>11, <1>stop DEF LastInv
<1>6. CASE Commit(w)
  <2>1. pc[w] = "commit" /\ UNCHANGED <<results, queue, stop, seen, at, outcome>>
    BY <1>6 DEF Commit
  <2>2. \A h \in Hashes : rows'[h] = Inserted(h) /\ txn'[h] = None
    BY <1>6 DEF Commit, NoRow
  <2>3. \A v \in Workers : Mine(v)' = Mine(v) BY <2>1 DEF Mine
  <2>4. \A v \in Workers : pc'[v] \in {"commit", "line"} => rows'[Mine(v)] = outcome[v]
    <3> SUFFICES ASSUME NEW v \in Workers, pc'[v] \in {"commit", "line"}
                 PROVE  rows'[Mine(v)] = outcome[v]
      OBVIOUS
    <3>1. pc[v] \in {"commit", "line"} BY <2>1, WorkLocal
    <3>2. Mine(v) \in Hashes BY <3>1, <1>busy, HashAt
    <3> QED BY <2>2, <3>1, <3>2 DEF LastInv, Inserted
  <2>5. \A v \in Workers : pc'[v] = "commit" => Inserted(Mine(v))' = outcome'[v]
    <3> SUFFICES ASSUME NEW v \in Workers, pc'[v] = "commit"
                 PROVE  Inserted(Mine(v))' = outcome'[v]
      OBVIOUS
    <3>1. pc[v] = "commit" BY <2>1, WorkLocal
    <3>2. Mine(v) \in Hashes BY <3>1, <1>busy, HashAt
    <3> QED BY <2>1, <2>2, <2>3, <2>4, <3>2 DEF Inserted
  <2>6. \A v \in Workers : pc'[v] = "line" =>
          rows'[Mine(v)'] = outcome'[v] /\ txn'[Mine(v)'] = None
    <3> SUFFICES ASSUME NEW v \in Workers, pc'[v] = "line"
                 PROVE  rows'[Mine(v)'] = outcome'[v] /\ txn'[Mine(v)'] = None
      OBVIOUS
    <3>1. pc[v] \in {"commit", "line"} BY <2>1, WorkLocal
    <3>2. Mine(v) \in Hashes BY <3>1, <1>busy, HashAt
    <3> QED BY <2>1, <2>2, <2>3, <2>4, <3>2
  <2>7. \A i \in seen : rows'[HashOf[i]] = rows[HashOf[i]] /\ txn'[HashOf[i]] = None
    BY <2>2, <1>seen DEF LastInv, Inserted
  <2> QED BY <2>1, <2>5, <2>6, <2>7, <1>stop DEF LastInv
<1>7. CASE Append(w)
  <2>1. pc[w] = "line" /\ UNCHANGED <<rows, txn, queue>> BY <1>7 DEF Append
  <2>2. results' = results \cup {MyLine(w)} /\ seen' = seen \cup {at[w]}
        /\ stop' = (stop \/ outcome[w].status = "quota")
    BY <1>7 DEF Append
  <2>3. pc'[w] = "idle" /\ at'[w] = None BY <1>7 DEF Append, TypeOK
  <2>4. rows[HashOf[at[w]]] = outcome[w] /\ txn[HashOf[at[w]]] = None
    BY <2>1 DEF LastInv, Mine
  <2>5. at[w] \in Items /\ at[w] \notin queue BY <2>1, <1>busy, HashAt DEF PoolInv
  <2>6. stop' => \E i \in seen' : QuotaLine(i)' /\ rows'[HashOf[i]].status = "quota"
    <3>1. CASE stop BY <2>1, <2>2, <3>1 DEF LastInv, QuotaLine
    <3>2. CASE ~stop /\ stop'
      <4>1. outcome[w].status = "quota" BY <2>2, <3>2
      <4>2. MyLine(w).hash = HashOf[at[w]] /\ MyLine(w).row.status = "quota"
        BY <4>1 DEF MyLine, Mine
      <4> QED BY <2>1, <2>2, <2>4, <4>1, <4>2 DEF QuotaLine
    <3> QED BY <3>1, <3>2
  <2>7. \A v \in Workers : at'[v] \notin seen'
    <3> SUFFICES ASSUME NEW v \in Workers, at'[v] # None PROVE at'[v] \notin seen'
      BY <2>2, <2>5, <1>seen, WorkerNamesAssumption
    <3>1. v # w /\ at'[v] = at[v] BY <2>3, WorkLocal
    <3>2. at[v] # at[w] BY <2>5, <3>1 DEF PoolInv
    <3> QED BY <2>2, <3>1, <3>2 DEF LastInv
  <2>8. \A v \in Workers : pc'[v] \in {"commit", "line"} =>
          pc[v] = pc'[v] /\ Mine(v)' = Mine(v) /\ outcome'[v] = outcome[v]
    BY <2>3, WorkLocal DEF Mine
  <2>9. \A i \in seen' : i \notin queue' /\ txn'[HashOf[i]] = None
    BY <2>1, <2>2, <2>4, <2>5 DEF LastInv
  <2> QED BY <2>1, <2>6, <2>7, <2>8, <2>9 DEF LastInv, Inserted
<1>8. CASE SaveRaises(w)
  <2>1. UNCHANGED <<rows, txn, queue, stop, seen>> BY <1>8 DEF SaveRaises
  <2>2. pc'[w] \in {"dead", "insert"} /\ at'[w] \in {at[w], None}
    <3>1. CASE outcome[w].status = "error" BY <1>8, <3>1 DEF SaveRaises, TypeOK
    <3>2. CASE outcome[w].status # "error" BY <1>8, <3>2 DEF SaveRaises, TypeOK
    <3> QED BY <3>1, <3>2
  <2>3. at'[w] \notin seen BY <2>2, <1>seen, WorkerNamesAssumption DEF LastInv
  <2> QED BY <1>quiet, <2>1, <2>2, <2>3
<1> QED BY <1>1, <1>2, <1>3, <1>4, <1>5, <1>6, <1>7, <1>8 DEF Work

LEMMA LastInvariant ==
  ASSUME NoDuplicates
  PROVE  Spec => []LastInv
<1>1. Init => LastInv BY DEF Init, LastInv
<1>2. TypeOK /\ PoolInv /\ LastInv /\ [Next]_vars => LastInv'
  <2>1. CASE UNCHANGED vars
    BY <2>1 DEF vars, disk, pool, LastInv, QuotaLine, Inserted, Mine
  <2> QED BY <2>1, WorkLasts, MainLasts DEF Next
<1> QED BY WorkerTypes, <1>1, <1>2, PTL DEF Spec

LEMMA CountedOrStopped ==
  ASSUME TypeOK, PoolInv, AccountInv, main = "rewrite"
  PROVE  stop \/ seen = picked
<1>1. queue = {} /\ \A w \in Workers : at[w] = None /\ pc[w] # "dead"
  BY DEF PoolInv, AccountInv
<1>2. \A i \in picked : i # None BY DEF TypeOK
<1>3. \A i \in picked : i \in seen \/ stop BY <1>1, <1>2 DEF AccountInv
<1> QED BY <1>3 DEF TypeOK

\* When a run rewrites its results, every item it counted has a row, and it left
\* items out only after a quota refusal it has on record: for every manifest, pool
\* size and retry limit, with or without failing writes, after any crashes.
THEOREM NothingIsLost == Spec => []NothingLost
<1>1. CASE NoDuplicates
  <2>1. TypeOK /\ PoolInv /\ AccountInv /\ LastInv => NothingLost
    BY CountedOrStopped DEF AccountInv, LastInv, QuotaLine, NothingLost
  <2> QED BY <1>1, <2>1, WorkerTypes, AccountInvariant, LastInvariant, PTL
<1>2. CASE ~NoDuplicates
  <2>1. TypeOK /\ PoolInv /\ AccountInv => NothingLost
    BY <1>2, CountedOrStopped DEF AccountInv, QuotaLine, NothingLost
  <2> QED BY <2>1, WorkerTypes, AccountInvariant, PTL
<1> QED BY <1>1, <1>2

=============================================================================
