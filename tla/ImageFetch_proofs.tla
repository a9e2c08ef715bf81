-------------------------- MODULE ImageFetch_proofs --------------------------
(* Proofs about ImageFetch, for any candidates, pages, images and limits. *)
EXTENDS ImageFetch, FiniteSetTheorems, TLAPS

USE HashAssumption, CandidateAssumption, LimitAssumption, InputAssumption, NoneAssumption

-----------------------------------------------------------------------------
(* The operators *)

\* Both options have a value on the command line, and that value counts.
LEMMA ArgsWin ==
  ASSUME NEW json, NEW env, NEW cli \in [Options -> BOOLEAN]
  PROVE  FetchOk(FromArgs(json, env, cli)) = (cli["fetch"] /\ ~cli["dry_run"])
<1>1. \A o \in Options : cli[o] # None OBVIOUS
<1>2. \A o \in Options : FromArgs(json, env, cli)[o] = cli[o] BY <1>1 DEF FromArgs, Over
<1> QED BY <1>2 DEF FetchOk, Options

\* ManifestWriter.add keeps what is there and adds at most the row it is given.
LEMMA AddFacts ==
  ASSUME NEW seq \in Seq(Row), NEW r \in Row
  PROVE  /\ Add(seq, r) \in Seq(Row)
         /\ \A i \in DOMAIN Add(seq, r) :
              Add(seq, r)[i] = r \/ \E j \in DOMAIN seq : Add(seq, r)[i] = seq[j]
         /\ \A j \in DOMAIN seq : j \in DOMAIN Add(seq, r) /\ Add(seq, r)[j] = seq[j]
         /\ Key(r) \notin Keys(seq) => \E i \in DOMAIN Add(seq, r) : Add(seq, r)[i] = r
<1>1. CASE Key(r) \in Keys(seq) BY <1>1 DEF Add
<1>2. CASE Key(r) \notin Keys(seq)
  <2>1. Add(seq, r) = Append(seq, r) BY <1>2 DEF Add
  <2>2. /\ Append(seq, r) \in Seq(Row)
        /\ DOMAIN Append(seq, r) = 1..(Len(seq) + 1) /\ DOMAIN seq = 1..Len(seq)
        /\ Append(seq, r)[Len(seq) + 1] = r
        /\ \A j \in 1..Len(seq) : Append(seq, r)[j] = seq[j]
    OBVIOUS
  <2>3. Len(seq) \in Nat OBVIOUS
  <2>4. \A i \in 1..(Len(seq) + 1) : i \in 1..Len(seq) \/ i = Len(seq) + 1 BY <2>3
  <2>5. Len(seq) + 1 \in 1..(Len(seq) + 1) BY <2>3
  <2>6. \A j \in 1..Len(seq) : j \in 1..(Len(seq) + 1) BY <2>3
  <2> QED BY <2>1, <2>2, <2>4, <2>5, <2>6
<1> QED BY <1>1, <1>2

\* Nor does a row that is appended disturb the others.
LEMMA AppendFacts ==
  ASSUME NEW seq \in Seq(Row), NEW r \in Row
  PROVE  /\ Append(seq, r) \in Seq(Row)
         /\ DOMAIN Append(seq, r) = DOMAIN seq \cup {Len(seq) + 1}
         /\ Append(seq, r)[Len(seq) + 1] = r
         /\ \A j \in DOMAIN seq : Append(seq, r)[j] = seq[j] /\ j < Len(seq) + 1
<1>1. Len(seq) \in Nat /\ DOMAIN seq = 1..Len(seq) OBVIOUS
<1>2. 1..(Len(seq) + 1) = (1..Len(seq)) \cup {Len(seq) + 1} BY <1>1
<1>3. DOMAIN Append(seq, r) = 1..(Len(seq) + 1) OBVIOUS
<1> QED BY <1>1, <1>2, <1>3

\* A URL more to try is so many requests more.
LEMMA OneMore ==
  ASSUME NEW S \in SUBSET Urls, NEW u \in Urls
  PROVE  /\ Cardinality(S) \in Nat /\ Cardinality(S) <= Cardinality(Urls)
         /\ Cardinality(S) * (MaxRetries + 1) \in Nat
         /\ Cardinality(S) * (MaxRetries + 1) <= Cardinality(Urls) * (MaxRetries + 1)
         /\ u \notin S => Cardinality(S \cup {u}) * (MaxRetries + 1)
                            = Cardinality(S) * (MaxRetries + 1) + (MaxRetries + 1)
<1>1. IsFiniteSet(S) /\ Cardinality(S) <= Cardinality(Urls) BY FS_Subset
<1>2. Cardinality(S) \in Nat /\ Cardinality(Urls) \in Nat BY <1>1, FS_CardinalityType
<1>3. u \notin S => Cardinality(S \cup {u}) = Cardinality(S) + 1 BY <1>1, FS_AddElement
<1>4. \A m, n, k \in Nat : m * k \in Nat /\ (m + 1) * k = m * k + k
  BY SMT
<1>5. \A m, n, k \in Nat : m <= n => m * k <= n * k BY SMT
<1>6. MaxRetries + 1 \in Nat OBVIOUS
<1>7. Cardinality(S) * (MaxRetries + 1) \in Nat BY <1>2, <1>4, <1>6
<1>8. Cardinality(S) * (MaxRetries + 1) <= Cardinality(Urls) * (MaxRetries + 1)
  BY <1>1, <1>2, <1>5, <1>6
<1>9. (Cardinality(S) + 1) * (MaxRetries + 1)
        = Cardinality(S) * (MaxRetries + 1) + (MaxRetries + 1)
  BY <1>2, <1>4, <1>6
<1> QED BY <1>1, <1>2, <1>3, <1>7, <1>8, <1>9

\* The sequences of page_candidates_enhanced are sequences of URLs.
LEMMA PagesTyped ==
  ASSUME NEW u \in Urls, NEW tried, NEW q \in PageCandidates(u, tried)
  PROVE  q \in Seq(Urls)
<1> DEFINE s == Shown(u)
<1> DEFINE icons == [n \in DOMAIN Favicons[u] |-> [url |-> Favicons[u][n], score |-> 0]]
<1> DEFINE Find == [url : Urls, score : Nat]
<1>a. \A f \in Find : f.url \in Urls OBVIOUS
<1>b. Links[u] \in Seq(Find) BY PageAssumption
<1>c. \A v \in Urls : [url |-> v, score |-> 0] \in Find OBVIOUS
<1> HIDE DEF Find
<1>1. icons \in Seq(Find)
  <2>1. Favicons[u] \in Seq(Urls) BY PageAssumption
  <2>2. DOMAIN Favicons[u] = 1..Len(Favicons[u]) /\ Len(Favicons[u]) \in Nat BY <2>1
  <2>3. \A n \in DOMAIN Favicons[u] : Favicons[u][n] \in Urls BY <2>1
  <2>4. icons \in [1..Len(Favicons[u]) -> Find] BY <1>c, <2>2, <2>3
  <2> QED BY <2>2, <2>4
<1>2. s \in Seq(Find)
  <2>1. s = Links[u] \o icons BY DEF Shown
  <2> HIDE DEF s, icons
  <2> QED BY <1>b, <1>1, <2>1
<1>3. \A i \in DOMAIN s : s[i].url \in Urls
  <2> HIDE DEF s
  <2>1. \A i \in DOMAIN s : s[i] \in Find BY <1>2
  <2> QED BY <1>a, <2>1
<1> HIDE DEF s, icons
<1> DEFINE Ahead(i, j) == \/ s[i].score > s[j].score
                          \/ s[i].score = s[j].score /\ i < j
<1> DEFINE best == {i \in DOMAIN s :
                      /\ s[i].url \notin tried
                      /\ \A j \in DOMAIN s : s[j].url = s[i].url => ~Ahead(j, i)}
<1>4. PICK o \in [1..Cardinality(best) -> best] :
        q = [n \in 1..Cardinality(best) |-> s[o[n]].url]
  BY Zenon DEF PageCandidates, s
<1>5. \A i \in best : s[i].url \in Urls BY <1>3
<1>6. IsFiniteSet(best)
  <2>1. DOMAIN s = 1..Len(s) /\ Len(s) \in Nat BY <1>2
  <2>2. IsFiniteSet(DOMAIN s) BY <2>1, FS_Interval
  <2>3. best \subseteq DOMAIN s OBVIOUS
  <2> QED BY <2>2, <2>3, FS_Subset
<1>7. Cardinality(best) \in Nat BY <1>6, FS_CardinalityType
<1> HIDE DEF best
<1>8. \A n \in 1..Cardinality(best) : s[o[n]].url \in Urls BY <1>5
<1> QED BY <1>4, <1>7, <1>8

-----------------------------------------------------------------------------
(* Where a script is *)

\* What it holds at each place, and that it is there with the flags it needs.
InHand == {"pick", "fetch", "scrape", "judge"}
PlaceInv ==
  /\ fetch_ok => "operator" \in asked
  /\ phase \in {"fetch", "scrape", "judge"} => fetch_ok /\ url \in attempted
  /\ phase \in InHand => hash \in Hashes /\ hash \notin todo
  /\ phase = "scrape" => pages < PageLimit
  /\ phase = "judge" => file[hash] \in Payloads
  /\ script = "upgrade" => phase # "scrape"
  /\ phase = "off" => rows = <<>>

\* rescue: every URL tried accounts for its retries and one request, the one in hand for
\* those it has not had yet; every page for one.
Used == Cardinality(attempted) * (MaxRetries + 1) + pages
SentInv ==
  script = "rescue" =>
    /\ sent <= Used
    /\ phase = "fetch" => sent + MaxRetries + 1 <= Used + attempt

\* upgrade: the last verdict on a hash tells what is there, but for the one whose
\* next image is yet to be judged.
Reported ==
  \A i \in DOMAIN rows :
    LastVerdict(i) /\ ~(phase = "judge" /\ rows[i].hash = hash) => Told(rows[i])
UpgradeInv == script = "upgrade" => Reported

\* rescue: the rows in memory that the manifest does not have are of hashes begun
\* in this run, and of the one in hand for URLs it has tried; what a hash was
\* resolved by has its row.
RecordedInv ==
  /\ \A i \in DOMAIN rows :
       \/ Key(rows[i]) \in Keys(manifest)
       \/ /\ rows[i].hash \notin todo
          /\ phase \in InHand /\ fetch_ok /\ rows[i].hash = hash => rows[i].url \in attempted
  /\ script = "rescue" /\ phase = "fetch" /\ <<hash, url>> \in Keys(rows)
       => <<hash, url>> \in Keys(manifest)
  /\ phase \in InHand => got[hash] = None
  /\ \A h \in Hashes : got[h] # None =>
       /\ script = "rescue" /\ h \notin todo /\ phase # "off"
       /\ \/ <<h, got[h]>> \in Keys(manifest)
          \/ \E i \in DOMAIN rows : rows[i] = RowOf(h, got[h])

LEMMA BoundNat == Bound \in Nat /\ 0 \in 0..(Bound + 1)
<1>1. Cardinality(Urls) \in Nat BY FS_CardinalityType
<1>2. \A m, n, k \in Nat : m * (n + 1) + k \in Nat BY SMT
<1>3. Bound \in Nat BY <1>1, <1>2 DEF Bound
<1> QED BY <1>3

LEMMA Nothing ==
  /\ <<>> \in Seq(Row) /\ <<>> \in Seq(Urls)
  /\ 0 \in 0..MaxRetries /\ 0 \in 0..PageLimit
  /\ [h \in Hashes |-> None] \in [Hashes -> Urls \cup {None}]
OBVIOUS

LEMMA InitPlace == Init => TypeOK /\ PlaceInv
<1> SUFFICES ASSUME Init PROVE TypeOK /\ PlaceInv OBVIOUS
<1>1. file \in [Hashes -> Payloads \cup {None}] BY DEF Init
<1>2. TypeOK BY <1>1, Nothing, BoundNat DEF Init, TypeOK, Phases
<1>3. PlaceInv BY DEF Init, PlaceInv, InHand
<1> QED BY <1>2, <1>3

\* What a row in memory may say.
LEMMA EntryTyped ==
  ASSUME TypeOK, PlaceInv, phase \in InHand, NEW u \in Urls, NEW st \in Status,
         NEW c \in Payloads \cup {None}
  PROVE  Entry(u, st, c) \in Row
BY DEF PlaceInv, Entry, Row

LEMMA CountTyped == ASSUME TypeOK, Count PROVE sent' \in 0..(Bound + 1)
BY BoundNat DEF TypeOK, Count

\* A script that is over has forgotten its run.
LEMMA RestTyped ==
  ASSUME TypeOK, Rest, manifest' \in Seq(Row), UNCHANGED <<file, script>>
  PROVE  TypeOK' /\ PlaceInv'
<1>1. TypeOK' BY Nothing, BoundNat DEF TypeOK, Rest, Phases
<1>2. PlaceInv' BY DEF PlaceInv, Rest, InHand
<1> QED BY <1>1, <1>2

\* A script starts to fetch only if both flags are given.
LEMMA StartTyped ==
  ASSUME TypeOK, PlaceInv, StartRescue \/ StartUpgrade
  PROVE  TypeOK' /\ PlaceInv'
<1>1. PICK json \in Layers, env \in Layers, cli \in [Options -> BOOLEAN] :
        Configure(json, env, cli)
  BY DEF StartRescue, StartUpgrade
<1>2. asked' \subseteq {"operator", "environment"} /\ fetch_ok' = ("operator" \in asked')
  <2>1. fetch_ok' \in BOOLEAN /\ fetch_ok' = (cli["fetch"] /\ ~cli["dry_run"])
    BY <1>1, ArgsWin DEF Configure, Options
  <2>2. cli["fetch"] \in BOOLEAN /\ cli["dry_run"] \in BOOLEAN BY DEF Options
  <2>3. "operator" \in asked' <=> cli["fetch"] /\ Opens(cli) BY <1>1 DEF Configure
  <2>4. asked' \subseteq {"operator", "environment"} BY <1>1 DEF Configure
  <2> QED BY <2>1, <2>2, <2>3, <2>4 DEF Opens
<1>3. got' \in [Hashes -> Urls \cup {None}] BY <1>1 DEF Configure
<1>4. CASE StartRescue
  <2>1. PICK n \in 1..Cardinality(Hashes), old \in {<<>>, manifest} :
          manifest' = old /\ rows' = old /\ todo' = First(n, Hashes)
    BY <1>4 DEF StartRescue
  <2>a. rows' \in Seq(Row) /\ manifest' \in Seq(Row) BY <2>1, Nothing DEF TypeOK
  <2>b. todo' \subseteq Hashes BY <2>1 DEF First
  <2>2. TypeOK' BY <1>2, <1>3, <1>4, <2>a, <2>b DEF StartRescue, TypeOK, Phases, local
  <2>3. PlaceInv' BY <1>2, <1>4 DEF StartRescue, PlaceInv, InHand
  <2> QED BY <2>2, <2>3
<1>5. CASE StartUpgrade
  <2>1. todo' \subseteq Hashes /\ phase' \in {"next", "close"} BY <1>5 DEF StartUpgrade
  <2>2. TypeOK' BY <1>2, <1>3, <1>5, <2>1 DEF StartUpgrade, TypeOK, Phases, disk, local
  <2>3. PlaceInv' BY <1>2, <1>5, <2>1 DEF StartUpgrade, PlaceInv, InHand
  <2> QED BY <2>2, <2>3
<1> QED BY <1>4, <1>5

\* The steps that note an outcome and go on.
LEMMA NoteTyped ==
  ASSUME TypeOK, PlaceInv, phase \in {"fetch", "judge"}, After,
         NEW st \in Status, NEW c \in Payloads \cup {None}, Note(st, c),
         file' \in [Hashes -> Payloads \cup {None}], manifest' = manifest,
         got' \in [Hashes -> Urls \cup {None}], sent' \in 0..(Bound + 1),
         phase' \in {"pick", "next", "close", "scrape"},
         phase' = "scrape" => pages < PageLimit /\ script = "rescue" /\ phase = "fetch"
  PROVE  TypeOK' /\ PlaceInv'
<1>1. url \in Urls /\ phase \in InHand BY DEF PlaceInv, TypeOK, InHand
<1>2. rows' \in Seq(Row)
  <2>1. Entry(url, st, c) \in Row /\ rows \in Seq(Row) BY <1>1, EntryTyped DEF TypeOK
  <2>2. rows' \in {Add(rows, Entry(url, st, c)), Append(rows, Entry(url, st, c))}
    BY DEF Note
  <2> DEFINE e == Entry(url, st, c)
  <2>3. e \in Row /\ rows \in Seq(Row) /\ rows' \in {Add(rows, e), Append(rows, e)}
    BY <2>1, <2>2
  <2> HIDE DEF e
  <2>4. Add(rows, e) \in Seq(Row) BY ONLY <2>3, AddFacts
  <2>5. Append(rows, e) \in Seq(Row) BY ONLY <2>3, AppendFacts
  <2> QED BY <2>3, <2>4, <2>5
<1>3. TypeOK' BY <1>2 DEF TypeOK, After, config, Phases
<1>4. PlaceInv' BY DEF PlaceInv, After, config, InHand
<1> QED BY <1>3, <1>4

LEMMA StepTyped ==
  ASSUME TypeOK, PlaceInv, Step
  PROVE  TypeOK' /\ PlaceInv'
<1> USE DEF disk, config, local, Frame
<1>1. CASE NextHash
  <2>1. PICK h \in todo :
          /\ hash' = h /\ todo' = todo \ {h}
          /\ queue' = Candidates[h]
    BY <1>1 DEF NextHash
  <2>2. h \in Hashes BY DEF TypeOK
  <2>3. queue' \in Seq(Urls) BY <2>1, <2>2
  <2>4. TypeOK' BY <1>1, <2>1, <2>2, <2>3, Nothing, BoundNat DEF NextHash, TypeOK, Phases
  <2>5. PlaceInv' BY <1>1, <2>1, <2>2 DEF NextHash, PlaceInv, InHand
  <2> QED BY <2>4, <2>5
<1>2. CASE NoMore
  BY <1>2 DEF NoMore, TypeOK, Phases, PlaceInv, InHand
<1>3. CASE List
  <2>1. Head(queue) \in Urls /\ Tail(queue) \in Seq(Urls) BY <1>3 DEF List, TypeOK
  <2>2. Entry(Head(queue), "candidate", None) \in Row
    BY <1>3, <2>1, EntryTyped DEF List, InHand, Status
  <2>3. rows' \in Seq(Row) BY <1>3, <2>2, AddFacts DEF List, TypeOK
  <2>4. TypeOK' BY <1>3, <2>1, <2>3 DEF List, TypeOK
  <2>5. PlaceInv' BY <1>3 DEF List, PlaceInv, InHand
  <2> QED BY <2>4, <2>5
<1>4. CASE Pick
  <2>1. Head(queue) \in Urls /\ Tail(queue) \in Seq(Urls) BY <1>4 DEF Pick, TypeOK
  <2>2. CASE script = "rescue" /\ Head(queue) \in attempted
    BY <1>4, <2>1, <2>2 DEF Pick, TypeOK, PlaceInv, InHand
  <2>3. CASE ~(script = "rescue" /\ Head(queue) \in attempted)
    <3>1. 0 \in 0..MaxRetries OBVIOUS
    <3>2. TypeOK' BY <1>4, <2>1, <2>3, <3>1 DEF Pick, TypeOK, Phases
    <3>3. PlaceInv' BY <1>4, <2>3 DEF Pick, PlaceInv, InHand
    <3> QED BY <3>2, <3>3
  <2> QED BY <2>2, <2>3
<1>5. CASE GiveUp
  BY <1>5 DEF GiveUp, TypeOK, Phases, PlaceInv, InHand
<1>6. CASE Retry
  <2>1. attempt' \in 0..MaxRetries BY <1>6 DEF Retry, TypeOK
  <2>2. sent' \in 0..(Bound + 1) BY <1>6, CountTyped DEF Retry
  <2> QED BY <1>6, <2>1, <2>2 DEF Retry, TypeOK, PlaceInv, InHand
<1>place. phase \in {"fetch", "judge"} => hash \in Hashes /\ url \in Urls
  BY DEF PlaceInv, InHand, TypeOK
<1>image. \A p \in Images[url] : url \in Urls => p \in Payloads BY ImageAssumption
<1>7. CASE Rescued
  <2>1. PICK p \in Images[url] : file' = [file EXCEPT ![hash] = p] /\ Note("ok", p)
    BY <1>7 DEF Rescued
  <2>2. p \in Payloads /\ hash \in Hashes /\ url \in Urls
    BY <1>7, <1>place, <1>image DEF Rescued
  <2>3. file' \in [Hashes -> Payloads \cup {None}] BY <2>1, <2>2 DEF TypeOK
  <2>4. got' \in [Hashes -> Urls \cup {None}] BY <1>7, <2>2 DEF Rescued, TypeOK
  <2>5. sent' \in 0..(Bound + 1) BY <1>7, CountTyped DEF Rescued
  <2>6. "ok" \in Status BY DEF Status
  <2> QED BY <1>7, <2>1, <2>2, <2>3, <2>4, <2>5, <2>6, NoteTyped DEF Rescued
<1>failed. "failed" \in Status BY DEF Status
<1>8. CASE NoImage
  <2>1. sent' \in 0..(Bound + 1) BY <1>8, CountTyped DEF NoImage
  <2>2. /\ phase = "fetch" /\ After /\ Note("failed", None) /\ UNCHANGED <<disk, got>>
        /\ phase' \in {"pick", "scrape"}
        /\ phase' = "scrape" => pages < PageLimit /\ script = "rescue"
    BY <1>8 DEF NoImage
  <2> QED BY <2>1, <2>2, <1>failed, NoteTyped DEF TypeOK
<1>9. CASE Refused
  <2>1. sent' \in 0..(Bound + 1) BY <1>9, CountTyped DEF Refused, TypeOK
  <2>2. /\ phase = "fetch" /\ After /\ Note("failed", None) /\ UNCHANGED <<disk, got>>
        /\ phase' = "pick"
    BY <1>9 DEF Refused
  <2> QED BY <2>1, <2>2, <1>failed, NoteTyped DEF TypeOK
<1>10. CASE QuotaStop
  <2>1. sent' \in 0..(Bound + 1) BY <1>10, CountTyped DEF QuotaStop
  <2>2. /\ phase = "fetch" /\ After /\ Note("failed", None) /\ UNCHANGED <<disk, got>>
        /\ phase' \in {"pick", "close"}
    BY <1>10 DEF QuotaStop
  <2> QED BY <2>1, <2>2, <1>failed, NoteTyped DEF TypeOK
<1>11. CASE Scrape
  <2>1. url \in Urls BY <1>11 DEF Scrape, PlaceInv, TypeOK
  <2>2. queue' \in Seq(Urls)
    <3>1. \A a, b \in Seq(Urls) : a \o b \in Seq(Urls) OBVIOUS
    <3> QED BY <1>11, <2>1, <3>1, PagesTyped DEF Scrape, TypeOK
  <2>3. pages' \in 0..PageLimit BY <1>11 DEF Scrape, PlaceInv, TypeOK
  <2>4. sent' \in 0..(Bound + 1) BY <1>11, CountTyped DEF Scrape
  <2>5. TypeOK' BY <1>11, <2>2, <2>3, <2>4 DEF Scrape, TypeOK, Phases
  <2>6. PlaceInv' BY <1>11 DEF Scrape, PlaceInv, InHand
  <2> QED BY <2>5, <2>6
<1>12. CASE Upgraded
  <2>1. PICK p \in Images[url] : file' = [file EXCEPT ![hash] = p] BY <1>12 DEF Upgraded
  <2>2. p \in Payloads /\ hash \in Hashes BY <1>12, <1>place, <1>image DEF Upgraded
  <2>3. file' \in [Hashes -> Payloads \cup {None}] /\ file'[hash] = p
    BY <2>1, <2>2 DEF TypeOK
  <2>4. sent' \in 0..(Bound + 1) BY <1>12, CountTyped DEF Upgraded
  <2>5. TypeOK' BY <1>12, <2>3, <2>4 DEF Upgraded, After, TypeOK, Phases
  <2>6. PlaceInv' BY <1>12, <2>2, <2>3 DEF Upgraded, After, PlaceInv, InHand
  <2> QED BY <2>5, <2>6
<1>13. CASE Judge
  <2>1. phase = "judge" /\ After /\ phase' = "pick" /\ UNCHANGED <<manifest, got, sent>>
    BY <1>13 DEF Judge
  <2>2. file' \in [Hashes -> Payloads \cup {None}] BY <1>13 DEF Judge, TypeOK
  <2>3. PICK st \in {"larger", "no_gain"} : Note(st, file[hash]) BY <1>13 DEF Judge
  <2>4. file[hash] \in Payloads /\ st \in Status BY <2>1 DEF PlaceInv, Status
  <2>5. got' \in [Hashes -> Urls \cup {None}] /\ sent' \in 0..(Bound + 1)
    BY <2>1 DEF TypeOK
  <2> QED BY <2>1, <2>2, <2>3, <2>4, <2>5, NoteTyped
<1>14. CASE Close
  BY <1>14, RestTyped DEF Close, TypeOK
<1> QED
  BY <1>1, <1>2, <1>3, <1>4, <1>5, <1>6, <1>7, <1>8, <1>9, <1>10, <1>11, <1>12, <1>13, <1>14
     DEF Step

LEMMA TypedStep == TypeOK /\ PlaceInv /\ [Next]_vars => TypeOK' /\ PlaceInv'
<1> SUFFICES ASSUME TypeOK, PlaceInv, [Next]_vars PROVE TypeOK' /\ PlaceInv' OBVIOUS
<1>1. CASE UNCHANGED vars
  BY <1>1 DEF vars, disk, config, local, TypeOK, PlaceInv, InHand
<1>2. CASE Die BY <1>2, RestTyped DEF Die, disk, TypeOK
<1> QED BY <1>1, <1>2, StartTyped, StepTyped DEF Next

LEMMA PlaceInvariant == Spec => [](TypeOK /\ PlaceInv)
BY InitPlace, TypedStep, PTL DEF Spec

\* Type correctness, for every manifest, every page and every image.
THEOREM FetchTypes == Spec => []TypeOK
BY PlaceInvariant, PTL

-----------------------------------------------------------------------------
(* Requests *)

\* No request without both flags of the operator, whatever the JSON file and the environment say.
THEOREM SocketsAsked == Spec => AskedForSockets
<1>1. ASSUME TypeOK, PlaceInv, [Next]_vars PROVE [sent' > sent => "operator" \in asked]_vars
  <2> SUFFICES ASSUME Next, sent' > sent PROVE "operator" \in asked
    BY <1>1
  <2>1. sent \in Nat /\ 0 <= sent BY <1>1, BoundNat DEF TypeOK
  <2>2. sent' # sent /\ sent' # 0 BY <2>1
  <2>3. phase \in {"fetch", "scrape"}
    BY <2>2 DEF Next, Step, StartRescue, StartUpgrade, NextHash, NoMore, List, Pick, GiveUp,
      Retry, Rescued, NoImage, Refused, QuotaStop, Scrape, Upgraded, Judge, Close, Die,
      Rest, local, vars
  <2> QED BY <1>1, <2>3 DEF PlaceInv
<1> QED BY PlaceInvariant, <1>1, PTL DEF Spec, AskedForSockets

LEMMA UsedBound == TypeOK => Used \in Nat /\ Used <= Bound /\ sent \in Nat
<1> SUFFICES ASSUME TypeOK PROVE Used \in Nat /\ Used <= Bound /\ sent \in Nat OBVIOUS
<1> DEFINE m == Cardinality(attempted) * (MaxRetries + 1)
<1> DEFINE n == Cardinality(Urls) * (MaxRetries + 1)
<1>1. m \in Nat /\ m <= n
  <2>1. CASE Urls = {}
    <3>1. attempted = {} BY <2>1 DEF TypeOK
    <3>2. Cardinality(attempted) = 0 /\ Cardinality(Urls) = 0 BY <2>1, <3>1, FS_EmptySet
    <3> QED BY <3>2
  <2>2. CASE Urls # {} BY <2>2, OneMore DEF TypeOK
  <2> QED BY <2>1, <2>2
<1>2. n \in Nat
  <2>1. Cardinality(Urls) \in Nat /\ MaxRetries + 1 \in Nat BY FS_CardinalityType
  <2> QED BY <2>1, SMT
<1>3. pages \in Nat /\ pages <= PageLimit BY DEF TypeOK
<1>4. sent \in Nat BY BoundNat DEF TypeOK
<1>5. Used = m + pages /\ Bound = n + PageLimit BY DEF Used, Bound
<1> HIDE DEF m, n
<1> QED BY <1>1, <1>2, <1>3, <1>4, <1>5

\* One request, as long as the count is within bounds.
LEMMA OneRequest ==
  ASSUME TypeOK, SentInv, script = "rescue", Count PROVE sent' = sent + 1
<1>1. sent <= Bound BY UsedBound, BoundNat DEF SentInv
<1>2. ~(sent > Bound) BY <1>1, UsedBound, BoundNat
<1> QED BY <1>2 DEF Count

\* A download that ends: the request in hand was the last one for the URL.
LEMMA EndOfFetch ==
  ASSUME TypeOK, SentInv, script = "rescue", phase = "fetch", phase' # "fetch",
         Count \/ UNCHANGED sent, UNCHANGED <<attempted, pages>>
  PROVE  SentInv'
<1>1. sent' \in {sent, sent + 1} BY OneRequest
<1>2. Used' = Used BY DEF Used
<1>3. sent \in Nat /\ Used \in Nat /\ attempt \in Nat /\ attempt <= MaxRetries
  BY UsedBound DEF TypeOK
<1>4. sent + MaxRetries + 1 <= Used + attempt BY DEF SentInv
<1>5. sent + 1 <= Used BY <1>3, <1>4
<1> QED BY <1>1, <1>2, <1>3, <1>5 DEF SentInv

LEMMA SentStep ==
  ASSUME TypeOK, PlaceInv, SentInv, [Next]_vars
  PROVE  SentInv'
<1> USE DEF disk, config, local, Frame, After
<1> SUFFICES ASSUME script' = "rescue" PROVE SentInv' BY DEF SentInv
<1>s. script = "rescue"
  BY DEF Next, Step, StartRescue, StartUpgrade, NextHash, NoMore, List, Pick, GiveUp, Retry,
    Rescued, NoImage, Refused, QuotaStop, Scrape, Upgraded, Judge, Close, Die, vars
<1> USE <1>s
<1>use. Used \in Nat /\ sent \in Nat BY UsedBound
<1>zero. ASSUME sent' = 0, attempted' = {}, pages' = 0, phase' # "fetch" PROVE SentInv'
  <2>1. Cardinality({}) = 0 BY FS_EmptySet
  <2>2. Used' = 0 BY <1>zero, <2>1 DEF Used
  <2> QED BY <1>zero, <2>2 DEF SentInv
<1>same. ASSUME UNCHANGED <<sent, attempted, pages>>, phase' # "fetch" PROVE SentInv'
  BY <1>same DEF SentInv, Used
<1>1. CASE UNCHANGED vars BY <1>1 DEF vars, SentInv, Used
<1>2. CASE Close \/ Die \/ NextHash
  BY <1>2, <1>zero DEF Close, Die, Rest, NextHash
<1>3. CASE StartRescue \/ StartUpgrade \/ NoMore \/ List \/ GiveUp \/ Judge
  <2>1. UNCHANGED <<sent, attempted, pages>> /\ phase' # "fetch"
    BY <1>3 DEF StartRescue, StartUpgrade, NoMore, List, GiveUp, Judge
  <2> QED BY <2>1, <1>same
<1>4. CASE Pick
  <2>1. CASE Head(queue) \in attempted
    BY <1>4, <2>1, <1>same DEF Pick
  <2>2. CASE Head(queue) \notin attempted
    <3>1. Head(queue) \in Urls BY <1>4 DEF Pick, TypeOK
    <3>2. /\ attempted' = attempted \cup {Head(queue)} /\ pages' = pages
          /\ attempt' = 0 /\ sent' = sent
      BY <1>4, <2>2 DEF Pick
    <3>3. Cardinality(attempted \cup {Head(queue)}) * (MaxRetries + 1)
            = Cardinality(attempted) * (MaxRetries + 1) + (MaxRetries + 1)
      BY <2>2, <3>1, OneMore DEF TypeOK
    <3>4. Cardinality(attempted) * (MaxRetries + 1) \in Nat /\ pages \in Nat
      <4>1. attempted \in SUBSET Urls /\ pages \in Nat BY DEF TypeOK
      <4> HIDE DEF Used
      <4> QED BY <3>1, <4>1, OneMore
    <3>5. Used' = Used + (MaxRetries + 1)
      <4> DEFINE m == Cardinality(attempted) * (MaxRetries + 1)
      <4>1. Used = m + pages /\ Used' = (m + (MaxRetries + 1)) + pages
        BY <3>2, <3>3 DEF Used
      <4>2. m \in Nat BY <3>4
      <4> HIDE DEF m
      <4> QED BY <3>4, <4>1, <4>2
    <3>6. sent <= Used BY DEF SentInv
    <3>7. sent' <= Used' /\ sent' + MaxRetries + 1 <= Used' + attempt'
      BY <3>2, <3>5, <3>6, <1>use
    <3> QED BY <3>7 DEF SentInv
  <2> QED BY <2>1, <2>2
<1>5. CASE Retry
  <2>1. sent' = sent + 1 BY <1>5, OneRequest DEF Retry
  <2>2. /\ attempt < MaxRetries /\ attempt' = attempt + 1 /\ attempt \in Nat
        /\ phase = "fetch" /\ UNCHANGED <<attempted, pages, phase>>
    BY <1>5 DEF Retry, TypeOK
  <2>3. Used' = Used BY <2>2 DEF Used
  <2>4. sent + MaxRetries + 1 <= Used + attempt BY <2>2 DEF SentInv
  <2>5. sent' <= Used' /\ sent' + MaxRetries + 1 <= Used' + attempt'
    BY <2>1, <2>2, <2>3, <2>4, <1>use
  <2> QED BY <2>5 DEF SentInv
<1>6. CASE Rescued \/ NoImage \/ Refused \/ QuotaStop \/ Upgraded
  <2>1. /\ phase = "fetch" /\ phase' # "fetch" /\ (Count \/ UNCHANGED sent)
        /\ UNCHANGED <<attempted, pages>>
    BY <1>6 DEF Rescued, NoImage, Refused, QuotaStop, Upgraded
  <2> QED BY <2>1, EndOfFetch
<1>7. CASE Scrape
  <2>1. sent' = sent + 1 BY <1>7, OneRequest DEF Scrape
  <2>2. pages' = pages + 1 /\ attempted' = attempted /\ phase' = "pick" BY <1>7 DEF Scrape
  <2>3. Used' = Used + 1
    <3> DEFINE m == Cardinality(attempted) * (MaxRetries + 1)
    <3>1. Used = m + pages /\ Used' = m + (pages + 1) BY <2>2 DEF Used
    <3>2. pages \in Nat BY DEF TypeOK
    <3>3. m \in Nat
      <4>1. url \in Urls BY <1>7 DEF Scrape, PlaceInv, TypeOK
      <4> QED BY <4>1, OneMore DEF TypeOK
    <3> HIDE DEF m
    <3> QED BY <3>1, <3>2, <3>3
  <2>4. sent <= Used BY DEF SentInv
  <2> QED BY <2>1, <2>2, <2>3, <2>4, <1>use DEF SentInv
<1> QED BY <1>1, <1>2, <1>3, <1>4, <1>5, <1>6, <1>7 DEF Next, Step

\* However pages link to each other and to the candidates, the requests for a hash
\* are at most MaxRetries + 1 for each URL, and one for each of PageLimit pages.
THEOREM BoundedRequests == Spec => []RequestsBounded
<1>1. Init => SentInv
  <2> SUFFICES ASSUME Init PROVE SentInv OBVIOUS
  <2>1. Cardinality(attempted) = 0 BY FS_EmptySet DEF Init
  <2>2. Used = 0 BY <2>1 DEF Init, Used
  <2> QED BY <2>2 DEF Init, SentInv
<1>2. TypeOK /\ SentInv => RequestsBounded
  BY UsedBound, BoundNat DEF SentInv, RequestsBounded
<1> QED BY PlaceInvariant, <1>1, <1>2, SentStep, PTL DEF Spec

-----------------------------------------------------------------------------
(* What is recorded *)

\* What a note does to what is known of the rows.
LEMMA NoteFacts ==
  ASSUME TypeOK, PlaceInv, phase \in {"fetch", "judge"},
         NEW st \in Status, NEW c \in Payloads \cup {None}, Note(st, c)
  PROVE  /\ \A i \in DOMAIN rows' : \/ rows'[i] = Entry(url, st, c)
                                    \/ \E j \in DOMAIN rows : rows'[i] = rows[j]
         /\ \A j \in DOMAIN rows : j \in DOMAIN rows' /\ rows'[j] = rows[j]
         /\ <<hash, url>> \notin Keys(rows) =>
              \E i \in DOMAIN rows' : rows'[i] = Entry(url, st, c)
         /\ script = "upgrade" =>
              /\ DOMAIN rows' = DOMAIN rows \cup {Len(rows) + 1}
              /\ rows'[Len(rows) + 1] = Entry(url, st, c)
              /\ \A j \in DOMAIN rows : j < Len(rows) + 1
<1>1. url \in Urls /\ phase \in InHand BY DEF PlaceInv, TypeOK, InHand
<1>2. Entry(url, st, c) \in Row /\ Key(Entry(url, st, c)) = <<hash, url>>
  BY <1>1, EntryTyped DEF Entry, Key
<1>3. rows \in Seq(Row) BY DEF TypeOK
<1> DEFINE e == Entry(url, st, c)
<1>4. /\ e \in Row /\ Key(e) = <<hash, url>>
      /\ rows' = IF script = "rescue" THEN Add(rows, e) ELSE Append(rows, e)
  BY <1>2 DEF Note
<1> HIDE DEF e
<1>5. /\ \A i \in DOMAIN Add(rows, e) :
           Add(rows, e)[i] = e \/ \E j \in DOMAIN rows : Add(rows, e)[i] = rows[j]
      /\ \A j \in DOMAIN rows : j \in DOMAIN Add(rows, e) /\ Add(rows, e)[j] = rows[j]
      /\ Key(e) \notin Keys(rows) => \E i \in DOMAIN Add(rows, e) : Add(rows, e)[i] = e
  BY ONLY <1>3, <1>4, AddFacts
<1>6. /\ DOMAIN Append(rows, e) = DOMAIN rows \cup {Len(rows) + 1}
      /\ Append(rows, e)[Len(rows) + 1] = e
      /\ \A j \in DOMAIN rows : Append(rows, e)[j] = rows[j] /\ j < Len(rows) + 1
  BY ONLY <1>3, <1>4, AppendFacts
<1>7. CASE script = "rescue"
  <2>1. rows' = Add(rows, e) BY <1>4, <1>7
  <2> QED BY <1>4, <1>5, <1>7, <2>1, Zenon DEF e
<1>8. CASE script # "rescue"
  <2>1. rows' = Append(rows, e) BY <1>4, <1>8
  <2>2. \A i \in DOMAIN rows' : rows'[i] = e \/ \E j \in DOMAIN rows : rows'[i] = rows[j]
    BY <1>6, <2>1, Zenon
  <2>3. \A j \in DOMAIN rows : j \in DOMAIN rows' /\ rows'[j] = rows[j]
    BY <1>6, <2>1, Zenon
  <2>4. Len(rows) + 1 \in DOMAIN rows' /\ rows'[Len(rows) + 1] = e BY <1>6, <2>1, Zenon
  <2> QED BY <1>6, <2>1, <2>2, <2>3, <2>4, Zenon DEF e
<1> QED BY <1>7, <1>8

LEMMA RowHashes == TypeOK => \A j \in DOMAIN rows : rows[j] \in Row /\ rows[j].hash \in Hashes
<1>1. \A r \in Row : r.hash \in Hashes BY DEF Row
<1>2. TypeOK => \A j \in DOMAIN rows : rows[j] \in Row BY DEF TypeOK
<1> QED BY <1>1, <1>2

\* upgrade: a row is added at the end; what is told of the other hashes stays true.
LEMMA NoteReports ==
  ASSUME TypeOK, PlaceInv, UpgradeInv, script = "upgrade",
         phase \in {"fetch", "judge"}, After, phase' # "judge",
         NEW st \in Status, NEW c \in Payloads \cup {None}, Note(st, c),
         \A h \in Hashes \ {hash} : file'[h] = file[h],
         \/ /\ st = "larger" /\ file'[hash] = c /\ c > OldBytes[hash][url]
         \/ st = "no_gain" /\ file'[hash] = None
         \/ phase = "fetch" /\ ~Verdict(Entry(url, st, c)) /\ file' = file
  PROVE  UpgradeInv'
<1> DEFINE e == Entry(url, st, c)
<1> DEFINE n == Len(rows) + 1
<1>n. /\ \A j \in DOMAIN rows : j \in DOMAIN rows' /\ rows'[j] = rows[j]
      /\ DOMAIN rows' = DOMAIN rows \cup {n}
      /\ rows'[n] = e
      /\ \A j \in DOMAIN rows : j < n
  BY ONLY TypeOK, PlaceInv, phase \in {"fetch", "judge"}, st \in Status, script = "upgrade",
          c \in Payloads \cup {None}, Note(st, c), NoteFacts
<1>e. e.hash = hash /\ e.url = url /\ e.status = st /\ e.content = c BY DEF Entry
<1>v. \/ /\ Verdict(e)
         /\ IF e.status = "larger"
            THEN file'[e.hash] = e.content /\ e.content > OldBytes[e.hash][e.url]
            ELSE file'[e.hash] = None
      \/ phase = "fetch" /\ ~Verdict(e) /\ file' = file
  BY <1>e DEF Verdict
<1>u. UNCHANGED <<script, hash, url>> BY DEF After, config
<1> HIDE DEF e, n
<1>1. ASSUME NEW i \in DOMAIN rows', LastVerdict(i)' PROVE Told(rows[i])'
  <2>v. /\ Verdict(rows'[i])
        /\ \A j \in DOMAIN rows' : j > i /\ rows'[j].hash = rows'[i].hash => ~Verdict(rows'[j])
    BY <1>1 DEF LastVerdict, Verdict
  <2>1. CASE i = n
    <3>1. Verdict(e) BY <1>n, <2>1, <2>v
    <3>2. rows'[i] = e BY <1>n, <2>1
    <3> QED BY <1>v, <3>1, <3>2 DEF Told
  <2>2. CASE i # n
    <3>1. i \in DOMAIN rows /\ rows'[i] = rows[i] /\ i < n BY <1>n, <2>2
    <3>2. i \in Nat BY <3>1 DEF TypeOK
    <3>3. LastVerdict(i)
      <4>1. \A j \in DOMAIN rows : j > i /\ rows[j].hash = rows[i].hash => ~Verdict(rows[j])
        BY <1>n, <2>v, <3>1
      <4> QED BY <2>v, <3>1, <4>1 DEF LastVerdict
    <3>4. n \in DOMAIN rows' /\ n > i
      <4>1. Len(rows) \in Nat BY DEF TypeOK
      <4> QED BY <1>n, <3>1, <3>2, <4>1 DEF n
    <3>5. CASE rows[i].hash = hash
      <4>1. ~Verdict(e) BY <1>n, <1>e, <2>v, <3>1, <3>4, <3>5
      <4>2. phase = "fetch" /\ file' = file BY <1>v, <4>1
      <4>3. Told(rows[i]) BY <3>1, <3>3, <4>2 DEF UpgradeInv, Reported
      <4> QED BY <3>1, <4>2, <4>3 DEF Told
    <3>6. CASE rows[i].hash # hash
      <4>1. Told(rows[i]) BY <3>1, <3>3, <3>6 DEF UpgradeInv, Reported
      <4>2. rows[i].hash \in Hashes \ {hash} BY <3>1, <3>6, RowHashes
      <4>3. file'[rows[i].hash] = file[rows[i].hash] BY <4>2
      <4> QED BY <3>1, <4>1, <4>3 DEF Told
    <3> QED BY <3>5, <3>6
  <2> QED BY <2>1, <2>2
<1> QED BY <1>1 DEF UpgradeInv, Reported

\* A step that notes nothing, and changes no file but that of the hash it goes on to
\* judge.
LEMMA QuietReports ==
  ASSUME UpgradeInv, TypeOK, UNCHANGED <<rows, script>>,
         \/ file' = file /\ phase # "judge" /\ phase' # "judge"
         \/ /\ phase' = "judge" /\ phase # "judge" /\ hash' = hash
            /\ \A h \in Hashes \ {hash} : file'[h] = file[h]
  PROVE  UpgradeInv'
<1> SUFFICES ASSUME script = "upgrade", NEW i \in DOMAIN rows, LastVerdict(i)',
                    ~(phase' = "judge" /\ rows[i].hash = hash')
             PROVE  Told(rows[i])'
  BY DEF UpgradeInv, Reported
<1>1. LastVerdict(i) BY DEF LastVerdict
<1>2. phase # "judge" OBVIOUS
<1>3. Told(rows[i]) BY <1>1, <1>2 DEF UpgradeInv, Reported
<1>4. file'[rows[i].hash] = file[rows[i].hash]
  <2>1. rows[i].hash \in Hashes BY RowHashes
  <2> QED BY <2>1
<1> QED BY <1>3, <1>4 DEF Told

LEMMA UpgradeStep ==
  ASSUME TypeOK, PlaceInv, UpgradeInv, [Next]_vars
  PROVE  UpgradeInv'
<1> USE DEF disk, config, local, Frame
<1> SUFFICES ASSUME script' = "upgrade" PROVE UpgradeInv' BY DEF UpgradeInv
<1>s. script = "upgrade"
  BY DEF Next, Step, StartRescue, StartUpgrade, NextHash, NoMore, List, Pick, GiveUp, Retry,
    Rescued, NoImage, Refused, QuotaStop, Scrape, Upgraded, Judge, Close, Die, After, vars
<1> USE <1>s
<1>1. CASE UNCHANGED vars
  BY <1>1 DEF vars, UpgradeInv, Reported, LastVerdict, Told
<1>2. CASE Close \/ Die \/ StartUpgrade
  <2>1. rows' = <<>> BY <1>2 DEF Close, Die, Rest, StartUpgrade, PlaceInv
  <2> QED BY <2>1 DEF UpgradeInv, Reported
<1>3. CASE NextHash \/ NoMore \/ GiveUp \/ Pick \/ Retry \/ Scrape
  <2>1. /\ UNCHANGED <<rows, script, file>> /\ phase # "judge" /\ phase' # "judge"
    BY <1>3 DEF NextHash, NoMore, GiveUp, Pick, Retry, Scrape
  <2> QED BY <2>1, QuietReports
<1>4. CASE List \/ StartRescue \/ Rescued
  <2>1. CASE StartRescue \/ Rescued BY <2>1 DEF StartRescue, Rescued
  <2>2. CASE List
    <3>1. Head(queue) \in Urls BY <2>2 DEF List, TypeOK
    <3>2. Entry(Head(queue), "candidate", None) \in Row
      BY <2>2, <3>1, EntryTyped DEF List, InHand, Status
    <3> DEFINE r == Entry(Head(queue), "candidate", None)
    <3>3. r \in Row /\ ~Verdict(r) /\ rows' = Add(rows, r) BY <2>2, <3>2 DEF List, Verdict, Entry
    <3> HIDE DEF r
    <3>4. rows \in Seq(Row) BY DEF TypeOK
    <3>5. /\ \A i \in DOMAIN rows' : rows'[i] = r \/ \E j \in DOMAIN rows : rows'[i] = rows[j]
          /\ \A j \in DOMAIN rows : j \in DOMAIN rows' /\ rows'[j] = rows[j]
      BY <3>3, <3>4, AddFacts
    <3>6. DOMAIN rows' \subseteq DOMAIN rows \cup {Len(rows) + 1}
          /\ (Len(rows) + 1 \in DOMAIN rows' => rows'[Len(rows) + 1] = r)
      BY <3>3, <3>4, AppendFacts DEF Add
    <3>7. UNCHANGED <<file, phase, hash>> /\ phase = "pick" BY <2>2 DEF List
    <3>8. ASSUME NEW i \in DOMAIN rows', LastVerdict(i)' PROVE Told(rows[i])'
      <4>1. Verdict(rows'[i]) BY <3>8 DEF LastVerdict, Verdict
      <4>2. i \in DOMAIN rows /\ rows'[i] = rows[i] BY <3>3, <3>5, <3>6, <4>1
      <4>3. \A j \in DOMAIN rows : j > i /\ rows[j].hash = rows[i].hash => ~Verdict(rows[j])
        BY <3>5, <3>8, <4>2 DEF LastVerdict, Verdict
      <4>4. LastVerdict(i) BY <4>1, <4>2, <4>3 DEF LastVerdict
      <4>5. Told(rows[i]) BY <3>7, <4>2, <4>4 DEF UpgradeInv, Reported
      <4> QED BY <3>7, <4>2, <4>5 DEF Told
    <3> QED BY <3>8 DEF UpgradeInv, Reported
  <2> QED BY <1>4, <2>1, <2>2
<1>5. CASE NoImage \/ Refused \/ QuotaStop
  <2>1. /\ phase = "fetch" /\ After /\ Note("failed", None) /\ phase' # "judge"
        /\ file' = file
    BY <1>5 DEF NoImage, Refused, QuotaStop
  <2>2. "failed" \in Status BY DEF Status
  <2>3. ~Verdict(Entry(url, "failed", None)) BY DEF Verdict, Entry
  <2> QED BY <2>1, <2>2, <2>3, NoteReports
<1>6. CASE Upgraded
  <2>1. /\ phase = "fetch" /\ phase' = "judge" /\ After /\ rows' = rows
        /\ \E p \in Images[url] : file' = [file EXCEPT ![hash] = p]
    BY <1>6 DEF Upgraded
  <2>2. \A h \in Hashes \ {hash} : file'[h] = file[h] BY <2>1 DEF TypeOK
  <2>3. UNCHANGED <<script, hash>> BY <2>1 DEF After
  <2> QED BY <2>1, <2>2, <2>3, QuietReports
<1>7. CASE Judge
  <2>1. phase = "judge" /\ After /\ phase' = "pick" BY <1>7 DEF Judge
  <2>2. hash \in Hashes /\ file[hash] \in Payloads BY <2>1 DEF PlaceInv, InHand
  <2>3. CASE file[hash] > OldBytes[hash][url]
    <3>1. Note("larger", file[hash]) /\ file' = file BY <1>7, <2>3 DEF Judge
    <3> QED BY <2>1, <2>2, <2>3, <3>1, NoteReports DEF Status
  <2>4. CASE ~(file[hash] > OldBytes[hash][url])
    <3>1. Note("no_gain", file[hash]) /\ file' = [file EXCEPT ![hash] = None]
      BY <1>7, <2>4 DEF Judge
    <3>2. file'[hash] = None /\ \A h \in Hashes \ {hash} : file'[h] = file[h]
      BY <2>2, <3>1 DEF TypeOK
    <3> QED BY <2>1, <2>2, <3>1, <3>2, NoteReports DEF Status
  <2> QED BY <2>3, <2>4
<1> QED BY <1>1, <1>2, <1>3, <1>4, <1>5, <1>6, <1>7 DEF Next, Step

\* However often its input names a hash or a URL, the last verdict that upgrade reports
\* on it is what its directory holds, whatever earlier runs left there.
THEOREM UpgradesReported == Spec => []UpgradesMatch
<1>1. Init => UpgradeInv BY DEF Init, UpgradeInv, Reported
<1>2. UpgradeInv => UpgradesMatch BY DEF UpgradeInv, Reported, UpgradesMatch
<1> QED BY PlaceInvariant, <1>1, <1>2, UpgradeStep, PTL DEF Spec

\* The invariant carried over by a step that notes nothing.
LEMMA QuietRecords ==
  ASSUME TypeOK, PlaceInv, RecordedInv, UNCHANGED <<manifest, rows, hash, got, todo>>,
         script' = script, fetch_ok' = fetch_ok, attempted \subseteq attempted',
         phase' \in InHand => phase \in InHand, phase # "off" /\ phase' # "off",
         script = "rescue" /\ phase' = "fetch" /\ <<hash, url'>> \in Keys(rows)
           => <<hash, url'>> \in Keys(manifest),
         \A h \in Hashes : h # hash \/ phase \notin InHand => file'[h] = file[h]
  PROVE  RecordedInv'
<1>1. \A i \in DOMAIN rows :
        \/ Key(rows[i]) \in Keys(manifest)
        \/ /\ rows[i].hash \notin todo
           /\ phase' \in InHand /\ fetch_ok /\ rows[i].hash = hash => rows[i].url \in attempted'
  BY DEF RecordedInv
<1>2. phase' \in InHand => got[hash] = None BY DEF RecordedInv
<1>3. ASSUME NEW h \in Hashes, got[h] # None
      PROVE  /\ script = "rescue" /\ h \notin todo
             /\ \/ <<h, got[h]>> \in Keys(manifest)
                \/ \E i \in DOMAIN rows : rows[i] = RowOf(h, got[h])'
  <2>1. file'[h] = file[h] BY <1>3 DEF RecordedInv
  <2>2. RowOf(h, got[h])' = RowOf(h, got[h]) BY <2>1 DEF RowOf
  <2> QED BY <1>3, <2>2 DEF RecordedInv
<1>4. Keys(rows)' = Keys(rows) /\ Keys(manifest)' = Keys(manifest) BY DEF Keys
<1>5. \A h \in Hashes : got'[h] # None =>
        /\ script' = "rescue" /\ h \notin todo' /\ phase' # "off"
        /\ \/ <<h, got'[h]>> \in Keys(manifest)'
           \/ \E i \in DOMAIN rows' : rows'[i] = RowOf(h, got[h])'
  BY <1>3, <1>4
<1>6. \A h \in Hashes :
        RowOf(h, got[h])' = [hash |-> h, url |-> got'[h], status |-> "ok", content |-> file'[h]]
  BY DEF RowOf
<1> QED BY <1>1, <1>2, <1>4, <1>5, <1>6 DEF RecordedInv, RowOf

\* A row that is noted is of the hash in hand and of a URL it has tried; the row of
\* an image goes in unless the manifest had the pair.
LEMMA NoteRecords ==
  ASSUME TypeOK, PlaceInv, RecordedInv, phase \in {"fetch", "judge"}, After,
         manifest' = manifest, phase' \notin {"fetch", "off"},
         NEW st \in Status, NEW c \in Payloads \cup {None}, Note(st, c),
         \A h \in Hashes \ {hash} : file'[h] = file[h] /\ got'[h] = got[h],
         \/ got'[hash] = None
         \/ /\ got'[hash] = url /\ phase = "fetch" /\ phase' = "next" /\ script = "rescue"
            /\ st = "ok" /\ file'[hash] = c
  PROVE  RecordedInv'
<1> USE DEF After, config
<1> DEFINE e == Entry(url, st, c)
<1>e. e.hash = hash /\ e.url = url /\ Key(e) = <<hash, url>> BY DEF Entry, Key
<1>hand. hash \in Hashes /\ hash \notin todo /\ url \in attempted
  BY DEF PlaceInv, InHand
<1>n. /\ \A i \in DOMAIN rows' : rows'[i] = e \/ \E j \in DOMAIN rows : rows'[i] = rows[j]
      /\ \A j \in DOMAIN rows : j \in DOMAIN rows' /\ rows'[j] = rows[j]
      /\ <<hash, url>> \notin Keys(rows) => \E i \in DOMAIN rows' : rows'[i] = e
  BY NoteFacts
<1>ok. st = "ok" /\ file'[hash] = c /\ got'[hash] = url => e = RowOf(hash, got[hash])'
  BY DEF Entry, RowOf
<1> HIDE DEF e
<1>k. Keys(manifest)' = Keys(manifest) BY DEF Keys
<1>1. \A i \in DOMAIN rows' :
        \/ Key(rows'[i]) \in Keys(manifest)
        \/ /\ rows'[i].hash \notin todo
           /\ phase' \in InHand /\ fetch_ok /\ rows'[i].hash = hash => rows'[i].url \in attempted
  <2> SUFFICES ASSUME NEW i \in DOMAIN rows'
               PROVE  \/ Key(rows'[i]) \in Keys(manifest)
                      \/ /\ rows'[i].hash \notin todo
                         /\ phase' \in InHand /\ fetch_ok /\ rows'[i].hash = hash
                              => rows'[i].url \in attempted
    OBVIOUS
  <2>1. CASE rows'[i] = e BY <1>e, <1>hand, <2>1
  <2>2. CASE \E j \in DOMAIN rows : rows'[i] = rows[j]
    BY <2>2 DEF RecordedInv, InHand
  <2> QED BY <1>n, <2>1, <2>2
<1>2. phase' \in InHand => got'[hash] = None BY DEF InHand
<1>3. ASSUME NEW h \in Hashes, got'[h] # None
      PROVE  /\ script = "rescue" /\ h \notin todo
             /\ \/ <<h, got'[h]>> \in Keys(manifest)
                \/ \E i \in DOMAIN rows' : rows'[i] = RowOf(h, got[h])'
  <2>1. CASE h = hash
    <3>1. script = "rescue" /\ got'[hash] = url /\ phase = "fetch" BY <1>3, <2>1
    <3>2. <<hash, url>> \in Keys(rows) => <<hash, url>> \in Keys(manifest)
      BY <3>1 DEF RecordedInv
    <3>3. e = RowOf(hash, got[hash])' BY <1>ok, <1>3, <2>1
    <3> QED BY <1>n, <1>hand, <2>1, <3>1, <3>2, <3>3
  <2>2. CASE h # hash
    <3>1. file'[h] = file[h] /\ got'[h] = got[h] BY <2>2
    <3>2. RowOf(h, got[h])' = RowOf(h, got[h]) BY <3>1 DEF RowOf
    <3>3. /\ script = "rescue" /\ h \notin todo
          /\ \/ <<h, got[h]>> \in Keys(manifest)
             \/ \E j \in DOMAIN rows : rows[j] = RowOf(h, got[h])
      BY <1>3, <3>1 DEF RecordedInv
    <3> HIDE DEF RecordedInv
    <3> QED BY <1>n, <3>1, <3>2, <3>3
  <2> QED BY <2>1, <2>2
<1>4. \A h \in Hashes :
        RowOf(h, got[h])' = [hash |-> h, url |-> got'[h], status |-> "ok", content |-> file'[h]]
  BY DEF RowOf
<1> QED BY <1>1, <1>2, <1>3, <1>4, <1>k DEF RecordedInv, RowOf

LEMMA RecordedStep ==
  ASSUME TypeOK, PlaceInv, RecordedInv, [Next]_vars
  PROVE  RecordedInv'
<1> USE DEF disk, config, local, Frame
<1>1. CASE UNCHANGED vars
  BY <1>1 DEF vars, RecordedInv, Keys, Key, RowOf
<1>2. CASE Close \/ Die
  BY <1>2 DEF Close, Die, Rest, RecordedInv, InHand, Keys
<1>3. CASE StartRescue \/ StartUpgrade
  <2>1. \A h \in Hashes : got'[h] = None
    BY <1>3 DEF StartRescue, StartUpgrade, Configure
  <2>2. rows' \in {<<>>, manifest'}
    BY <1>3 DEF StartRescue, StartUpgrade, PlaceInv
  <2>3. \A i \in DOMAIN rows' : Key(rows'[i]) \in Keys(manifest')
    BY <2>2 DEF Keys
  <2>4. phase' \in {"next", "close"} BY <1>3 DEF StartRescue, StartUpgrade
  <2>5. Keys(manifest)' = Keys(manifest') BY DEF Keys
  <2> QED BY <2>1, <2>3, <2>4, <2>5 DEF RecordedInv, InHand
<1>4. CASE NextHash
  <2>1. PICK h \in todo : hash' = h /\ todo' = todo \ {h} BY <1>4 DEF NextHash
  <2>2. UNCHANGED <<manifest, rows, got, file, script>> /\ phase' = "pick" BY <1>4 DEF NextHash
  <2>3. Keys(manifest)' = Keys(manifest) BY <2>2 DEF Keys
  <2>4. \A i \in DOMAIN rows : Key(rows[i]) \in Keys(manifest) \/ rows[i].hash \notin todo
    BY DEF RecordedInv
  <2>5. h \in Hashes BY DEF TypeOK
  <2>6. got[h] = None BY <2>5 DEF RecordedInv
  <2>7. \A g \in Hashes : RowOf(g, got[g])' = RowOf(g, got[g]) BY <2>2 DEF RowOf
  <2> QED BY <2>1, <2>2, <2>3, <2>4, <2>6, <2>7 DEF RecordedInv, RowOf
<1>5. CASE NoMore \/ GiveUp
  <2>1. phase \in {"next", "pick"} /\ phase' \in {"next", "close"}
        /\ UNCHANGED <<manifest, rows, hash, got, todo, script, fetch_ok, attempted, file>>
    BY <1>5 DEF NoMore, GiveUp
  <2> QED BY <2>1, QuietRecords DEF InHand
<1>6. CASE Pick
  <2>1. phase = "pick" /\ fetch_ok /\ phase' \in {"pick", "fetch"}
        /\ UNCHANGED <<manifest, rows, hash, got, todo, script, fetch_ok, file>>
        /\ attempted \subseteq attempted'
    BY <1>6 DEF Pick
  <2>2. script = "rescue" /\ phase' = "fetch" => url' \notin attempted
    BY <1>6, <2>1 DEF Pick
  <2>3. script = "rescue" /\ phase' = "fetch" /\ <<hash, url'>> \in Keys(rows)
          => <<hash, url'>> \in Keys(manifest)
    <3> SUFFICES ASSUME url' \notin attempted, <<hash, url'>> \in Keys(rows)
                 PROVE  <<hash, url'>> \in Keys(manifest)
      BY <2>2
    <3>1. PICK i \in DOMAIN rows : Key(rows[i]) = <<hash, url'>> BY DEF Keys
    <3>2. rows[i].hash = hash /\ rows[i].url = url' BY <3>1 DEF Key
    <3> QED BY <2>1, <3>1, <3>2 DEF RecordedInv, InHand
  <2> QED BY <2>1, <2>3, QuietRecords DEF InHand
<1>7. CASE Retry
  <2>1. phase = "fetch" /\ phase' = "fetch"
        /\ UNCHANGED <<manifest, rows, hash, got, todo, script, fetch_ok, attempted, file, url>>
    BY <1>7 DEF Retry
  <2>2. script = "rescue" /\ <<hash, url'>> \in Keys(rows) => <<hash, url'>> \in Keys(manifest)
    BY <2>1 DEF RecordedInv
  <2> QED BY <2>1, <2>2, QuietRecords DEF InHand
<1>8. CASE Scrape
  <2>1. phase = "scrape" /\ phase' = "pick"
        /\ UNCHANGED <<manifest, rows, hash, got, todo, script, fetch_ok, attempted, file>>
    BY <1>8 DEF Scrape
  <2> QED BY <2>1, QuietRecords DEF InHand
<1>9. CASE Upgraded
  <2>1. phase = "fetch" /\ phase' = "judge"
        /\ UNCHANGED <<manifest, rows, hash, got, todo, script, fetch_ok, attempted>>
    BY <1>9 DEF Upgraded, After
  <2>2. \A h \in Hashes : h # hash => file'[h] = file[h] BY <1>9 DEF Upgraded, TypeOK
  <2> QED BY <2>1, <2>2, QuietRecords DEF InHand
<1>10. CASE List
  <2>1. Head(queue) \in Urls BY <1>10 DEF List, TypeOK
  <2>2. Entry(Head(queue), "candidate", None) \in Row
    BY <1>10, <2>1, EntryTyped DEF List, InHand, Status
  <2>3. /\ \A i \in DOMAIN rows' : \/ rows'[i] = Entry(Head(queue), "candidate", None)
                                   \/ \E j \in DOMAIN rows : rows'[i] = rows[j]
        /\ \A j \in DOMAIN rows : j \in DOMAIN rows' /\ rows'[j] = rows[j]
    BY <1>10, <2>2, AddFacts DEF List, TypeOK
  <2>4. phase = "pick" /\ phase' = "pick" /\ ~fetch_ok
        /\ UNCHANGED <<manifest, hash, got, todo, script, fetch_ok, attempted, file>>
    BY <1>10 DEF List
  <2>5. hash \notin todo BY <2>4 DEF PlaceInv, InHand
  <2>6. Entry(Head(queue), "candidate", None).hash = hash BY DEF Entry
  <2>7. \A i \in DOMAIN rows' : Key(rows'[i]) \in Keys(manifest) \/ rows'[i].hash \notin todo
    BY <2>3, <2>5, <2>6 DEF RecordedInv
  <2>8. Keys(manifest)' = Keys(manifest) BY <2>4 DEF Keys
  <2>9. \A g \in Hashes : RowOf(g, got[g])' = RowOf(g, got[g]) BY <2>4 DEF RowOf
  <2>10. \A g \in Hashes : got[g] # None =>
           /\ script = "rescue" /\ g \notin todo
           /\ \/ <<g, got[g]>> \in Keys(manifest)
              \/ \E i \in DOMAIN rows' : rows'[i] = RowOf(g, got[g])
    BY <2>3 DEF RecordedInv
  <2>11. got[hash] = None BY <2>4 DEF RecordedInv, InHand
  <2> QED BY <2>4, <2>7, <2>8, <2>9, <2>10, <2>11 DEF RecordedInv, RowOf
<1>got. phase \in {"fetch", "judge"} => got[hash] = None BY DEF RecordedInv, InHand
<1>11. CASE NoImage \/ Refused \/ QuotaStop
  <2>1. /\ phase = "fetch" /\ After /\ Note("failed", None)
        /\ phase' \in {"pick", "scrape", "close"} /\ UNCHANGED <<manifest, file, got>>
    BY <1>11 DEF NoImage, Refused, QuotaStop
  <2>2. "failed" \in Status BY DEF Status
  <2> QED BY <2>1, <2>2, <1>got, NoteRecords
<1>12. CASE Judge
  <2>1. phase = "judge" /\ After /\ phase' = "pick" /\ UNCHANGED <<manifest, got>>
    BY <1>12 DEF Judge
  <2>2. PICK st \in {"larger", "no_gain"} : Note(st, file[hash]) BY <1>12 DEF Judge
  <2>3. file[hash] \in Payloads /\ st \in Status BY <2>1 DEF PlaceInv, Status
  <2>4. \A h \in Hashes \ {hash} : file'[h] = file[h] BY <1>12 DEF Judge, TypeOK
  <2> QED BY <2>1, <2>2, <2>3, <2>4, <1>got, NoteRecords
<1>13. CASE Rescued
  <2>1. /\ phase = "fetch" /\ After /\ phase' = "next" /\ script = "rescue"
        /\ manifest' = manifest /\ got' = [got EXCEPT ![hash] = url]
    BY <1>13 DEF Rescued
  <2>2. PICK p \in Images[url] : file' = [file EXCEPT ![hash] = p] /\ Note("ok", p)
    BY <1>13 DEF Rescued
  <2>3. hash \in Hashes /\ url \in Urls BY <2>1 DEF PlaceInv, InHand, TypeOK
  <2>4. p \in Payloads /\ "ok" \in Status BY <2>3, ImageAssumption DEF Status
  <2>5. /\ \A h \in Hashes \ {hash} : file'[h] = file[h] /\ got'[h] = got[h]
        /\ got'[hash] = url /\ file'[hash] = p
    BY <2>1, <2>2, <2>3 DEF TypeOK
  <2> QED BY <2>1, <2>2, <2>4, <2>5, NoteRecords
<1> QED
  BY <1>1, <1>2, <1>3, <1>4, <1>5, <1>6, <1>7, <1>8, <1>9, <1>10, <1>11, <1>12, <1>13
     DEF Next, Step

\* An image that a completed run brought home is recorded with the bytes on disk,
\* unless the manifest it was started with already had its hash and URL.
THEOREM RescuesRecorded == Spec => RecordedIfNew
<1>1. Init => RecordedInv BY DEF Init, RecordedInv, InHand, Keys
<1> DEFINE Kept == Close => \A h \in Hashes : got[h] # None =>
                     \/ <<h, got[h]>> \in Keys(manifest)
                     \/ RowOf(h, got[h]) \in ToSet(manifest')
<1>2. ASSUME TypeOK, RecordedInv PROVE Kept
  <2> SUFFICES ASSUME Close, NEW h \in Hashes, got[h] # None,
                      <<h, got[h]>> \notin Keys(manifest)
               PROVE  RowOf(h, got[h]) \in ToSet(manifest')
    OBVIOUS
  <2>1. script = "rescue" /\ \E i \in DOMAIN rows : rows[i] = RowOf(h, got[h])
    BY <1>2 DEF RecordedInv
  <2>2. manifest' = rows BY <2>1 DEF Close
  <2> QED BY <2>1, <2>2 DEF ToSet
<1>3. TypeOK /\ RecordedInv => [Kept]_vars BY <1>2
<1> QED BY PlaceInvariant, <1>1, <1>3, RecordedStep, PTL DEF Spec, RecordedIfNew

=============================================================================
