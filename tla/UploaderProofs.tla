--------------------------- MODULE UploaderProofs ----------------------------
(***************************************************************************)
(* Proofs about Uploader, for any reports, any finite set of handles and   *)
(* any number of faults and ends of the process.                           *)
(***************************************************************************)
EXTENDS Uploader, SequenceTheorems, FiniteSetTheorems, TLAPS

Unique(rows) == \A i, j \in 1 .. Len(rows) : rows[i] = rows[j] => i = j

(* A sequence of rows, and what an insertion and a deletion do to it.      *)
LEMMA RangeIs ==
  ASSUME NEW S, NEW rows \in Seq(S)
  PROVE  /\ Range(rows) \subseteq S
         /\ \A r : r \in Range(rows) <=> \E i \in 1 .. Len(rows) : rows[i] = r
<1>1. DOMAIN rows = 1 .. Len(rows) /\ \A i \in 1 .. Len(rows) : rows[i] \in S
  OBVIOUS
<1> QED
  BY <1>1 DEF Range

(* save: a row is added at the end.                                        *)
LEMMA AppendRow ==
  ASSUME NEW S, NEW rows \in Seq(S), NEW r \in S
  PROVE  /\ Append(rows, r) \in Seq(S)
         /\ Range(Append(rows, r)) = Range(rows) \cup {r}
         /\ Unique(rows) /\ r \notin Range(rows) => Unique(Append(rows, r))
<1> DEFINE new == Append(rows, r)
<1>1. /\ new \in Seq(S) /\ Len(new) = Len(rows) + 1 /\ new[Len(rows) + 1] = r
      /\ \A i \in 1 .. Len(rows) : new[i] = rows[i]
      /\ Len(rows) \in Nat
  OBVIOUS
<1> HIDE DEF new
<1>2. \A q : q \in Range(new) <=> \E i \in 1 .. Len(new) : new[i] = q
  BY <1>1, RangeIs
<1>3. \A q : q \in Range(rows) <=> \E i \in 1 .. Len(rows) : rows[i] = q
  BY RangeIs
<1>4. Range(new) = Range(rows) \cup {r}
  <2>1. ASSUME NEW q \in Range(new) PROVE q \in Range(rows) \cup {r}
    BY <1>1, <1>2, <1>3, <2>1
  <2>2. ASSUME NEW q \in Range(rows) PROVE q \in Range(new)
    BY <1>1, <1>2, <1>3, <2>2
  <2>3. r \in Range(new)
    BY <1>1, <1>2
  <2> QED
    BY <2>1, <2>2, <2>3
<1>5. Unique(rows) /\ r \notin Range(rows) => Unique(new)
  BY <1>1, <1>3 DEF Unique
<1> QED
  BY <1>1, <1>4, <1>5 DEF new

(* delete_jsonstr_by_id: one row goes, the others stay.                    *)
LEMMA DeleteRow ==
  ASSUME NEW S, NEW rows \in Seq(S), NEW r
  PROVE  /\ Delete(rows, r) \in Seq(S)
         /\ Range(Delete(rows, r)) \subseteq Range(rows)
         /\ \A q \in Range(rows) : q # r => q \in Range(Delete(rows, r))
         /\ Unique(rows) => Unique(Delete(rows, r)) /\ r \notin Range(Delete(rows, r))
<1>1. CASE r \notin Range(rows)
  BY <1>1 DEF Delete
<1>2. CASE r \in Range(rows)
  <2> DEFINE k == CHOOSE i \in 1 .. Len(rows) : rows[i] = r
             new == RemoveAt(rows, k)
             a == SubSeq(rows, 1, k - 1)
             b == SubSeq(rows, k + 1, Len(rows))
  <2>1. k \in 1 .. Len(rows) /\ rows[k] = r
    BY <1>2, RangeIs
  <2>2. Delete(rows, r) = new
    BY <1>2 DEF Delete
  <2>3. Len(rows) \in Nat /\ \A i \in 1 .. Len(rows) : rows[i] \in S
    OBVIOUS
  <2> HIDE DEF k
  <2>4. /\ a \in Seq(S) /\ Len(a) = k - 1
        /\ \A i \in 1 .. k - 1 : a[i] = rows[i]
    BY <2>1, <2>3
  <2>5. /\ b \in Seq(S) /\ Len(b) = Len(rows) - k
        /\ \A i \in 1 .. Len(rows) - k : b[i] = rows[k + i]
    BY <2>1, <2>3
  <2>6. new = a \o b
    BY DEF RemoveAt
  <2> HIDE DEF a, b, new
  <2>7. /\ new \in Seq(S) /\ Len(new) = Len(rows) - 1
        /\ \A i \in 1 .. Len(rows) - 1 : new[i] = IF i < k THEN rows[i] ELSE rows[i + 1]
    <3>1. /\ new \in Seq(S) /\ Len(new) = Len(a) + Len(b)
          /\ \A i \in 1 .. Len(a) + Len(b) : new[i] =
                     IF i <= Len(a) THEN a[i] ELSE b[i - Len(a)]
      BY <2>4, <2>5, <2>6, ConcatProperties
    <3>2. Len(new) = Len(rows) - 1
      BY <2>1, <2>3, <2>4, <2>5, <3>1
    <3>3. ASSUME NEW i \in 1 .. Len(rows) - 1, i < k PROVE new[i] = rows[i]
      <4>1. i \in 1 .. Len(a) + Len(b) /\ i <= Len(a) /\ i \in 1 .. k - 1
        BY <2>1, <2>3, <2>4, <2>5, <3>3
      <4> QED
        BY <2>4, <3>1, <4>1
    <3>4. ASSUME NEW i \in 1 .. Len(rows) - 1, ~(i < k) PROVE new[i] = rows[i + 1]
      <4>1. /\ i \in 1 .. Len(a) + Len(b) /\ ~(i <= Len(a))
            /\ i - Len(a) \in 1 .. Len(rows) - k /\ k + (i - Len(a)) = i + 1
        BY <2>1, <2>3, <2>4, <2>5, <3>4
      <4> QED
        BY <2>5, <3>1, <4>1
    <3> QED
      BY <3>1, <3>2, <3>3, <3>4
  <2>8. \A q : q \in Range(new) <=> \E i \in 1 .. Len(new) : new[i] = q
    BY <2>7, RangeIs
  <2>9. \A q : q \in Range(rows) <=> \E i \in 1 .. Len(rows) : rows[i] = q
    BY RangeIs
  <2>10. \A i \in 1 .. Len(new) : \E j \in 1 .. Len(rows) : new[i] = rows[j]
    BY <2>1, <2>3, <2>7
  <2>11. Range(new) \subseteq Range(rows)
    BY <2>8, <2>9, <2>10
  <2>12. ASSUME NEW q \in Range(rows), q # r PROVE q \in Range(new)
    <3>1. PICK j \in 1 .. Len(rows) : rows[j] = q
      BY <2>9, <2>12
    <3>2. j # k
      BY <2>1, <2>12, <3>1
    <3>3. CASE j < k
      <4>1. j \in 1 .. Len(rows) - 1 /\ new[j] = rows[j]
        BY <2>1, <2>3, <2>7, <3>1, <3>3
      <4> QED
        BY <2>7, <2>8, <3>1, <4>1
    <3>4. CASE j > k
      <4>1. j - 1 \in 1 .. Len(rows) - 1 /\ new[j - 1] = rows[j]
        BY <2>1, <2>3, <2>7, <3>1, <3>4
      <4> QED
        BY <2>7, <2>8, <3>1, <4>1
    <3> QED
      BY <2>1, <3>1, <3>2, <3>3, <3>4
  <2>13. ASSUME Unique(rows) PROVE Unique(new) /\ r \notin Range(new)
    <3>1. ASSUME NEW i \in 1 .. Len(new), NEW j \in 1 .. Len(new), new[i] = new[j]
          PROVE  i = j
      BY <2>1, <2>3, <2>7, <2>13, <3>1 DEF Unique
    <3>2. \A i \in 1 .. Len(new) : new[i] # r
      BY <2>1, <2>3, <2>7, <2>13 DEF Unique
    <3> QED
      BY <2>8, <3>1, <3>2 DEF Unique
  <2> QED
    BY <2>2, <2>7, <2>11, <2>12, <2>13
<1> QED
  BY <1>1, <1>2
-----------------------------------------------------------------------------
(* All reports in the databases, and an entry of curl_cache_map.           *)
Rows == Range(cache["ss"]) \cup Range(cache["pa"])
UniqueRows == Unique(cache["ss"]) /\ Unique(cache["pa"])
Live(h) == curl_map[h] # NoItem

CacheType ==
  /\ cache \in [Caches -> Seq(Reports)]
  /\ Range(cache["ss"]) \subseteq SnapShots /\ Range(cache["pa"]) \subseteq ProcActions

(* The types, without the Boolean variable.                                *)
Types ==
  /\ process \in {"up", "stopping", "ended", "down"}
  /\ CacheType
  /\ curl_map \in [Handles -> Item \cup {NoItem}]
  /\ running \in 0 .. Cardinality(Handles)
  /\ pc \in {"perform", "read", "active", "check"}
  /\ pushed \subseteq Reports /\ delivered \in [Reports -> Nat]
  /\ faults \in 0 .. MaxFaults /\ ends \in Nat

(* A transfer that has ended well has delivered its report.                *)
SentInv == \A h \in Handles :
             Live(h) /\ curl_map[h].state = "ok" => delivered[curl_map[h].report] > 0

(* While nothing has failed: a report is in one place, the databases with  *)
(* the transfer of one of their rows being one; it has been delivered only *)
(* where that transfer has just ended; and when active_cb looks for a row, *)
(* none is being transferred, because the inner loop of priv_run_upload    *)
(* has read the end of every transfer that was there when it began.        *)
QuietInv ==
  /\ UniqueRows
  /\ \A r \in Reports : r \notin pushed => delivered[r] = 0 /\ r \notin Rows
  /\ \A h \in Handles : Live(h) => curl_map[h].report \in pushed
  /\ \A h, g \in Handles : Live(h) /\ Live(g) /\ curl_map[h].report = curl_map[g].report
                             => h = g
  /\ \A h \in Handles : Live(h) => (curl_map[h].cached <=> curl_map[h].report \in Rows)
  /\ \A h \in Handles : Live(h) /\ curl_map[h].state # "ok"
                          => delivered[curl_map[h].report] = 0
  /\ \A r \in Rows : delivered[r] = 0 \/ \E h \in Handles : /\ Live(h)
                                                            /\ curl_map[h].report = r
                                                            /\ curl_map[h].state = "ok"
  /\ pc = "active" => \A h \in Handles : ~(Live(h) /\ curl_map[h].cached)
  /\ pc = "read" /\ running = 0
       => \A h \in Handles : ~(Live(h) /\ curl_map[h].cached /\ curl_map[h].state = "sending")
  /\ \A r \in Reports : delivered[r] <= 1

Quiet == faults = 0 /\ ends = 0
Inv == Types /\ SentInv /\ (Quiet => QuietInv)

(* The empty entry is not an item.                                         *)
LEMMA NoItemIsNone == NoItem \notin Item
<1>1. DOMAIN NoItem = {"report"}
  BY DEF NoItem
<1>2. \A item \in Item : "state" \in DOMAIN item
  BY DEF Item
<1> QED
  BY <1>1, <1>2

(* What a live handle stands for.                                          *)
LEMMA ItemIs ==
  ASSUME Types, NEW h \in Handles, Live(h)
  PROVE  /\ curl_map[h] \in Item
         /\ curl_map[h].report \in Reports
         /\ curl_map[h].state \in {"sending", "ok", "failed"}
  BY DEF Types, Live, Item

(* What an insertion does to the databases.                                *)
LEMMA InsertStep ==
  ASSUME Types, NEW r \in SnapShots \cup ProcActions, Insert(r)
  PROVE  /\ CacheType' /\ faults' \in 0 .. MaxFaults
         /\ Rows' = Rows \/ Rows' = Rows \cup {r}
         /\ faults' = 0 => Rows' = Rows \cup {r} /\ faults = 0
         /\ UniqueRows /\ r \notin Rows => UniqueRows'
<1>1. CASE UNCHANGED cache /\ Fails
  BY <1>1, UploaderAssumption DEF Types, CacheType, Rows, UniqueRows, Fails
<1>2. CASE cache' = [cache EXCEPT ![CacheOf(r)] = Append(@, r)] /\ Ok
  <2>0. /\ cache["ss"] \in Seq(Reports) /\ cache["pa"] \in Seq(Reports)
        /\ cache \in [Caches -> Seq(Reports)] /\ r \in Reports
    BY DEF Types, CacheType, Caches, Reports
  <2>1. CASE r \in SnapShots
    <3>1. cache'["ss"] = Append(cache["ss"], r) /\ cache'["pa"] = cache["pa"]
      BY <1>2, <2>0, <2>1 DEF CacheOf, Caches
    <3>2. cache' \in [Caches -> Seq(Reports)]
      BY <1>2, <2>0 DEF CacheOf, Caches
    <3>3. Range(cache'["ss"]) = Range(cache["ss"]) \cup {r}
      BY <2>0, <3>1, AppendRow
    <3>4. UniqueRows /\ r \notin Rows => UniqueRows'
      BY <2>0, <3>1, AppendRow DEF UniqueRows, Rows
    <3> QED
      BY <1>2, <2>1, <3>1, <3>2, <3>3, <3>4 DEF Types, CacheType, Rows, Ok
  <2>2. CASE r \notin SnapShots
    <3>1. cache'["pa"] = Append(cache["pa"], r) /\ cache'["ss"] = cache["ss"]
      BY <1>2, <2>0, <2>2 DEF CacheOf, Caches
    <3>2. cache' \in [Caches -> Seq(Reports)]
      BY <1>2, <2>0 DEF CacheOf, Caches
    <3>3. Range(cache'["pa"]) = Range(cache["pa"]) \cup {r}
      BY <2>0, <3>1, AppendRow
    <3>4. UniqueRows /\ r \notin Rows => UniqueRows'
      BY <2>0, <3>1, AppendRow DEF UniqueRows, Rows
    <3> QED
      BY <1>2, <2>2, <3>1, <3>2, <3>3, <3>4 DEF Types, CacheType, Rows, Ok
  <2> QED
    BY <2>1, <2>2
<1> QED
  BY <1>1, <1>2 DEF Insert

(* What a deletion does to them.                                           *)
LEMMA DeleteStep ==
  ASSUME Types, NEW r \in Reports,
         cache' = [cache EXCEPT ![CacheOf(r)] = Delete(@, r)]
  PROVE  /\ CacheType' /\ Rows' \subseteq Rows
         /\ \A q \in Rows : q # r => q \in Rows'
         /\ UniqueRows => UniqueRows' /\ r \notin Rows'
<1>0. /\ cache["ss"] \in Seq(Reports) /\ cache["pa"] \in Seq(Reports)
      /\ cache \in [Caches -> Seq(Reports)]
      /\ Range(cache["ss"]) \subseteq SnapShots /\ Range(cache["pa"]) \subseteq ProcActions
  BY DEF Types, CacheType, Caches
<1>1. CASE r \in SnapShots
  <2>1. cache'["ss"] = Delete(cache["ss"], r) /\ cache'["pa"] = cache["pa"]
    BY <1>0, <1>1 DEF CacheOf, Caches
  <2>2. cache'["ss"] \in Seq(Reports) /\ Range(cache'["ss"]) \subseteq Range(cache["ss"])
    BY <1>0, <2>1, DeleteRow
  <2>3. cache' \in [Caches -> Seq(Reports)]
    BY <1>0, <2>1, <2>2 DEF Caches
  <2>4. \A q \in Range(cache["ss"]) : q # r => q \in Range(cache'["ss"])
    BY <1>0, <2>1, DeleteRow
  <2>5. Unique(cache["ss"]) => Unique(cache'["ss"]) /\ r \notin Range(cache'["ss"])
    BY <1>0, <2>1, DeleteRow
  <2>6. r \notin Range(cache["pa"])
    BY <1>0, <1>1, UploaderAssumption
  <2> QED
    BY <1>0, <2>1, <2>2, <2>3, <2>4, <2>5, <2>6 DEF CacheType, Rows, UniqueRows
<1>2. CASE r \notin SnapShots
  <2>1. cache'["pa"] = Delete(cache["pa"], r) /\ cache'["ss"] = cache["ss"]
    BY <1>0, <1>2 DEF CacheOf, Caches
  <2>2. cache'["pa"] \in Seq(Reports) /\ Range(cache'["pa"]) \subseteq Range(cache["pa"])
    BY <1>0, <2>1, DeleteRow
  <2>3. cache' \in [Caches -> Seq(Reports)]
    BY <1>0, <2>1, <2>2 DEF Caches
  <2>4. \A q \in Range(cache["pa"]) : q # r => q \in Range(cache'["pa"])
    BY <1>0, <2>1, DeleteRow
  <2>5. Unique(cache["pa"]) => Unique(cache'["pa"]) /\ r \notin Range(cache'["pa"])
    BY <1>0, <2>1, DeleteRow
  <2>6. r \notin Range(cache["ss"])
    BY <1>0, <1>2
  <2> QED
    BY <1>0, <2>1, <2>2, <2>3, <2>4, <2>5, <2>6 DEF CacheType, Rows, UniqueRows
<1> QED
  BY <1>1, <1>2

(* A transfer that is started takes a free entry.                          *)
LEMMA UploadStep ==
  ASSUME Types, NEW r \in Reports, NEW cached \in BOOLEAN, CommonUpload(r, cached)
  PROVE  /\ curl_map' \in [Handles -> Item \cup {NoItem}] /\ faults' \in 0 .. MaxFaults
         /\ \/ UNCHANGED curl_map /\ faults' = faults + 1
            \/ /\ UNCHANGED faults
               /\ \E h \in Handles :
                    /\ ~Live(h)
                    /\ curl_map' = [curl_map EXCEPT ![h] =
                                     [report |-> r, cached |-> cached, state |-> "sending"]]
<1>1. CASE UNCHANGED curl_map /\ Fails
  BY <1>1, UploaderAssumption DEF Types, Fails
<1>2. ASSUME NEW h \in Handles, curl_map[h] = NoItem, Ok,
             curl_map' = [curl_map EXCEPT ![h] =
                            [report |-> r, cached |-> cached, state |-> "sending"]]
      PROVE  /\ curl_map' \in [Handles -> Item \cup {NoItem}] /\ faults' \in 0 .. MaxFaults
             /\ UNCHANGED faults /\ ~Live(h)
  <2>1. [report |-> r, cached |-> cached, state |-> "sending"] \in Item
    BY Zenon DEF Item
  <2> QED
    BY <1>2, <2>1 DEF Types, Ok, Live
<1> QED
  BY <1>1, <1>2 DEF CommonUpload

(* The row that is taken from the databases is one of them.                *)
LEMMA TopIsRow ==
  ASSUME Types, NEW r \in TopOfCaches
  PROVE  r \in Rows /\ r \in SnapShots \cup ProcActions
<1>1. cache["ss"] \in Seq(Reports) /\ cache["pa"] \in Seq(Reports)
  BY DEF Types, CacheType, Caches
<1>2. ASSUME NEW rows \in Seq(Reports), rows # << >> PROVE Head(rows) \in Range(rows)
  <2>1. Head(rows) = rows[1] /\ 1 \in 1 .. Len(rows)
    BY <1>2
  <2> QED
    BY <2>1, RangeIs
<1>3. r \in Rows
  BY <1>1, <1>2 DEF TopOfCaches, Rows
<1> QED
  BY <1>3 DEF Types, CacheType, Rows

(* Every step keeps the types.                                             *)
LEMMA TypeStep == ASSUME Types, [Next]_vars PROVE Types'
<1>0. FALSE \in BOOLEAN /\ TRUE \in BOOLEAN
  BY Zenon
<1>a. ProcessDies => /\ process' = "down" /\ running' = 0 /\ pc' = "perform"
                     /\ curl_map' \in [Handles -> Item \cup {NoItem}] /\ ends' \in Nat
  BY DEF ProcessDies, Types
<1>b. Cardinality(Handles) \in Nat
  BY UploaderAssumption, FS_CardinalityType
<1>c. ASSUME UNCHANGED cache PROVE CacheType'
  BY <1>c DEF Types, CacheType
<1>1. ASSUME NEW r \in Reports, PushReport(r) PROVE Types'
  <2>0. r \in SnapShots \cup ProcActions
    BY <1>1 DEF PushReport
  <2>1. CASE valid
    BY <1>0, <1>1, <1>c, <2>1, UploadStep DEF PushReport, Types
  <2>2. CASE ~valid
    BY <1>1, <2>0, <2>2, InsertStep DEF PushReport, Types
  <2> QED
    BY <2>1, <2>2
<1>2. ASSUME NEW r \in Reports, PushTask(r) PROVE Types'
  <2>1. CASE valid
    BY <1>0, <1>2, <1>c, <2>1, UploadStep DEF PushTask, Types
  <2>2. CASE ~valid
    BY <1>2, <1>c, <2>2 DEF PushTask, Types
  <2> QED
    BY <2>1, <2>2
<1>3. ASSUME NEW h \in Handles, TransferEnds(h) PROVE Types'
  <2>1. Live(h) /\ curl_map[h] \in Item /\ curl_map[h].report \in Reports
    BY <1>3, ItemIs DEF TransferEnds, InFlight, Live
  <2>2. PICK state \in {"ok", "failed"} : curl_map' = [curl_map EXCEPT ![h].state = state]
    BY <1>3 DEF TransferEnds
  <2>3. [curl_map[h] EXCEPT !.state = state] \in Item
    BY <2>1, <2>2 DEF Item
  <2>4. curl_map' \in [Handles -> Item \cup {NoItem}]
    BY <2>2, <2>3 DEF Types
  <2>5. delivered' \in [Reports -> Nat]
    BY <1>3, <2>1 DEF TransferEnds, Types
  <2>6. faults' \in 0 .. MaxFaults
    BY <1>3, UploaderAssumption DEF TransferEnds, Types, Ok, Fails
  <2> QED
    BY <1>3, <1>c, <2>4, <2>5, <2>6 DEF TransferEnds, Types
<1>4. CASE Perform
  <2>1. Cardinality(InFlight("sending")) \in 0 .. Cardinality(Handles)
    <3>1. InFlight("sending") \subseteq Handles
      BY DEF InFlight
    <3> QED
      BY <1>b, <3>1, UploaderAssumption, FS_Subset, FS_CardinalityType
  <2> QED
    BY <1>4, <1>c, <2>1 DEF Perform, Types
<1>5. CASE WaitFails
  BY <1>5, <1>b, <1>c, UploaderAssumption DEF WaitFails, Fails, Types
<1>6. ASSUME NEW h \in Handles, ReadReturn(h) PROVE Types'
  <2>1. Live(h) /\ curl_map[h].report \in Reports
    BY <1>6, ItemIs DEF ReadReturn, InFlight, Live
  <2>2. CASE NullCache(curl_map[h])
    BY <1>6, <1>a, <1>b, <1>c, <2>2 DEF ReadReturn, Types
  <2>3. CASE ~NullCache(curl_map[h])
    <3>1. CacheType' /\ faults' \in 0 .. MaxFaults
      <4>1. AfterUpload(curl_map[h])
        BY <1>6, <2>3 DEF ReadReturn
      <4>2. CASE curl_map[h].state = "ok" /\ curl_map[h].cached
        BY <2>1, <4>1, <4>2, DeleteStep DEF AfterUpload, Ok, Types
      <4>3. CASE curl_map[h].state = "failed" /\ ~curl_map[h].cached
        <5>1. curl_map[h].report \in SnapShots \cup ProcActions
          BY <2>1, <2>3, <4>3 DEF NullCache, Reports
        <5> QED
          BY <4>1, <4>3, <5>1, InsertStep DEF AfterUpload
      <4> QED
        BY <1>c, <4>1, <4>2, <4>3 DEF AfterUpload, Types
    <3> QED
      BY <1>6, <2>3, <3>1 DEF ReadReturn, Types
  <2> QED
    BY <2>2, <2>3
<1>7. CASE ReadFinished
  BY <1>7, <1>b, <1>c DEF ReadFinished, Types
<1>8. CASE PrepareToUpload
  <2>1. CASE \E r \in TopOfCaches : CommonUpload(r, TRUE)
    BY <1>0, <1>8, <1>c, <2>1, UploadStep, TopIsRow DEF PrepareToUpload, Types, Reports
  <2>2. CASE UNCHANGED <<curl_map, faults>>
    BY <1>8, <1>c, <2>2 DEF PrepareToUpload, Types
  <2> QED
    BY <1>8, <2>1, <2>2 DEF PrepareToUpload
<1>9. CASE CheckRun
  BY <1>9, <1>c DEF CheckRun, Types
<1>10. CASE Stop
  BY <1>10, <1>c DEF Stop, Types
<1>11. CASE Destroy
  <2>1. CacheType'
    <3>1. cache' \in [Caches -> Seq(Reports)]
      BY <1>11 DEF Destroy
    <3>2. cache'["ss"] = << >> /\ cache'["pa"] = << >>
      BY <1>11 DEF Destroy, Caches
    <3>3. Range(<< >>) = {}
      BY DEF Range
    <3> QED
      BY <3>1, <3>2, <3>3 DEF CacheType
  <2> QED
    BY <1>11, <1>a, <1>b, <2>1 DEF Destroy, Types
<1>12. CASE Crash
  BY <1>12, <1>a, <1>b, <1>c DEF Crash, Types
<1>13. CASE Start
  BY <1>13, <1>c DEF Start, Types
<1>14. CASE SetUrl
  BY <1>14, <1>c DEF SetUrl, Types
<1>15. CASE UNCHANGED vars
  BY <1>15, <1>c DEF vars, Types
<1>16. ASSUME NEW c \in Caches, CreateFails(c) PROVE Types'
  <2>1. CacheType'
    <3>0. CacheType
      BY DEF Types
    <3>1. cache' \in [Caches -> Seq(Reports)]
      BY <1>16, <3>0 DEF CreateFails, CacheType
    <3>2. /\ cache'["ss"] = << >> \/ cache'["ss"] = cache["ss"]
          /\ cache'["pa"] = << >> \/ cache'["pa"] = cache["pa"]
      BY <1>16, <3>0 DEF CreateFails, CacheType, Caches
    <3>3. Range(<< >>) = {}
      BY DEF Range
    <3> QED
      BY <3>0, <3>1, <3>2, <3>3 DEF CacheType
  <2>2. faults' \in 0 .. MaxFaults
    BY <1>16, UploaderAssumption DEF CreateFails, Fails, Types
  <2> QED
    BY <1>16, <2>1, <2>2 DEF CreateFails, Types
<1> QED
  BY <1>1, <1>2, <1>3, <1>4, <1>5, <1>6, <1>7, <1>8, <1>9, <1>10, <1>11, <1>12, <1>13,
     <1>14, <1>15, <1>16 DEF Next, UploadThread

(* A transfer is new, or it was there before; a new one has not ended.     *)
LEMMA SentStep == ASSUME Types, SentInv, [Next]_vars PROVE SentInv'
<1>0. FALSE \in BOOLEAN /\ TRUE \in BOOLEAN
  BY Zenon
<1>1. ASSUME NEW r \in Reports, NEW cached \in BOOLEAN, CommonUpload(r, cached),
             UNCHANGED delivered
      PROVE  SentInv'
  <2>1. CASE UNCHANGED curl_map
    BY <1>1, <2>1 DEF SentInv, Live
  <2>2. ASSUME NEW g \in Handles,
               curl_map' = [curl_map EXCEPT ![g] =
                              [report |-> r, cached |-> cached, state |-> "sending"]]
        PROVE  SentInv'
    <3>1. curl_map'[g].state = "sending" /\ \A h \in Handles : h # g => curl_map'[h] = curl_map[h]
      BY <2>2 DEF Types
    <3> QED
      BY <1>1, <3>1 DEF SentInv, Live
  <2> QED
    BY <1>1, <2>1, <2>2, UploadStep
<1>2. CASE UNCHANGED <<curl_map, delivered>>
  BY <1>2 DEF SentInv, Live
<1>3. CASE ProcessDies
  BY <1>3 DEF SentInv, Live, ProcessDies
<1>4. ASSUME NEW h \in Handles, TransferEnds(h) PROVE SentInv'
  <2>0. Live(h) /\ curl_map[h].report \in Reports /\ curl_map[h] \in Item
    BY <1>4, ItemIs DEF TransferEnds, InFlight, Live
  <2>1. PICK state \in {"ok", "failed"} :
          /\ curl_map' = [curl_map EXCEPT ![h].state = state]
          /\ state = "ok" => delivered' = [delivered EXCEPT ![curl_map[h].report] = @ + 1]
    BY <1>4 DEF TransferEnds
  <2>2. /\ curl_map'[h].report = curl_map[h].report /\ curl_map'[h].state = state
        /\ \A g \in Handles : g # h => curl_map'[g] = curl_map[g]
    BY <2>0, <2>1 DEF Types, Item
  <2>3. \A r \in Reports : delivered'[r] >= delivered[r] /\ delivered[r] \in Nat
    BY <1>4, <2>0 DEF TransferEnds, Types
  <2>4. state = "ok" => delivered'[curl_map[h].report] > 0
    BY <2>0, <2>1 DEF Types
  <2>5. \A g \in Handles : Live(g) => curl_map[g].report \in Reports
    BY ItemIs
  <2>6. ASSUME NEW g \in Handles, Live(g)', curl_map'[g].state = "ok"
        PROVE  delivered'[curl_map'[g].report] > 0
    <3>1. CASE g = h
      BY <2>2, <2>4, <2>6, <3>1
    <3>2. CASE g # h
      <4>1. curl_map'[g] = curl_map[g] /\ Live(g) /\ delivered'[curl_map[g].report] \in Nat
        BY <2>0, <2>2, <2>3, <2>5, <2>6, <3>2, TypeStep DEF Live, Types
      <4> QED
        BY <2>3, <2>5, <2>6, <4>1 DEF SentInv
    <3> QED
      BY <3>1, <3>2
  <2> QED
    BY <2>6 DEF SentInv
<1>5. ASSUME NEW h \in Handles, ReadReturn(h) PROVE SentInv'
  <2>1. CASE ~NullCache(curl_map[h])
    BY <1>5, <2>1 DEF ReadReturn, SentInv, Live, Types
  <2> QED
    BY <1>3, <1>5, <2>1 DEF ReadReturn
<1>6. CASE PrepareToUpload
  BY <1>0, <1>1, <1>2, <1>6, TopIsRow DEF PrepareToUpload, Reports
<1>7. ASSUME NEW r \in Reports, PushReport(r) \/ PushTask(r) PROVE SentInv'
  BY <1>0, <1>1, <1>2, <1>7 DEF PushReport, PushTask
<1> QED
  BY <1>2, <1>3, <1>4, <1>5, <1>6, <1>7
  DEF Next, UploadThread, SetUrl, Stop, Destroy, Crash, Start, CreateFails, Perform, WaitFails,
      ReadFinished, CheckRun, vars
-----------------------------------------------------------------------------
(* Nothing that fails or ends is taken back.                               *)
LEMMA QuietBefore ==
  ASSUME Types, [Next]_vars, faults' = 0, ends' = 0
  PROVE  Quiet /\ ~Fails /\ ~ProcessDies
<1>1. ~Fails /\ ~ProcessDies
  BY UploaderAssumption DEF Fails, ProcessDies, Types
<1>2. ends = 0
  <2>1. UNCHANGED ends
    BY <1>1 DEF Next, UploadThread, vars, SetUrl, Stop, Destroy, Crash, Start, CreateFails, Perform,
                WaitFails, ReadFinished, CheckRun, PrepareToUpload, ReadReturn,
                TransferEnds, PushReport, PushTask
  <2> QED
    BY <2>1
<1>3. faults = 0
  <2>1. UNCHANGED faults
    BY <1>1 DEF Next, UploadThread, vars, SetUrl, Stop, Destroy, Crash, Start, CreateFails, Perform,
                WaitFails, ReadFinished, CheckRun, PrepareToUpload, ReadReturn,
                TransferEnds, PushReport, PushTask, CommonUpload, Insert, AfterUpload, Ok
  <2> QED
    BY <2>1
<1> QED
  BY <1>1, <1>2, <1>3 DEF Quiet

(* A report that is nowhere is taken for transfer, or the row of one whose *)
(* transfer has not begun.                                                 *)
LEMMA NewTransfer ==
  ASSUME Types, Types', QuietInv, NEW r \in Reports, NEW cached \in BOOLEAN,
         NEW g \in Handles, ~Live(g),
         curl_map' = [curl_map EXCEPT ![g] =
                        [report |-> r, cached |-> cached, state |-> "sending"]],
         \A h \in Handles : Live(h) => curl_map[h].report # r,
         cached <=> r \in Rows, delivered[r] = 0,
         pushed \subseteq pushed', r \in pushed',
         UNCHANGED <<cache, delivered, running>>,
         IF cached THEN pc' = "check" ELSE UNCHANGED pc
  PROVE  QuietInv'
<1>1. /\ curl_map'[g].report = r /\ curl_map'[g].state = "sending"
      /\ \A h \in Handles : h # g => curl_map'[h] = curl_map[h]
      /\ curl_map'[g].cached = cached
  BY DEF Types
<1>2. Rows' = Rows /\ (UniqueRows' <=> UniqueRows)
  BY DEF Rows, UniqueRows
<1>3. \A h \in Handles : h # g => (Live(h)' <=> Live(h))
  BY <1>1 DEF Live
<1>4. \A h, k \in Handles :
        Live(h)' /\ Live(k)' /\ curl_map'[h].report = curl_map'[k].report => h = k
  BY <1>1, <1>3 DEF QuietInv
<1>5. \A h \in Handles : Live(h)' => (curl_map'[h].cached <=> curl_map'[h].report \in Rows')
  BY <1>1, <1>2, <1>3 DEF QuietInv
<1>6. \A h \in Handles : Live(h)' /\ curl_map'[h].state # "ok"
                           => delivered'[curl_map'[h].report] = 0
  BY <1>1, <1>3 DEF QuietInv
<1>7. \A q \in Rows' : delivered'[q] = 0 \/ \E h \in Handles : /\ Live(h)'
                                                               /\ curl_map'[h].report = q
                                                               /\ curl_map'[h].state = "ok"
  BY <1>1, <1>2, <1>3 DEF QuietInv
<1>8. \A h \in Handles : Live(h)' => curl_map'[h].report \in pushed'
  BY <1>1, <1>3 DEF QuietInv
<1>9. pc' = "active" => \A h \in Handles : ~(Live(h)' /\ curl_map'[h].cached)
  BY <1>1, <1>3 DEF QuietInv
<1>10. pc' = "read" /\ running' = 0
         => \A h \in Handles :
              ~(Live(h)' /\ curl_map'[h].cached /\ curl_map'[h].state = "sending")
  BY <1>1, <1>3 DEF QuietInv
<1>11. \A q \in Reports : /\ q \notin pushed' => delivered'[q] = 0 /\ q \notin Rows'
                          /\ delivered'[q] <= 1
  BY <1>2 DEF QuietInv
<1> QED
  BY <1>2, <1>4, <1>5, <1>6, <1>7, <1>8, <1>9, <1>10, <1>11 DEF QuietInv

(* Without faults, what is on its way is neither lost nor doubled.         *)
LEMMA QuietStep == ASSUME Inv, [Next]_vars, Quiet' PROVE QuietInv'
<1>0. /\ Types /\ Types' /\ QuietInv /\ Quiet /\ ~Fails /\ ~ProcessDies
      /\ faults' # faults + 1 /\ faults' = 0
  BY QuietBefore, TypeStep DEF Inv, Quiet
<1>a. FALSE \in BOOLEAN /\ TRUE \in BOOLEAN
  BY Zenon
<1>b. \A h \in Handles : Live(h) => /\ curl_map[h].report \in Reports
                                    /\ curl_map[h].state \in {"sending", "ok", "failed"}
  BY <1>0, ItemIs
<1>c. Rows \subseteq Reports
  BY <1>0 DEF Types, CacheType, Rows, Reports
<1>1. ASSUME NEW r \in Reports, PushReport(r) \/ PushTask(r) PROVE QuietInv'
  <2>0. /\ r \notin pushed /\ pushed' = pushed \cup {r}
        /\ UNCHANGED <<running, pc, delivered>>
    BY <1>1 DEF PushReport, PushTask
  <2>1. /\ delivered[r] = 0 /\ r \notin Rows
        /\ \A h \in Handles : Live(h) => curl_map[h].report # r
    BY <1>0, <2>0 DEF QuietInv
  <2>2. CASE CommonUpload(r, FALSE) /\ UNCHANGED cache
    <3>1. PICK g \in Handles :
            /\ ~Live(g)
            /\ curl_map' = [curl_map EXCEPT ![g] =
                              [report |-> r, cached |-> FALSE, state |-> "sending"]]
      BY <1>0, <1>a, <2>2, UploadStep
    <3> QED
      BY <1>0, <1>a, <2>0, <2>1, <2>2, <3>1, NewTransfer
  <2>3. CASE Insert(r) /\ UNCHANGED curl_map /\ r \in SnapShots \cup ProcActions
    <3>1. Rows' = Rows \cup {r} /\ UniqueRows'
      BY <1>0, <2>1, <2>3, InsertStep DEF QuietInv
    <3>2. \A h \in Handles : Live(h)' <=> Live(h)
      BY <2>3 DEF Live
    <3> QED
      BY <1>0, <2>0, <2>1, <2>3, <3>1, <3>2 DEF QuietInv
  <2>4. CASE UNCHANGED <<curl_map, cache>>
    BY <1>0, <2>0, <2>4 DEF QuietInv, Live, Rows, UniqueRows
  <2> QED
    BY <1>1, <2>2, <2>3, <2>4 DEF PushReport, PushTask
<1>2. ASSUME NEW h \in Handles, TransferEnds(h) PROVE QuietInv'
  <2> DEFINE r == curl_map[h].report
  <2>0. /\ Live(h) /\ r \in Reports /\ curl_map[h] \in Item /\ curl_map[h].state = "sending"
        /\ pc = "perform" /\ UNCHANGED <<cache, pc, pushed, running>>
    BY <1>0, <1>2, ItemIs DEF TransferEnds, InFlight, Live
  <2>1. PICK state \in {"ok", "failed"} :
          /\ curl_map' = [curl_map EXCEPT ![h].state = state]
          /\ state = "ok" => delivered' = [delivered EXCEPT ![r] = @ + 1]
          /\ state = "failed" => UNCHANGED delivered
    BY <1>0, <1>2 DEF TransferEnds
  <2>2. /\ curl_map'[h].report = r /\ curl_map'[h].state = state
        /\ curl_map'[h].cached = curl_map[h].cached
        /\ \A g \in Handles : g # h => curl_map'[g] = curl_map[g]
    BY <1>0, <2>0, <2>1 DEF Types, Item
  <2>3. /\ delivered[r] = 0
        /\ delivered'[r] = IF state = "ok" THEN 1 ELSE 0
        /\ \A q \in Reports : q # r => delivered'[q] = delivered[q]
    BY <1>0, <2>0, <2>1 DEF QuietInv, Types
  <2>4. \A g \in Handles : Live(g)' => Live(g)
    BY <2>0, <2>2 DEF Live
  <2>5. \A g \in Handles : Live(g) /\ g # h => Live(g)' /\ curl_map[g].report # r
    BY <1>0, <2>0, <2>2 DEF Live, QuietInv
  <2>6. Rows' = Rows /\ (UniqueRows' <=> UniqueRows)
    BY <2>0 DEF Rows, UniqueRows
  <2> HIDE DEF r
  <2>7. \A g, k \in Handles :
          Live(g)' /\ Live(k)' /\ curl_map'[g].report = curl_map'[k].report => g = k
    BY <1>0, <2>2, <2>4, <2>5 DEF QuietInv
  <2>8. ASSUME NEW g \in Handles, Live(g)'
        PROVE  /\ curl_map'[g].report \in pushed'
               /\ curl_map'[g].cached <=> curl_map'[g].report \in Rows'
               /\ curl_map'[g].state # "ok" => delivered'[curl_map'[g].report] = 0
    <3>1. CASE g = h
      BY <1>0, <2>0, <2>2, <2>3, <2>6, <3>1 DEF QuietInv, r
    <3>2. CASE g # h
      BY <1>0, <1>b, <2>0, <2>2, <2>3, <2>4, <2>5, <2>6, <2>8, <3>2 DEF QuietInv
    <3> QED
      BY <3>1, <3>2
  <2>9. ASSUME NEW q \in Rows', delivered'[q] # 0
        PROVE  \E g \in Handles : /\ Live(g)' /\ curl_map'[g].report = q
                                  /\ curl_map'[g].state = "ok"
    <3>1. CASE q = r
      <4>1. Live(h)' /\ state = "ok"
        <5>1. curl_map'[h] = [curl_map[h] EXCEPT !.state = state]
          BY <1>0, <2>1 DEF Types
        <5>2. curl_map'[h] \in Item
          BY <2>0, <5>1 DEF Item
        <5> QED
          BY <2>3, <2>9, <3>1, <5>2, NoItemIsNone DEF Live
      <4> QED
        BY <2>2, <3>1, <4>1
    <3>2. CASE q # r
      <4>1. PICK g \in Handles : /\ Live(g) /\ curl_map[g].report = q
                                 /\ curl_map[g].state = "ok"
        BY <1>0, <1>c, <2>3, <2>6, <2>9, <3>2 DEF QuietInv
      <4>2. g # h
        BY <2>0, <4>1
      <4> QED
        BY <2>2, <2>5, <4>1, <4>2
    <3> QED
      BY <3>1, <3>2
  <2>10. \A q \in Reports : /\ q \notin pushed' => delivered'[q] = 0 /\ q \notin Rows'
                            /\ delivered'[q] <= 1
    <3>1. r \in pushed
      BY <1>0, <2>0 DEF QuietInv, r
    <3> QED
      BY <1>0, <2>0, <2>3, <2>6, <3>1 DEF QuietInv
  <2> QED
    BY <1>0, <2>0, <2>6, <2>7, <2>8, <2>9, <2>10 DEF QuietInv
<1>3. CASE Perform
  <2>1. running' = 0 => InFlight("sending") = {}
    <3>1. InFlight("sending") \subseteq Handles
      BY DEF InFlight
    <3>2. IsFiniteSet(InFlight("sending"))
      BY <3>1, UploaderAssumption, FS_Subset
    <3> QED
      BY <1>3, <3>2, FS_EmptySet DEF Perform
  <2> QED
    BY <1>0, <1>3, <2>1 DEF Perform, QuietInv, Live, Rows, UniqueRows, InFlight
<1>4. ASSUME NEW h \in Handles, ReadReturn(h) PROVE QuietInv'
  <2> DEFINE r == curl_map[h].report
  <2>0. /\ Live(h) /\ r \in Reports /\ curl_map[h].state \in {"ok", "failed"}
        /\ ~NullCache(curl_map[h]) /\ AfterUpload(curl_map[h])
        /\ curl_map' = [curl_map EXCEPT ![h] = NoItem]
        /\ UNCHANGED <<running, pc, pushed, delivered>>
    BY <1>0, <1>4, ItemIs DEF ReadReturn, InFlight, Live
  <2>1. ~Live(h)' /\ \A g \in Handles : g # h => /\ curl_map'[g] = curl_map[g]
                                                 /\ (Live(g)' <=> Live(g))
                                                 /\ (Live(g) => curl_map[g].report # r)
    BY <1>0, <2>0 DEF Types, Live, QuietInv
  <2>2. /\ UniqueRows' /\ Rows' \subseteq Reports
        /\ \A q \in Reports : q # r => (q \in Rows' <=> q \in Rows)
        /\ r \in Rows' => delivered[r] = 0
    <3>1. CASE curl_map[h].state = "ok" /\ curl_map[h].cached
      BY <1>0, <1>c, <2>0, <3>1, DeleteStep DEF AfterUpload, QuietInv
    <3>2. CASE curl_map[h].state = "failed" /\ ~curl_map[h].cached
      <4>1. r \in SnapShots \cup ProcActions /\ r \notin Rows /\ delivered[r] = 0
        BY <1>0, <2>0, <3>2 DEF NullCache, Reports, QuietInv
      <4>2. Insert(r)
        BY <2>0, <3>2 DEF AfterUpload
      <4> QED
        BY <1>0, <1>c, <2>0, <4>1, <4>2, InsertStep DEF QuietInv
    <3>3. CASE curl_map[h].state = "ok" /\ ~curl_map[h].cached
      <4>1. UNCHANGED cache /\ r \notin Rows
        BY <1>0, <2>0, <3>3 DEF AfterUpload, QuietInv
      <4> QED
        BY <1>0, <1>c, <4>1 DEF Rows, UniqueRows, QuietInv
    <3>4. CASE curl_map[h].state = "failed" /\ curl_map[h].cached
      <4>1. UNCHANGED cache /\ delivered[r] = 0
        BY <1>0, <2>0, <3>4 DEF AfterUpload, QuietInv
      <4> QED
        BY <1>0, <1>c, <4>1 DEF Rows, UniqueRows, QuietInv
    <3> QED
      BY <2>0, <3>1, <3>2, <3>3, <3>4
  <2>a. r \in pushed
    BY <1>0, <2>0 DEF QuietInv
  <2> HIDE DEF r
  <2>3. ASSUME NEW g \in Handles, Live(g)'
        PROVE  /\ g # h /\ Live(g) /\ curl_map'[g] = curl_map[g] /\ curl_map[g].report # r
               /\ curl_map[g].report \in Reports
               /\ curl_map'[g].cached <=> curl_map'[g].report \in Rows'
    BY <1>0, <1>b, <2>1, <2>2, <2>3 DEF QuietInv
  <2>4. ASSUME NEW q \in Rows', delivered'[q] # 0
        PROVE  \E g \in Handles : /\ Live(g)' /\ curl_map'[g].report = q
                                  /\ curl_map'[g].state = "ok"
    <3>1. q # r /\ q \in Rows
      BY <2>0, <2>2, <2>4
    <3>2. PICK g \in Handles : Live(g) /\ curl_map[g].report = q /\ curl_map[g].state = "ok"
      BY <1>0, <2>0, <2>4, <3>1 DEF QuietInv
    <3>3. g # h
      BY <3>1, <3>2 DEF r
    <3> QED
      BY <2>1, <3>2, <3>3
  <2>5. \A q \in Reports : /\ q \notin pushed' => delivered'[q] = 0 /\ q \notin Rows'
                           /\ delivered'[q] <= 1
    BY <1>0, <2>0, <2>2, <2>a DEF QuietInv
  <2> QED
    BY <1>0, <2>0, <2>2, <2>3, <2>4, <2>5 DEF QuietInv
<1>5. CASE ReadFinished
  <2>1. pc' = "active" => \A h \in Handles : ~(Live(h) /\ curl_map[h].cached)
    <3>1. pc' = "active" => running = 0 /\ pc = "read"
      BY <1>0, <1>5, UploaderAssumption, FS_CardinalityType DEF ReadFinished, Types
    <3>2. \A h \in Handles : Live(h) => curl_map[h].state = "sending"
      BY <1>5, <1>b DEF ReadFinished, InFlight, Live
    <3> QED
      BY <1>0, <3>1, <3>2 DEF QuietInv
  <2>2. pc' \in {"perform", "active"} /\ UNCHANGED <<cache, curl_map, pushed, delivered>>
    BY <1>5 DEF ReadFinished
  <2> QED
    BY <1>0, <2>1, <2>2 DEF QuietInv, Live, Rows, UniqueRows
<1>6. CASE PrepareToUpload
  <2>0. /\ pc = "active" /\ pc' = "check"
        /\ UNCHANGED <<cache, running, pushed, delivered>>
    BY <1>6 DEF PrepareToUpload
  <2>1. ASSUME NEW r \in TopOfCaches, CommonUpload(r, TRUE) PROVE QuietInv'
    <3>1. r \in Rows /\ r \in Reports /\ r \in pushed
      BY <1>0, <1>c, <2>1, TopIsRow DEF QuietInv
    <3>2. \A h \in Handles : Live(h) => curl_map[h].report # r
      BY <1>0, <2>0, <3>1 DEF QuietInv
    <3>3. delivered[r] = 0
      BY <1>0, <3>1, <3>2 DEF QuietInv
    <3>4. PICK g \in Handles :
            /\ ~Live(g)
            /\ curl_map' = [curl_map EXCEPT ![g] =
                              [report |-> r, cached |-> TRUE, state |-> "sending"]]
      BY <1>0, <1>a, <2>1, <3>1, UploadStep
    <3> QED
      BY <1>0, <1>a, <2>0, <3>1, <3>2, <3>3, <3>4, NewTransfer
  <2>2. CASE UNCHANGED curl_map
    BY <1>0, <2>0, <2>2 DEF QuietInv, Live, Rows, UniqueRows
  <2> QED
    BY <1>6, <2>1, <2>2 DEF PrepareToUpload
<1>7. CASE CheckRun \/ SetUrl \/ Stop \/ Start \/ UNCHANGED vars
  <2>1. /\ UNCHANGED <<cache, curl_map, running, pushed, delivered>>
        /\ UNCHANGED pc \/ pc' = "perform"
    BY <1>7 DEF CheckRun, SetUrl, Stop, Start, vars
  <2> QED
    BY <1>0, <2>1 DEF QuietInv, Live, Rows, UniqueRows
<1> QED
  BY <1>0, <1>1, <1>2, <1>3, <1>4, <1>5, <1>6, <1>7
  DEF Next, UploadThread, WaitFails, Destroy, Crash, CreateFails
-----------------------------------------------------------------------------
(* The invariant holds of empty caches.                                    *)
LEMMA Initially == Init => Inv
<1> SUFFICES ASSUME Init PROVE Inv
  OBVIOUS
<1>1. cache["ss"] = << >> /\ cache["pa"] = << >> /\ cache \in [Caches -> Seq(Reports)]
  BY DEF Init, Caches
<1>2. Range(<< >>) = {}
  BY DEF Range
<1>3. CacheType /\ Rows = {} /\ UniqueRows
  BY <1>1, <1>2 DEF CacheType, Rows, UniqueRows, Unique
<1>4. \A h \in Handles : ~Live(h)
  BY DEF Init, Live
<1>5. curl_map \in [Handles -> Item \cup {NoItem}]
  BY DEF Init
<1>6. 0 \in 0 .. Cardinality(Handles)
  BY UploaderAssumption, FS_CardinalityType
<1>7. Types
  BY <1>3, <1>5, <1>6, UploaderAssumption DEF Init, Types
<1>8. SentInv /\ QuietInv
  BY <1>3, <1>4 DEF Init, SentInv, QuietInv
<1> QED
  BY <1>7, <1>8 DEF Inv

(* valid stays Boolean.                                                    *)
LEMMA ValidStep == ASSUME valid \in BOOLEAN, [Next]_vars PROVE valid' \in BOOLEAN
  BY Zenon
  DEF Next, UploadThread, vars, SetUrl, Stop, Destroy, Crash, Start, CreateFails, Perform,
      WaitFails, ReadFinished, CheckRun, PrepareToUpload, ReadReturn, TransferEnds, PushReport,
      PushTask, ProcessDies

(* The invariant, with the type of valid.                                  *)
LEMMA InvHolds == Spec => [](Inv /\ valid \in BOOLEAN)
<1>1. Init => valid \in BOOLEAN
  BY Zenon DEF Init
<1>2. ASSUME Inv, [Next]_vars PROVE Inv'
  BY <1>2, TypeStep, SentStep, QuietStep DEF Inv
<1>3. Inv /\ valid \in BOOLEAN /\ [Next]_vars => (Inv /\ valid \in BOOLEAN)'
  BY <1>2, ValidStep, Zenon
<1> QED
  BY <1>1, <1>3, Initially, PTL DEF Spec

(* While nothing fails, no report reaches the server twice, for any        *)
(* reports and any number of transfers at the same time.                   *)
THEOREM DeliveredOnceHolds == Spec => []DeliveredOnce
<1>1. Inv /\ valid \in BOOLEAN => TypeOK
  <2> SUFFICES ASSUME Inv, valid \in BOOLEAN PROVE TypeOK
    OBVIOUS
  <2>0. Types
    BY DEF Inv
  <2>1. /\ \A r \in Range(cache["ss"]) : r \in SnapShots
        /\ \A r \in Range(cache["pa"]) : r \in ProcActions
        /\ cache \in [Caches -> Seq(Reports)]
    BY <2>0 DEF Types, CacheType
  <2>2. /\ process \in {"up", "stopping", "ended", "down"}
        /\ curl_map \in [Handles -> Item \cup {NoItem}]
        /\ running \in 0 .. Cardinality(Handles)
        /\ pc \in {"perform", "read", "active", "check"}
    BY <2>0 DEF Types
  <2>3. /\ pushed \subseteq Reports /\ delivered \in [Reports -> Nat]
        /\ faults \in 0 .. MaxFaults /\ ends \in Nat
    BY <2>0 DEF Types
  <2> QED
    BY <2>1, <2>2, <2>3, Zenon DEF TypeOK
<1>2. Inv => (faults = 0 /\ ends = 0 => \A r \in Reports : delivered[r] <= 1)
  BY DEF Inv, Quiet, QuietInv
<1>3. Inv /\ valid \in BOOLEAN => DeliveredOnce
  BY <1>1, <1>2 DEF DeliveredOnce
<1> QED
  BY <1>3, InvHolds, PTL

(* A report leaves its database only when the server has it, after a clean *)
(* stop or by a start that cannot use the database, whatever else fails    *)
(* and however often the process dies.                                     *)
THEOREM CachedKeptHolds == Spec => CachedKept
<1> DEFINE Kept == \A r \in Reports :
                     Cached(r) /\ ~Cached(r)' =>
                       \/ Sent(r)'
                       \/ process = "ended"
                       \/ process = "down" /\ process' = "down"
<1>1. ASSUME Inv, [Next]_vars PROVE [Kept]_vars
  <2>0. Types /\ Types' /\ SentInv
    BY <1>1, TypeStep DEF Inv
  <2>1. ASSUME Rows \subseteq Rows' PROVE Kept
    BY <2>1 DEF Cached, Rows
  <2>2. ASSUME NEW r \in SnapShots \cup ProcActions, Insert(r) PROVE Kept
    BY <2>0, <2>1, <2>2, InsertStep
  <2>3. ASSUME UNCHANGED cache PROVE Kept
    BY <2>1, <2>3 DEF Rows
  <2>4. ASSUME NEW h \in Handles, ReadReturn(h) PROVE Kept
    <3>0. /\ Live(h) /\ curl_map[h].report \in Reports
          /\ UNCHANGED delivered
      BY <2>0, <2>4, ItemIs DEF ReadReturn, InFlight, Live
    <3>1. CASE NullCache(curl_map[h])
      BY <2>3, <2>4, <3>1 DEF ReadReturn
    <3>2. CASE ~NullCache(curl_map[h])
      <4>0. AfterUpload(curl_map[h])
        BY <2>4, <3>2 DEF ReadReturn
      <4>1. CASE curl_map[h].state = "ok" /\ curl_map[h].cached
        <5>1. /\ \A q \in Rows : q # curl_map[h].report => q \in Rows'
              /\ delivered'[curl_map[h].report] > 0
          BY <2>0, <3>0, <4>0, <4>1, DeleteStep DEF AfterUpload, SentInv
        <5> QED
          BY <5>1 DEF Cached, Rows, Sent
      <4>2. CASE curl_map[h].state = "failed" /\ ~curl_map[h].cached
        <5>1. curl_map[h].report \in SnapShots \cup ProcActions
          BY <3>0, <3>2, <4>2 DEF NullCache, Reports
        <5> QED
          BY <2>2, <4>0, <4>2, <5>1 DEF AfterUpload
      <4> QED
        BY <2>3, <4>0, <4>1, <4>2 DEF AfterUpload
    <3> QED
      BY <3>1, <3>2
  <2>5. ASSUME NEW r \in Reports, PushReport(r) \/ PushTask(r) PROVE Kept
    BY <2>2, <2>3, <2>5 DEF PushReport, PushTask
  <2>6. CASE Destroy \/ \E c \in Caches : CreateFails(c)
    BY <2>6 DEF Destroy, CreateFails
  <2> QED
    BY <1>1, <2>3, <2>4, <2>5, <2>6
    DEF Next, UploadThread, vars, SetUrl, Stop, Crash, Start, Perform, WaitFails,
        ReadFinished, CheckRun, PrepareToUpload, TransferEnds
<1>2. Spec => [][Kept]_vars
  BY <1>1, InvHolds, PTL DEF Spec
<1> QED
  BY <1>2 DEF CachedKept
=============================================================================
