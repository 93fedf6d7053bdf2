------------------------- MODULE MonitorStoreProofs -------------------------
(***************************************************************************)
(* The in-memory repository keeps its indexes exact, what it retains       *)
(* bounded and its failure counts true, for any monitors, jobs, callers    *)
(* and limits.                                                             *)
(***************************************************************************)
EXTENDS MonitorStore, FiniteSetTheorems, TLAPS

\* The places of a retention list that are not evicted, and the ids there.
Waiting(list) == (list.head + 1) .. Len(list.order)

InWindow(list, j) == \E i \in Waiting(list) : list.order[i] = j

\* The slice is never longer than twice the limit.
Short(list, max) ==
  /\ list.head \in 0..Len(list.order)
  /\ list.head <= max
  /\ Len(list.order) - list.head <= max

NoneTwice(list) ==
  \A i, k \in Waiting(list) : list.order[i] = list.order[k] => i = k

\* The terminal order of s lists the settled jobs of s that are still in the map,
\* and besides them only jobs that were deleted with their monitor.
TerminalOrder(s) ==
  /\ Short(s.list, MaxRetainedJobs)
  /\ NoneTwice(s.list)
  /\ \A j \in Jobs : s.row[j].status \in Terminal => InWindow(s.list, j)
  /\ \A j \in Jobs : InWindow(s.list, j) => s.row[j].status \in Terminal \cup {"gone"}

URLInv ==
  /\ monitor \in [Monitors -> MonitorRow]
  /\ byURL \in [URLs -> Monitors \cup {NoMonitor}]
  /\ URLIndexExact

\* The index of the unfinished jobs, with every entry under the monitor of its job.
JobsInv ==
  /\ job \in [Jobs -> JobRow]
  /\ active \in [Monitors -> Jobs \cup {NoJob}]
  /\ terminal \in RetentionList
  /\ ActiveIndexExact
  /\ \A m \in Monitors : active[m] # NoJob => MonitorOf[active[m]] = m /\ Exists(m)
  /\ TerminalOrder(Jobs0)

ProcessedInv ==
  /\ processed \subseteq Jobs
  /\ processedList \in RetentionList
  /\ Short(processedList, MaxProcessed)
  /\ NoneTwice(processedList)
  /\ \A j \in Jobs : j \in processed <=> InWindow(processedList, j)

IncidentRow == [status: {"none", "open", "resolved"}, failures: Nat]

IncidentsInv ==
  /\ incident \in [Jobs -> IncidentRow]
  /\ open \in [Monitors -> Jobs \cup {NoJob}]
  /\ resolved \in RetentionList
  /\ \A i \in Jobs : incident[i].status = "open" <=> open[MonitorOf[i]] = i
  /\ \A m \in Monitors : open[m] # NoJob => MonitorOf[open[m]] = m
  /\ Short(resolved, MaxRetainedIncidents)
  /\ \A i \in Jobs : incident[i].status = "resolved" => InWindow(resolved, i)

\* A job fails once, so an incident has no more failures than there are jobs that ended.
Ended == {j \in Jobs : job[j].status \in Terminal \cup {"gone"}}

CountInv == \A i \in Jobs : incident[i].failures <= Cardinality(Ended)

Record == [job: Jobs, success: BOOLEAN]

\* The failures of the open incident are the latest records.
HistoryInv ==
  /\ checks \in [Monitors -> Seq(Record)]
  /\ \A m \in Monitors : Len(checks[m]) <= MaxChecks
  /\ \A m \in Monitors : open[m] # NoJob =>
       /\ incident[open[m]].failures >= 1 /\ Len(checks[m]) >= 1
       /\ \A i \in 1..Len(checks[m]) :
            i + incident[open[m]].failures > Len(checks[m]) => ~checks[m][i].success

StoreInv == URLInv /\ JobsInv /\ ProcessedInv /\ IncidentsInv /\ CountInv /\ HistoryInv

-----------------------------------------------------------------------------
(* Sequences. *)

\* The length and the domain of a sequence.
LEMMA LenFacts ==
  ASSUME NEW S, NEW seq \in Seq(S)
  PROVE  Len(seq) \in Nat /\ DOMAIN seq = 1..Len(seq) /\ seq \in [1..Len(seq) -> S]
OBVIOUS

\* The elements of a sequence over S are in S.
LEMMA ElementFacts ==
  ASSUME NEW S, NEW seq \in Seq(S), NEW n \in 1..Len(seq)
  PROVE  seq[n] \in S
OBVIOUS

\* The sequence without elements.
LEMMA EmptyFacts ==
  ASSUME NEW S
  PROVE  <<>> \in Seq(S) /\ Len(<<>>) = 0
OBVIOUS

\* Append adds its element behind the others.
LEMMA AppendFacts ==
  ASSUME NEW S, NEW seq \in Seq(S), NEW e \in S
  PROVE  /\ Append(seq, e) \in Seq(S) /\ Len(Append(seq, e)) = Len(seq) + 1
         /\ \A i \in 1..Len(seq) : Append(seq, e)[i] = seq[i]
         /\ Append(seq, e)[Len(seq) + 1] = e
OBVIOUS

\* What a Go slice expression seq[m-1:n] has.
LEMMA SubSeqFacts ==
  ASSUME NEW S, NEW seq, NEW m \in Int, NEW n \in Int, \A i \in m..n : seq[i] \in S
  PROVE  /\ SubSeq(seq, m, n) \in Seq(S)
         /\ Len(SubSeq(seq, m, n)) = IF m <= n THEN n - m + 1 ELSE 0
         /\ \A i \in 1..(n - m + 1) : SubSeq(seq, m, n)[i] = seq[m + i - 1]
OBVIOUS

\* A slice that ends before it starts has nothing.
LEMMA SubSeqNothing ==
  ASSUME NEW seq, NEW m \in Int, NEW n \in Int, n < m
  PROVE  SubSeq(seq, m, n) = <<>>
OBVIOUS

-----------------------------------------------------------------------------
(* Natural numbers *)

LEMMA LeastNatural ==
  ASSUME NEW T, T \subseteq Nat, T # {}
  PROVE  \E x \in T : \A y \in T : x <= y
<1> DEFINE R == OpToRel(<, Nat)
<1>1. IsWellFoundedOn(R, Nat)
  BY ZenonT(30), NatLessThanWellFounded
<1>2. \A x, y \in Nat : y < x => <<y, x>> \in R
  BY ZenonT(30) DEF OpToRel
<1> HIDE DEF R
<1>3. PICK x \in T : \A y \in T : ~(<<y, x>> \in R)
  BY ZenonT(30), <1>1, WFMin
<1>4. \A y \in T : x <= y
  <2> SUFFICES ASSUME NEW y \in T  PROVE x <= y
    BY ZenonT(30)
  <2>1. x \in Nat /\ y \in Nat /\ ~(y < x)
    BY ZenonT(30), <1>2, <1>3
  <2> QED  BY <2>1
<1> QED  BY ZenonT(30), <1>4

\* Induction, for a set instead of a predicate.
LEMMA InductionUpTo ==
  ASSUME NEW n \in Nat, NEW T, 0 \in T, \A i \in 0..(n - 1) : i \in T => i + 1 \in T
  PROVE  \A i \in 0..n : i \in T
<1> DEFINE Bad == {i \in 0..n : i \notin T}
<1> SUFFICES ASSUME Bad # {}  PROVE FALSE
  BY ZenonT(30)
<1>1. PICK i \in Bad : \A k \in Bad : i <= k
  <2>1. Bad \subseteq Nat
    OBVIOUS
  <2> HIDE DEF Bad
  <2> QED  BY ZenonT(30), <2>1, LeastNatural
<1>2. i \in 0..n /\ i \notin T /\ i # 0
  BY ZenonT(30), <1>1
<1>3. i - 1 \in 0..(n - 1) /\ (i - 1) + 1 = i /\ i - 1 < i
  BY <1>2
<1>4. i - 1 \in T
  BY <1>1, <1>3
<1> QED  BY ZenonT(30), <1>2, <1>3, <1>4

-----------------------------------------------------------------------------
(* The retention lists *)

LEMMA WindowProperties ==
  ASSUME NEW list \in RetentionList, list.head \in 0..Len(list.order)
  PROVE  /\ Len(list.order) \in Nat
         /\ Window(list) \in Seq(Jobs) /\ Len(Window(list)) = Len(list.order) - list.head
         /\ \A i \in 1..(Len(list.order) - list.head) :
              Window(list)[i] = list.order[list.head + i]
<1>1. list.order \in Seq(Jobs) /\ list.head \in Nat
  BY ZenonT(30) DEF RetentionList
<1>2. Len(list.order) \in Nat /\ \A i \in 1..Len(list.order) : list.order[i] \in Jobs
  BY ZenonT(30), <1>1, LenFacts, ElementFacts
<1> DEFINE low == list.head + 1
           high == Len(list.order)
<1>3. low \in Int /\ high \in Int /\ \A i \in low..high : list.order[i] \in Jobs
  BY <1>1, <1>2
<1>4. /\ SubSeq(list.order, low, high) \in Seq(Jobs)
      /\ Len(SubSeq(list.order, low, high)) = IF low <= high THEN high - low + 1 ELSE 0
      /\ \A i \in 1..(high - low + 1) : SubSeq(list.order, low, high)[i] = list.order[low + i - 1]
  <2> HIDE DEF low, high
  <2> QED  BY <1>3, SubSeqFacts
<1>5. Len(Window(list)) = Len(list.order) - list.head
  BY <1>1, <1>2, <1>4 DEF Window
<1>6. ASSUME NEW i \in 1..(Len(list.order) - list.head)
      PROVE  Window(list)[i] = list.order[list.head + i]
  <2>1. i \in 1..(high - low + 1) /\ low + i - 1 = list.head + i
    BY <1>1, <1>2
  <2> QED  BY ZenonT(30), <1>4, <2>1 DEF Window
<1> QED  BY ZenonT(30), <1>2, <1>4, <1>5, <1>6 DEF Window

\* Copying the slice changes neither the ids that wait nor their order.
LEMMA CompactionKeeps ==
  ASSUME NEW list \in RetentionList, list.head \in 0..Len(list.order), NEW max \in Nat,
         Len(list.order) - list.head <= max
  PROVE  /\ Compacted(list, max) \in RetentionList
         /\ Short(Compacted(list, max), max)
         /\ \A j \in Jobs : InWindow(Compacted(list, max), j) <=> InWindow(list, j)
         /\ NoneTwice(list) => NoneTwice(Compacted(list, max))
<1> DEFINE n == Len(list.order)
           copy == [order |-> Window(list), head |-> 0]
<1>1. n \in Nat /\ list.head \in Nat /\ list.order \in Seq(Jobs)
  BY ZenonT(30), WindowProperties DEF RetentionList
<1>2. CASE ~(list.head > max /\ list.head * 2 >= n)
  <2>1. Compacted(list, max) = list
    BY ZenonT(30), <1>2 DEF Compacted
  <2>2. list.head <= max
    BY <1>1, <1>2
  <2> QED  BY ZenonT(30), <2>1, <2>2 DEF Short
<1>3. CASE list.head > max /\ list.head * 2 >= n
  <2>1. Compacted(list, max) = copy
    BY ZenonT(30), <1>3 DEF Compacted
  <2>2. /\ copy.order = Window(list) /\ copy.head = 0
        /\ Window(list) \in Seq(Jobs) /\ Len(Window(list)) = n - list.head
        /\ \A i \in 1..(n - list.head) : Window(list)[i] = list.order[list.head + i]
    BY ZenonT(30), WindowProperties
  <2>3. copy \in RetentionList
    BY ZenonT(30), <2>2 DEF RetentionList
  <2>4. Waiting(copy) = 1..(n - list.head) /\ Waiting(list) = (list.head + 1)..n
    BY <1>1, <2>2 DEF Waiting
  <2>5. Short(copy, max)
    BY <1>1, <2>2 DEF Short
  <2> HIDE DEF copy, n
  <2>6. ASSUME NEW j \in Jobs, InWindow(copy, j)  PROVE InWindow(list, j)
    <3>1. PICK i \in 1..(n - list.head) : Window(list)[i] = j
      BY ZenonT(30), <2>2, <2>4, <2>6 DEF InWindow
    <3>2. list.head + i \in (list.head + 1)..n
      BY <1>1
    <3>3. list.order[list.head + i] = j
      BY ZenonT(30), <2>2, <3>1
    <3> QED  BY ZenonT(30), <2>4, <3>2, <3>3 DEF InWindow
  <2>7. ASSUME NEW j \in Jobs, InWindow(list, j)  PROVE InWindow(copy, j)
    <3>1. PICK i \in (list.head + 1)..n : list.order[i] = j
      BY ZenonT(30), <2>4, <2>7 DEF InWindow
    <3>2. i - list.head \in 1..(n - list.head) /\ list.head + (i - list.head) = i
      BY SMTT(30), <1>1, <3>1
    <3>3. Window(list)[i - list.head] = j
      BY ZenonT(30), <2>2, <3>1, <3>2
    <3> QED  BY ZenonT(30), <2>2, <2>4, <3>2, <3>3 DEF InWindow
  <2>8. ASSUME NoneTwice(list)  PROVE NoneTwice(copy)
    <3> SUFFICES ASSUME NEW i \in 1..(n - list.head), NEW k \in 1..(n - list.head),
                        Window(list)[i] = Window(list)[k]
                 PROVE  i = k
      BY ZenonT(30), <2>2, <2>4 DEF NoneTwice
    <3>1. list.head + i \in Waiting(list) /\ list.head + k \in Waiting(list)
      BY SMTT(30), <1>1, <2>4
    <3>2. list.head + i = list.head + k
      BY ZenonT(30), <2>2, <2>8, <3>1 DEF NoneTwice
    <3> QED  BY <1>1, <3>2
  <2> QED  BY ZenonT(30), <2>1, <2>3, <2>5, <2>6, <2>7, <2>8
<1> QED  BY ZenonT(30), <1>2, <1>3

\* What remembering one more id does: the window has the new id and what was there,
\* without the evicted, and stays as short as before.
Remembers(list, id, added, excess, r, max) ==
  /\ r \in RetentionList /\ Short(r, max)
  /\ \A j \in Jobs : InWindow(r, j) \/ j \in EvictedBy(added, excess) <=> InWindow(list, j) \/ j = id
  /\ NoneTwice(list) /\ ~InWindow(list, id) =>
       NoneTwice(r) /\ \A j \in Jobs : ~(InWindow(r, j) /\ j \in EvictedBy(added, excess))

LEMMA Remembering ==
  ASSUME NEW list \in RetentionList, NEW max \in Nat, Short(list, max), NEW id \in Jobs,
         NEW excess \in {0, 1}, excess = 1 <=> Len(list.order) + 1 - list.head > max
  PROVE  LET added == Appended(list, id)
         IN  Remembers(list, id, added, excess, Evict(added, excess, max), max)
<1> DEFINE added == Appended(list, id)
           n == Len(list.order)
           h == list.head
           moved == [order |-> added.order, head |-> h + excess]
<1>1. n \in Nat /\ h \in Nat /\ h <= n /\ n - h <= max /\ list.order \in Seq(Jobs)
  BY LenFacts DEF RetentionList, Short
<1>2. /\ added \in RetentionList /\ added.order = Append(list.order, id) /\ added.head = h
  <2>1. Append(list.order, id) \in Seq(Jobs)
    BY ZenonT(30), <1>1, AppendFacts
  <2> QED  BY ZenonT(30), <2>1 DEF Appended, RetentionList
<1>3. /\ Len(added.order) = n + 1
      /\ \A i \in 1..n : added.order[i] = list.order[i]
      /\ added.order[n + 1] = id
  BY <1>1, <1>2, AppendFacts
<1>4. excess \in {0, 1} /\ h + excess <= n + 1 /\ n + 1 - (h + excess) <= max
  <2>1. excess = 1 <=> n + 1 - h > max
    BY ZenonT(30)
  <2> HIDE DEF n, h
  <2> QED  BY <1>1, <2>1
<1>5. /\ moved \in RetentionList /\ moved.order = added.order /\ moved.head = h + excess
  <2>1. h + excess \in Nat
    BY SMTT(30), <1>1, <1>4
  <2>2. moved.order = added.order /\ moved.head = h + excess
    BY ZenonT(30)
  <2>3. added.order \in Seq(Jobs)
    BY ZenonT(30), <1>2 DEF RetentionList
  <2>4. moved \in RetentionList
    BY ZenonT(30), <2>1, <2>3 DEF RetentionList
  <2> QED  BY ZenonT(30), <2>2, <2>4
<1>6. EvictedBy(added, excess) = IF excess = 0 THEN {} ELSE {added.order[h + 1]}
  <2>1. EvictedBy(added, excess) = Range(SubSeq(added.order, h + 1, h + excess))
    BY ZenonT(30), <1>2 DEF EvictedBy
  <2>2. CASE excess = 0
    <3>1. SubSeq(added.order, h + 1, h + 0) = <<>>
      <4>1. h + 1 \in Int /\ h + 0 \in Int /\ h + 0 < h + 1
        BY <1>1
      <4> QED  BY ZenonT(30), <4>1, SubSeqNothing
    <3>2. Range(<<>>) = {}
      BY DEF Range
    <3> QED  BY ZenonT(30), <2>1, <2>2, <3>1, <3>2
  <2>3. CASE excess = 1
    <3> DEFINE low == h + 1
               out == SubSeq(added.order, low, low)
    <3>1. low \in 1..(n + 1) /\ low \in Int
      BY <1>1, <1>4, <2>3
    <3>2. added.order[low] \in Jobs
      BY ZenonT(30), <1>2, <1>3, <3>1, ElementFacts DEF RetentionList
    <3> HIDE DEF low
    <3>3. \A i \in low..low : added.order[i] \in Jobs
      BY <3>1, <3>2
    <3>4. /\ out \in Seq(Jobs) /\ Len(out) = IF low <= low THEN low - low + 1 ELSE 0
          /\ \A i \in 1..(low - low + 1) : out[i] = added.order[low + i - 1]
      BY <3>1, <3>3, SubSeqFacts
    <3> HIDE DEF out
    <3>5. Len(out) = 1 /\ out[1] = added.order[low]
      BY <3>1, <3>4
    <3>6. DOMAIN out = {1}
      BY <3>4, <3>5, LenFacts
    <3>7. Range(out) = {added.order[low]}
      BY ZenonT(30), <3>5, <3>6 DEF Range
    <3>8. EvictedBy(added, excess) = Range(out)
      BY ZenonT(30), <2>1, <2>3 DEF out, low
    <3> QED  BY <2>3, <3>7, <3>8 DEF low
  <2> QED  BY ZenonT(30), <1>4, <2>2, <2>3
<1>7. Waiting(list) = (h + 1)..n /\ Waiting(moved) = (h + excess + 1)..(n + 1)
  BY ZenonT(30), <1>1, <1>3, <1>4, <1>5 DEF Waiting
<1> DEFINE r == Compacted(moved, max)
<1>8. /\ r \in RetentionList /\ Short(r, max)
      /\ \A j \in Jobs : InWindow(r, j) <=> InWindow(moved, j)
      /\ NoneTwice(moved) => NoneTwice(r)
  <2> HIDE DEF moved, added, n, h
  <2>1. moved.head \in 0..Len(moved.order) /\ Len(moved.order) - moved.head <= max
    <3>1. h + excess \in 0..(n + 1)
      BY <1>1, <1>4
    <3>2. Len(moved.order) = n + 1 /\ moved.head = h + excess
      BY ZenonT(30), <1>3, <1>5
    <3>3. n + 1 - (h + excess) <= max
      BY ZenonT(30), <1>4
    <3> DEFINE length == Len(moved.order)
               first == moved.head
    <3>4. length = n + 1 /\ first = h + excess
      BY ZenonT(30), <3>2
    <3> HIDE DEF length, first
    <3>5. first \in 0..length /\ length - first <= max
      BY <1>1, <3>1, <3>3, <3>4
    <3> QED  BY ZenonT(30), <3>5 DEF length, first
  <2> QED  BY ZenonT(30), <1>5, <2>1, CompactionKeeps
<1>9. r = Evict(added, excess, max)
  BY ZenonT(30), <1>2 DEF Evict
<1> HIDE DEF moved, added, r, n, h
<1>10. \A j \in Jobs : InWindow(moved, j) <=>
         \E i \in (h + excess + 1)..(n + 1) : added.order[i] = j
  BY ZenonT(30), <1>5, <1>7 DEF InWindow
<1>11. \A j \in Jobs : InWindow(list, j) <=> \E i \in (h + 1)..n : added.order[i] = j
  <2>1. \A i \in (h + 1)..n : added.order[i] = list.order[i]
    BY <1>1, <1>3
  <2> QED  BY ZenonT(30), <1>7, <2>1 DEF InWindow
<1>12. ASSUME NEW j \in Jobs
       PROVE  InWindow(r, j) \/ j \in EvictedBy(added, excess) <=> InWindow(list, j) \/ j = id
  <2>1. InWindow(list, j) \/ j = id <=> \E i \in (h + 1)..(n + 1) : added.order[i] = j
    BY <1>1, <1>3, <1>11
  <2>2. CASE excess = 0
    BY <1>1, <1>6, <1>8, <1>10, <2>1, <2>2
  <2>3. CASE excess = 1
    <3>1. j \in EvictedBy(added, excess) <=> added.order[h + 1] = j
      BY <1>6, <2>3
    <3>2. (h + 1)..(n + 1) = {h + 1} \cup ((h + excess + 1)..(n + 1))
      BY <1>1, <2>3
    <3> QED  BY ZenonT(30), <1>8, <1>10, <2>1, <3>1, <3>2
  <2> QED  BY ZenonT(30), <1>4, <2>2, <2>3
<1>13. ASSUME NoneTwice(list), ~InWindow(list, id)
       PROVE  NoneTwice(r) /\ \A j \in Jobs : ~(InWindow(r, j) /\ j \in EvictedBy(added, excess))
  <2>1. ASSUME NEW i \in (h + 1)..(n + 1), NEW k \in (h + 1)..(n + 1),
               added.order[i] = added.order[k]
        PROVE  i = k
    <3>1. CASE i \in (h + 1)..n /\ k \in (h + 1)..n
      <4>1. list.order[i] = list.order[k]
        BY <1>1, <1>3, <2>1, <3>1
      <4> QED  BY ZenonT(30), <1>7, <1>13, <3>1, <4>1 DEF NoneTwice
    <3>2. CASE i = n + 1 /\ k = n + 1
      BY ZenonT(30), <3>2
    <3>3. CASE i = n + 1 /\ k \in (h + 1)..n
      BY ZenonT(30), <1>3, <1>11, <1>13, <2>1, <3>3
    <3>4. CASE k = n + 1 /\ i \in (h + 1)..n
      BY ZenonT(30), <1>3, <1>11, <1>13, <2>1, <3>4
    <3> QED  BY <1>1, <3>1, <3>2, <3>3, <3>4
  <2>2. NoneTwice(moved)
    <3>1. \A i \in (h + excess + 1)..(n + 1) : i \in (h + 1)..(n + 1)
      BY <1>1, <1>4
    <3> QED  BY ZenonT(30), <1>5, <1>7, <2>1, <3>1 DEF NoneTwice
  <2>3. ASSUME NEW j \in Jobs, InWindow(r, j), j \in EvictedBy(added, excess)  PROVE FALSE
    <3>1. excess = 1 /\ added.order[h + 1] = j
      BY ZenonT(30), <1>4, <1>6, <2>3
    <3>2. PICK i \in (h + excess + 1)..(n + 1) : added.order[i] = j
      BY ZenonT(30), <1>8, <1>10, <2>3
    <3>3. i \in (h + 1)..(n + 1) /\ h + 1 \in (h + 1)..(n + 1) /\ i # h + 1
      BY <1>1, <3>1, <3>2
    <3> QED  BY ZenonT(30), <2>1, <3>1, <3>2, <3>3
  <2> QED  BY ZenonT(30), <1>8, <2>2, <2>3
<1> QED  BY ZenonT(30), <1>8, <1>9, <1>12, <1>13 DEF Remembers, added

LEMMA ExcessOfOne ==
  ASSUME NEW list \in RetentionList, NEW max \in Nat, Short(list, max), NEW id \in Jobs
  PROVE  LET added == Appended(list, id)
             excess == Excess(added, Len(Window(added)), max)
         IN  /\ excess \in {0, 1}
             /\ excess = 1 <=> Len(list.order) + 1 - list.head > max
<1> DEFINE added == Appended(list, id)
<1>1. /\ list.order \in Seq(Jobs) /\ list.head \in Nat /\ Len(list.order) \in Nat
      /\ list.head <= Len(list.order) /\ Len(list.order) - list.head <= max
  BY LenFacts DEF RetentionList, Short
<1>2. /\ added.order = Append(list.order, id) /\ added.head = list.head
      /\ Append(list.order, id) \in Seq(Jobs)
      /\ Len(Append(list.order, id)) = Len(list.order) + 1
  BY <1>1, AppendFacts DEF Appended
<1>3. added \in RetentionList
  BY ZenonT(30), <1>1, <1>2 DEF RetentionList, Appended
<1> HIDE DEF added
<1>4. added.head \in 0..Len(added.order)
  BY <1>1, <1>2
<1>5. Len(Window(added)) = Len(list.order) + 1 - list.head
  <2>1. Len(Window(added)) = Len(added.order) - added.head
    BY ZenonT(30), <1>3, <1>4, WindowProperties
  <2>2. Len(added.order) = Len(list.order) + 1
    BY ZenonT(30), <1>2
  <2> QED  BY SMTT(30), <1>1, <1>2, <2>1, <2>2
<1> QED  BY SMTT(30), <1>1, <1>5 DEF Excess, added

-----------------------------------------------------------------------------
(* Rows of jobs *)

LEMMA RowTypes ==
  ASSUME NEW row \in JobRow
  PROVE  /\ \A status \in Terminal : Settled(row, status) \in JobRow
                                     /\ Settled(row, status).status = status
         /\ Gone(row) \in JobRow /\ Gone(row).status = "gone"
         /\ Unused \in JobRow
<1>0. row.attempt \in 0..MaxAttempts /\ 0 \in 0..MaxAttempts
  BY StoreAssumption DEF JobRow
<1>1. \A status \in Terminal : Settled(row, status) \in JobRow
  BY ZenonT(40) DEF Settled, JobRow, Terminal
<1>2. \A status \in Terminal : Settled(row, status).status = status
  BY ZenonT(30) DEF Settled, JobRow
<1>3. Unused \in JobRow
  BY <1>0, ZenonT(40) DEF Unused, JobRow
<1>4. Gone(row) \in JobRow
  <2>1. Gone(row) = [Unused EXCEPT !.status = "gone", !.attempt = row.attempt]
    BY ZenonT(30) DEF Gone
  <2> QED  BY <1>0, <1>3, <2>1, ZenonT(40) DEF JobRow
<1>5. Gone(row).status = "gone"
  BY ZenonT(30) DEF Gone, Unused
<1> QED  BY ZenonT(30), <1>1, <1>2, <1>3, <1>4, <1>5

LEMMA RecoveryRows ==
  ASSUME NEW row \in JobRow, NEW token \in Tokens
  PROVE  /\ Recovered(row) \in JobRow /\ Claimed(row, token) \in JobRow
         /\ row.status \in Active => Recovered(row).status \in Active
         /\ row.status \notin Active => Recovered(row) = row
         /\ Claimed(row, token).status = "scheduled"
<1>1. Claimed(row, token) \in JobRow
  BY ZenonT(40) DEF Claimed, JobRow, Active
<1>2. [row EXCEPT !.status = "failed", !.available = TRUE, !.lease = "none", !.leaseToken = 0]
        \in JobRow
  BY ZenonT(40) DEF JobRow, Active
<1>3. Recovered(row) \in JobRow
  BY <1>2, Zenon DEF Recovered
<1>4. Claimed(row, token).status = "scheduled"
  BY ZenonT(30) DEF Claimed, JobRow
<1>5. /\ row.status \in Active => Recovered(row).status \in Active
      /\ row.status \notin Active => Recovered(row) = row
  BY ZenonT(30) DEF Recovered, Active, JobRow
<1> QED  BY ZenonT(30), <1>1, <1>3, <1>4, <1>5

\* What settling job j does to the rows.
Settles(row, new, j) ==
  /\ new \in [Jobs -> JobRow]
  /\ new[j].status \in Terminal \cup {"gone"}
  /\ \A k \in Jobs : k # j =>
       new[k] = row[k] \/ (row[k].status \in Terminal /\ new[k].status = "gone")

\* A job that is settled enters the terminal order once, and the evicted leave the map.
LEMMA SettleKeeps ==
  ASSUME NEW s, s.row \in [Jobs -> JobRow], s.list \in RetentionList, TerminalOrder(s),
         NEW j \in Jobs, s.row[j].status \in Active, NEW status \in Terminal
  PROVE  LET t == Settle(s, j, status)
         IN  t.list \in RetentionList /\ TerminalOrder(t) /\ Settles(s.row, t.row, j)
<1> DEFINE mid == [s.row EXCEPT ![j] = Settled(s.row[j], status)]
           added == Appended(s.list, j)
           excess == Excess(added, Len(Window(added)), MaxRetainedJobs)
           out == EvictedBy(added, excess)
           r == Evict(added, excess, MaxRetainedJobs)
           new == [k \in Jobs |-> IF k \in out /\ mid[k].status \in Terminal
                                  THEN Gone(mid[k]) ELSE mid[k]]
           t == Settle(s, j, status)
<1>1. t.row = new /\ t.list = r
  BY ZenonT(30) DEF Settle, RememberTerminalJob
<1>2. /\ Short(s.list, MaxRetainedJobs) /\ NoneTwice(s.list) /\ MaxRetainedJobs \in Nat
      /\ \A k \in Jobs : s.row[k].status \in Terminal => InWindow(s.list, k)
      /\ \A k \in Jobs : InWindow(s.list, k) => s.row[k].status \in Terminal \cup {"gone"}
  BY ZenonT(30), StoreAssumption DEF TerminalOrder
<1>3. ~InWindow(s.list, j)
  BY ZenonT(30), <1>2 DEF Active, Terminal
<1>4. excess \in {0, 1} /\ (excess = 1 <=> Len(s.list.order) + 1 - s.list.head > MaxRetainedJobs)
  BY ZenonT(30), <1>2, ExcessOfOne
<1>5. Remembers(s.list, j, added, excess, r, MaxRetainedJobs)
  <2> HIDE DEF excess
  <2> QED  BY ZenonT(30), <1>2, <1>4, Remembering
<1>6. /\ r \in RetentionList /\ Short(r, MaxRetainedJobs) /\ NoneTwice(r)
      /\ \A k \in Jobs : InWindow(r, k) \/ k \in out <=> InWindow(s.list, k) \/ k = j
      /\ \A k \in Jobs : ~(InWindow(r, k) /\ k \in out)
  <2> HIDE DEF r, excess, added
  <2> QED  BY ZenonT(30), <1>2, <1>3, <1>5 DEF Remembers
<1> HIDE DEF r, out, excess, added
<1>7. /\ mid \in [Jobs -> JobRow] /\ mid[j].status = status
      /\ \A k \in Jobs : k # j => mid[k] = s.row[k]
  BY ZenonT(30), RowTypes
<1> HIDE DEF mid
<1>8. \A k \in Jobs : /\ new[k] \in JobRow
                      /\ k \in out /\ mid[k].status \in Terminal => new[k].status = "gone"
                      /\ ~(k \in out /\ mid[k].status \in Terminal) => new[k] = mid[k]
  BY ZenonT(30), <1>7, RowTypes
<1>9. new \in [Jobs -> JobRow]
  BY ZenonT(30), <1>8
<1> HIDE DEF new
<1>10. Settles(s.row, new, j)
  BY ZenonT(30), <1>7, <1>8, <1>9 DEF Settles
<1>11. \A k \in Jobs : new[k].status \in Terminal => InWindow(r, k)
  BY ZenonT(30), <1>2, <1>6, <1>7, <1>8 DEF Terminal
<1>12. \A k \in Jobs : InWindow(r, k) => new[k].status \in Terminal \cup {"gone"}
  BY ZenonT(30), <1>2, <1>6, <1>7, <1>8
<1>13. TerminalOrder(t)
  BY ZenonT(30), <1>1, <1>6, <1>11, <1>12 DEF TerminalOrder
<1> QED  BY ZenonT(30), <1>1, <1>6, <1>10, <1>13

-----------------------------------------------------------------------------
(* The burial of all exhausted jobs, in any order *)

LEMMA OrderProperties ==
  ASSUME NEW S, IsFiniteSet(S), NEW order \in Bijection(1..Cardinality(S), S)
  PROVE  /\ Len(order) \in Nat /\ order \in [1..Len(order) -> S]
         /\ \A i, k \in 1..Len(order) : i # k => order[i] # order[k]
         /\ \A x \in S : \E i \in 1..Len(order) : order[i] = x
<1> DEFINE n == Cardinality(S)
<1>1. n \in Nat
  BY ZenonT(30), FS_CardinalityType
<1>2. /\ order \in [1..n -> S] /\ \A i, k \in 1..n : i # k => order[i] # order[k]
      /\ \A x \in S : \E i \in 1..n : order[i] = x
  BY ZenonT(30) DEF Bijection, Injection, IsInjective, Surjection
<1> HIDE DEF n
<1>3. Len(order) = n
  BY <1>1, <1>2
<1> QED  BY ZenonT(30), <1>1, <1>2, <1>3

\* The loop of finishExhaustedJobLocked, as a function of the number of rounds.
Loop(order, n, f) ==
  /\ f = [i \in 0..n |-> IF i = 0 THEN Jobs0 ELSE Settle(f[i - 1], order[i], "dead")]

LEMMA LoopExists ==
  ASSUME NEW order, NEW n \in Nat
  PROVE  \E f : Loop(order, n, f)
<1> DEFINE T == {i \in 0..n : \E f : Loop(order, i, f)}
<1>1. 0 \in T
  <2> DEFINE f == [i \in 0..0 |-> Jobs0]
  <2>1. f = [i \in 0..0 |-> IF i = 0 THEN Jobs0 ELSE Settle(f[i - 1], order[i], "dead")]
    OBVIOUS
  <2>2. Loop(order, 0, f)
    <3> HIDE DEF f
    <3> QED  BY ZenonT(30), <2>1 DEF Loop
  <2> QED  BY <2>2
<1>2. ASSUME NEW k \in 0..(n - 1), k \in T  PROVE k + 1 \in T
  <2>1. PICK f : Loop(order, k, f)
    BY ZenonT(30), <1>2
  <2> DEFINE g == [i \in 0..(k + 1) |-> IF i = k + 1 THEN Settle(f[k], order[k + 1], "dead")
                                                      ELSE f[i]]
  <2>2. ASSUME NEW i \in 0..(k + 1)
        PROVE  g[i] = IF i = 0 THEN Jobs0 ELSE Settle(g[i - 1], order[i], "dead")
    <3>1. f = [x \in 0..k |-> IF x = 0 THEN Jobs0 ELSE Settle(f[x - 1], order[x], "dead")]
      BY ZenonT(30), <2>1 DEF Loop
    <3>2. CASE i = k + 1
      <4>1. g[i] = Settle(f[k], order[k + 1], "dead") /\ i # 0 /\ i - 1 = k /\ g[k] = f[k]
        BY <3>2
      <4> HIDE DEF g
      <4> QED  BY ZenonT(30), <3>2, <4>1
    <3>3. CASE i \in 0..k /\ i # 0
      <4>1. g[i] = f[i] /\ g[i - 1] = f[i - 1]
        BY <3>3
      <4>2. f[i] = Settle(f[i - 1], order[i], "dead")
        BY ZenonT(30), <3>1, <3>3
      <4> HIDE DEF g
      <4> QED  BY ZenonT(30), <3>3, <4>1, <4>2
    <3>4. CASE i = 0
      <4>1. g[i] = f[0] /\ 0 \in 0..k
        BY <3>4
      <4>2. f[0] = Jobs0
        BY ZenonT(30), <3>1, <4>1
      <4> HIDE DEF g
      <4> QED  BY ZenonT(30), <3>4, <4>1, <4>2
    <3> QED  BY <3>2, <3>3, <3>4
  <2>3. g = [i \in 0..(k + 1) |-> g[i]]
    BY ZenonT(30)
  <2> HIDE DEF g
  <2>4. Loop(order, k + 1, g)
    BY ZenonT(30), <2>2, <2>3 DEF Loop
  <2>5. k + 1 \in 0..n
    BY <1>2
  <2> QED  BY ZenonT(30), <2>4, <2>5
<1>3. \A i \in 0..n : i \in T
  <2> HIDE DEF T
  <2> QED  BY ZenonT(30), <1>1, <1>2, InductionUpTo
<1>4. n \in T
  BY <1>3
<1> QED  BY ZenonT(30), <1>4

LEMMA BuriedIsLoop ==
  ASSUME NEW order, Len(order) \in Nat
  PROVE  \E f : Loop(order, Len(order), f) /\ Buried(order) = f[Len(order)]
<1> DEFINE f == CHOOSE g : Loop(order, Len(order), g)
<1>1. Loop(order, Len(order), f)
  BY ZenonT(30), LoopExists
<1>2. Buried(order) = f[Len(order)]
  BY ZenonT(30) DEF Buried, Loop
<1> QED  BY ZenonT(30), <1>1, <1>2

\* The state of the loop after i rounds.
BuriedUpTo(order, i, s) ==
  /\ s.row \in [Jobs -> JobRow] /\ s.list \in RetentionList /\ TerminalOrder(s)
  /\ \A k \in Jobs : IF \E x \in 1..i : order[x] = k
                     THEN s.row[k].status \in Terminal \cup {"gone"}
                     ELSE s.row[k] = job[k]
                          \/ (job[k].status \in Terminal /\ s.row[k].status = "gone")

LEMMA BurialRound ==
  ASSUME NEW order, NEW n \in Nat, NEW i \in 0..(n - 1), NEW s, BuriedUpTo(order, i, s),
         order \in [1..n -> ExhaustedJobs],
         \A x, y \in 1..n : x # y => order[x] # order[y]
  PROVE  BuriedUpTo(order, i + 1, Settle(s, order[i + 1], "dead"))
<1> DEFINE j == order[i + 1]
           t == Settle(s, j, "dead")
<1>1. i \in Nat /\ i + 1 \in 1..n
  OBVIOUS
<1>2. j \in Jobs /\ job[j].status \in Active
  BY ZenonT(30), <1>1 DEF ExhaustedJobs, Exhausted, Active
<1>3. ~ \E x \in 1..i : order[x] = j
  BY <1>1
<1>4. s.row[j] = job[j] /\ s.row[j].status \in Active
  BY ZenonT(30), <1>2, <1>3 DEF BuriedUpTo, Active, Terminal
<1>5. t.list \in RetentionList /\ TerminalOrder(t) /\ Settles(s.row, t.row, j)
  BY ZenonT(30), <1>2, <1>4, SettleKeeps DEF BuriedUpTo, Terminal
<1>6. \A k \in Jobs : (\E x \in 1..(i + 1) : order[x] = k) <=>
                      (\E x \in 1..i : order[x] = k) \/ k = j
  BY <1>1
<1> HIDE DEF j, t
<1>7. ASSUME NEW k \in Jobs
      PROVE  IF \E x \in 1..(i + 1) : order[x] = k
             THEN t.row[k].status \in Terminal \cup {"gone"}
             ELSE t.row[k] = job[k] \/ (job[k].status \in Terminal /\ t.row[k].status = "gone")
  <2>1. CASE k = j
    BY ZenonT(30), <1>5, <1>6, <2>1 DEF Settles
  <2>2. CASE k # j
    <3>1. t.row[k] = s.row[k] \/ (s.row[k].status \in Terminal /\ t.row[k].status = "gone")
      BY ZenonT(30), <1>5, <2>2 DEF Settles
    <3>2. CASE \E x \in 1..i : order[x] = k
      <4>1. s.row[k].status \in Terminal \cup {"gone"}
        BY ZenonT(30), <3>2 DEF BuriedUpTo
      <4> QED  BY ZenonT(30), <1>6, <3>1, <3>2, <4>1
    <3>3. CASE ~ \E x \in 1..i : order[x] = k
      <4>1. s.row[k] = job[k] \/ (job[k].status \in Terminal /\ s.row[k].status = "gone")
        BY ZenonT(30), <3>3 DEF BuriedUpTo
      <4>2. ~ \E x \in 1..(i + 1) : order[x] = k
        BY ZenonT(30), <1>6, <2>2, <3>3
      <4>3. t.row[k] = job[k] \/ (job[k].status \in Terminal /\ t.row[k].status = "gone")
        BY ZenonT(30), <3>1, <4>1 DEF Terminal
      <4> QED  BY ZenonT(30), <4>2, <4>3
    <3> QED  BY ZenonT(30), <3>2, <3>3
  <2> QED  BY ZenonT(30), <2>1, <2>2
<1>8. t.row \in [Jobs -> JobRow]
  BY ZenonT(30), <1>5 DEF Settles
<1>9. BuriedUpTo(order, i + 1, t)
  BY ZenonT(30), <1>5, <1>7, <1>8 DEF BuriedUpTo
<1> QED  BY ZenonT(30), <1>9 DEF t, j

\* Whatever the order, the exhausted jobs are settled, of the other jobs only settled ones
\* are evicted, and the terminal order is right again.
LEMMA BurialKeeps ==
  ASSUME JobsInv, NEW order \in Bijection(1..Cardinality(ExhaustedJobs), ExhaustedJobs)
  PROVE  LET s == Buried(order)
         IN  /\ s.row \in [Jobs -> JobRow] /\ s.list \in RetentionList /\ TerminalOrder(s)
             /\ \A k \in ExhaustedJobs : s.row[k].status \in Terminal \cup {"gone"}
             /\ \A k \in Jobs \ ExhaustedJobs :
                  s.row[k] = job[k] \/ (job[k].status \in Terminal /\ s.row[k].status = "gone")
<1> DEFINE n == Len(order)
<1>1. IsFiniteSet(ExhaustedJobs)
  <2>1. ExhaustedJobs \in SUBSET Jobs /\ IsFiniteSet(Jobs)
    BY ZenonT(30), StoreAssumption DEF ExhaustedJobs
  <2> QED  BY ZenonT(30), <2>1, FS_Subset
<1>2. /\ n \in Nat /\ order \in [1..n -> ExhaustedJobs]
      /\ \A i, k \in 1..n : i # k => order[i] # order[k]
      /\ \A x \in ExhaustedJobs : \E i \in 1..n : order[i] = x
  BY ZenonT(30), <1>1, OrderProperties
<1>3. PICK f : Loop(order, n, f) /\ Buried(order) = f[n]
  BY ZenonT(30), <1>2, BuriedIsLoop
<1> HIDE DEF n
<1>4. f = [i \in 0..n |-> IF i = 0 THEN Jobs0 ELSE Settle(f[i - 1], order[i], "dead")]
  BY ZenonT(30), <1>3 DEF Loop
<1> DEFINE T == {i \in 0..n : BuriedUpTo(order, i, f[i])}
<1>5. 0 \in T
  <2>1. f[0] = Jobs0
    BY <1>2, <1>4
  <2>2. Jobs0.row = job /\ Jobs0.list = terminal
    BY ZenonT(30) DEF Jobs0
  <2>3. 1..0 = {}
    OBVIOUS
  <2>4. BuriedUpTo(order, 0, Jobs0)
    BY ZenonT(30), <2>2, <2>3 DEF BuriedUpTo, JobsInv
  <2> QED  BY <1>2, <2>1, <2>4
<1>6. ASSUME NEW i \in 0..(n - 1), i \in T  PROVE i + 1 \in T
  <2>1. i + 1 \in 0..n /\ i + 1 # 0 /\ (i + 1) - 1 = i
    BY <1>2
  <2>2. f[i + 1] = Settle(f[i], order[i + 1], "dead")
    BY ZenonT(30), <1>4, <2>1
  <2>3. BuriedUpTo(order, i + 1, Settle(f[i], order[i + 1], "dead"))
    BY ZenonT(30), <1>2, <1>6, BurialRound
  <2> QED  BY ZenonT(30), <2>1, <2>2, <2>3
<1>7. \A i \in 0..n : i \in T
  <2> HIDE DEF T
  <2> QED  BY ZenonT(30), <1>2, <1>5, <1>6, InductionUpTo
<1>8. BuriedUpTo(order, n, Buried(order))
  BY <1>2, <1>3, <1>7
<1> HIDE DEF T
<1>9. \A k \in Jobs : k \in ExhaustedJobs <=> \E x \in 1..n : order[x] = k
  BY <1>2
<1>10. ExhaustedJobs \subseteq Jobs
  BY ZenonT(30) DEF ExhaustedJobs
<1> QED  BY ZenonT(30), <1>8, <1>9, <1>10 DEF BuriedUpTo

-----------------------------------------------------------------------------
(* What a step does to the jobs *)

SameMonitors == \A m \in Monitors : Exists(m)' <=> Exists(m)

\* The jobs are as they must be, and what has ended stays so.
JobsKept == JobsInv' /\ Ended \subseteq Ended'

\* Every write of a row that leaves a finished job finished and an unfinished one unfinished.
LEMMA RowsRewritten ==
  ASSUME JobsInv, SameMonitors, job' \in [Jobs -> JobRow], UNCHANGED <<active, terminal>>,
         \A j \in Jobs : \/ job'[j].status = job[j].status
                         \/ job'[j].status \in Active /\ job[j].status \in Active
  PROVE  JobsKept
<1>1. \A j \in Jobs : /\ job'[j].status \in Active <=> job[j].status \in Active
                      /\ job'[j].status \in Terminal <=> job[j].status \in Terminal
                      /\ job'[j].status = "gone" <=> job[j].status = "gone"
  BY ZenonT(30) DEF Active, Terminal
<1>2. ActiveIndexExact'
  <2> SUFFICES ASSUME NEW j \in Jobs
               PROVE  job'[j].status \in Active <=>
                        active'[MonitorOf[j]] = j /\ Exists(MonitorOf[j])'
    BY ZenonT(30) DEF ActiveIndexExact, Active
  <2>1. MonitorOf[j] \in Monitors
    BY ZenonT(30), StoreAssumption
  <2> QED  BY ZenonT(30), <1>1, <2>1 DEF SameMonitors, JobsInv, ActiveIndexExact
<1>3. TerminalOrder(Jobs0)'
  BY SMTT(30), <1>1 DEF JobsInv, TerminalOrder, Jobs0, Short, NoneTwice, InWindow, Waiting, Terminal
<1>4. Ended \subseteq Ended'
  BY ZenonT(30), <1>1 DEF Ended, Terminal
<1> QED  BY ZenonT(30), <1>2, <1>3, <1>4 DEF JobsKept, JobsInv, SameMonitors

LEMMA JobsUntouched ==
  ASSUME JobsInv, SameMonitors, UNCHANGED jobVars
  PROVE  JobsKept
<1>1. job' = job /\ active' = active /\ terminal' = terminal
  BY ZenonT(30) DEF jobVars
<1> QED  BY ZenonT(30), <1>1, RowsRewritten DEF JobsInv

LEMMA JobSettled ==
  ASSUME JobsInv, SameMonitors, NEW j \in Jobs, job[j].status \in Active,
         NEW status \in Terminal, Commit(Settle(Jobs0, j, status)),
         active' = [active EXCEPT ![MonitorOf[j]] = NoJob]
  PROVE  JobsKept /\ j \in Ended' /\ j \notin Ended
<1> DEFINE t == Settle(Jobs0, j, status)
<1>1. Jobs0.row = job /\ Jobs0.list = terminal /\ TerminalOrder(Jobs0)
  BY ZenonT(30) DEF Jobs0, JobsInv
<1>2. t.list \in RetentionList /\ TerminalOrder(t) /\ Settles(job, t.row, j)
  BY ZenonT(30), <1>1, SettleKeeps DEF JobsInv
<1>3. job' = t.row /\ terminal' = t.list
  BY ZenonT(30) DEF Commit
<1> HIDE DEF t
<1>4. /\ job' \in [Jobs -> JobRow] /\ job'[j].status \in Terminal \cup {"gone"}
      /\ \A k \in Jobs : k # j =>
           job'[k] = job[k] \/ (job[k].status \in Terminal /\ job'[k].status = "gone")
  BY ZenonT(30), <1>2, <1>3 DEF Settles
<1>5. MonitorOf[j] \in Monitors /\ active[MonitorOf[j]] = j /\ NoJob \notin Jobs
  BY ZenonT(30), StoreAssumption DEF JobsInv, ActiveIndexExact
<1>6. active' \in [Monitors -> Jobs \cup {NoJob}]
  BY ZenonT(30) DEF JobsInv
<1>7. ASSUME NEW k \in Jobs
      PROVE  job'[k].status \in Active <=> active'[MonitorOf[k]] = k /\ Exists(MonitorOf[k])'
  <2>1. MonitorOf[k] \in Monitors
    BY ZenonT(30), StoreAssumption
  <2>2. job[k].status \in Active <=> active[MonitorOf[k]] = k /\ Exists(MonitorOf[k])
    BY ZenonT(30) DEF JobsInv, ActiveIndexExact
  <2>3. CASE k = j
    <3>1. job'[k].status \notin Active
      BY ZenonT(30), <1>4, <2>3 DEF Active, Terminal
    <3>2. active'[MonitorOf[k]] = NoJob
      BY ZenonT(30), <1>5, <2>3 DEF JobsInv
    <3> QED  BY ZenonT(30), <1>5, <3>1, <3>2
  <2>4. CASE k # j
    <3>1. job'[k].status \in Active <=> job[k].status \in Active
      BY ZenonT(30), <1>4, <2>4 DEF Active, Terminal
    <3>2. active'[MonitorOf[k]] = k <=> active[MonitorOf[k]] = k
      BY ZenonT(30), <1>5, <2>1, <2>4 DEF JobsInv
    <3> QED  BY ZenonT(30), <2>1, <2>2, <3>1, <3>2 DEF SameMonitors
  <2> QED  BY ZenonT(30), <2>3, <2>4
<1>8. \A m \in Monitors : active'[m] # NoJob => MonitorOf[active'[m]] = m /\ Exists(m)'
  BY ZenonT(30), <1>5 DEF JobsInv, SameMonitors
<1>9. TerminalOrder(Jobs0)'
  BY ZenonT(30), <1>2, <1>3 DEF TerminalOrder, Jobs0
<1>10. JobsInv'
  BY ZenonT(30), <1>2, <1>3, <1>4, <1>6, <1>7, <1>8, <1>9 DEF JobsInv, ActiveIndexExact
<1>11. Ended \subseteq Ended' /\ j \in Ended' /\ j \notin Ended
  BY ZenonT(30), <1>4 DEF Ended, Terminal, Active
<1> QED  BY ZenonT(30), <1>10, <1>11 DEF JobsKept

LEMMA ActiveJobFinished ==
  ASSUME JobsInv, SameMonitors, NEW m \in Monitors, FinishActiveJob(m)
  PROVE  JobsKept
<1>1. CASE active[m] = NoJob
  BY ZenonT(30), <1>1, JobsUntouched DEF FinishActiveJob
<1>2. CASE active[m] # NoJob
  <2>1. active[m] \in Jobs /\ MonitorOf[active[m]] = m /\ Exists(m)
    BY ZenonT(30), <1>2 DEF JobsInv
  <2>2. job[active[m]].status \in Active
    BY ZenonT(30), <2>1 DEF JobsInv, ActiveIndexExact
  <2> QED  BY ZenonT(30), <1>2, <2>1, <2>2, JobSettled DEF FinishActiveJob, Terminal
<1> QED  BY ZenonT(30), <1>1, <1>2

\* A monitor that is created has no jobs yet.
LEMMA CreateKeepsJobs ==
  ASSUME URLInv, JobsInv, NEW m \in Monitors, NEW url \in URLs, NEW enabled \in BOOLEAN,
         Create(m, url, enabled)
  PROVE  JobsKept
<1>1. job' = job /\ active' = active /\ terminal' = terminal
  BY ZenonT(30) DEF Create, jobVars
<1>2. ~Exists(m) /\ \A n \in Monitors : n # m => (Exists(n)' <=> Exists(n))
  BY ZenonT(30) DEF Create, Exists, URLInv
<1>3. active[m] = NoJob
  BY ZenonT(30), <1>2 DEF JobsInv
<1>4. ASSUME NEW j \in Jobs
      PROVE  job'[j].status \in Active <=> active'[MonitorOf[j]] = j /\ Exists(MonitorOf[j])'
  <2>1. MonitorOf[j] \in Monitors /\ j # NoJob
    BY ZenonT(30), StoreAssumption
  <2>2. job[j].status \in Active <=> active[MonitorOf[j]] = j /\ Exists(MonitorOf[j])
    BY ZenonT(30) DEF JobsInv, ActiveIndexExact
  <2> QED  BY ZenonT(30), <1>1, <1>2, <1>3, <2>1, <2>2
<1>5. \A n \in Monitors : active'[n] # NoJob => MonitorOf[active'[n]] = n /\ Exists(n)'
  BY ZenonT(30), <1>1, <1>2, <1>3 DEF JobsInv
<1>6. TerminalOrder(Jobs0)'
  BY ZenonT(30), <1>1 DEF JobsInv, TerminalOrder, Jobs0
<1>7. JobsInv'
  BY ZenonT(30), <1>1, <1>4, <1>5, <1>6 DEF JobsInv, ActiveIndexExact
<1>8. Ended' = Ended
  BY ZenonT(30), <1>1 DEF Ended
<1> QED  BY ZenonT(30), <1>7, <1>8 DEF JobsKept

\* With a monitor all its jobs go.
LEMMA DeleteKeepsJobs ==
  ASSUME URLInv, JobsInv, NEW m \in Monitors, Delete(m)
  PROVE  JobsKept
<1>1. /\ job' = [j \in Jobs |-> IF MonitorOf[j] = m THEN Removed(job[j]) ELSE job[j]]
      /\ active' = [active EXCEPT ![m] = NoJob] /\ terminal' = terminal
  BY ZenonT(30) DEF Delete
<1>2. \A n \in Monitors : n # m => (Exists(n)' <=> Exists(n))
  BY ZenonT(30) DEF Delete, Exists, URLInv
<1>3. ASSUME NEW j \in Jobs
      PROVE  /\ job'[j] \in JobRow
             /\ MonitorOf[j] # m => job'[j] = job[j]
             /\ MonitorOf[j] = m => job'[j].status \in {"none", "gone"}
             /\ job[j].status # "none" /\ MonitorOf[j] = m => job'[j].status = "gone"
  <2>1. job[j] \in JobRow
    BY ZenonT(30) DEF JobsInv
  <2>2. Gone(job[j]) \in JobRow /\ Gone(job[j]).status = "gone"
    BY ZenonT(30), <2>1, RowTypes
  <2>3. job'[j] = IF MonitorOf[j] = m THEN Removed(job[j]) ELSE job[j]
    BY ZenonT(30), <1>1
  <2> QED  BY ZenonT(30), <2>1, <2>2, <2>3 DEF Removed
<1>4. job' \in [Jobs -> JobRow]
  BY ZenonT(30), <1>1, <1>3
<1>5. active' \in [Monitors -> Jobs \cup {NoJob}] /\ active'[m] = NoJob
      /\ \A n \in Monitors : n # m => active'[n] = active[n]
  BY ZenonT(30), <1>1 DEF JobsInv
<1>6. ASSUME NEW j \in Jobs
      PROVE  job'[j].status \in Active <=> active'[MonitorOf[j]] = j /\ Exists(MonitorOf[j])'
  <2>1. MonitorOf[j] \in Monitors /\ j # NoJob
    BY ZenonT(30), StoreAssumption
  <2>2. job[j].status \in Active <=> active[MonitorOf[j]] = j /\ Exists(MonitorOf[j])
    BY ZenonT(30) DEF JobsInv, ActiveIndexExact
  <2>3. CASE MonitorOf[j] = m
    <3>1. job'[j].status \notin Active
      BY ZenonT(30), <1>3, <2>3 DEF Active
    <3> QED  BY ZenonT(30), <1>5, <2>1, <2>3, <3>1
  <2>4. CASE MonitorOf[j] # m
    BY ZenonT(30), <1>2, <1>3, <1>5, <2>1, <2>2, <2>4
  <2> QED  BY ZenonT(30), <2>3, <2>4
<1>7. \A n \in Monitors : active'[n] # NoJob => MonitorOf[active'[n]] = n /\ Exists(n)'
  BY ZenonT(30), <1>2, <1>5 DEF JobsInv
<1>8. TerminalOrder(Jobs0)'
  <2>1. /\ Jobs0.row = job /\ Jobs0.list = terminal
        /\ Jobs0'.row = job' /\ Jobs0'.list = terminal
    BY ZenonT(30), <1>1 DEF Jobs0
  <2>2. \A j \in Jobs : job'[j].status \in Terminal => job[j].status \in Terminal
    BY ZenonT(30), <1>3 DEF Terminal
  <2>3. \A j \in Jobs : job[j].status \in Terminal \cup {"gone"} =>
                          job'[j].status \in Terminal \cup {"gone"}
    BY ZenonT(30), <1>3 DEF Terminal
  <2>4. TerminalOrder(Jobs0)
    BY ZenonT(30) DEF JobsInv
  <2> QED  BY ZenonT(30), <2>1, <2>2, <2>3, <2>4 DEF TerminalOrder
<1>9. JobsInv'
  BY ZenonT(30), <1>1, <1>4, <1>5, <1>6, <1>7, <1>8 DEF JobsInv, ActiveIndexExact
<1>10. Ended \subseteq Ended'
  BY ZenonT(30), <1>3 DEF Ended, Terminal
<1> QED  BY ZenonT(30), <1>9, <1>10 DEF JobsKept

\* A manual job is the only unfinished one of its monitor.
LEMMA ManualKeepsJobs ==
  ASSUME JobsInv, SameMonitors, NEW m \in Monitors, NEW j \in Jobs, CreateManualJob(m, j)
  PROVE  JobsKept
<1> DEFINE new == [job[j] EXCEPT !.status = "scheduled", !.kind = "manual", !.available = TRUE]
<1>1. /\ Exists(m) /\ active[m] = NoJob /\ job[j].status = "none" /\ MonitorOf[j] = m
      /\ job' = [job EXCEPT ![j] = new]
      /\ active' = [active EXCEPT ![m] = j] /\ terminal' = terminal
  BY ZenonT(30) DEF CreateManualJob, NewID
<1>2. new \in JobRow
  <2>1. job[j] \in JobRow
    BY ZenonT(30) DEF JobsInv
  <2> QED  BY <2>1, ZenonT(40) DEF JobRow, Active
<1>3. new.status = "scheduled"
  BY DEF JobsInv, JobRow
<1> HIDE DEF new
<1>4. /\ job' \in [Jobs -> JobRow] /\ job'[j].status = "scheduled"
      /\ \A k \in Jobs : k # j => job'[k] = job[k]
  BY ZenonT(30), <1>1, <1>2, <1>3 DEF JobsInv
<1>5. /\ active' \in [Monitors -> Jobs \cup {NoJob}] /\ active'[m] = j
      /\ \A n \in Monitors : n # m => active'[n] = active[n]
  BY ZenonT(30), <1>1 DEF JobsInv
<1>6. ASSUME NEW k \in Jobs
      PROVE  job'[k].status \in Active <=> active'[MonitorOf[k]] = k /\ Exists(MonitorOf[k])'
  <2>1. MonitorOf[k] \in Monitors /\ k # NoJob
    BY ZenonT(30), StoreAssumption
  <2>2. job[k].status \in Active <=> active[MonitorOf[k]] = k /\ Exists(MonitorOf[k])
    BY ZenonT(30) DEF JobsInv, ActiveIndexExact
  <2>3. CASE k = j
    BY ZenonT(30), <1>1, <1>4, <1>5, <2>1, <2>3 DEF Active, SameMonitors
  <2>4. CASE k # j
    BY ZenonT(30), <1>1, <1>4, <1>5, <2>1, <2>2, <2>4 DEF SameMonitors
  <2> QED  BY ZenonT(30), <2>3, <2>4
<1>7. \A n \in Monitors : active'[n] # NoJob => MonitorOf[active'[n]] = n /\ Exists(n)'
  BY ZenonT(30), <1>1, <1>5 DEF JobsInv, SameMonitors
<1>8. TerminalOrder(Jobs0)'
  <2>1. /\ Jobs0.row = job /\ Jobs0.list = terminal
        /\ Jobs0'.row = job' /\ Jobs0'.list = terminal
    BY ZenonT(30), <1>1 DEF Jobs0
  <2>2. \A k \in Jobs : job'[k].status \in Terminal => job[k].status \in Terminal
    BY ZenonT(30), <1>4 DEF Terminal
  <2>3. \A k \in Jobs : job[k].status \in Terminal \cup {"gone"} =>
                          job'[k].status \in Terminal \cup {"gone"}
    BY ZenonT(30), <1>1, <1>4 DEF Terminal
  <2>4. TerminalOrder(Jobs0)
    BY ZenonT(30) DEF JobsInv
  <2> QED  BY ZenonT(30), <2>1, <2>2, <2>3, <2>4 DEF TerminalOrder
<1>9. JobsInv'
  BY ZenonT(30), <1>1, <1>4, <1>5, <1>6, <1>7, <1>8 DEF JobsInv, ActiveIndexExact
<1>10. Ended \subseteq Ended'
  BY ZenonT(30), <1>1, <1>4 DEF Ended, Terminal
<1> QED  BY ZenonT(30), <1>9, <1>10 DEF JobsKept

\* What the claim of due jobs does to the rows: an exhausted job is settled, a fresh one
\* scheduled, and the others stay finished or unfinished.
Buries(s) ==
  /\ \A k \in ExhaustedJobs : s.row[k].status \in Terminal \cup {"gone"}
  /\ \A k \in Jobs \ ExhaustedJobs :
       s.row[k] = job[k] \/ (job[k].status \in Terminal /\ s.row[k].status = "gone")

ClaimsRows(s, fresh) ==
  /\ job' \in [Jobs -> JobRow]
  /\ \A k \in fresh : job[k].status = "none" /\ job'[k].status = "scheduled"
  /\ \A k \in ExhaustedJobs :
       /\ k \notin fresh /\ job[k].status \in Active
       /\ job'[k] = s.row[k] /\ job'[k].status \in Terminal \cup {"gone"}
  /\ \A k \in (Jobs \ ExhaustedJobs) \ fresh :
       \/ job[k].status \in Active /\ job'[k].status \in Active /\ s.row[k].status \in Active
       \/ job[k].status \notin Active /\ job'[k] = s.row[k]
          /\ (s.row[k] = job[k] \/ (job[k].status \in Terminal /\ s.row[k].status = "gone"))
  /\ \A k \in fresh : s.row[k].status = "none"

LEMMA ClaimedRows ==
  ASSUME JobsInv, NEW batch \in SUBSET Jobs, NEW fresh \in SUBSET Jobs, NEW token \in Tokens,
         \A j \in fresh : NewID(j),
         NEW s, s.row \in [Jobs -> JobRow],
         Buries(s),
         \A j \in batch : Claimable(Recovered(s.row[j])),
         job' = [j \in Jobs |-> IF j \in batch \cup fresh THEN Claimed(Recovered(s.row[j]), token)
                                                          ELSE Recovered(s.row[j])]
  PROVE  ClaimsRows(s, fresh)
<1>1. ASSUME NEW k \in Jobs
      PROVE  /\ s.row[k] \in JobRow /\ Recovered(s.row[k]) \in JobRow
             /\ Claimed(Recovered(s.row[k]), token) \in JobRow
             /\ Claimed(Recovered(s.row[k]), token).status = "scheduled"
             /\ s.row[k].status \in Active => Recovered(s.row[k]).status \in Active
             /\ s.row[k].status \notin Active => Recovered(s.row[k]) = s.row[k]
  <2>1. s.row[k] \in JobRow
    BY ZenonT(30)
  <2>2. Recovered(s.row[k]) \in JobRow
    BY ZenonT(30), <2>1, RecoveryRows
  <2> QED  BY ZenonT(30), <2>1, <2>2, RecoveryRows
<1>2. \A k \in Jobs : job'[k] \in JobRow
  BY ZenonT(30), <1>1
<1>3. job' \in [Jobs -> JobRow]
  BY ZenonT(30), <1>2
<1>4. ASSUME NEW k \in fresh
      PROVE  /\ job[k].status = "none" /\ job'[k].status = "scheduled"
             /\ k \notin ExhaustedJobs /\ s.row[k].status = "none"
  <2>1. job[k].status = "none" /\ k \in Jobs
    BY ZenonT(30) DEF NewID
  <2>2. k \notin ExhaustedJobs
    BY ZenonT(30), <2>1 DEF ExhaustedJobs, Exhausted
  <2>3. s.row[k].status = "none"
    BY ZenonT(30), <2>1, <2>2 DEF Terminal, Buries
  <2> QED  BY ZenonT(30), <1>1, <2>1, <2>2, <2>3
<1>5. ASSUME NEW k \in batch
      PROVE  s.row[k].status \in Active
  <2>1. Recovered(s.row[k]).status \in Active
    BY ZenonT(30) DEF Claimable, Active
  <2> QED  BY ZenonT(30), <1>1, <2>1
<1>6. ASSUME NEW k \in ExhaustedJobs
      PROVE  /\ k \notin fresh /\ job[k].status \in Active
             /\ job'[k] = s.row[k] /\ job'[k].status \in Terminal \cup {"gone"}
  <2>1. k \in Jobs /\ job[k].status \in Active
    BY ZenonT(30) DEF ExhaustedJobs, Exhausted, Active
  <2>2. s.row[k].status \notin Active
    BY ZenonT(30) DEF Buries, Active, Terminal
  <2>3. k \notin batch \cup fresh
    BY ZenonT(30), <1>4, <1>5, <2>2
  <2>4. job'[k] = Recovered(s.row[k]) /\ Recovered(s.row[k]) = s.row[k]
    BY ZenonT(30), <1>1, <2>1, <2>2, <2>3
  <2>5. s.row[k].status \in Terminal \cup {"gone"}
    BY ZenonT(30) DEF Buries
  <2>6. k \notin fresh
    BY ZenonT(30), <2>3
  <2> QED  BY ZenonT(30), <2>1, <2>4, <2>5, <2>6
<1>7. ASSUME NEW k \in (Jobs \ ExhaustedJobs) \ fresh
      PROVE  \/ job[k].status \in Active /\ job'[k].status \in Active /\ s.row[k].status \in Active
             \/ job[k].status \notin Active /\ job'[k] = s.row[k]
                /\ (s.row[k] = job[k] \/ (job[k].status \in Terminal /\ s.row[k].status = "gone"))
  <2>1. job'[k] = IF k \in batch THEN Claimed(Recovered(s.row[k]), token) ELSE Recovered(s.row[k])
    BY ZenonT(30)
  <2>2. CASE job[k].status \in Active
    <3>1. s.row[k] = job[k]
      BY ZenonT(30), <2>2 DEF Buries, Active, Terminal
    <3>2. job'[k].status = "scheduled" \/ job'[k].status \in Active
      BY ZenonT(30), <1>1, <2>1, <2>2, <3>1
    <3> QED  BY ZenonT(30), <2>2, <3>1, <3>2 DEF Active
  <2>3. CASE job[k].status \notin Active
    <3>1. s.row[k].status \notin Active
      BY ZenonT(30), <2>3 DEF Buries, Active, Terminal
    <3>2. k \notin batch
      BY ZenonT(30), <1>5, <3>1
    <3> QED  BY ZenonT(30), <1>1, <2>1, <2>3, <3>1, <3>2 DEF Buries
  <2> QED  BY ZenonT(30), <2>2, <2>3
<1> QED  BY ZenonT(30), <1>3, <1>4, <1>6, <1>7 DEF ClaimsRows

LEMMA ClaimKeepsJobs ==
  ASSUME JobsInv, SameMonitors, NEW batch \in SUBSET Jobs, NEW fresh \in SUBSET Jobs,
         NEW token \in Tokens, \A j \in fresh : NewID(j), ClaimDueJobs(batch, fresh, token)
  PROVE  JobsKept
<1> DEFINE freshFor == {MonitorOf[j] : j \in fresh}
           new == {j \in Jobs : NewID(j)}
           due == {m \in Monitors : /\ monitor[m].status = "active"
                                    /\ DueAfterRecovery(m)
                                    /\ ActiveAfterRecovery[m] = NoJob
                                    /\ \E j \in new : MonitorOf[j] = m}
<1>1. PICK order \in Bijection(1..Cardinality(ExhaustedJobs), ExhaustedJobs) :
        LET row == [j \in Jobs |-> Recovered(Buried(order).row[j])] IN
        /\ batch \subseteq {j \in Jobs : Claimable(row[j])}
        /\ freshFor \subseteq due
        /\ job' = [j \in Jobs |-> IF j \in batch \cup fresh THEN Claimed(row[j], token) ELSE row[j]]
        /\ terminal' = Buried(order).list
        /\ active' = [m \in Monitors |-> IF m \in freshFor
                                         THEN CHOOSE j \in fresh : MonitorOf[j] = m
                                         ELSE ActiveAfterRecovery[m]]
  BY ZenonT(30) DEF ClaimDueJobs, FillsUp
<1>2. \A m \in freshFor : Exists(m) /\ m \in Monitors /\ ActiveAfterRecovery[m] = NoJob
  BY ZenonT(30), <1>1 DEF Exists
<1> DEFINE s == Buried(order)
<1>3. /\ s.row \in [Jobs -> JobRow] /\ s.list \in RetentionList /\ TerminalOrder(s)
      /\ \A k \in ExhaustedJobs : s.row[k].status \in Terminal \cup {"gone"}
      /\ \A k \in Jobs \ ExhaustedJobs :
           s.row[k] = job[k] \/ (job[k].status \in Terminal /\ s.row[k].status = "gone")
  BY ZenonT(30), BurialKeeps
<1>4. /\ \A j \in batch : Claimable(Recovered(s.row[j]))
      /\ job' = [j \in Jobs |-> IF j \in batch \cup fresh THEN Claimed(Recovered(s.row[j]), token)
                                                          ELSE Recovered(s.row[j])]
      /\ terminal' = s.list
  BY ZenonT(30), <1>1
<1> HIDE DEF s, due, new
<1>5. /\ job' \in [Jobs -> JobRow]
      /\ \A k \in fresh : job[k].status = "none" /\ job'[k].status = "scheduled"
      /\ \A k \in ExhaustedJobs :
           /\ k \notin fresh /\ job[k].status \in Active
           /\ job'[k] = s.row[k] /\ job'[k].status \in Terminal \cup {"gone"}
      /\ \A k \in (Jobs \ ExhaustedJobs) \ fresh :
           \/ job[k].status \in Active /\ job'[k].status \in Active /\ s.row[k].status \in Active
           \/ job[k].status \notin Active /\ job'[k] = s.row[k]
              /\ (s.row[k] = job[k] \/ (job[k].status \in Terminal /\ s.row[k].status = "gone"))
      /\ \A k \in fresh : s.row[k].status = "none"
  <2>1. Buries(s)
    BY ZenonT(30), <1>3 DEF Buries
  <2>2. ClaimsRows(s, fresh)
    BY ZenonT(30), <1>3, <1>4, <2>1, ClaimedRows
  <2> QED  BY ZenonT(30), <2>2 DEF ClaimsRows
<1>6. \A k, j \in fresh : MonitorOf[k] = MonitorOf[j] => k = j
  <2> SUFFICES ASSUME NEW k \in fresh, NEW j \in fresh, MonitorOf[k] = MonitorOf[j]
               PROVE  k = j
    BY ZenonT(30)
  <2>1. k \in Nat /\ j \in Nat /\ k \in Jobs /\ j \in Jobs
    BY ZenonT(30), StoreAssumption
  <2>2. ~(k < j) /\ ~(j < k)
    BY ZenonT(30), <1>5, <2>1 DEF NewID
  <2> QED  BY <2>1, <2>2
<1>7. \A m \in Monitors : /\ m \in freshFor => active'[m] \in fresh /\ MonitorOf[active'[m]] = m
                          /\ m \notin freshFor => active'[m] = IF active[m] \in ExhaustedJobs
                                                               THEN NoJob ELSE active[m]
  <2> SUFFICES ASSUME NEW m \in Monitors
               PROVE  /\ m \in freshFor => active'[m] \in fresh /\ MonitorOf[active'[m]] = m
                      /\ m \notin freshFor => active'[m] = IF active[m] \in ExhaustedJobs
                                                           THEN NoJob ELSE active[m]
    BY ZenonT(30)
  <2>1. active'[m] = IF m \in freshFor THEN CHOOSE j \in fresh : MonitorOf[j] = m
                                       ELSE ActiveAfterRecovery[m]
    BY ZenonT(30), <1>1
  <2>2. m \in freshFor => \E j \in fresh : MonitorOf[j] = m
    BY ZenonT(30)
  <2> QED  BY ZenonT(30), <2>1, <2>2 DEF ActiveAfterRecovery
<1>8. \A m \in freshFor : active[m] = NoJob \/ active[m] \in ExhaustedJobs
  BY ZenonT(30), <1>2 DEF ActiveAfterRecovery
<1>9. \A j \in fresh : MonitorOf[j] \in freshFor
  BY ZenonT(30)
<1> HIDE DEF freshFor
<1>10. DOMAIN active' = Monitors /\ active' = [m \in Monitors |-> active'[m]]
  <2> DEFINE F(m) == IF m \in freshFor THEN CHOOSE j \in fresh : MonitorOf[j] = m
                                       ELSE ActiveAfterRecovery[m]
  <2>1. active' = [m \in Monitors |-> F(m)]
    BY ZenonT(30), <1>1
  <2> HIDE DEF F
  <2> QED  BY ZenonT(30), <2>1
<1>11. active' \in [Monitors -> Jobs \cup {NoJob}]
  <2>1. \A m \in Monitors : active'[m] \in Jobs \cup {NoJob}
    BY ZenonT(30), <1>7 DEF JobsInv
  <2> QED  BY ZenonT(30), <1>10, <2>1
<1>12. ASSUME NEW k \in Jobs
       PROVE  job'[k].status \in Active <=> active'[MonitorOf[k]] = k /\ Exists(MonitorOf[k])'
  <2>1. MonitorOf[k] \in Monitors /\ k # NoJob
    BY ZenonT(30), StoreAssumption
  <2>2. job[k].status \in Active <=> active[MonitorOf[k]] = k /\ Exists(MonitorOf[k])
    BY ZenonT(30) DEF JobsInv, ActiveIndexExact
  <2>3. CASE k \in ExhaustedJobs
    <3>1. job'[k].status \notin Active
      BY ZenonT(30), <1>5, <2>3 DEF Active, Terminal
    <3>2. active'[MonitorOf[k]] # k
      <4>1. k \notin fresh
        BY ZenonT(30), <1>5, <2>3
      <4>2. CASE MonitorOf[k] \in freshFor
        BY ZenonT(30), <1>7, <2>1, <4>1, <4>2
      <4>3. CASE MonitorOf[k] \notin freshFor
        <5>1. active'[MonitorOf[k]] = IF active[MonitorOf[k]] \in ExhaustedJobs
                                      THEN NoJob ELSE active[MonitorOf[k]]
          BY ZenonT(30), <1>7, <2>1, <4>3
        <5> QED  BY ZenonT(30), <2>1, <2>3, <5>1
      <4> QED  BY ZenonT(30), <4>2, <4>3
    <3> QED  BY ZenonT(30), <3>1, <3>2
  <2>4. CASE k \in fresh
    <3>1. active'[MonitorOf[k]] = k
      BY ZenonT(30), <1>6, <1>7, <1>9, <2>1, <2>4
    <3> QED  BY ZenonT(30), <1>2, <1>5, <1>9, <2>4, <3>1 DEF Active, SameMonitors
  <2>5. CASE k \notin ExhaustedJobs /\ k \notin fresh
    <3>1. job'[k].status \in Active <=> job[k].status \in Active
      BY ZenonT(30), <1>5, <2>5 DEF Active, Terminal
    <3>2. active'[MonitorOf[k]] = k <=> active[MonitorOf[k]] = k
      BY ZenonT(30), <1>7, <1>8, <2>1, <2>5
    <3> QED  BY ZenonT(30), <2>1, <2>2, <3>1, <3>2 DEF SameMonitors
  <2> QED  BY ZenonT(30), <2>3, <2>4, <2>5
<1>13. \A m \in Monitors : active'[m] # NoJob => MonitorOf[active'[m]] = m /\ Exists(m)'
  BY ZenonT(30), <1>2, <1>7 DEF JobsInv, SameMonitors
<1>14. TerminalOrder(Jobs0)'
  <2>1. Jobs0'.row = job' /\ Jobs0'.list = s.list
    BY ZenonT(30), <1>4 DEF Jobs0
  <2>2. \A k \in Jobs : job'[k].status \in Terminal => s.row[k].status \in Terminal
    BY ZenonT(30), <1>5 DEF Terminal, Active
  <2>3. \A k \in Jobs : s.row[k].status \in Terminal \cup {"gone"} =>
                          job'[k].status \in Terminal \cup {"gone"}
    BY ZenonT(30), <1>5 DEF Terminal, Active
  <2> QED  BY ZenonT(30), <1>3, <2>1, <2>2, <2>3 DEF TerminalOrder
<1>15. JobsInv'
  BY ZenonT(30), <1>3, <1>4, <1>5, <1>11, <1>12, <1>13, <1>14 DEF JobsInv, ActiveIndexExact
<1>16. Ended \subseteq Ended'
  <2> SUFFICES ASSUME NEW k \in Jobs, job[k].status \in Terminal \cup {"gone"}
               PROVE  job'[k].status \in Terminal \cup {"gone"}
    BY ZenonT(30) DEF Ended
  <2> QED  BY <1>5 DEF Terminal, Active
<1> QED  BY ZenonT(30), <1>15, <1>16 DEF JobsKept

LEMMA PutKeepsJobs ==
  ASSUME JobsInv, NEW j \in Jobs, NEW accepted \in BOOLEAN, NEW row, PutJob(j, accepted, row),
         accepted => /\ row \in JobRow
                     /\ \/ row.status = job[j].status
                        \/ row.status \in Active /\ job[j].status \in Active
  PROVE  JobsKept
<1>1. monitor' = monitor /\ active' = active /\ terminal' = terminal
      /\ job' = IF accepted THEN [job EXCEPT ![j] = row] ELSE job
  BY ZenonT(30) DEF PutJob
<1>2. SameMonitors
  BY ZenonT(30), <1>1 DEF SameMonitors, Exists
<1>3. job' \in [Jobs -> JobRow]
  BY ZenonT(30), <1>1 DEF JobsInv
<1>4. \A k \in Jobs : \/ job'[k].status = job[k].status
                      \/ job'[k].status \in Active /\ job[k].status \in Active
  BY ZenonT(30), <1>1 DEF JobsInv
<1> QED  BY ZenonT(30), <1>1, <1>2, <1>3, <1>4, RowsRewritten

\* The writes of publishers and workers, and the passing of time.
LEMMA RowWritesKeepJobs ==
  ASSUME JobsInv
  PROVE  /\ \A c \in Held : MarkJobPublished(c) \/ ReleaseJobPublish(c) => JobsKept
         /\ RecoverQueuedJobsAfterTopologyLoss => JobsKept
         /\ \A j \in Jobs, attempt \in 1..MaxAttempts, token \in Tokens :
              MarkJobProcessing(j, attempt, token) => JobsKept
         /\ \A l \in Held : MarkJobFailed(l) => JobsKept
         /\ \A j \in Jobs : ExpireLease(j) \/ BecomeAvailable(j) => JobsKept
<1>1. ASSUME NEW c \in Held, MarkJobPublished(c)  PROVE JobsKept
  <2> DEFINE row == [job[c.job] EXCEPT !.status = "queued", !.lease = "none"]
  <2>1. c.job \in Jobs /\ job[c.job] \in JobRow
    BY ZenonT(30) DEF Held, JobsInv
  <2>2. row \in JobRow
    BY <2>1, ZenonT(40) DEF JobRow, Active
  <2>3. row.status = "queued"
    BY ZenonT(30), <2>1 DEF JobRow
  <2>4. OwnsPublication(c) \in BOOLEAN /\ (OwnsPublication(c) => job[c.job].status = "scheduled")
    BY ZenonT(30) DEF OwnsPublication
  <2>5. PutJob(c.job, OwnsPublication(c), row)
    BY ZenonT(30), <1>1 DEF MarkJobPublished
  <2> HIDE DEF row
  <2> QED  BY ZenonT(30), <2>1, <2>2, <2>3, <2>4, <2>5, PutKeepsJobs DEF Active
<1>2. ASSUME NEW c \in Held, ReleaseJobPublish(c)  PROVE JobsKept
  <2> DEFINE row == [job[c.job] EXCEPT !.lease = "none", !.publicationToken = 0]
  <2>1. c.job \in Jobs /\ job[c.job] \in JobRow
    BY ZenonT(30) DEF Held, JobsInv
  <2>2. row \in JobRow
    BY <2>1, ZenonT(40) DEF JobRow
  <2>3. row.status = job[c.job].status
    BY ZenonT(30), <2>1 DEF JobRow
  <2>4. OwnsPublication(c) \in BOOLEAN
    BY ZenonT(30) DEF OwnsPublication
  <2>5. PutJob(c.job, OwnsPublication(c), row)
    BY ZenonT(30), <1>2 DEF ReleaseJobPublish
  <2> HIDE DEF row
  <2> QED  BY ZenonT(30), <2>1, <2>2, <2>3, <2>4, <2>5, PutKeepsJobs
<1>3. ASSUME RecoverQueuedJobsAfterTopologyLoss  PROVE JobsKept
  <2>1. /\ monitor' = monitor /\ active' = active /\ terminal' = terminal
        /\ job' = [j \in Jobs |-> ReturnedToPublish(job[j])]
    BY ZenonT(30), <1>3 DEF RecoverQueuedJobsAfterTopologyLoss
  <2>2. SameMonitors
    BY ZenonT(30), <2>1 DEF SameMonitors, Exists
  <2>3. ASSUME NEW j \in Jobs
        PROVE  /\ job'[j] \in JobRow
               /\ \/ job'[j].status = job[j].status
                  \/ job'[j].status \in Active /\ job[j].status \in Active
    <3>1. job[j] \in JobRow /\ job'[j] = ReturnedToPublish(job[j])
      BY ZenonT(30), <2>1 DEF JobsInv
    <3>2. CASE job[j].status \in {"scheduled", "queued"}
      <4>1. ReturnedToPublish(job[j]) =
              [job[j] EXCEPT !.status = "failed", !.available = TRUE, !.lease = "none",
                             !.leaseToken = 0, !.publicationToken = 0]
        BY ZenonT(30), <3>2 DEF ReturnedToPublish
      <4>2. ReturnedToPublish(job[j]) \in JobRow
        BY <3>1, <4>1, ZenonT(40) DEF JobRow, Active
      <4>3. ReturnedToPublish(job[j]).status = "failed"
        BY ZenonT(30), <3>1, <4>1 DEF JobRow
      <4> QED  BY ZenonT(30), <3>1, <3>2, <4>2, <4>3 DEF Active
    <3>3. CASE job[j].status \notin {"scheduled", "queued"}
      BY ZenonT(30), <3>1, <3>3 DEF ReturnedToPublish
    <3> QED  BY ZenonT(30), <3>2, <3>3
  <2>4. job' \in [Jobs -> JobRow]
    BY ZenonT(30), <2>1, <2>3
  <2> QED  BY ZenonT(30), <2>1, <2>2, <2>3, <2>4, RowsRewritten
<1>4. ASSUME NEW j \in Jobs, NEW attempt \in 1..MaxAttempts, NEW token \in Tokens,
             MarkJobProcessing(j, attempt, token)
      PROVE  JobsKept
  <2> DEFINE row == [job[j] EXCEPT !.status = "processing", !.attempt = attempt,
                                   !.lease = "live", !.leaseToken = token]
  <2>1. job[j] \in JobRow /\ attempt \in 0..MaxAttempts
    BY StoreAssumption DEF JobsInv
  <2>2. row \in JobRow
    BY <2>1, ZenonT(40) DEF JobRow, Active
  <2>3. row.status = "processing"
    BY ZenonT(30), <2>1 DEF JobRow
  <2>4. /\ MayProcess(j, attempt) \in BOOLEAN
        /\ MayProcess(j, attempt) => job[j].status \in {"scheduled", "queued"}
    BY ZenonT(30) DEF MayProcess
  <2>5. PutJob(j, MayProcess(j, attempt), row)
    BY ZenonT(30), <1>4 DEF MarkJobProcessing
  <2> HIDE DEF row
  <2> QED  BY ZenonT(30), <2>2, <2>3, <2>4, <2>5, PutKeepsJobs DEF Active
<1>5. ASSUME NEW l \in Held, MarkJobFailed(l)  PROVE JobsKept
  <2> DEFINE row == [job[l.job] EXCEPT !.status = "failed", !.available = FALSE,
                                       !.lease = "none", !.leaseToken = 0]
             owns == IsActive(l.job) /\ OwnsLease(l)
  <2>1. l.job \in Jobs /\ job[l.job] \in JobRow
    BY ZenonT(30) DEF Held, JobsInv
  <2>2. row \in JobRow
    BY <2>1, ZenonT(40) DEF JobRow, Active
  <2>3. row.status = "failed"
    BY ZenonT(30), <2>1 DEF JobRow
  <2>4. owns \in BOOLEAN /\ (owns => job[l.job].status = "processing")
    BY ZenonT(30) DEF OwnsLease
  <2>5. PutJob(l.job, owns, row)
    BY ZenonT(30), <1>5 DEF MarkJobFailed
  <2> HIDE DEF row, owns
  <2> QED  BY ZenonT(30), <2>1, <2>2, <2>3, <2>4, <2>5, PutKeepsJobs DEF Active
<1>6. ASSUME NEW j \in Jobs, ExpireLease(j)  PROVE JobsKept
  <2> DEFINE row == [job[j] EXCEPT !.lease = "expired"]
  <2>1. job[j] \in JobRow
    BY ZenonT(30) DEF JobsInv
  <2>2. row \in JobRow
    BY <2>1, ZenonT(40) DEF JobRow
  <2>3. row.status = job[j].status
    BY ZenonT(30), <2>1 DEF JobRow
  <2>4. PutJob(j, TRUE, row)
    BY ZenonT(30), <1>6 DEF ExpireLease
  <2> HIDE DEF row
  <2> QED  BY ZenonT(30), <2>2, <2>3, <2>4, PutKeepsJobs
<1>7. ASSUME NEW j \in Jobs, BecomeAvailable(j)  PROVE JobsKept
  <2> DEFINE row == [job[j] EXCEPT !.available = TRUE]
  <2>1. job[j] \in JobRow
    BY ZenonT(30) DEF JobsInv
  <2>2. row \in JobRow
    BY <2>1, ZenonT(40) DEF JobRow
  <2>3. row.status = job[j].status
    BY ZenonT(30), <2>1 DEF JobRow
  <2>4. PutJob(j, TRUE, row)
    BY ZenonT(30), <1>7 DEF BecomeAvailable
  <2> HIDE DEF row
  <2> QED  BY ZenonT(30), <2>2, <2>3, <2>4, PutKeepsJobs
<1> QED  BY ZenonT(30), <1>1, <1>2, <1>3, <1>4, <1>5, <1>6, <1>7

-----------------------------------------------------------------------------
(* What a step does to the monitors and the index of their URLs *)

\* The steps that at most change when a monitor is due and whether it was checked.
SameIdentities ==
  /\ monitor' \in [Monitors -> MonitorRow] /\ byURL' = byURL
  /\ \A m \in Monitors : monitor'[m].status = monitor[m].status /\ monitor'[m].url = monitor[m].url

LEMMA IdentitiesKept ==
  ASSUME URLInv, SameIdentities
  PROVE  URLInv' /\ SameMonitors
<1>1. \A m \in Monitors : Exists(m)' <=> Exists(m)
  BY ZenonT(30) DEF Exists, SameIdentities
<1>2. URLIndexExact'
  BY <1>1 DEF URLIndexExact, URLInv, SameIdentities
<1> QED  BY ZenonT(30), <1>1, <1>2 DEF URLInv, SameMonitors, SameIdentities

LEMMA MonitorsUntouched ==
  ASSUME URLInv, UNCHANGED <<monitor, byURL>>
  PROVE  URLInv' /\ SameMonitors
BY ZenonT(30), IdentitiesKept DEF SameIdentities, URLInv

LEMMA Rescheduling ==
  ASSUME URLInv, NEW j \in Jobs, NEW next, next = Rescheduled(j)
  PROVE  /\ next \in [Monitors -> MonitorRow]
         /\ \A m \in Monitors : next[m].status = monitor[m].status /\ next[m].url = monitor[m].url
<1> DEFINE m == MonitorOf[j]
           due == IF job[j].kind = "scheduled" THEN FALSE ELSE monitor[m].due
           row == [monitor[m] EXCEPT !.due = due]
<1>1. m \in Monitors /\ monitor \in [Monitors -> MonitorRow]
  BY ZenonT(30), StoreAssumption DEF URLInv
<1>2. monitor[m] \in MonitorRow /\ due \in BOOLEAN
  BY ZenonT(30), <1>1 DEF MonitorRow
<1>3. next = [monitor EXCEPT ![m] = row]
  BY ZenonT(30), <1>1 DEF Rescheduled
<1> HIDE DEF due
<1>4. row \in MonitorRow
  BY <1>2, ZenonT(40) DEF MonitorRow
<1>5. row.status = monitor[m].status /\ row.url = monitor[m].url
  BY ZenonT(30), <1>2 DEF MonitorRow
<1> HIDE DEF row, m
<1> QED  BY ZenonT(30), <1>1, <1>3, <1>4, <1>5

LEMMA DueChanges ==
  ASSUME URLInv, NEW due \in [Monitors -> BOOLEAN],
         monitor' = [m \in Monitors |-> [monitor[m] EXCEPT !.due = due[m]]], byURL' = byURL
  PROVE  URLInv' /\ SameMonitors
<1>1. ASSUME NEW m \in Monitors
      PROVE  /\ monitor'[m] \in MonitorRow
             /\ monitor'[m].status = monitor[m].status /\ monitor'[m].url = monitor[m].url
  <2>1. monitor[m] \in MonitorRow /\ due[m] \in BOOLEAN
    BY ZenonT(30) DEF URLInv
  <2>2. monitor'[m] = [monitor[m] EXCEPT !.due = due[m]]
    BY ZenonT(30)
  <2>3. [monitor[m] EXCEPT !.due = due[m]] \in MonitorRow
    BY <2>1, ZenonT(40) DEF MonitorRow
  <2>4. monitor'[m].status = monitor[m].status /\ monitor'[m].url = monitor[m].url
    BY ZenonT(30), <2>1, <2>2 DEF MonitorRow
  <2> QED  BY ZenonT(30), <2>2, <2>3, <2>4
<1>2. monitor' \in [Monitors -> MonitorRow]
  BY ZenonT(30), <1>1
<1> QED  BY ZenonT(30), <1>1, <1>2, IdentitiesKept DEF SameIdentities

\* The checks of the URL are what keeps the index exact.
LEMMA CreateKeepsURLs ==
  ASSUME URLInv, NEW m \in Monitors, NEW url \in URLs, NEW enabled \in BOOLEAN,
         Create(m, url, enabled)
  PROVE  URLInv'
<1> DEFINE row == [status |-> IF enabled THEN "active" ELSE "disabled", url |-> url,
                   due |-> TRUE, checked |-> FALSE]
<1>1. /\ monitor[m].status = "none" /\ byURL[url] = NoMonitor
      /\ monitor' = [monitor EXCEPT ![m] = row] /\ byURL' = [byURL EXCEPT ![url] = m]
  BY ZenonT(30) DEF Create
<1>2. row \in MonitorRow /\ row.status \in {"active", "disabled"} /\ row.url = url
  BY ZenonT(30) DEF MonitorRow
<1> HIDE DEF row
<1>3. monitor' \in [Monitors -> MonitorRow] /\ byURL' \in [URLs -> Monitors \cup {NoMonitor}]
  BY ZenonT(30), <1>1, <1>2 DEF URLInv
<1>4. /\ Exists(m)' /\ monitor'[m].url = url /\ ~Exists(m)
      /\ \A n \in Monitors : n # m => (Exists(n)' <=> Exists(n)) /\ monitor'[n].url = monitor[n].url
  BY ZenonT(30), <1>1, <1>2 DEF URLInv, Exists
<1>5. ASSUME NEW u \in URLs, NEW n \in Monitors
      PROVE  byURL'[u] = n <=> Exists(n)' /\ monitor'[n].url = u
  <2>1. byURL'[u] = IF u = url THEN m ELSE byURL[u]
    BY ZenonT(30), <1>1 DEF URLInv
  <2>2. byURL[u] = n <=> Exists(n) /\ monitor[n].url = u
    BY ZenonT(30) DEF URLInv, URLIndexExact
  <2>3. n # NoMonitor
    BY ZenonT(30), StoreAssumption
  <2>4. CASE n = m
    BY ZenonT(30), <1>4, <2>1, <2>2, <2>4
  <2>5. CASE n # m
    BY ZenonT(30), <1>1, <1>4, <2>1, <2>2, <2>3, <2>5
  <2> QED  BY ZenonT(30), <2>4, <2>5
<1> QED  BY ZenonT(30), <1>3, <1>5 DEF URLInv, URLIndexExact

LEMMA UpdateKeepsURLs ==
  ASSUME URLInv, NEW m \in Monitors, NEW url \in URLs, NEW enabled \in BOOLEAN,
         NEW other \in BOOLEAN, NEW interval \in BOOLEAN, Update(m, url, enabled, other, interval)
  PROVE  URLInv' /\ SameMonitors
<1> DEFINE semantics == other \/ url # monitor[m].url
<1>1. PICK due \in DueAfterUpdate(m, enabled, semantics, interval) :
        monitor' = [monitor EXCEPT ![m] =
           [status |-> IF enabled THEN "active" ELSE "disabled", url |-> url,
            due |-> due, checked |-> monitor[m].checked /\ ~semantics]]
  BY ZenonT(30) DEF Update, URLInv
<1>2. Exists(m) /\ byURL[url] \in {NoMonitor, m} /\ byURL' = Reindexed(m, url)
  BY ZenonT(30) DEF Update
<1>3. monitor[m] \in MonitorRow
  BY ZenonT(30) DEF URLInv
<1>4. due \in BOOLEAN
  <2>1. monitor[m].due \in BOOLEAN
    BY ZenonT(30), <1>3 DEF MonitorRow
  <2> QED  BY ZenonT(30), <1>1, <2>1 DEF DueAfterUpdate
<1> DEFINE status == IF enabled THEN "active" ELSE "disabled"
           checked == monitor[m].checked /\ ~semantics
           row == [status |-> status, url |-> url, due |-> due, checked |-> checked]
<1>5. status \in {"active", "disabled"} /\ checked \in BOOLEAN
  BY ZenonT(30)
<1>6. monitor' = [monitor EXCEPT ![m] = row]
  BY ZenonT(30), <1>1
<1> HIDE DEF status, checked, semantics
<1>7. row \in MonitorRow
  BY <1>4, <1>5, ZenonT(40) DEF MonitorRow
<1>8. row.status \in {"active", "disabled"} /\ row.url = url
  BY ZenonT(30), <1>5
<1> HIDE DEF row
<1>9. monitor' \in [Monitors -> MonitorRow]
  BY ZenonT(30), <1>6, <1>7 DEF URLInv
<1>10. /\ Exists(m)' /\ monitor'[m].url = url
       /\ \A n \in Monitors : n # m => (Exists(n)' <=> Exists(n)) /\ monitor'[n].url = monitor[n].url
  BY ZenonT(30), <1>6, <1>8 DEF URLInv, Exists
<1>11. \A u \in URLs : byURL'[u] = IF u = url THEN m
                                   ELSE IF u = monitor[m].url THEN NoMonitor ELSE byURL[u]
  BY ZenonT(30), <1>2 DEF Reindexed
<1>12. byURL' \in [URLs -> Monitors \cup {NoMonitor}]
  BY ZenonT(30), <1>2 DEF Reindexed, URLInv
<1>13. ASSUME NEW u \in URLs, NEW n \in Monitors
       PROVE  byURL'[u] = n <=> Exists(n)' /\ monitor'[n].url = u
  <2>1. byURL[u] = n <=> Exists(n) /\ monitor[n].url = u
    BY ZenonT(30) DEF URLInv, URLIndexExact
  <2>2. byURL[u] = m <=> Exists(m) /\ monitor[m].url = u
    BY ZenonT(30) DEF URLInv, URLIndexExact
  <2>3. n # NoMonitor
    BY ZenonT(30), StoreAssumption
  <2>4. CASE n = m
    BY ZenonT(30), <1>2, <1>10, <1>11, <2>2, <2>3, <2>4
  <2>5. CASE n # m
    BY ZenonT(30), <1>2, <1>10, <1>11, <2>1, <2>2, <2>3, <2>5
  <2> QED  BY ZenonT(30), <2>4, <2>5
<1>14. SameMonitors
  BY ZenonT(30), <1>2, <1>10 DEF SameMonitors
<1> QED  BY ZenonT(30), <1>9, <1>12, <1>13, <1>14 DEF URLInv, URLIndexExact

LEMMA DeleteKeepsURLs ==
  ASSUME URLInv, NEW m \in Monitors, Delete(m)
  PROVE  URLInv'
<1> DEFINE row == [monitor[m] EXCEPT !.status = "gone"]
           url == monitor[m].url
<1>1. /\ Exists(m) /\ monitor' = [monitor EXCEPT ![m] = row]
      /\ byURL' = [byURL EXCEPT ![url] = NoMonitor]
  BY ZenonT(30) DEF Delete, URLInv
<1>2. monitor[m] \in MonitorRow
  BY ZenonT(30) DEF URLInv
<1>3. row \in MonitorRow
  BY <1>2, ZenonT(40) DEF MonitorRow
<1>4. row.status = "gone" /\ url \in URLs
  BY ZenonT(30), <1>2 DEF MonitorRow
<1> HIDE DEF row
<1>5. monitor' \in [Monitors -> MonitorRow] /\ byURL' \in [URLs -> Monitors \cup {NoMonitor}]
  BY ZenonT(30), <1>1, <1>3 DEF URLInv
<1>6. /\ ~Exists(m)'
      /\ \A n \in Monitors : n # m => (Exists(n)' <=> Exists(n)) /\ monitor'[n].url = monitor[n].url
  BY ZenonT(30), <1>1, <1>4 DEF URLInv, Exists
<1>7. ASSUME NEW u \in URLs, NEW n \in Monitors
      PROVE  byURL'[u] = n <=> Exists(n)' /\ monitor'[n].url = u
  <2>1. byURL'[u] = IF u = url THEN NoMonitor ELSE byURL[u]
    BY ZenonT(30), <1>1 DEF URLInv
  <2>2. byURL[u] = n <=> Exists(n) /\ monitor[n].url = u
    BY ZenonT(30) DEF URLInv, URLIndexExact
  <2>3. byURL[u] = m <=> Exists(m) /\ url = u
    BY ZenonT(30) DEF URLInv, URLIndexExact
  <2>4. n # NoMonitor
    BY ZenonT(30), StoreAssumption
  <2>5. CASE n = m
    BY ZenonT(30), <1>1, <1>6, <2>1, <2>3, <2>4, <2>5
  <2>6. CASE n # m
    BY ZenonT(30), <1>1, <1>6, <2>1, <2>2, <2>3, <2>4, <2>6
  <2> QED  BY ZenonT(30), <2>5, <2>6
<1> QED  BY ZenonT(30), <1>5, <1>7 DEF URLInv, URLIndexExact

-----------------------------------------------------------------------------
(* What a step does to the ids of processed jobs *)

\* Without repetitions the window has as many ids as places.
LEMMA WindowSize ==
  ASSUME NEW list \in RetentionList, list.head \in 0..Len(list.order),
         NEW S, S \subseteq Jobs, \A j \in Jobs : j \in S <=> InWindow(list, j)
  PROVE  /\ IsFiniteSet(S) /\ Cardinality(S) \in Nat
         /\ Cardinality(S) <= Len(list.order) - list.head
         /\ NoneTwice(list) => Cardinality(S) = Len(list.order) - list.head
<1> DEFINE W == Waiting(list)
           f == [i \in W |-> list.order[i]]
<1>1. list.order \in Seq(Jobs) /\ list.head \in Nat /\ Len(list.order) \in Nat
      /\ list.head <= Len(list.order)
  BY LenFacts DEF RetentionList
<1>2. \A i \in W : list.order[i] \in Jobs
  BY <1>1, ElementFacts DEF Waiting
<1>3. IsFiniteSet(W) /\ Cardinality(W) = Len(list.order) - list.head
  <2>1. list.head + 1 \in Int /\ Len(list.order) \in Int
    BY <1>1
  <2>2. /\ IsFiniteSet((list.head + 1)..Len(list.order))
        /\ Cardinality((list.head + 1)..Len(list.order)) =
             IF list.head + 1 > Len(list.order) THEN 0
             ELSE Len(list.order) - (list.head + 1) + 1
    BY ZenonT(30), <2>1, FS_Interval
  <2> QED  BY <1>1, <2>2 DEF Waiting
<1> HIDE DEF W
<1>4. f \in Surjection(W, S)
  <2>1. \A i \in W : f[i] \in S
    BY ZenonT(30), <1>2 DEF InWindow, W
  <2>2. \A j \in S : \E i \in W : f[i] = j
    BY ZenonT(30) DEF InWindow, W
  <2>3. f \in [W -> S]
    BY ZenonT(30), <2>1
  <2> HIDE DEF f
  <2> QED  BY ZenonT(30), <2>2, <2>3 DEF Surjection
<1>5. NoneTwice(list) => f \in Injection(W, S)
  <2>1. f \in [W -> S] /\ \A i \in W : f[i] = list.order[i]
    BY ZenonT(30), <1>4 DEF Surjection
  <2> HIDE DEF f
  <2> QED  BY ZenonT(30), <2>1 DEF NoneTwice, Injection, IsInjective, W
<1> HIDE DEF f
<1>6. /\ IsFiniteSet(S) /\ Cardinality(S) <= Cardinality(W)
      /\ Cardinality(S) = Cardinality(W) <=> f \in Injection(W, S)
  BY ZenonT(30), <1>3, <1>4, FS_Surjection
<1>7. Cardinality(S) \in Nat
  BY ZenonT(30), <1>6, FS_CardinalityType
<1> QED  BY ZenonT(30), <1>3, <1>5, <1>6, <1>7

LEMMA RememberingKeepsProcessed ==
  ASSUME ProcessedInv, NEW j \in Jobs, j \notin processed, RememberProcessedJob(j)
  PROVE  ProcessedInv'
<1> DEFINE added == Appended(processedList, j)
           excess == Excess(added, Cardinality(processed) + 1, MaxProcessed)
           r == Evict(added, excess, MaxProcessed)
           n == Len(processedList.order)
           h == processedList.head
<1>1. /\ processed' = (processed \cup {j}) \ EvictedBy(added, excess) /\ processedList' = r
  BY ZenonT(30) DEF RememberProcessedJob
<1>2. /\ processedList \in RetentionList /\ Short(processedList, MaxProcessed)
      /\ NoneTwice(processedList) /\ processed \subseteq Jobs /\ MaxProcessed \in Nat
      /\ \A k \in Jobs : k \in processed <=> InWindow(processedList, k)
  BY ZenonT(30), StoreAssumption DEF ProcessedInv
<1>3. n \in Nat /\ h \in Nat /\ h <= n /\ n - h <= MaxProcessed /\ Cardinality(processed) = n - h
  <2>1. h \in 0..n /\ n - h <= MaxProcessed
    BY ZenonT(30), <1>2 DEF Short
  <2>2. n \in Nat /\ h \in Nat
    BY ZenonT(30), <1>2, LenFacts DEF RetentionList
  <2>3. Cardinality(processed) = n - h
    BY ZenonT(30), <1>2, <2>1, WindowSize
  <2> QED  BY <2>1, <2>2, <2>3
<1>4. excess \in {0, 1} /\ (excess = 1 <=> n + 1 - h > MaxProcessed)
  <2> HIDE DEF n, h, added
  <2> QED  BY <1>2, <1>3 DEF Excess
<1>5. Remembers(processedList, j, added, excess, r, MaxProcessed)
  <2> HIDE DEF excess
  <2> QED  BY ZenonT(30), <1>2, <1>4, Remembering
<1> HIDE DEF added, excess, r
<1>6. ~InWindow(processedList, j)
  BY ZenonT(30), <1>2
<1>7. /\ r \in RetentionList /\ Short(r, MaxProcessed) /\ NoneTwice(r)
      /\ \A k \in Jobs : /\ InWindow(r, k) \/ k \in EvictedBy(added, excess) <=>
                              InWindow(processedList, k) \/ k = j
                         /\ ~(InWindow(r, k) /\ k \in EvictedBy(added, excess))
  BY ZenonT(30), <1>2, <1>5, <1>6 DEF Remembers
<1>8. \A k \in Jobs : k \in processed' <=> InWindow(r, k)
  BY ZenonT(30), <1>1, <1>2, <1>7
<1>9. processed' \subseteq Jobs
  BY ZenonT(30), <1>1, <1>2
<1> QED  BY ZenonT(30), <1>1, <1>7, <1>8, <1>9 DEF ProcessedInv

-----------------------------------------------------------------------------
(* What a step does to the incidents *)

\* What resolving the open incident of monitor m leaves of the others.
Resolves(m) ==
  /\ open'[m] = NoJob
  /\ \A n \in Monitors : n # m => open'[n] = open[n]
  /\ \A i \in Jobs : incident'[i].failures <= incident[i].failures
  /\ \A n \in Monitors : n # m /\ open[n] # NoJob => incident'[open[n]] = incident[open[n]]

LEMMA ResolveKeepsIncidents ==
  ASSUME IncidentsInv, NEW m \in Monitors, ResolveOpenIncident(m)
  PROVE  IncidentsInv' /\ Resolves(m)
<1>1. /\ incident \in [Jobs -> IncidentRow] /\ open \in [Monitors -> Jobs \cup {NoJob}]
      /\ resolved \in RetentionList /\ Short(resolved, MaxRetainedIncidents)
      /\ MaxRetainedIncidents \in Nat /\ NoJob \notin Jobs
      /\ \A i \in Jobs : MonitorOf[i] \in Monitors
      /\ \A i \in Jobs : incident[i].status = "open" <=> open[MonitorOf[i]] = i
      /\ \A n \in Monitors : open[n] # NoJob => MonitorOf[open[n]] = n
      /\ \A i \in Jobs : incident[i].status = "resolved" => InWindow(resolved, i)
      /\ \A i \in Jobs : incident[i].failures \in Nat
  BY ZenonT(30), StoreAssumption DEF IncidentsInv, IncidentRow
<1>2. CASE open[m] = NoJob
  <2>1. incident' = incident /\ open' = open /\ resolved' = resolved
    BY ZenonT(30), <1>2 DEF ResolveOpenIncident, incidentVars
  <2>2. Resolves(m)
    <3>1. \A i \in Jobs : incident[i].failures \in Nat
      BY ZenonT(30), <1>1
    <3>2. \A i \in Jobs : incident'[i].failures <= incident[i].failures
      BY <2>1, <3>1
    <3> QED  BY ZenonT(30), <1>2, <2>1, <3>2 DEF Resolves
  <2> QED  BY ZenonT(30), <2>1, <2>2 DEF IncidentsInv
<1>3. CASE open[m] # NoJob
  <2> DEFINE o == open[m]
             row == [incident[o] EXCEPT !.status = "resolved"]
             mid == [incident EXCEPT ![o] = row]
             added == Appended(resolved, o)
             excess == Excess(added, Len(Window(added)), MaxRetainedIncidents)
             out == EvictedBy(added, excess)
             r == Evict(added, excess, MaxRetainedIncidents)
             new == [k \in Jobs |-> IF k \in out /\ mid[k].status = "resolved"
                                    THEN NoIncident ELSE mid[k]]
  <2>1. o \in Jobs /\ MonitorOf[o] = m /\ incident[o] \in IncidentRow
    BY ZenonT(30), <1>1, <1>3
  <2>2. incident' = new /\ resolved' = r /\ open' = [open EXCEPT ![m] = NoJob]
    BY ZenonT(30), <1>1, <1>3, <2>1 DEF ResolveOpenIncident, RememberResolvedIncident
  <2>3. excess \in {0, 1} /\ (excess = 1 <=> Len(resolved.order) + 1 - resolved.head
                                              > MaxRetainedIncidents)
    BY ZenonT(30), <1>1, <2>1, ExcessOfOne
  <2>4. Remembers(resolved, o, added, excess, r, MaxRetainedIncidents)
    <3> HIDE DEF excess, o
    <3> QED  BY ZenonT(30), <1>1, <2>1, <2>3, Remembering
  <2>5. /\ r \in RetentionList /\ Short(r, MaxRetainedIncidents)
        /\ \A k \in Jobs : InWindow(r, k) \/ k \in out <=> InWindow(resolved, k) \/ k = o
    <3> HIDE DEF r, excess, added
    <3> QED  BY ZenonT(30), <2>4 DEF Remembers
  <2> HIDE DEF r, out, excess, added
  <2>6. row \in IncidentRow /\ row.status = "resolved" /\ row.failures = incident[o].failures
    BY ZenonT(30), <2>1 DEF IncidentRow
  <2> HIDE DEF row
  <2>7. \A k \in Jobs : mid[k] = IF k = o THEN row ELSE incident[k]
    BY ZenonT(30), <1>1, <2>1
  <2> HIDE DEF mid
  <2>8. NoIncident \in IncidentRow /\ NoIncident.status = "none" /\ NoIncident.failures = 0
    BY ZenonT(30) DEF NoIncident, IncidentRow
  <2>9. \A k \in Jobs : incident'[k] = IF k \in out /\ mid[k].status = "resolved"
                                       THEN NoIncident ELSE mid[k]
    BY ZenonT(30), <2>2
  <2>10. incident' \in [Jobs -> IncidentRow]
    <3>1. \A k \in Jobs : incident'[k] \in IncidentRow
      <4> SUFFICES ASSUME NEW k \in Jobs  PROVE incident'[k] \in IncidentRow
        BY ZenonT(30)
      <4>1. mid[k] \in IncidentRow
        BY ZenonT(30), <1>1, <2>6, <2>7
      <4> QED  BY ZenonT(30), <2>8, <2>9, <4>1
    <3> QED  BY ZenonT(30), <2>2, <3>1
  <2> HIDE DEF new, o
  <2>11. open'[m] = NoJob /\ (\A n \in Monitors : n # m => open'[n] = open[n])
         /\ open' \in [Monitors -> Jobs \cup {NoJob}]
    BY ZenonT(30), <1>1, <2>2
  <2>12. ASSUME NEW i \in Jobs
         PROVE  incident'[i].status = "open" <=> open'[MonitorOf[i]] = i
    <3>1. CASE i = o
      BY ZenonT(30), <1>1, <2>1, <2>6, <2>7, <2>8, <2>9, <2>11, <3>1
    <3>2. CASE i # o
      <4>1. incident'[i].status = "open" <=> incident[i].status = "open"
        BY ZenonT(30), <2>7, <2>8, <2>9, <3>2
      <4>2. open[m] = o
        BY ZenonT(30) DEF o
      <4> QED  BY ZenonT(30), <1>1, <2>11, <3>2, <4>1, <4>2
    <3> QED  BY ZenonT(30), <3>1, <3>2
  <2>13. \A n \in Monitors : open'[n] # NoJob => MonitorOf[open'[n]] = n
    BY ZenonT(30), <1>1, <2>11
  <2>14. ASSUME NEW i \in Jobs, incident'[i].status = "resolved"
         PROVE  InWindow(r, i)
    <3>1. mid[i].status = "resolved" /\ i \notin out
      BY ZenonT(30), <2>8, <2>9, <2>14
    <3>2. i = o \/ InWindow(resolved, i)
      BY ZenonT(30), <1>1, <2>7, <3>1
    <3> QED  BY ZenonT(30), <2>5, <3>1, <3>2
  <2>15. IncidentsInv'
    BY ZenonT(30), <2>2, <2>5, <2>10, <2>11, <2>12, <2>13, <2>14 DEF IncidentsInv
  <2>16. \A i \in Jobs : incident'[i].failures <= incident[i].failures
    <3> SUFFICES ASSUME NEW i \in Jobs  PROVE incident'[i].failures <= incident[i].failures
      BY ZenonT(30)
    <3>1. incident'[i].failures \in {0, incident[i].failures}
      BY ZenonT(30), <2>6, <2>7, <2>8, <2>9
    <3>2. incident[i].failures \in Nat
      BY ZenonT(30), <1>1
    <3> QED  BY <3>1, <3>2
  <2>17. ASSUME NEW n \in Monitors, n # m, open[n] # NoJob
         PROVE  incident'[open[n]] = incident[open[n]]
    <3>1. open[n] \in Jobs
      BY ZenonT(30), <1>1, <2>17
    <3>2. MonitorOf[open[n]] = n
      BY ZenonT(30), <1>1, <2>17
    <3>3. open[n] # o
      BY ZenonT(30), <2>1, <2>17, <3>2
    <3>4. mid[open[n]] = incident[open[n]]
      BY ZenonT(30), <2>7, <3>1, <3>3
    <3>5. incident[open[n]].status = "open"
      BY ZenonT(30), <1>1, <3>1, <3>2
    <3> QED  BY ZenonT(30), <2>9, <3>1, <3>4, <3>5
  <2> QED  BY ZenonT(30), <2>11, <2>15, <2>16, <2>17 DEF Resolves
<1> QED  BY ZenonT(30), <1>2, <1>3

\* What the record of a failed check does to the incidents.
Fails(m, j) ==
  /\ \A n \in Monitors : n # m => open'[n] = open[n]
  /\ \A n \in Monitors : n # m /\ open[n] # NoJob => incident'[open[n]] = incident[open[n]]
  /\ \A i \in Jobs : incident'[i].failures \in {1, incident[i].failures, incident[i].failures + 1}
  /\ open[m] = NoJob => open'[m] = j /\ incident'[j].failures = 1
  /\ open[m] # NoJob => /\ open'[m] = open[m]
                        /\ incident'[open[m]].failures = incident[open[m]].failures + 1

LEMMA FailureKeepsIncidents ==
  ASSUME IncidentsInv, NEW j \in Jobs, NEW m \in Monitors, MonitorOf[j] = m,
         UpdateIncident(m, j, FALSE)
  PROVE  IncidentsInv' /\ Fails(m, j)
<1>1. /\ incident \in [Jobs -> IncidentRow] /\ open \in [Monitors -> Jobs \cup {NoJob}]
      /\ NoJob \notin Jobs
      /\ \A i \in Jobs : MonitorOf[i] \in Monitors
      /\ \A i \in Jobs : incident[i].status = "open" <=> open[MonitorOf[i]] = i
      /\ \A n \in Monitors : open[n] # NoJob => MonitorOf[open[n]] = n
      /\ \A i \in Jobs : incident[i].status = "resolved" => InWindow(resolved, i)
      /\ \A i \in Jobs : incident[i].failures \in Nat
  BY ZenonT(30), StoreAssumption DEF IncidentsInv, IncidentRow
<1>2. resolved' = resolved
  BY ZenonT(30) DEF UpdateIncident
<1>3. CASE open[m] = NoJob
  <2> DEFINE row == [status |-> "open", failures |-> 1]
  <2>1. incident' = [incident EXCEPT ![j] = row] /\ open' = [open EXCEPT ![m] = j]
    BY ZenonT(30), <1>3 DEF UpdateIncident
  <2>2. row \in IncidentRow /\ row.status = "open" /\ row.failures = 1
    BY ZenonT(30) DEF IncidentRow
  <2> HIDE DEF row
  <2>3. /\ incident' \in [Jobs -> IncidentRow]
        /\ \A i \in Jobs : incident'[i] = IF i = j THEN row ELSE incident[i]
    BY ZenonT(30), <1>1, <2>1, <2>2
  <2>4. /\ open' \in [Monitors -> Jobs \cup {NoJob}]
        /\ \A n \in Monitors : open'[n] = IF n = m THEN j ELSE open[n]
    BY ZenonT(30), <1>1, <2>1
  <2>5. \A i \in Jobs : incident'[i].status = "open" <=> open'[MonitorOf[i]] = i
    BY <1>1, <1>3, <2>2, <2>3, <2>4
  <2>6. \A n \in Monitors : open'[n] # NoJob => MonitorOf[open'[n]] = n
    BY ZenonT(30), <1>1, <2>4
  <2>7. \A i \in Jobs : incident'[i].status = "resolved" => InWindow(resolved, i)
    BY ZenonT(30), <1>1, <2>2, <2>3
  <2>8. IncidentsInv'
    BY ZenonT(30), <1>2, <2>3, <2>4, <2>5, <2>6, <2>7 DEF IncidentsInv
  <2>9. Fails(m, j)
    <3>1. ASSUME NEW n \in Monitors, n # m, open[n] # NoJob
          PROVE  incident'[open[n]] = incident[open[n]]
      <4>1. open[n] \in Jobs
        BY ZenonT(30), <1>1, <3>1
      <4>2. MonitorOf[open[n]] = n
        BY ZenonT(30), <1>1, <3>1
      <4>3. open[n] # j
        BY ZenonT(30), <3>1, <4>2
      <4> QED  BY ZenonT(30), <2>3, <4>1, <4>3
    <3>2. \A n \in Monitors : n # m => open'[n] = open[n]
      BY ZenonT(30), <2>4
    <3>3. \A i \in Jobs : incident'[i].failures \in {1, incident[i].failures, incident[i].failures + 1}
      BY ZenonT(30), <2>2, <2>3
    <3>4. open'[m] = j /\ incident'[j].failures = 1
      BY ZenonT(30), <2>2, <2>3, <2>4
    <3> QED  BY ZenonT(30), <1>3, <3>1, <3>2, <3>3, <3>4 DEF Fails
  <2> QED  BY ZenonT(30), <2>8, <2>9
<1>4. CASE open[m] # NoJob
  <2> DEFINE o == open[m]
             row == [incident[o] EXCEPT !.failures = incident[o].failures + 1]
  <2>1. o \in Jobs /\ MonitorOf[o] = m /\ incident[o].status = "open" /\ incident[o] \in IncidentRow
    BY <1>1, <1>4
  <2>2. incident' = [incident EXCEPT ![o] = row] /\ open' = open
    BY ZenonT(30), <1>1, <1>4, <2>1 DEF UpdateIncident
  <2>3. row \in IncidentRow /\ row.status = "open" /\ row.failures = incident[o].failures + 1
    BY <2>1 DEF IncidentRow
  <2> HIDE DEF row
  <2>4. /\ incident' \in [Jobs -> IncidentRow]
        /\ \A i \in Jobs : incident'[i] = IF i = o THEN row ELSE incident[i]
    BY ZenonT(30), <1>1, <2>1, <2>2, <2>3
  <2>5. \A i \in Jobs : incident'[i].status = incident[i].status
    BY ZenonT(30), <2>1, <2>3, <2>4
  <2>6. IncidentsInv'
    BY ZenonT(30), <1>1, <1>2, <2>2, <2>4, <2>5 DEF IncidentsInv
  <2>7. ASSUME NEW n \in Monitors, n # m, open[n] # NoJob
        PROVE  incident'[open[n]] = incident[open[n]]
    <3>1. open[n] \in Jobs /\ open[n] # o
      BY ZenonT(30), <1>1, <2>1, <2>7
    <3> QED  BY ZenonT(30), <2>4, <3>1
  <2> HIDE DEF o
  <2>8. incident'[o].failures = incident[o].failures + 1
    BY ZenonT(30), <2>1, <2>3, <2>4
  <2>9. \A i \in Jobs : incident'[i].failures \in {1, incident[i].failures, incident[i].failures + 1}
    BY ZenonT(30), <2>3, <2>4
  <2>10. Fails(m, j)
    BY ZenonT(30), <1>4, <2>2, <2>7, <2>8, <2>9 DEF Fails, o
  <2> QED  BY ZenonT(30), <2>6, <2>10
<1> QED  BY ZenonT(30), <1>3, <1>4

\* The incidents go with their monitor; the resolved order keeps their ids.
LEMMA DeleteKeepsIncidents ==
  ASSUME IncidentsInv, NEW m \in Monitors, Delete(m)
  PROVE  IncidentsInv' /\ Resolves(m)
<1>1. /\ incident \in [Jobs -> IncidentRow] /\ open \in [Monitors -> Jobs \cup {NoJob}]
      /\ NoJob \notin Jobs
      /\ \A i \in Jobs : MonitorOf[i] \in Monitors
      /\ \A i \in Jobs : incident[i].status = "open" <=> open[MonitorOf[i]] = i
      /\ \A n \in Monitors : open[n] # NoJob => MonitorOf[open[n]] = n
      /\ \A i \in Jobs : incident[i].status = "resolved" => InWindow(resolved, i)
      /\ \A i \in Jobs : incident[i].failures \in Nat
  BY ZenonT(30), StoreAssumption DEF IncidentsInv, IncidentRow
<1>2. /\ incident' = [j \in Jobs |-> IF MonitorOf[j] = m THEN NoIncident ELSE incident[j]]
      /\ open' = [open EXCEPT ![m] = NoJob] /\ resolved' = resolved
  BY ZenonT(30) DEF Delete
<1>3. NoIncident \in IncidentRow /\ NoIncident.status = "none" /\ NoIncident.failures = 0
  BY ZenonT(30) DEF NoIncident, IncidentRow
<1>4. /\ incident' \in [Jobs -> IncidentRow]
      /\ \A i \in Jobs : incident'[i] = IF MonitorOf[i] = m THEN NoIncident ELSE incident[i]
  BY ZenonT(30), <1>1, <1>2, <1>3
<1>5. /\ open' \in [Monitors -> Jobs \cup {NoJob}] /\ open'[m] = NoJob
      /\ \A n \in Monitors : n # m => open'[n] = open[n]
  BY ZenonT(30), <1>1, <1>2
<1>6. ASSUME NEW i \in Jobs  PROVE incident'[i].status = "open" <=> open'[MonitorOf[i]] = i
  <2>1. CASE MonitorOf[i] = m
    <3>1. incident'[i].status = "none"
      BY ZenonT(30), <1>3, <1>4, <2>1
    <3>2. open'[MonitorOf[i]] = NoJob /\ NoJob # i
      BY ZenonT(30), <1>1, <1>5, <2>1
    <3> QED  BY ZenonT(30), <3>1, <3>2
  <2>2. CASE MonitorOf[i] # m
    <3>1. incident'[i] = incident[i]
      BY ZenonT(30), <1>4, <2>2
    <3>2. open'[MonitorOf[i]] = open[MonitorOf[i]]
      BY ZenonT(30), <1>1, <1>5, <2>2
    <3> QED  BY ZenonT(30), <1>1, <3>1, <3>2
  <2> QED  BY ZenonT(30), <2>1, <2>2
<1>7. \A n \in Monitors : open'[n] # NoJob => MonitorOf[open'[n]] = n
  BY ZenonT(30), <1>1, <1>5
<1>8. \A i \in Jobs : incident'[i].status = "resolved" => InWindow(resolved, i)
  BY ZenonT(30), <1>1, <1>3, <1>4
<1>9. IncidentsInv'
  BY ZenonT(30), <1>2, <1>4, <1>5, <1>6, <1>7, <1>8 DEF IncidentsInv
<1>10. \A i \in Jobs : incident'[i].failures <= incident[i].failures
  <2> SUFFICES ASSUME NEW i \in Jobs  PROVE incident'[i].failures <= incident[i].failures
    BY ZenonT(30)
  <2>1. incident[i].failures \in Nat
    BY ZenonT(30), <1>1
  <2>2. incident'[i].failures \in {0, incident[i].failures}
    BY ZenonT(30), <1>3, <1>4
  <2> QED  BY <2>1, <2>2
<1>11. \A n \in Monitors : n # m /\ open[n] # NoJob => incident'[open[n]] = incident[open[n]]
  BY <1>1, <1>4
<1> QED  BY ZenonT(30), <1>5, <1>9, <1>10, <1>11 DEF Resolves

-----------------------------------------------------------------------------
(* What a step does to the counts and the history *)

LEMMA EndedGrows ==
  ASSUME JobsKept
  PROVE  /\ Cardinality(Ended) \in Nat /\ Cardinality(Ended') \in Nat
         /\ Cardinality(Ended) <= Cardinality(Ended')
         /\ \A j : j \in Ended' /\ j \notin Ended => Cardinality(Ended) + 1 <= Cardinality(Ended')
<1>1. Ended \subseteq Ended' /\ IsFiniteSet(Jobs) /\ Ended' \subseteq Jobs
  BY ZenonT(30), StoreAssumption DEF JobsKept, Ended
<1>2. IsFiniteSet(Ended')
  BY ZenonT(30), <1>1, FS_Subset
<1>3. IsFiniteSet(Ended) /\ Cardinality(Ended) <= Cardinality(Ended')
  BY ZenonT(30), <1>1, <1>2, FS_Subset
<1>4. Cardinality(Ended) \in Nat /\ Cardinality(Ended') \in Nat
  BY ZenonT(30), <1>2, <1>3, FS_CardinalityType
<1>5. ASSUME NEW j, j \in Ended', j \notin Ended
      PROVE  Cardinality(Ended) + 1 <= Cardinality(Ended')
  <2>1. Cardinality(Ended \cup {j}) = Cardinality(Ended) + 1
    BY ZenonT(30), <1>3, <1>5, FS_AddElement
  <2>2. Ended \cup {j} \in SUBSET Ended'
    BY ZenonT(30), <1>1, <1>5
  <2>3. Cardinality(Ended \cup {j}) <= Cardinality(Ended')
    BY ZenonT(30), <1>2, <2>2, FS_Subset
  <2> QED  BY ZenonT(30), <2>1, <2>3
<1> QED  BY ZenonT(30), <1>3, <1>4, <1>5

LEMMA CountsKept ==
  ASSUME IncidentsInv, IncidentsInv', CountInv, JobsKept,
         \A i \in Jobs : incident'[i].failures <= incident[i].failures
  PROVE  CountInv'
<1> SUFFICES ASSUME NEW i \in Jobs  PROVE incident'[i].failures <= Cardinality(Ended')
  BY ZenonT(30) DEF CountInv
<1>1. incident[i].failures \in Nat /\ incident'[i].failures \in Nat
  BY ZenonT(30) DEF IncidentsInv, IncidentRow
<1>2. /\ Cardinality(Ended) \in Nat /\ Cardinality(Ended') \in Nat
      /\ Cardinality(Ended) <= Cardinality(Ended')
  BY ZenonT(30), EndedGrows
<1>3. incident[i].failures <= Cardinality(Ended) /\ incident'[i].failures <= incident[i].failures
  BY ZenonT(30) DEF CountInv
<1> QED  BY SMTT(30), <1>1, <1>2, <1>3

LEMMA FailureKeepsCounts ==
  ASSUME IncidentsInv, CountInv, JobsKept, NEW m, NEW j, Fails(m, j),
         j \in Ended', j \notin Ended
  PROVE  CountInv'
<1> SUFFICES ASSUME NEW i \in Jobs  PROVE incident'[i].failures <= Cardinality(Ended')
  BY ZenonT(30) DEF CountInv
<1>1. incident[i].failures \in Nat
  BY ZenonT(30) DEF IncidentsInv, IncidentRow
<1>2. /\ Cardinality(Ended) \in Nat /\ Cardinality(Ended') \in Nat
      /\ Cardinality(Ended) + 1 <= Cardinality(Ended')
  BY ZenonT(30), EndedGrows
<1>3. incident[i].failures <= Cardinality(Ended)
  BY ZenonT(30) DEF CountInv
<1>4. incident'[i].failures \in {1, incident[i].failures, incident[i].failures + 1}
  BY ZenonT(30) DEF Fails
<1> DEFINE before == incident[i].failures
           after == incident'[i].failures
           ended == Cardinality(Ended)
           ended2 == Cardinality(Ended')
<1>5. /\ before \in Nat /\ ended \in Nat /\ ended2 \in Nat /\ ended + 1 <= ended2
      /\ before <= ended /\ after \in {1, before, before + 1}
  BY ZenonT(30), <1>1, <1>2, <1>3, <1>4
<1> HIDE DEF before, after, ended, ended2
<1>6. after <= ended2
  BY <1>5
<1> QED  BY ZenonT(30), <1>6 DEF after, ended2

\* The clause of HistoryInv for one monitor with an open incident.
Backed(records, failures) ==
  /\ failures >= 1 /\ Len(records) >= 1
  /\ \A i \in 1..Len(records) : i + failures > Len(records) => ~records[i].success

LEMMA HistoryElsewhere ==
  ASSUME HistoryInv, NEW m \in Monitors, checks' \in [Monitors -> Seq(Record)],
         \A n \in Monitors : n # m =>
           /\ checks'[n] = checks[n] /\ open'[n] = open[n]
           /\ open[n] # NoJob => incident'[open[n]] = incident[open[n]],
         Len(checks'[m]) <= MaxChecks,
         open'[m] # NoJob => Backed(checks'[m], incident'[open'[m]].failures)
  PROVE  HistoryInv'
<1>1. ASSUME NEW n \in Monitors, open'[n] # NoJob
      PROVE  Backed(checks'[n], incident'[open'[n]].failures)
  <2>1. CASE n = m
    BY ZenonT(30), <1>1, <2>1
  <2>2. CASE n # m
    BY ZenonT(30), <1>1, <2>2 DEF HistoryInv, Backed
  <2> QED  BY ZenonT(30), <2>1, <2>2
<1>2. \A n \in Monitors : Len(checks'[n]) <= MaxChecks
  BY ZenonT(30) DEF HistoryInv
<1> QED  BY ZenonT(30), <1>1, <1>2 DEF HistoryInv, Backed

\* The newest record is kept, and of the others all but perhaps the oldest.
LEMMA LatestKept ==
  ASSUME NEW records \in Seq(Record), Len(records) <= MaxChecks, NEW rec \in Record
  PROVE  LET new == LatestRecords(Append(records, rec)) IN
         /\ new \in Seq(Record) /\ Len(new) \in Nat /\ Len(records) \in Nat
         /\ Len(new) >= 1 /\ Len(new) <= MaxChecks
         /\ Len(new) \in {Len(records), Len(records) + 1}
         /\ new[Len(new)] = rec
         /\ \A i \in 1..(Len(new) - 1) : new[i] = records[i + (Len(records) + 1 - Len(new))]
<1> DEFINE new == LatestRecords(Append(records, rec))
           n == Len(records)
           a == Append(records, rec)
           d == Excess(a, Len(a), MaxChecks)
           low == d + 1
           high == Len(a)
<1>1. n \in Nat /\ MaxChecks \in Nat /\ MaxChecks >= 1 /\ n <= MaxChecks
  BY StoreAssumption, LenFacts
<1>2. /\ a \in Seq(Record) /\ Len(a) = n + 1 /\ a[n + 1] = rec
      /\ \A i \in 1..n : a[i] = records[i]
  BY AppendFacts
<1> HIDE DEF a
<1>3. d \in {0, 1} /\ n + 1 - d <= MaxChecks /\ n + 1 - d >= 1
  <2> HIDE DEF n
  <2> QED  BY <1>1, <1>2 DEF Excess
<1>4. low \in Int /\ high \in Int /\ low = d + 1 /\ high = n + 1
  BY <1>1, <1>2, <1>3
<1>5. \A i \in low..high : a[i] \in Record
  <2>1. \A i \in 1..Len(a) : a[i] \in Record
    BY ZenonT(30), <1>2, ElementFacts
  <2>2. \A i \in low..high : i \in 1..Len(a)
    BY <1>1, <1>2, <1>3, <1>4
  <2> QED  BY ZenonT(30), <2>1, <2>2
<1>6. new = SubSeq(a, low, high)
  BY ZenonT(30) DEF LatestRecords, a
<1> HIDE DEF low, high, d, n
<1>7. /\ new \in Seq(Record)
      /\ Len(new) = IF low <= high THEN high - low + 1 ELSE 0
      /\ \A i \in 1..(high - low + 1) : new[i] = a[low + i - 1]
  BY SMTT(30), <1>4, <1>5, <1>6, SubSeqFacts
<1>8. Len(new) = n + 1 - d /\ high - low + 1 = n + 1 - d
  BY SMTT(30), <1>1, <1>3, <1>4, <1>7
<1>9. \A i \in 1..(n + 1 - d) : new[i] = a[i + d]
  <2> SUFFICES ASSUME NEW i \in 1..(n + 1 - d)  PROVE new[i] = a[i + d]
    BY ZenonT(30)
  <2>1. low + i - 1 = i + d /\ i \in 1..(high - low + 1)
    BY <1>1, <1>3, <1>4, <1>8
  <2> QED  BY ZenonT(30), <1>7, <2>1
<1>10. new[Len(new)] = rec
  <2>1. n + 1 - d \in 1..(n + 1 - d) /\ (n + 1 - d) + d = n + 1
    BY <1>1, <1>3
  <2> QED  BY ZenonT(30), <1>2, <1>8, <1>9, <2>1
<1>11. \A i \in 1..(Len(new) - 1) : new[i] = records[i + (n + 1 - Len(new))]
  <2> SUFFICES ASSUME NEW i \in 1..(Len(new) - 1)
               PROVE  new[i] = records[i + (n + 1 - Len(new))]
    BY ZenonT(30)
  <2>1. i \in 1..(n + 1 - d) /\ i + d \in 1..n /\ n + 1 - Len(new) = d
    BY <1>1, <1>3, <1>8
  <2> QED  BY ZenonT(30), <1>2, <1>9, <2>1
<1>12. /\ Len(new) \in Nat /\ n \in Nat /\ Len(new) >= 1 /\ Len(new) <= MaxChecks
       /\ Len(new) \in {n, n + 1}
  BY SMTT(30), <1>1, <1>3, <1>8
<1> HIDE DEF new
<1> QED  BY ZenonT(30), <1>7, <1>10, <1>11, <1>12 DEF n, new

LEMMA FailureBacked ==
  ASSUME NEW records \in Seq(Record), Len(records) <= MaxChecks, NEW j \in Jobs,
         NEW f \in Nat, f = 0 \/ Backed(records, f)
  PROVE  Backed(LatestRecords(Append(records, [job |-> j, success |-> FALSE])), f + 1)
<1> DEFINE rec == [job |-> j, success |-> FALSE]
           new == LatestRecords(Append(records, rec))
<1>1. rec \in Record /\ ~rec.success
  BY ZenonT(30) DEF Record
<1> HIDE DEF rec
<1>2. /\ Len(new) \in Nat /\ Len(records) \in Nat /\ Len(new) >= 1
      /\ Len(new) \in {Len(records), Len(records) + 1}
      /\ new[Len(new)] = rec
      /\ \A i \in 1..(Len(new) - 1) : new[i] = records[i + (Len(records) + 1 - Len(new))]
  BY ZenonT(30), <1>1, LatestKept
<1> HIDE DEF new
<1>3. ASSUME NEW i \in 1..Len(new), i + (f + 1) > Len(new)
      PROVE  ~new[i].success
  <2>1. CASE i = Len(new)
    BY ZenonT(30), <1>1, <1>2, <2>1
  <2>2. CASE i # Len(new)
    <3> DEFINE k == i + (Len(records) + 1 - Len(new))
    <3>1. i \in 1..(Len(new) - 1)
      BY <1>2, <2>2
    <3>2. k \in 1..Len(records) /\ k + f > Len(records) /\ f # 0
      BY SMTT(30), <1>2, <1>3, <3>1
    <3>3. new[i] = records[k]
      BY ZenonT(30), <1>2, <3>1
    <3> HIDE DEF k
    <3> QED  BY ZenonT(30), <3>2, <3>3 DEF Backed
  <2> QED  BY ZenonT(30), <2>1, <2>2
<1>4. f + 1 >= 1
  OBVIOUS
<1>5. Backed(new, f + 1)
  BY ZenonT(30), <1>2, <1>3, <1>4 DEF Backed
<1> QED  BY ZenonT(30), <1>5 DEF new, rec

-----------------------------------------------------------------------------
(* The invariant *)

\* Most steps touch neither results nor incidents.
LEMMA QuietStep ==
  ASSUME StoreInv, URLInv', JobsKept, UNCHANGED <<resultVars, incidentVars>>
  PROVE  StoreInv'
<1>1. /\ checks' = checks /\ processed' = processed /\ processedList' = processedList
      /\ incident' = incident /\ open' = open /\ resolved' = resolved
  BY ZenonT(30) DEF resultVars, incidentVars
<1>2. ProcessedInv' /\ IncidentsInv' /\ HistoryInv'
  BY ZenonT(30), <1>1 DEF StoreInv, ProcessedInv, IncidentsInv, HistoryInv
<1>3. \A i \in Jobs : incident'[i].failures <= incident[i].failures
  BY <1>1 DEF StoreInv, IncidentsInv, IncidentRow
<1>4. CountInv'
  BY ZenonT(30), <1>2, <1>3, CountsKept DEF StoreInv
<1> QED  BY ZenonT(30), <1>2, <1>4 DEF StoreInv, JobsKept

LEMMA UpdateKeeps ==
  ASSUME StoreInv, NEW m \in Monitors, NEW url \in URLs, NEW enabled \in BOOLEAN,
         NEW other \in BOOLEAN, NEW interval \in BOOLEAN, Update(m, url, enabled, other, interval)
  PROVE  StoreInv'
<1>1. URLInv' /\ SameMonitors
  BY ZenonT(30), UpdateKeepsURLs DEF StoreInv
<1>2. JobsKept
  <2>1. FinishActiveJob(m) \/ UNCHANGED jobVars
    BY ZenonT(30) DEF Update
  <2> QED  BY ZenonT(30), <1>1, <2>1, ActiveJobFinished, JobsUntouched DEF StoreInv
<1>3. checks' = checks /\ processed' = processed /\ processedList' = processedList
  BY ZenonT(30) DEF Update, resultVars
<1>4. CASE UNCHANGED incidentVars
  BY ZenonT(30), <1>1, <1>2, <1>3, <1>4, QuietStep DEF resultVars
<1>5. CASE ResolveOpenIncident(m)
  <2>1. IncidentsInv' /\ Resolves(m)
    BY ZenonT(30), <1>5, ResolveKeepsIncidents DEF StoreInv
  <2>2. ProcessedInv'
    BY ZenonT(30), <1>3 DEF StoreInv, ProcessedInv
  <2>3. CountInv'
    BY ZenonT(30), <1>2, <2>1, CountsKept DEF StoreInv, Resolves
  <2>4. HistoryInv'
    <3>1. HistoryInv
      BY ZenonT(30) DEF StoreInv
    <3>2. checks' \in [Monitors -> Seq(Record)] /\ Len(checks'[m]) <= MaxChecks
      BY ZenonT(30), <1>3, <3>1 DEF HistoryInv
    <3>3. /\ open'[m] = NoJob
          /\ \A n \in Monitors : n # m =>
               /\ checks'[n] = checks[n] /\ open'[n] = open[n]
               /\ open[n] # NoJob => incident'[open[n]] = incident[open[n]]
      BY ZenonT(30), <1>3, <2>1 DEF Resolves
    <3> QED  BY ZenonT(30), <3>1, <3>2, <3>3, HistoryElsewhere
  <2> QED  BY ZenonT(30), <1>1, <1>2, <2>1, <2>2, <2>3, <2>4 DEF StoreInv, JobsKept
<1>6. ResolveOpenIncident(m) \/ UNCHANGED incidentVars
  BY ZenonT(30) DEF Update
<1> QED  BY ZenonT(30), <1>4, <1>5, <1>6

LEMMA DeleteKeeps ==
  ASSUME StoreInv, NEW m \in Monitors, Delete(m)
  PROVE  StoreInv'
<1>1. URLInv' /\ JobsKept
  BY ZenonT(30), DeleteKeepsURLs, DeleteKeepsJobs DEF StoreInv
<1>2. IncidentsInv' /\ Resolves(m)
  BY ZenonT(30), DeleteKeepsIncidents DEF StoreInv
<1>3. ProcessedInv'
  BY ZenonT(30) DEF Delete, StoreInv, ProcessedInv
<1>4. CountInv'
  BY ZenonT(30), <1>1, <1>2, CountsKept DEF StoreInv, Resolves
<1>5. HistoryInv'
  <2>1. checks' = [checks EXCEPT ![m] = <<>>] /\ checks \in [Monitors -> Seq(Record)]
    BY ZenonT(30) DEF Delete, StoreInv, HistoryInv
  <2>2. <<>> \in Seq(Record) /\ Len(<<>>) = 0
    BY ZenonT(30), EmptyFacts
  <2>3. /\ checks' \in [Monitors -> Seq(Record)] /\ checks'[m] = <<>>
        /\ \A n \in Monitors : n # m => checks'[n] = checks[n]
    BY ZenonT(30), <2>1, <2>2
  <2>4. Len(checks'[m]) <= MaxChecks
    BY <2>2, <2>3, StoreAssumption
  <2> QED  BY ZenonT(30), <1>2, <2>3, <2>4, HistoryElsewhere DEF StoreInv, Resolves
<1> QED  BY ZenonT(30), <1>1, <1>2, <1>3, <1>4, <1>5 DEF StoreInv, JobsKept

\* A result is stored at most once, for the job its monitor waits for.
LEMMA AddCheckKeeps ==
  ASSUME StoreInv, NEW l \in Held, NEW success \in BOOLEAN, AddCheck(l, success), Stores(l)
  PROVE  StoreInv'
<1> DEFINE j == l.job
           m == MonitorOf[j]
           rec == [job |-> j, success |-> success]
           new == LatestRecords(Append(checks[m], rec))
<1>1. j \in Jobs /\ m \in Monitors /\ rec \in Record
  BY ZenonT(30), StoreAssumption DEF Held, Record
<1>2. job[j].status \in Active /\ j \notin processed
  BY ZenonT(30) DEF Stores, OwnsLease, Active
<1>3. /\ RememberProcessedJob(j) /\ Commit(Settle(Jobs0, j, "completed"))
      /\ active' = [active EXCEPT ![m] = NoJob]
      /\ monitor' = [Rescheduled(j) EXCEPT ![m].checked = TRUE]
      /\ UpdateIncident(m, j, success) /\ byURL' = byURL
  BY ZenonT(30) DEF AddCheck
<1>4. checks' = [checks EXCEPT ![m] = new]
  BY ZenonT(30), <1>1 DEF AddCheck, StoreInv, HistoryInv
<1> HIDE DEF j, m
<1>5. URLInv' /\ SameMonitors
  <2> DEFINE next == Rescheduled(j)
             row == [next[m] EXCEPT !.checked = TRUE]
  <2>1. /\ next \in [Monitors -> MonitorRow]
        /\ \A n \in Monitors : next[n].status = monitor[n].status /\ next[n].url = monitor[n].url
    BY ZenonT(30), <1>1, Rescheduling DEF StoreInv
  <2>2. monitor' = [next EXCEPT ![m] = row]
    BY ZenonT(30), <1>1, <1>3, <2>1
  <2> HIDE DEF next
  <2>3. next[m] \in MonitorRow
    BY ZenonT(30), <1>1, <2>1
  <2>4. row \in MonitorRow
    BY <2>3, ZenonT(40) DEF MonitorRow
  <2>5. row.status = next[m].status /\ row.url = next[m].url
    BY ZenonT(30), <2>3 DEF MonitorRow
  <2> HIDE DEF row
  <2>6. SameIdentities
    BY ZenonT(30), <1>1, <1>3, <2>1, <2>2, <2>4, <2>5 DEF SameIdentities
  <2> QED  BY ZenonT(30), <2>6, IdentitiesKept DEF StoreInv
<1>6. JobsKept /\ j \in Ended' /\ j \notin Ended
  BY ZenonT(30), <1>1, <1>2, <1>3, <1>5, JobSettled DEF StoreInv, Terminal, m
<1>7. ProcessedInv'
  BY ZenonT(30), <1>1, <1>2, <1>3, RememberingKeepsProcessed DEF StoreInv
<1>8. checks[m] \in Seq(Record) /\ Len(checks[m]) <= MaxChecks
  BY ZenonT(30), <1>1 DEF StoreInv, HistoryInv
<1>9. new \in Seq(Record) /\ Len(new) <= MaxChecks
  <2> HIDE DEF rec
  <2> QED  BY ZenonT(30), <1>1, <1>8, LatestKept
<1>10. /\ checks' \in [Monitors -> Seq(Record)] /\ checks'[m] = new
       /\ \A n \in Monitors : n # m => checks'[n] = checks[n]
  <2> HIDE DEF new
  <2> QED  BY ZenonT(30), <1>1, <1>4, <1>9 DEF StoreInv, HistoryInv
<1>11. CASE success = TRUE
  <2>1. ResolveOpenIncident(m)
    BY ZenonT(30), <1>3, <1>11 DEF UpdateIncident
  <2>2. IncidentsInv' /\ Resolves(m)
    BY ZenonT(30), <1>1, <2>1, ResolveKeepsIncidents DEF StoreInv
  <2>3. CountInv'
    BY ZenonT(30), <1>6, <2>2, CountsKept DEF StoreInv, Resolves
  <2> HIDE DEF new
  <2>4. HistoryInv'
    BY ZenonT(30), <1>1, <1>9, <1>10, <2>2, HistoryElsewhere DEF StoreInv, Resolves
  <2> QED  BY ZenonT(30), <1>5, <1>6, <1>7, <2>2, <2>3, <2>4 DEF StoreInv, JobsKept
<1>12. CASE success = FALSE
  <2>1. UpdateIncident(m, j, FALSE)
    BY ZenonT(30), <1>3, <1>12
  <2>2. IncidentsInv' /\ Fails(m, j)
    BY ZenonT(30), <1>1, <2>1, FailureKeepsIncidents DEF StoreInv, m
  <2>3. CountInv'
    BY ZenonT(30), <1>6, <2>2, FailureKeepsCounts DEF StoreInv
  <2>4. Backed(new, incident'[open'[m]].failures)
    <3>1. CASE open[m] = NoJob
      <4>1. incident'[open'[m]].failures = 0 + 1 /\ 0 \in Nat
        <5>1. open'[m] = j /\ incident'[j].failures = 1
          BY ZenonT(30), <2>2, <3>1 DEF Fails
        <5>2. 0 + 1 = 1 /\ 0 \in Nat
          OBVIOUS
        <5> QED  BY ZenonT(30), <5>1, <5>2
      <4>2. Backed(new, 0 + 1)
        BY ZenonT(30), <1>1, <1>8, <1>12, FailureBacked
      <4> QED  BY ZenonT(30), <4>1, <4>2
    <3>2. CASE open[m] # NoJob
      <4> DEFINE f == incident[open[m]].failures
      <4>1. incident'[open'[m]].failures = f + 1
        BY ZenonT(30), <2>2, <3>2 DEF Fails
      <4>2. f \in Nat
        BY ZenonT(60), <1>1, <3>2 DEF StoreInv, IncidentsInv, IncidentRow
      <4>3. Backed(checks[m], f)
        BY ZenonT(30), <1>1, <3>2 DEF StoreInv, HistoryInv, Backed
      <4> HIDE DEF f
      <4>4. Backed(new, f + 1)
        BY ZenonT(30), <1>1, <1>8, <1>12, <4>2, <4>3, FailureBacked
      <4> QED  BY ZenonT(30), <4>1, <4>4
    <3> QED  BY ZenonT(30), <3>1, <3>2
  <2> HIDE DEF new
  <2>5. HistoryInv'
    BY ZenonT(30), <1>1, <1>9, <1>10, <2>2, <2>4, HistoryElsewhere DEF StoreInv, Fails
  <2> QED  BY ZenonT(30), <1>5, <1>6, <1>7, <2>2, <2>3, <2>5 DEF StoreInv, JobsKept
<1> QED  BY ZenonT(30), <1>11, <1>12

LEMMA MarkJobDeadKeeps ==
  ASSUME StoreInv, NEW l \in Held, MarkJobDead(l)
  PROVE  StoreInv'
<1>1. l.job \in Jobs /\ UNCHANGED <<byURL, resultVars, incidentVars>>
  BY ZenonT(30) DEF Held, MarkJobDead
<1>2. CASE ~(IsActive(l.job) /\ OwnsLease(l))
  <2>1. UNCHANGED <<monitor, jobVars>>
    BY ZenonT(30), <1>2 DEF MarkJobDead
  <2>2. URLInv' /\ SameMonitors
    BY ZenonT(30), <1>1, <2>1, MonitorsUntouched DEF StoreInv
  <2> QED  BY ZenonT(30), <1>1, <2>1, <2>2, JobsUntouched, QuietStep DEF StoreInv
<1>3. CASE IsActive(l.job) /\ OwnsLease(l)
  <2>1. /\ Commit(Settle(Jobs0, l.job, "dead")) /\ monitor' = Rescheduled(l.job)
        /\ active' = [active EXCEPT ![MonitorOf[l.job]] = NoJob]
    BY ZenonT(30), <1>3 DEF MarkJobDead
  <2>2. URLInv' /\ SameMonitors
    <3>1. SameIdentities
      BY ZenonT(30), <1>1, <2>1, Rescheduling DEF StoreInv, SameIdentities
    <3> QED  BY ZenonT(30), <3>1, IdentitiesKept DEF StoreInv
  <2>3. job[l.job].status \in Active
    BY ZenonT(30), <1>3 DEF OwnsLease, Active
  <2>4. JobsKept
    BY ZenonT(30), <1>1, <2>1, <2>2, <2>3, JobSettled DEF StoreInv, Terminal
  <2> QED  BY ZenonT(30), <1>1, <2>2, <2>4, QuietStep
<1> QED  BY ZenonT(30), <1>2, <1>3

LEMMA ClaimKeeps ==
  ASSUME StoreInv, NEW batch \in SUBSET Jobs, NEW fresh \in SUBSET Jobs,
         NEW token \in Tokens, \A j \in fresh : NewID(j), ClaimDueJobs(batch, fresh, token)
  PROVE  StoreInv'
<1> DEFINE due == [m \in Monitors |-> DueAfterRecovery(m)]
<1>1. /\ monitor' = [m \in Monitors |-> [monitor[m] EXCEPT !.due = DueAfterRecovery(m)]]
      /\ UNCHANGED <<byURL, resultVars, incidentVars>>
  BY ZenonT(30) DEF ClaimDueJobs
<1>2. due \in [Monitors -> BOOLEAN]
  BY ZenonT(30) DEF DueAfterRecovery
<1>3. monitor' = [m \in Monitors |-> [monitor[m] EXCEPT !.due = due[m]]]
  BY ZenonT(30), <1>1
<1> HIDE DEF due
<1>4. URLInv' /\ SameMonitors
  BY ZenonT(30), <1>1, <1>2, <1>3, DueChanges DEF StoreInv
<1>5. JobsKept
  BY ZenonT(30), <1>4, ClaimKeepsJobs DEF StoreInv
<1> QED  BY ZenonT(30), <1>1, <1>4, <1>5, QuietStep

LEMMA BecomeDueKeeps ==
  ASSUME StoreInv, NEW m \in Monitors, BecomeDue(m)
  PROVE  StoreInv'
<1> DEFINE row == [monitor[m] EXCEPT !.due = TRUE]
<1>1. monitor \in [Monitors -> MonitorRow] /\ monitor[m] \in MonitorRow
  BY ZenonT(30) DEF StoreInv, URLInv
<1>2. monitor' = [monitor EXCEPT ![m] = row] /\ UNCHANGED <<byURL, jobVars, resultVars, incidentVars>>
  BY ZenonT(30), <1>1 DEF BecomeDue
<1>3. row \in MonitorRow
  BY <1>1, ZenonT(40) DEF MonitorRow
<1>4. row.status = monitor[m].status /\ row.url = monitor[m].url
  BY ZenonT(30), <1>1 DEF MonitorRow
<1> HIDE DEF row
<1>5. SameIdentities
  BY ZenonT(30), <1>1, <1>2, <1>3, <1>4 DEF SameIdentities
<1>6. URLInv' /\ SameMonitors
  BY ZenonT(30), <1>5, IdentitiesKept DEF StoreInv
<1> QED  BY ZenonT(30), <1>2, <1>6, JobsUntouched, QuietStep DEF StoreInv

LEMMA InitStoreInv ==
  ASSUME Init
  PROVE  StoreInv
<1>1. /\ monitor \in [Monitors -> MonitorRow] /\ \A m \in Monitors : monitor[m].status = "none"
  BY ZenonT(30), StoreAssumption DEF Init, MonitorRow
<1>2. \A m \in Monitors : ~Exists(m)
  BY ZenonT(30), <1>1 DEF Exists
<1>3. URLInv
  BY ZenonT(30), <1>1, <1>2, StoreAssumption DEF Init, URLInv, URLIndexExact
<1>4. Unused \in JobRow /\ Unused.status = "none"
  <2>1. 0 \in 0..MaxAttempts
    BY StoreAssumption
  <2> QED  BY <2>1, ZenonT(40) DEF Unused, JobRow
<1>5. /\ Empty \in RetentionList /\ Empty.head = 0 /\ Len(Empty.order) = 0
      /\ Waiting(Empty) = {}
  <2>1. <<>> \in Seq(Jobs) /\ Len(<<>>) = 0
    BY ZenonT(30), EmptyFacts
  <2>2. Empty.order = <<>> /\ Empty.head = 0
    BY ZenonT(30) DEF Empty
  <2>3. Empty \in RetentionList
    BY ZenonT(30), <2>1 DEF Empty, RetentionList
  <2> QED  BY <2>1, <2>2, <2>3 DEF Waiting
<1>6. /\ \A max \in Nat : Short(Empty, max)
      /\ NoneTwice(Empty) /\ \A j : ~InWindow(Empty, j)
  BY <1>5 DEF Short, NoneTwice, InWindow
<1>7. MaxRetainedJobs \in Nat /\ MaxProcessed \in Nat /\ MaxRetainedIncidents \in Nat
      /\ NoJob \notin Jobs /\ \A j \in Jobs : MonitorOf[j] \in Monitors
  BY ZenonT(30), StoreAssumption
<1>8. JobsInv
  <2>1. job \in [Jobs -> JobRow] /\ \A j \in Jobs : job[j].status = "none"
    BY ZenonT(30), <1>4 DEF Init
  <2>2. Jobs0.row = job /\ Jobs0.list = Empty
    BY ZenonT(30) DEF Jobs0, Init
  <2>3. TerminalOrder(Jobs0)
    BY ZenonT(30), <1>6, <1>7, <2>1, <2>2 DEF TerminalOrder, Terminal
  <2>4. ActiveIndexExact
    BY ZenonT(30), <1>2, <1>7, <2>1 DEF ActiveIndexExact, Active
  <2> QED  BY ZenonT(30), <1>5, <2>1, <2>3, <2>4 DEF JobsInv, Init
<1>9. ProcessedInv
  BY ZenonT(30), <1>5, <1>6, <1>7 DEF ProcessedInv, Init
<1>10. NoIncident \in IncidentRow /\ NoIncident.status = "none" /\ NoIncident.failures = 0
  BY ZenonT(30) DEF NoIncident, IncidentRow
<1>11. IncidentsInv
  BY ZenonT(30), <1>5, <1>6, <1>7, <1>10 DEF IncidentsInv, Init
<1>12. CountInv
  <2>1. Ended \subseteq Jobs /\ IsFiniteSet(Jobs)
    BY ZenonT(30), StoreAssumption DEF Ended
  <2>2. IsFiniteSet(Ended)
    BY ZenonT(30), <2>1, FS_Subset
  <2>3. Cardinality(Ended) \in Nat
    BY ZenonT(30), <2>2, FS_CardinalityType
  <2> QED  BY SMTT(30), <1>10, <2>3 DEF CountInv, Init
<1>13. HistoryInv
  <2>1. <<>> \in Seq(Record) /\ Len(<<>>) = 0 /\ MaxChecks \in Nat
    BY ZenonT(30), StoreAssumption, EmptyFacts
  <2> QED  BY <2>1 DEF HistoryInv, Init
<1> QED  BY ZenonT(30), <1>3, <1>8, <1>9, <1>11, <1>12, <1>13 DEF StoreInv

LEMMA NextStoreInv ==
  ASSUME StoreInv, [Next]_storeVars
  PROVE  StoreInv'
<1>0. URLInv /\ JobsInv
  BY ZenonT(30) DEF StoreInv
<1>1. CASE UNCHANGED storeVars
  <2>1. UNCHANGED <<monitor, byURL, jobVars, resultVars, incidentVars>>
    BY ZenonT(30), <1>1 DEF storeVars
  <2>2. URLInv' /\ SameMonitors
    BY ZenonT(30), <1>0, <2>1, MonitorsUntouched
  <2> QED  BY ZenonT(30), <1>0, <2>1, <2>2, JobsUntouched, QuietStep
<1>2. ASSUME NEW m \in Monitors, NEW url \in URLs, NEW enabled \in BOOLEAN, Create(m, url, enabled)
      PROVE  StoreInv'
  <2>1. URLInv' /\ JobsKept
    BY ZenonT(30), <1>0, <1>2, CreateKeepsURLs, CreateKeepsJobs
  <2> QED  BY ZenonT(30), <1>2, <2>1, QuietStep DEF Create
<1>3. ASSUME NEW m \in Monitors, NEW url \in URLs, NEW enabled \in BOOLEAN,
             NEW other \in BOOLEAN, NEW interval \in BOOLEAN,
             Update(m, url, enabled, other, interval)
      PROVE  StoreInv'
  BY ZenonT(30), <1>3, UpdateKeeps
<1>4. ASSUME NEW m \in Monitors, Delete(m)  PROVE StoreInv'
  BY ZenonT(30), <1>4, DeleteKeeps
<1>5. ASSUME NEW m \in Monitors, NEW j \in Jobs, CreateManualJob(m, j)  PROVE StoreInv'
  <2>1. UNCHANGED <<monitor, byURL, resultVars, incidentVars>>
    BY ZenonT(30), <1>5 DEF CreateManualJob
  <2>2. URLInv' /\ SameMonitors
    BY ZenonT(30), <1>0, <2>1, MonitorsUntouched
  <2>3. JobsKept
    BY ZenonT(30), <1>0, <1>5, <2>2, ManualKeepsJobs
  <2> QED  BY ZenonT(30), <2>1, <2>2, <2>3, QuietStep
<1>6. ASSUME NEW batch \in SUBSET {j \in Jobs : job[j].status \in Active},
             NEW fresh \in SUBSET {j \in Jobs : NewID(j)}, NEW token \in Tokens,
             ClaimDueJobs(batch, fresh, token)
      PROVE  StoreInv'
  <2>1. batch \in SUBSET Jobs /\ fresh \in SUBSET Jobs /\ \A j \in fresh : NewID(j)
    BY ZenonT(30)
  <2> QED  BY ZenonT(30), <1>6, <2>1, ClaimKeeps
<1>7. ASSUME JobsKept, UNCHANGED <<monitor, byURL, resultVars, incidentVars>>  PROVE StoreInv'
  <2>1. URLInv'
    BY ZenonT(30), <1>0, <1>7, MonitorsUntouched
  <2> QED  BY ZenonT(30), <1>7, <2>1, QuietStep
<1>8. ASSUME NEW c \in Held, MarkJobPublished(c) \/ ReleaseJobPublish(c)  PROVE StoreInv'
  <2>1. JobsKept
    BY ZenonT(30), <1>0, <1>8, RowWritesKeepJobs
  <2>2. UNCHANGED <<monitor, byURL, resultVars, incidentVars>>
    BY ZenonT(30), <1>8 DEF MarkJobPublished, ReleaseJobPublish, PutJob
  <2> QED  BY ZenonT(30), <1>7, <2>1, <2>2
<1>9. ASSUME RecoverQueuedJobsAfterTopologyLoss  PROVE StoreInv'
  <2>1. JobsKept
    BY ZenonT(30), <1>0, <1>9, RowWritesKeepJobs
  <2>2. UNCHANGED <<monitor, byURL, resultVars, incidentVars>>
    BY ZenonT(30), <1>9 DEF RecoverQueuedJobsAfterTopologyLoss
  <2> QED  BY ZenonT(30), <1>7, <2>1, <2>2
<1>10. ASSUME NEW j \in Jobs, NEW attempt \in 1..MaxAttempts, NEW token \in Tokens,
              MarkJobProcessing(j, attempt, token)
       PROVE  StoreInv'
  <2>1. JobsKept
    BY ZenonT(30), <1>0, <1>10, RowWritesKeepJobs
  <2>2. UNCHANGED <<monitor, byURL, resultVars, incidentVars>>
    BY ZenonT(30), <1>10 DEF MarkJobProcessing, PutJob
  <2> QED  BY ZenonT(30), <1>7, <2>1, <2>2
<1>11. ASSUME NEW l \in Held, MarkJobFailed(l)  PROVE StoreInv'
  <2>1. JobsKept
    BY ZenonT(30), <1>0, <1>11, RowWritesKeepJobs
  <2>2. UNCHANGED <<monitor, byURL, resultVars, incidentVars>>
    BY ZenonT(30), <1>11 DEF MarkJobFailed, PutJob
  <2> QED  BY ZenonT(30), <1>7, <2>1, <2>2
<1>12. ASSUME NEW l \in Held, MarkJobDead(l)  PROVE StoreInv'
  BY ZenonT(30), <1>12, MarkJobDeadKeeps
<1>13. ASSUME NEW l \in Held, NEW success \in BOOLEAN, AddCheck(l, success)  PROVE StoreInv'
  <2>1. CASE Stores(l)
    BY ZenonT(30), <1>13, <2>1, AddCheckKeeps
  <2>2. CASE ~Stores(l)
    BY ZenonT(30), <1>1, <1>13, <2>2 DEF AddCheck
  <2> QED  BY ZenonT(30), <2>1, <2>2
<1>14. ASSUME NEW j \in Jobs, ExpireLease(j) \/ BecomeAvailable(j)  PROVE StoreInv'
  <2>1. JobsKept
    BY ZenonT(30), <1>0, <1>14, RowWritesKeepJobs
  <2>2. UNCHANGED <<monitor, byURL, resultVars, incidentVars>>
    BY ZenonT(30), <1>14 DEF ExpireLease, BecomeAvailable, PutJob
  <2> QED  BY ZenonT(30), <1>7, <2>1, <2>2
<1>15. ASSUME NEW m \in Monitors, BecomeDue(m)  PROVE StoreInv'
  BY ZenonT(30), <1>15, BecomeDueKeeps
<1>16. CASE ApiStep
  BY ZenonT(30), <1>2, <1>3, <1>4, <1>5, <1>16 DEF ApiStep
<1>17. CASE SchedulerStep
  BY ZenonT(30), <1>6, <1>8, <1>9, <1>17 DEF SchedulerStep
<1>18. CASE WorkerStep
  BY ZenonT(30), <1>10, <1>11, <1>12, <1>13, <1>18 DEF WorkerStep
<1>19. CASE TimeStep
  BY ZenonT(30), <1>14, <1>15, <1>19 DEF TimeStep
<1> QED  BY ZenonT(30), <1>1, <1>16, <1>17, <1>18, <1>19 DEF Next

LEMMA StoreInvariant == Spec => []StoreInv
<1>1. Init => StoreInv
  BY ZenonT(30), InitStoreInv
<1>2. StoreInv /\ [Next]_storeVars => StoreInv'
  BY ZenonT(30), NextStoreInv
<1> QED  BY <1>1, <1>2, PTL DEF Spec

-----------------------------------------------------------------------------
(* What the invariant says of the windows *)

LEMMA WindowPlaces ==
  ASSUME NEW list \in RetentionList, list.head \in 0..Len(list.order)
  PROVE  /\ DOMAIN Window(list) = 1..(Len(list.order) - list.head)
         /\ \A j \in Jobs : j \in Range(Window(list)) <=> InWindow(list, j)
         /\ Range(Window(list)) \subseteq Jobs
<1> DEFINE w == Window(list)
           n == Len(list.order)
           h == list.head
<1>1. /\ n \in Nat /\ h \in Nat /\ h <= n
      /\ w \in Seq(Jobs) /\ Len(w) = n - h /\ \A i \in 1..(n - h) : w[i] = list.order[h + i]
  <2>1. h \in Nat
    BY ZenonT(30) DEF RetentionList
  <2> QED  BY <2>1, WindowProperties
<1>2. Waiting(list) = (h + 1)..n
  BY ZenonT(30) DEF Waiting
<1> HIDE DEF w, n, h
<1>3. DOMAIN w = 1..(n - h) /\ \A i \in 1..(n - h) : w[i] \in Jobs
  BY ZenonT(30), <1>1, LenFacts, ElementFacts
<1>4. Range(w) \subseteq Jobs
  BY ZenonT(30), <1>3 DEF Range
<1>5. ASSUME NEW j \in Jobs, j \in Range(w)  PROVE \E i \in (h + 1)..n : list.order[i] = j
  <2>1. PICK i \in 1..(n - h) : w[i] = j
    BY ZenonT(30), <1>3, <1>5 DEF Range
  <2>2. h + i \in (h + 1)..n /\ list.order[h + i] = j
    BY <1>1, <2>1
  <2> QED  BY ZenonT(30), <2>2
<1>6. ASSUME NEW j \in Jobs, NEW i \in (h + 1)..n, list.order[i] = j  PROVE j \in Range(w)
  <2>1. i - h \in 1..(n - h) /\ h + (i - h) = i
    BY <1>1
  <2>2. w[i - h] = j
    BY ZenonT(30), <1>1, <1>6, <2>1
  <2> QED  BY ZenonT(30), <1>3, <2>1, <2>2 DEF Range
<1>7. \A j \in Jobs : j \in Range(w) <=> InWindow(list, j)
  BY ZenonT(30), <1>2, <1>5, <1>6 DEF InWindow
<1> QED  BY ZenonT(30), <1>3, <1>4, <1>7 DEF w, n, h

\* The conclusion for one settled job.
LEMMA WaitsOnce ==
  ASSUME NEW list \in RetentionList, list.head \in 0..Len(list.order), NoneTwice(list),
         NEW j \in Jobs, InWindow(list, j)
  PROVE  Cardinality({i \in DOMAIN Window(list) : Window(list)[i] = j}) = 1
<1> DEFINE w == Window(list)
           n == Len(list.order)
           h == list.head
<1>1. /\ n \in Nat /\ h \in Nat /\ h <= n
      /\ \A i \in 1..(n - h) : w[i] = list.order[h + i]
  <2>1. h \in Nat
    BY ZenonT(30) DEF RetentionList
  <2>2. n \in Nat /\ \A i \in 1..(n - h) : w[i] = list.order[h + i]
    BY ZenonT(30), WindowProperties
  <2> QED  BY <2>1, <2>2
<1>2. DOMAIN w = 1..(n - h)
  BY ZenonT(30), WindowPlaces
<1>3. Waiting(list) = (h + 1)..n
  BY ZenonT(30) DEF Waiting
<1> HIDE DEF w, n, h
<1>4. PICK i \in 1..(n - h) : w[i] = j
  <2>1. PICK k \in (h + 1)..n : list.order[k] = j
    BY ZenonT(30), <1>3 DEF InWindow
  <2>2. k - h \in 1..(n - h) /\ h + (k - h) = k
    BY <1>1, <2>1
  <2>3. w[k - h] = j
    BY ZenonT(30), <1>1, <2>1, <2>2
  <2> QED  BY ZenonT(30), <2>2, <2>3
<1>5. \A k \in 1..(n - h) : w[k] = j => k = i
  <2> SUFFICES ASSUME NEW k \in 1..(n - h), w[k] = j  PROVE k = i
    BY ZenonT(30)
  <2>1. h + k \in Waiting(list) /\ h + i \in Waiting(list)
    BY <1>1, <1>3
  <2>2. list.order[h + k] = list.order[h + i]
    BY ZenonT(30), <1>1, <1>4
  <2>3. h + k = h + i
    BY ZenonT(30), <2>1, <2>2 DEF NoneTwice
  <2> QED  BY <1>1, <2>3
<1>6. {k \in DOMAIN w : w[k] = j} = {i}
  BY ZenonT(30), <1>2, <1>4, <1>5
<1>7. Cardinality({i}) = 1
  BY Zenon, FS_Singleton
<1> QED  BY ZenonT(30), <1>6, <1>7 DEF w

\* At most one unfinished job for each monitor.
LEMMA ActiveJobsBounded ==
  ASSUME JobsInv
  PROVE  LET unfinished == {j \in Jobs : job[j].status \in Active}
             living == {m \in Monitors : Exists(m)}
         IN  /\ IsFiniteSet(unfinished) /\ Cardinality(unfinished) <= Cardinality(living)
             /\ Cardinality(unfinished) \in Nat /\ Cardinality(living) \in Nat
<1> DEFINE unfinished == {j \in Jobs : job[j].status \in Active}
           living == {m \in Monitors : Exists(m)}
           f == [j \in unfinished |-> MonitorOf[j]]
<1>1. ASSUME NEW j \in unfinished
      PROVE  /\ MonitorOf[j] \in Monitors /\ active[MonitorOf[j]] = j /\ Exists(MonitorOf[j])
  BY ZenonT(30), StoreAssumption DEF JobsInv, ActiveIndexExact
<1>2. IsFiniteSet(living)
  <2>1. living \in SUBSET Monitors /\ IsFiniteSet(Monitors)
    BY ZenonT(30), StoreAssumption
  <2> QED  BY ZenonT(30), <2>1, FS_Subset
<1>3. f \in Injection(unfinished, living)
  <2>1. f \in [unfinished -> living]
    BY ZenonT(30), <1>1
  <2>2. \A j, k \in unfinished : f[j] = f[k] => j = k
    <3> SUFFICES ASSUME NEW j \in unfinished, NEW k \in unfinished, f[j] = f[k]  PROVE j = k
      BY ZenonT(30)
    <3>1. MonitorOf[j] = MonitorOf[k]
      BY ZenonT(30)
    <3> QED  BY ZenonT(30), <1>1, <3>1
  <2> HIDE DEF f, unfinished, living
  <2> QED  BY ZenonT(30), <2>1, <2>2 DEF Injection, IsInjective
<1> HIDE DEF f, unfinished, living
<1>4. IsFiniteSet(unfinished) /\ Cardinality(unfinished) <= Cardinality(living)
  BY ZenonT(30), <1>2, <1>3, FS_Injection
<1>5. Cardinality(unfinished) \in Nat /\ Cardinality(living) \in Nat
  BY ZenonT(30), <1>2, <1>4, FS_CardinalityType
<1> QED  BY ZenonT(30), <1>4, <1>5 DEF unfinished, living

-----------------------------------------------------------------------------
(* The theorems *)

\* The three indexes that MonitorStore keeps by hand beside its maps (byURL,
\* activeJobByMonitor and openIncidentByMonitor) agree with the maps after every operation,
\* whatever the callers present: a free URL can be taken, a monitor has at most one unfinished
\* job and no stale entry blocks it, and every resolved incident waits for its eviction.
THEOREM IndexesStayExact == Spec => []IndexesExact
<1>1. ASSUME StoreInv  PROVE IndexesExact
  <2>1. ASSUME NEW i \in Jobs
        PROVE  incident[i] \in [status: {"none", "open", "resolved"}, failures: 0..Cardinality(Jobs)]
    <3>1. incident[i] \in IncidentRow
      BY ZenonT(30), <1>1 DEF StoreInv, IncidentsInv
    <3>2. Ended \in SUBSET Jobs /\ IsFiniteSet(Jobs)
      BY ZenonT(30), StoreAssumption DEF Ended
    <3>3. IsFiniteSet(Ended) /\ Cardinality(Ended) <= Cardinality(Jobs)
      BY ZenonT(30), <3>2, FS_Subset
    <3>4. Cardinality(Ended) \in Nat /\ Cardinality(Jobs) \in Nat
      BY ZenonT(30), <3>2, <3>3, FS_CardinalityType
    <3>5. incident[i].failures \in Nat /\ incident[i].failures <= Cardinality(Ended)
      BY ZenonT(30), <1>1, <3>1 DEF StoreInv, CountInv, IncidentRow
    <3>6. incident[i].failures \in 0..Cardinality(Jobs)
      BY SMTT(30), <3>3, <3>4, <3>5
    <3> QED  BY ZenonT(30), <3>1, <3>6 DEF IncidentRow
  <2>2. TypeOK
    <3>1. incident \in [Jobs -> [status: {"none", "open", "resolved"}, failures: 0..Cardinality(Jobs)]]
      BY ZenonT(30), <1>1, <2>1 DEF StoreInv, IncidentsInv
    <3> QED  BY ZenonT(30), <1>1, <3>1
             DEF TypeOK, StoreInv, URLInv, JobsInv, ProcessedInv, IncidentsInv, HistoryInv, Record
  <2>3. IncidentIndexExact
    <3>1. resolved \in RetentionList /\ resolved.head \in 0..Len(resolved.order)
      BY ZenonT(30), <1>1 DEF StoreInv, IncidentsInv, Short
    <3>2. \A i \in Jobs : i \in Range(Window(resolved)) <=> InWindow(resolved, i)
      BY ZenonT(30), <3>1, WindowPlaces
    <3> QED  BY ZenonT(30), <1>1, <3>2 DEF IncidentIndexExact, StoreInv, IncidentsInv
  <2> QED  BY ZenonT(30), <1>1, <2>2, <2>3 DEF IndexesExact, StoreInv, URLInv, JobsInv
<1> QED  BY <1>1, StoreInvariant, PTL

\* However long the process runs, checkJobs holds at most maxRetainedCheckJobs settled jobs and
\* one unfinished job for each monitor, processedJobs at most maxProcessedJobIDs ids, and the
\* slices behind the three retention lists are at most twice as long as their limits, although
\* they are evicted by moving a head and copied only now and then.
THEOREM RetentionStaysBounded == Spec => []RetentionBounded
<1>1. ASSUME StoreInv  PROVE RetentionBounded
  <2>1. /\ terminal \in RetentionList /\ Short(terminal, MaxRetainedJobs) /\ NoneTwice(terminal)
        /\ \A j \in Jobs : job[j].status \in Terminal => InWindow(terminal, j)
        /\ \A j \in Jobs : InWindow(terminal, j) => job[j].status \in Terminal \cup {"gone"}
    BY ZenonT(30), <1>1 DEF StoreInv, JobsInv, TerminalOrder, Jobs0
  <2>2. terminal.head \in 0..Len(terminal.order)
        /\ Len(terminal.order) - terminal.head <= MaxRetainedJobs
    BY ZenonT(30), <2>1 DEF Short
  <2>3. CheckJobsBounded
    <3> DEFINE present == {j \in Jobs : job[j].status \in Active \cup Terminal}
               unfinished == {j \in Jobs : job[j].status \in Active}
               living == {m \in Monitors : Exists(m)}
               listed == {j \in Jobs : InWindow(terminal, j)}
    <3>1. \A j \in Jobs : job[j].status \in Terminal =>
            Cardinality({i \in DOMAIN Window(terminal) : Window(terminal)[i] = j}) = 1
      BY ZenonT(30), <2>1, <2>2, WaitsOnce
    <3>2. \A j \in Range(Window(terminal)) : job[j].status \notin Active
      BY ZenonT(30), <2>1, <2>2, WindowPlaces DEF Active, Terminal
    <3>3. /\ IsFiniteSet(unfinished) /\ Cardinality(unfinished) <= Cardinality(living)
          /\ Cardinality(unfinished) \in Nat /\ Cardinality(living) \in Nat
      BY ZenonT(30), <1>1, ActiveJobsBounded DEF StoreInv
    <3>4. /\ IsFiniteSet(listed) /\ Cardinality(listed) \in Nat
          /\ Cardinality(listed) <= Len(terminal.order) - terminal.head
      <4>1. listed \subseteq Jobs /\ \A j \in Jobs : j \in listed <=> InWindow(terminal, j)
        BY ZenonT(30)
      <4> HIDE DEF listed
      <4> QED  BY ZenonT(30), <2>1, <2>2, <4>1, WindowSize
    <3>5. present \in SUBSET (unfinished \cup listed)
      BY ZenonT(30), <2>1
    <3> HIDE DEF present, unfinished, living, listed
    <3>6. /\ IsFiniteSet(unfinished \cup listed)
          /\ Cardinality(unfinished \cup listed) =
               Cardinality(unfinished) + Cardinality(listed) - Cardinality(unfinished \cap listed)
      BY ZenonT(30), <3>3, <3>4, FS_Union
    <3>7. Cardinality(unfinished \cap listed) \in Nat
      <4>1. IsFiniteSet(unfinished \cap listed)
        BY ZenonT(30), <3>3, FS_Subset
      <4> QED  BY ZenonT(30), <4>1, FS_CardinalityType
    <3>8. IsFiniteSet(present) /\ Cardinality(present) <= Cardinality(unfinished \cup listed)
      BY ZenonT(30), <3>5, <3>6, FS_Subset
    <3>9. Cardinality(present) \in Nat
      BY ZenonT(30), <3>8, FS_CardinalityType
    <3>10. terminal.head \in Nat /\ Len(terminal.order) \in Nat /\ MaxRetainedJobs \in Nat
      BY ZenonT(30), <2>1, StoreAssumption, LenFacts DEF RetentionList
    <3>11. Cardinality(present) <= MaxRetainedJobs + Cardinality(living)
      BY SMTT(30), <2>2, <3>3, <3>4, <3>6, <3>7, <3>8, <3>9, <3>10
    <3> QED  BY ZenonT(30), <3>1, <3>2, <3>11 DEF CheckJobsBounded, present, living
  <2>4. ASSUME NEW list \in RetentionList, NEW max \in Nat, Short(list, max)
        PROVE  Len(list.order) <= 2 * max
    <3>1. Len(list.order) \in Nat /\ list.head \in Nat
      BY ZenonT(30), LenFacts DEF RetentionList
    <3> QED  BY <2>4, <3>1 DEF Short
  <2>5. ListsBounded
    <3>1. /\ MaxRetainedJobs \in Nat /\ MaxRetainedIncidents \in Nat /\ MaxProcessed \in Nat
      BY ZenonT(30), StoreAssumption
    <3>2. /\ resolved \in RetentionList /\ Short(resolved, MaxRetainedIncidents)
          /\ processedList \in RetentionList /\ Short(processedList, MaxProcessed)
          /\ processed \subseteq Jobs
          /\ \A j \in Jobs : j \in processed <=> InWindow(processedList, j)
      BY ZenonT(30), <1>1 DEF StoreInv, IncidentsInv, ProcessedInv
    <3>3. processedList.head \in 0..Len(processedList.order)
          /\ Len(processedList.order) - processedList.head <= MaxProcessed
      BY ZenonT(30), <3>2 DEF Short
    <3>4. processed = Range(Window(processedList))
      BY ZenonT(30), <3>2, <3>3, WindowPlaces
    <3>5. /\ Cardinality(processed) \in Nat
          /\ Cardinality(processed) <= Len(processedList.order) - processedList.head
      BY ZenonT(30), <3>2, <3>3, WindowSize
    <3>6. processedList.head \in Nat /\ Len(processedList.order) \in Nat
      BY ZenonT(30), <3>2, LenFacts DEF RetentionList
    <3>7. Cardinality(processed) <= MaxProcessed
      BY <3>1, <3>3, <3>5, <3>6
    <3> QED  BY ZenonT(30), <2>1, <2>4, <3>1, <3>2, <3>4, <3>7 DEF ListsBounded
  <2> QED  BY ZenonT(30), <2>3, <2>5 DEF RetentionBounded
<1> QED  BY <1>1, StoreInvariant, PTL

\* The consecutive failures that Stats reports from the open incident of a monitor are the
\* latest records of its history, as far as the history still reaches, so a success in between,
\* a change of what is checked or a deletion has ended the count.
THEOREM ReportedFailuresAreRecorded == Spec => []FailuresMatchHistory
<1>1. ASSUME StoreInv, NEW m \in Monitors
      PROVE  /\ TrailingFailures(checks[m]) >= (IF ConsecutiveFailure(m) < Len(checks[m])
                                                THEN ConsecutiveFailure(m) ELSE Len(checks[m]))
             /\ ConsecutiveFailure(m) > 0 => checks[m] # <<>>
  <2> DEFINE r == checks[m]
             n == Len(r)
             f == ConsecutiveFailure(m)
             T == {i \in DOMAIN r : \A k \in i..n : ~r[k].success}
  <2>1. r \in Seq(Record) /\ n \in Nat /\ DOMAIN r = 1..n
    BY ZenonT(30), <1>1, LenFacts DEF StoreInv, HistoryInv
  <2>2. TrailingFailures(r) = Cardinality(T)
    BY ZenonT(30) DEF TrailingFailures
  <2>3. IsFiniteSet(T) /\ Cardinality(T) \in Nat
    <3>1. T \in SUBSET (1..n)
      BY ZenonT(30), <2>1
    <3>2. IsFiniteSet(1..n)
      BY <2>1, FS_Interval
    <3> HIDE DEF T
    <3>3. IsFiniteSet(T)
      BY ZenonT(30), <3>1, <3>2, FS_Subset
    <3> QED  BY ZenonT(30), <3>3, FS_CardinalityType
  <2>4. CASE open[m] = NoJob
    <3>1. f = 0
      BY ZenonT(30), <2>4 DEF ConsecutiveFailure
    <3> HIDE DEF f, T, n, r
    <3> QED  BY <2>1, <2>2, <2>3, <3>1 DEF f, r, n
  <2>5. CASE open[m] # NoJob
    <3>1. f = incident[open[m]].failures
      BY ZenonT(30), <2>5 DEF ConsecutiveFailure
    <3>2. f \in Nat
      BY <1>1, <2>5, <3>1 DEF StoreInv, IncidentsInv, IncidentRow
    <3>3. f >= 1 /\ n >= 1 /\ \A i \in 1..n : i + f > n => ~r[i].success
      BY ZenonT(30), <1>1, <2>5, <3>1 DEF StoreInv, HistoryInv
    <3> DEFINE low == IF f < n THEN f ELSE n
    <3> HIDE DEF f, n, r
    <3>4. low \in 1..n /\ low <= f
      BY SMTT(30), <2>1, <3>2, <3>3
    <3> HIDE DEF low
    <3>5. ((n - low) + 1)..n \in SUBSET T
      BY SMTT(30), <2>1, <3>2, <3>3, <3>4
    <3>6. Cardinality(((n - low) + 1)..n) = low
      <4>1. (n - low) + 1 \in Int /\ n \in Int
        BY <2>1, <3>4
      <4>2. Cardinality(((n - low) + 1)..n) =
              IF (n - low) + 1 > n THEN 0 ELSE n - ((n - low) + 1) + 1
        BY ZenonT(30), <4>1, FS_Interval
      <4> QED  BY <2>1, <3>4, <4>2
    <3>7. low <= Cardinality(T)
      <4> HIDE DEF T
      <4> QED  BY ZenonT(30), <2>3, <3>5, <3>6, FS_Subset
    <3>8. r # <<>>
      BY <3>3 DEF n
    <3> HIDE DEF T
    <3>9. TrailingFailures(r) >= low
      BY ZenonT(30), <2>1, <2>2, <2>3, <3>4, <3>7
    <3> QED  BY ZenonT(30), <3>8, <3>9 DEF low, f, n, r
  <2> QED  BY ZenonT(30), <2>4, <2>5
<1>2. StoreInv => FailuresMatchHistory
  BY ZenonT(30), <1>1 DEF FailuresMatchHistory
<1> QED  BY <1>2, StoreInvariant, PTL
=============================================================================
