----------------------- MODULE InvoiceRetrievalProofs ------------------------
(***************************************************************************)
(* Proofs about InvoiceRetrieval: for any number of overlapping runs,      *)
(* invoices, page sizes, limits and faults, nothing that KSeF holds        *)
(* between the start of the first window and the mark is missing.          *)
(***************************************************************************)
EXTENDS InvoiceRetrieval, FiniteSetTheorems, WellFoundedInduction, TLAPS
-----------------------------------------------------------------------------
(* Least and greatest numbers                                              *)

LEMMA LeastNumber ==
    ASSUME NEW T \in SUBSET Nat, T # {}
    PROVE  \E n \in T : \A m \in T : n <= m
<1> DEFINE R == {p \in Nat \X Nat : p[1] < p[2]}
<1>1. IsWellFoundedOn(R, Nat)
  BY NatLessThanWellFounded DEF OpToRel
<1>2. \E n \in T : \A m \in T : <<m, n>> \notin R
  <2> HIDE DEF R
  <2> QED
    BY <1>1, WFMin
<1>3. \A m, n \in Nat : m < n => <<m, n>> \in R
  OBVIOUS
<1> QED
  <2> HIDE DEF R
  <2>1. PICK n \in T : \A m \in T : <<m, n>> \notin R
    BY <1>2
  <2>2. \A m \in T : ~(m < n)
    BY <1>3, <2>1
  <2> QED
    BY <2>2

LEMMA LastDateIs ==
    ASSUME date \in [Invoices -> Nat], NEW page \in SUBSET Invoices, page # {},
           NEW to \in Nat, \A i \in page : date[i] <= to
    PROVE  /\ \E k \in page : LastDate(page) = date[k]
           /\ \A i \in page : date[i] <= LastDate(page)
<1>1. PICK t \in Nat : /\ \A i \in page : date[i] <= t
                       /\ \A m \in Nat : (\A i \in page : date[i] <= m) => t <= m
  <2> DEFINE T == {m \in Nat : \A i \in page : date[i] <= m}
  <2>1. T \in SUBSET Nat /\ to \in T
    OBVIOUS
  <2>2. \E n \in T : \A m \in T : n <= m
    <3> HIDE DEF T
    <3> QED
      BY <2>1, LeastNumber
  <2> QED
    BY <2>2
<1>2. \E k \in page : date[k] = t
  <2> SUFFICES ASSUME \A k \in page : date[k] # t PROVE FALSE
    OBVIOUS
  <2>1. \A k \in page : date[k] \in Nat /\ date[k] < t
    BY <1>1
  <2>2. t - 1 \in Nat /\ \A k \in page : date[k] <= t - 1
    BY <2>1
  <2> QED
    BY <1>1, <2>2
<1>3. \E s \in {date[i] : i \in page} : \A i \in page : date[i] <= s
  BY <1>1, <1>2
<1> QED
  BY <1>3 DEF LastDate

-----------------------------------------------------------------------------
(* Ranks: the order in which KSeF returns records                          *)

LEMMA Order ==
    ASSUME date \in [Invoices -> Nat], NEW i \in Invoices, NEW k \in Invoices
    PROVE  /\ ~Before(i, i) /\ (Before(i, k) => ~Before(k, i) /\ i # k)
           /\ i # k => Before(i, k) \/ Before(k, i)
           /\ \A m \in Invoices : Before(i, k) /\ Before(k, m) => Before(i, m)
BY RetrievalAssumption DEF Before

LEMMA Finite ==
    ASSUME NEW S \in SUBSET Invoices
    PROVE  IsFiniteSet(S) /\ Cardinality(S) \in Nat
BY RetrievalAssumption, FS_Subset, FS_CardinalityType

LEMMA OneMore ==
    ASSUME NEW S \in SUBSET Invoices, NEW i \in Invoices \ S
    PROVE  Cardinality(S \cup {i}) = Cardinality(S) + 1
BY Finite, FS_AddElement

LEMMA RankIs ==
    ASSUME date \in [Invoices -> Nat], NEW S \in SUBSET Invoices, NEW i \in Invoices
    PROVE  /\ Rank(S, i) \in Nat
           /\ i \in S => Rank(S, i) < Cardinality(S)
           /\ \A k \in Invoices : i \in S /\ Before(i, k) => Rank(S, i) < Rank(S, k)
<1> DEFINE P(x) == {m \in S : Before(m, x)}
<1>1. \A x \in Invoices : /\ P(x) \in SUBSET Invoices /\ IsFiniteSet(P(x)) /\ Cardinality(P(x)) \in Nat
                          /\ Rank(S, x) = Cardinality(P(x))
  BY Finite DEF Rank
<1>2. i \notin P(i)
  BY Order
<1>3. Cardinality(P(i) \cup {i}) = Cardinality(P(i)) + 1
  <2> HIDE DEF P
  <2> QED
    BY <1>1, <1>2, OneMore
<1>4. ASSUME i \in S PROVE Rank(S, i) < Cardinality(S)
  <2>1. P(i) \cup {i} \in SUBSET S /\ IsFiniteSet(S) /\ Cardinality(S) \in Nat
    BY <1>4, Finite
  <2>2. Cardinality(P(i) \cup {i}) <= Cardinality(S)
    <3> HIDE DEF P
    <3> QED
      BY <2>1, FS_Subset
  <2> QED
    <3> HIDE DEF P
    <3> QED
      BY <1>1, <1>3, <2>1, <2>2
<1>5. ASSUME NEW k \in Invoices, i \in S, Before(i, k) PROVE Rank(S, i) < Rank(S, k)
  <2>1. P(i) \cup {i} \in SUBSET P(k)
    BY <1>5, Order
  <2>2. Cardinality(P(i) \cup {i}) <= Cardinality(P(k))
    <3> HIDE DEF P
    <3> QED
      BY <1>1, <2>1, FS_Subset
  <2> QED
    <3> HIDE DEF P
    <3> QED
      BY <1>1, <1>3, <2>2
<1> QED
  BY <1>1, <1>4, <1>5

LEMMA SomeRank ==
    ASSUME date \in [Invoices -> Nat], NEW S \in SUBSET Invoices, NEW n \in Nat, n < Cardinality(S)
    PROVE  \E i \in S : Rank(S, i) = n
<1>1. IsFiniteSet(S) /\ Cardinality(S) \in Nat /\ \A i \in S : Rank(S, i) \in Nat
  BY Finite, RankIs
<1>2. \A i, k \in S : i # k => Rank(S, i) # Rank(S, k)
  <2> SUFFICES ASSUME NEW i \in S, NEW k \in S, i # k PROVE Rank(S, i) # Rank(S, k)
    OBVIOUS
  <2>1. Before(i, k) \/ Before(k, i)
    BY Order
  <2>2. Rank(S, i) < Rank(S, k) \/ Rank(S, k) < Rank(S, i)
    BY <2>1, RankIs
  <2> QED
    BY <1>1, <2>2
\* No more than n invoices have ranks below n.
<1>3. ASSUME NEW P \in SUBSET S, \A i \in P : Rank(S, i) < n
      PROVE  Cardinality(P) <= n
  <2> DEFINE f == [i \in P |-> Rank(S, i)]
  <2>1. IsFiniteSet(P) /\ Cardinality(P) \in Nat
    BY Finite
  <2>2. IsFiniteSet(0 .. n - 1) /\ Cardinality(0 .. n - 1) = n
    BY FS_Interval
  <2>3. f \in [P -> 0 .. n - 1]
    BY <1>1, <1>3
  <2>4. \A i, k \in P : i # k => f[i] # f[k]
    BY <1>2
  <2> HIDE DEF f
  <2>5. ~(Cardinality(0 .. n - 1) < Cardinality(P))
    BY <2>1, <2>2, <2>3, <2>4, FS_PigeonHole
  <2> QED
    BY <2>1, <2>2, <2>5
<1>4. PICK m \in S : n <= Rank(S, m) /\ \A i \in S : n <= Rank(S, i) => Rank(S, m) <= Rank(S, i)
  <2> DEFINE T == {Rank(S, i) : i \in {k \in S : n <= Rank(S, k)}}
  <2>1. T # {}
    <3> SUFFICES ASSUME T = {} PROVE FALSE
      OBVIOUS
    <3>1. \A i \in S : Rank(S, i) < n
      BY <1>1
    <3> QED
      BY <1>1, <1>3, <3>1
  <2>2. T \in SUBSET Nat
    BY <1>1
  <2>3. \E t \in T : \A u \in T : t <= u
    <3> HIDE DEF T
    <3> QED
      BY <2>1, <2>2, LeastNumber
  <2> QED
    BY <2>3
<1>5. \A i \in S : Before(i, m) => Rank(S, i) < n
  <2> SUFFICES ASSUME NEW i \in S, Before(i, m) PROVE Rank(S, i) < n
    OBVIOUS
  <2>1. Rank(S, i) < Rank(S, m)
    BY RankIs
  <2> QED
    BY <1>1, <1>4, <2>1
<1>6. Rank(S, m) <= n
  BY <1>3, <1>5 DEF Rank
<1> QED
  BY <1>1, <1>4, <1>6

\* Records that are added behind all others disturb no rank.
LEMMA RanksStand ==
    ASSUME date \in [Invoices -> Nat], date' \in [Invoices -> Nat],
           NEW S \in SUBSET Invoices, NEW T \in SUBSET Invoices, S \subseteq T,
           \A i \in S : date'[i] = date[i],
           \A i \in S, k \in T \ S : date'[i] < date'[k]
    PROVE  /\ Cardinality(S) <= Cardinality(T)
           /\ \A i \in S : Rank(T, i)' = Rank(S, i)
           /\ \A k \in T \ S : Rank(T, k)' \in Nat /\ Cardinality(S) <= Rank(T, k)'
<1>1. IsFiniteSet(T) /\ Cardinality(T) \in Nat /\ Cardinality(S) \in Nat
  BY Finite
<1>2. Cardinality(S) <= Cardinality(T)
  BY <1>1, FS_Subset
<1>3. ASSUME NEW i \in S PROVE Rank(T, i)' = Rank(S, i)
  <2>1. {k \in T : Before(k, i)'} = {k \in S : Before(k, i)}
    BY <1>3 DEF Before
  <2> QED
    BY <2>1 DEF Rank
<1>4. ASSUME NEW k \in T \ S PROVE Rank(T, k)' \in Nat /\ Cardinality(S) <= Rank(T, k)'
  <2> DEFINE P == {i \in T : Before(i, k)'}
  <2>1. S \in SUBSET P /\ P \in SUBSET Invoices
    BY <1>4 DEF Before
  <2>2. IsFiniteSet(P) /\ Cardinality(P) \in Nat
    <3> HIDE DEF P
    <3> QED
      BY <2>1, Finite
  <2>3. Cardinality(S) <= Cardinality(P)
    <3> HIDE DEF P
    <3> QED
      BY <2>1, <2>2, FS_Subset
  <2> QED
    BY <2>2, <2>3 DEF Rank
<1> QED
  BY <1>2, <1>3, <1>4

-----------------------------------------------------------------------------
(* The inductive invariant                                                 *)

\* What KSeF holds of a direction, dated from..to, is among got.
Has(d, from, to, got) ==
    \A i \in Invoices : DirectionOf[i] = d /\ date[i] # 0 /\ from <= date[i] /\ date[i] <= to => i \in got

\* A window begins at the mark the run knows; of its range, as far as it was
\* narrowed, everything before the cursor was read, and from there whole pages.
IsReading(j) ==
    /\ 1 <= j.from /\ j.from <= j.to /\ j.from <= j.cursor
    /\ j.cursor = j.from \/ j.cursor <= watermark
    /\ j.known[j.dir] # 0 => j.from = j.known[j.dir]
    /\ Has(j.dir, j.from, j.cursor - 1, j.got)

HasPages(j, result) ==
    /\ j.offset # 0 => j.offset * PageSize < Cardinality(result)
    /\ \A i \in result : Rank(result, i) < j.offset * PageSize => i \in j.got

\* What is handed over reaches to the target, and KSeF completed it.
IsComplete(j) ==
    /\ 1 <= j.from /\ j.from <= j.target /\ j.target <= j.to /\ j.target <= watermark
    /\ j.known[j.dir] # 0 => j.from = j.known[j.dir]
    /\ Has(j.dir, j.from, j.target, j.got)

ReadingOK(r) == pc[r] = "read" =>
    IsReading(job[r]) /\ HasPages(job[r], Result(job[r].dir, job[r].cursor, job[r].to))
CommitOK(r) == pc[r] = "commit" => IsComplete(job[r])

\* KSeF adds nothing before a mark.
MarkOK(d) == mark[d] <= watermark /\ (mark[d] # 0 => Has(d, since[d], mark[d], stored))

IInv ==
    /\ TypeOK /\ FirstLookback < now
    /\ \A d \in Directions : MarkOK(d)
    /\ \A r \in Runs : ReadingOK(r) /\ CommitOK(r)

-----------------------------------------------------------------------------
(* Types                                                                   *)

Points == {"idle", "auth", "direction", "read", "commit", "status"}

LEMMA Constants ==
    /\ Invoices \subseteq Nat /\ IsFiniteSet(Invoices) /\ DirectionCount \in Nat /\ 1 \in Directions
    /\ DirectionOf \in [Invoices -> Directions] /\ InitialMark \in [Directions -> 0 .. FirstLookback + 1]
    /\ PageSize \in Nat \ {0} /\ Limit \in Nat \ {0} /\ MaxWindow \in Nat \ {0} /\ FirstLookback \in Nat
    /\ Directions = 1 .. DirectionCount
BY RetrievalAssumption DEF Directions

LEMMA NoJobTyped == NoJob \in Job
BY Constants DEF NoJob, Job

LEMMA BareTyped ==
    ASSUME NEW j \in Job
    PROVE  /\ Bare(j) \in Job
           /\ Bare(j).dir = j.dir /\ Bare(j).known = j.known /\ Bare(j).failed = j.failed
           /\ Bare(j).offset = 0 /\ Bare(j).got = {}
<1>1. PICK a, b, c, d :
          /\ a = [NoJob EXCEPT !.dir = j.dir] /\ b = [a EXCEPT !.known = j.known]
          /\ c = [b EXCEPT !.failed = j.failed] /\ d = [c EXCEPT !.aborted = j.aborted]
  OBVIOUS
<1>2. Bare(j) = d
  BY <1>1, Zenon DEF Bare
<1>3. a \in Job /\ a.dir = j.dir /\ a.offset = 0 /\ a.got = {}
  BY <1>1, NoJobTyped DEF NoJob, Job
<1>4. b \in Job /\ b.dir = j.dir /\ b.offset = 0 /\ b.got = {} /\ b.known = j.known
  BY <1>1, <1>3 DEF Job
<1>5. c \in Job /\ c.dir = j.dir /\ c.offset = 0 /\ c.got = {} /\ c.known = j.known /\ c.failed = j.failed
  BY <1>1, <1>4 DEF Job
<1>6. d \in Job /\ d.dir = j.dir /\ d.offset = 0 /\ d.got = {} /\ d.known = j.known /\ d.failed = j.failed
  BY <1>1, <1>5 DEF Job
<1> QED
  BY <1>2, <1>6

LEMMA WindowTyped ==
    ASSUME NEW j \in Job, NEW from \in Nat, NEW end \in Nat
    PROVE  LET w == Window(j, from, end)
           IN  /\ w \in Job /\ w.dir = j.dir /\ w.known = j.known /\ w.offset = 0 /\ w.got = {}
               /\ w.from = from /\ w.cursor = from /\ w.to = Lesser(from + MaxWindow, end)
<1>1. PICK to, a, b, c, d :
          /\ to = Lesser(from + MaxWindow, end)
          /\ a = [Bare(j) EXCEPT !.end = end] /\ b = [a EXCEPT !.from = from]
          /\ c = [b EXCEPT !.to = to] /\ d = [c EXCEPT !.cursor = from]
  OBVIOUS
<1>2. Window(j, from, end) = d
  BY <1>1, Zenon DEF Window
<1>3. to \in Nat
  BY <1>1, Constants DEF Lesser
<1>4. a \in Job /\ a.dir = j.dir /\ a.known = j.known /\ a.offset = 0 /\ a.got = {}
  BY <1>1, BareTyped DEF Job
<1>5. b \in Job /\ b.dir = j.dir /\ b.known = j.known /\ b.offset = 0 /\ b.got = {} /\ b.from = from
  BY <1>1, <1>4 DEF Job
<1>6. c \in Job /\ c.dir = j.dir /\ c.known = j.known /\ c.offset = 0 /\ c.got = {} /\ c.from = from /\ c.to = to
  BY <1>1, <1>3, <1>5 DEF Job
<1>7. d = [c EXCEPT !.cursor = from] /\ to = Lesser(from + MaxWindow, end)
  BY <1>1
<1>8. /\ d \in Job /\ d.cursor = from
      /\ d.dir = c.dir /\ d.known = c.known /\ d.offset = c.offset /\ d.got = c.got /\ d.from = c.from /\ d.to = c.to
  BY <1>6, <1>7 DEF Job
<1> QED
  BY <1>2, <1>6, <1>7, <1>8

-----------------------------------------------------------------------------
(* KSeF goes on while runs read                                            *)

\* A step of KSeF: the watermark advances, dates are given after it.
KsefGrows ==
    /\ watermark' \in Nat /\ watermark <= watermark' /\ date' \in [Invoices -> Nat]
    /\ \A i \in Invoices : date'[i] = date[i] \/ (date[i] = 0 /\ watermark < date'[i])

LEMMA HasStands ==
    ASSUME TypeOK, KsefGrows, NEW d, NEW from \in Nat, NEW to \in Int, NEW got, to < from \/ to <= watermark,
           Has(d, from, to, got)
    PROVE  Has(d, from, to, got)'
BY DEF Has, KsefGrows, TypeOK

LEMMA PagesStand ==
    ASSUME TypeOK, KsefGrows, NEW j \in Job, HasPages(j, Result(j.dir, j.cursor, j.to))
    PROVE  HasPages(j, Result(j.dir, j.cursor, j.to))'
<1>1. PICK S, T : S = Result(j.dir, j.cursor, j.to) /\ T = Result(j.dir, j.cursor, j.to)'
  OBVIOUS
<1>2. j.to \in Nat /\ j.cursor \in Nat /\ j.offset \in Nat
  BY DEF Job
<1>3. S \in SUBSET Invoices /\ T \in SUBSET Invoices
  BY <1>1 DEF Result
<1>4. S \subseteq T /\ \A i \in S : date'[i] = date[i]
  BY <1>1, <1>2 DEF Result, Lesser, KsefGrows, TypeOK
<1>5. \A i \in S, k \in T \ S : date'[i] < date'[k]
  BY <1>1, <1>2 DEF Result, Lesser, KsefGrows, TypeOK
<1>6. date \in [Invoices -> Nat] /\ date' \in [Invoices -> Nat]
  BY DEF TypeOK, KsefGrows
<1>7. /\ Cardinality(S) <= Cardinality(T)
      /\ \A i \in S : Rank(T, i)' = Rank(S, i)
      /\ \A k \in T \ S : Rank(T, k)' \in Nat /\ Cardinality(S) <= Rank(T, k)'
  BY <1>3, <1>4, <1>5, <1>6, RanksStand
<1>8. PICK n \in Nat : n = j.offset * PageSize
  BY <1>2, Constants
<1>9. /\ j.offset # 0 => n < Cardinality(S)
      /\ \A i \in S : Rank(S, i) < n => i \in j.got
  BY <1>1, <1>8 DEF HasPages
<1>10. j.offset = 0 => n = 0
  BY <1>8, Constants
<1>11. Cardinality(S) \in Nat /\ Cardinality(T) \in Nat
  BY <1>3, Finite
<1>12. j.offset # 0 => n < Cardinality(T)
  BY <1>7, <1>9, <1>11
<1>13. \A i \in T : Rank(T, i)' < n => i \in j.got
  BY <1>7, <1>9, <1>10, <1>11
<1>14. HasPages(j, T)'
  BY <1>8, <1>12, <1>13 DEF HasPages
<1> QED
  BY <1>1, <1>14 DEF HasPages, Rank, Before

LEMMA KsefKeeps ==
    ASSUME IInv, KsefGrows, UNCHANGED <<now, stored, mark, syncError, syncEnabled, pc, job, faults, since>>
    PROVE  IInv'
<1>1. TypeOK'
  BY DEF IInv, TypeOK, KsefGrows
<1>2. ASSUME NEW d \in Directions PROVE MarkOK(d)'
  <2>1. PICK s, m, have : s = since[d] /\ m = mark[d] /\ have = stored
    OBVIOUS
  <2>2. s \in Nat /\ m \in Nat /\ m <= watermark /\ (m # 0 => Has(d, s, m, have)) /\ m <= watermark'
    BY <2>1 DEF IInv, TypeOK, MarkOK, KsefGrows
  <2>3. m # 0 => Has(d, s, m, have)'
    BY <2>2, HasStands DEF IInv
  <2> QED
    BY <2>1, <2>2, <2>3 DEF MarkOK, Has
<1>3. ASSUME NEW r \in Runs PROVE ReadingOK(r)' /\ CommitOK(r)'
  <2>1. PICK j \in Job : j = job[r] /\ j = job'[r]
    BY DEF IInv, TypeOK
  <2>2. /\ j.from \in Nat /\ j.cursor \in Nat /\ j.target \in Nat /\ j.cursor - 1 \in Int
        /\ watermark \in Nat /\ watermark' \in Nat /\ watermark <= watermark'
    BY <2>1 DEF Job, IInv, TypeOK, KsefGrows
  <2>3. CASE pc[r] = "read"
    <3>1. IsReading(j) /\ HasPages(j, Result(j.dir, j.cursor, j.to))
      BY <2>1, <2>3 DEF IInv, ReadingOK
    <3>2. Has(j.dir, j.from, j.cursor - 1, j.got)'
      BY <2>2, <3>1, HasStands DEF IInv, IsReading
    <3>3. IsReading(j)'
      BY <2>2, <3>1, <3>2 DEF IsReading
    <3>4. HasPages(j, Result(j.dir, j.cursor, j.to))'
      BY <3>1, PagesStand DEF IInv
    <3> QED
      BY <2>1, <2>3, <3>3, <3>4 DEF ReadingOK, CommitOK
  <2>4. CASE pc[r] = "commit"
    <3>1. IsComplete(j)
      BY <2>1, <2>4 DEF IInv, CommitOK
    <3>2. Has(j.dir, j.from, j.target, j.got)'
      BY <2>2, <3>1, HasStands DEF IInv, IsComplete
    <3>3. IsComplete(j)'
      BY <2>2, <3>1, <3>2 DEF IsComplete
    <3> QED
      BY <2>1, <2>4, <3>3 DEF ReadingOK, CommitOK
  <2>5. CASE pc[r] \notin {"read", "commit"}
    BY <2>5 DEF ReadingOK, CommitOK
  <2> QED
    BY <2>3, <2>4, <2>5
<1> QED
  BY <1>1, <1>2, <1>3 DEF IInv

-----------------------------------------------------------------------------
(* A step of one run                                                       *)

\* What a run is about to do with its variables.
MaySet(at, new) ==
    /\ at \in Points /\ new \in Job
    /\ at = "read" => IsReading(new) /\ HasPages(new, Result(new.dir, new.cursor, new.to))
    /\ at = "commit" => IsComplete(new)

LEMMA OneRunMoves ==
    ASSUME IInv, NEW r \in Runs, NEW at, NEW new, MaySet(at, new),
           pc' = [pc EXCEPT ![r] = at], job' = [job EXCEPT ![r] = new],
           UNCHANGED <<now, date, watermark>>, faults' \in Nat, stored' \subseteq Invoices,
           mark' \in [Directions -> Nat], since' \in [Directions -> Nat], syncError' \in BOOLEAN,
           syncEnabled' \in BOOLEAN, \A d \in Directions : MarkOK(d)'
    PROVE  IInv'
<1>1. /\ pc'[r] = at /\ job'[r] = new
      /\ \A q \in Runs \ {r} : pc'[q] = pc[q] /\ job'[q] = job[q]
  BY DEF IInv, TypeOK
<1>2. TypeOK'
  BY DEF IInv, TypeOK, MaySet, Points
<1>3. ASSUME NEW q \in Runs PROVE ReadingOK(q)' /\ CommitOK(q)'
  <2>1. PICK j, p : j = job'[q] /\ p = pc'[q]
    OBVIOUS
  <2>2. /\ p = "read" => IsReading(j) /\ HasPages(j, Result(j.dir, j.cursor, j.to))
        /\ p = "commit" => IsComplete(j)
    BY <1>1, <2>1 DEF MaySet, IInv, ReadingOK, CommitOK
  <2>3. /\ p = "read" => IsReading(j)' /\ HasPages(j, Result(j.dir, j.cursor, j.to))'
        /\ p = "commit" => IsComplete(j)'
    BY <2>2 DEF IsReading, IsComplete, Has, HasPages, Rank, Before, Result
  <2> QED
    BY <2>1, <2>3 DEF ReadingOK, CommitOK
<1> QED
  BY <1>2, <1>3 DEF IInv

LEMMA QuietRun ==
    ASSUME IInv, NEW r \in Runs, NEW at, NEW new, MaySet(at, new),
           pc' = [pc EXCEPT ![r] = at], job' = [job EXCEPT ![r] = new],
           UNCHANGED <<now, date, watermark, stored, mark, since>>,
           faults' \in Nat, syncError' \in BOOLEAN, syncEnabled' \in BOOLEAN
    PROVE  IInv'
<1>1. \A d \in Directions : MarkOK(d)'
  BY DEF IInv, MarkOK, Has
<1> QED
  BY <1>1, OneRunMoves DEF IInv, TypeOK

\* A run that stays where it is, or goes where nothing is claimed.
LEMMA Elsewhere ==
    ASSUME NEW at \in Points \ {"read", "commit"}, NEW new \in Job
    PROVE  MaySet(at, new)
BY DEF MaySet

LEMMA LeaveTyped ==
    ASSUME IInv, NEW r \in Runs, NEW failed \in BOOLEAN, Leave(r, failed)
    PROVE  \E at, new : /\ MaySet(at, new)
                        /\ pc' = [pc EXCEPT ![r] = at] /\ job' = [job EXCEPT ![r] = new]
<1>1. PICK j, at, dir, flag, a, new :
          /\ j = Bare(job[r])
          /\ at = (IF j.dir = DirectionCount THEN "status" ELSE "direction")
          /\ dir = (IF j.dir = DirectionCount THEN j.dir ELSE j.dir + 1)
          /\ flag = (j.failed \/ failed)
          /\ a = [j EXCEPT !.dir = dir] /\ new = [a EXCEPT !.failed = flag]
  OBVIOUS
<1>2. j \in Job
  BY <1>1, BareTyped DEF IInv, TypeOK
<1>3. pc' = [pc EXCEPT ![r] = at]
  BY <1>1 DEF Leave
<1>4. job' = [job EXCEPT ![r] = new]
  BY <1>1, Zenon DEF Leave
<1>5. dir \in Directions
  <2>1. j.dir \in Directions
    BY <1>2 DEF Job
  <2> QED
    BY <1>1, <2>1, Constants
<1>6. a \in Job
  BY <1>1, <1>2, <1>5 DEF Job
<1>7. flag \in BOOLEAN
  <2>1. j.failed \in BOOLEAN
    BY <1>2 DEF Job
  <2> QED
    BY <1>1, <2>1, Zenon
<1>8. new \in Job
  <2>1. new = [a EXCEPT !.failed = flag]
    BY <1>1
  <2> QED
    BY <1>6, <1>7, <2>1 DEF Job
<1>9. at \in Points \ {"read", "commit"}
  BY <1>1 DEF Points
<1> QED
  BY <1>3, <1>4, <1>8, <1>9, Elsewhere

-----------------------------------------------------------------------------
(* A page                                                                  *)

LEMMA Pages ==
    ASSUME NEW n \in Nat
    PROVE  n * PageSize \in Nat /\ (n + 1) * PageSize \in Nat /\ n * PageSize < (n + 1) * PageSize
<1>1. PICK p \in Nat : p = PageSize /\ 0 < p
  BY Constants
<1>2. n * p \in Nat
  OBVIOUS
<1>3. (n + 1) * p = n * p + p
  OBVIOUS
<1> QED
  BY <1>1, <1>2, <1>3

\* With a page, everything up to its end was read.
LEMMA PageRead ==
    ASSUME TypeOK, NEW j \in Job, NEW R, R = Result(j.dir, j.cursor, j.to), HasPages(j, R),
           NEW page, page = Page(R, j.offset), NEW got, got = j.got \cup page
    PROVE  /\ R \in SUBSET Invoices /\ got \in SUBSET Invoices
           /\ \A i \in R : Rank(R, i) < (j.offset + 1) * PageSize => i \in got
           /\ ~HasMore(R, j.offset) => R \subseteq got
<1>1. R \in SUBSET Invoices /\ got \in SUBSET Invoices
  BY DEF Result, Page, Job
<1>2. date \in [Invoices -> Nat]
  BY DEF TypeOK
<1>3. PICK n, m : n = j.offset * PageSize /\ m = (j.offset + 1) * PageSize
  OBVIOUS
<1>4. n \in Nat /\ m \in Nat
  <2>1. j.offset \in Nat
    BY DEF Job
  <2> QED
    BY <1>3, <2>1, Pages
<1>5. \A i \in R : Rank(R, i) \in Nat /\ Rank(R, i) < Cardinality(R)
  BY <1>1, <1>2, RankIs
<1>6. ASSUME NEW i \in R, Rank(R, i) < m PROVE i \in got
  <2>1. CASE Rank(R, i) < n
    BY <1>3, <2>1 DEF HasPages
  <2>2. CASE n <= Rank(R, i)
    BY <1>3, <1>6, <2>2 DEF Page
  <2> QED
    BY <1>4, <1>5, <2>1, <2>2
<1>7. ASSUME ~HasMore(R, j.offset) PROVE R \subseteq got
  <2>1. Cardinality(R) \in Nat
    BY <1>1, Finite
  <2>2. Cardinality(R) <= m
    BY <1>3, <1>4, <1>7, <2>1 DEF HasMore
  <2>3. \A i \in R : Rank(R, i) < m
    BY <1>4, <1>5, <2>1, <2>2
  <2> QED
    BY <1>6, <2>3
<1> QED
  BY <1>1, <1>3, <1>6, <1>7

\* A page that is cut short is not empty, and all that is dated before its
\* last record was read.
LEMMA PageNarrows ==
    ASSUME TypeOK, NEW j \in Job, NEW R, R = Result(j.dir, j.cursor, j.to), HasPages(j, R),
           NEW page, page = Page(R, j.offset), NEW got, got = j.got \cup page, IsTruncated(R, j.offset)
    PROVE  /\ LastDate(page) \in Nat /\ LastDate(page) <= j.to /\ LastDate(page) <= watermark
           /\ \A i \in R : date[i] < LastDate(page) => i \in got
<1>1. /\ R \in SUBSET Invoices
      /\ \A i \in R : Rank(R, i) < (j.offset + 1) * PageSize => i \in got
  BY PageRead
<1>2. date \in [Invoices -> Nat] /\ Cardinality(R) \in Nat
  BY <1>1, Finite DEF TypeOK
<1>3. PICK n, m : n = j.offset * PageSize /\ m = (j.offset + 1) * PageSize
  OBVIOUS
<1>4. n \in Nat /\ m \in Nat /\ n < m
  <2>1. j.offset \in Nat
    BY DEF Job
  <2> QED
    BY <1>3, <2>1, Pages
<1>5. n < Cardinality(R)
  <2>1. CASE j.offset = 0
    BY <1>2, <1>3, <2>1, Constants DEF IsTruncated
  <2>2. CASE j.offset # 0
    BY <1>3, <2>2 DEF HasPages
  <2> QED
    BY <2>1, <2>2
<1>6. page \in SUBSET Invoices /\ page # {}
  <2>1. PICK i \in R : Rank(R, i) = n
    BY <1>1, <1>2, <1>4, <1>5, SomeRank
  <2>2. i \in page
    BY <1>3, <1>4, <2>1 DEF Page
  <2> QED
    BY <1>1, <2>2 DEF Page
<1>7. \A i \in page : date[i] <= j.to /\ date[i] <= watermark
  BY <1>2 DEF Page, Result, Lesser, Job, TypeOK
<1>8. PICK k \in page : LastDate(page) = date[k]
  BY <1>2, <1>6, <1>7, LastDateIs DEF Job
<1>9. ASSUME NEW i \in R, date[i] < date[k] PROVE i \in got
  <2>1. k \in R /\ Rank(R, k) < m
    BY <1>3 DEF Page
  <2>2. Rank(R, i) < Rank(R, k)
    BY <1>1, <1>2, <1>9, <2>1, RankIs DEF Before
  <2>3. Rank(R, i) \in Nat /\ Rank(R, k) \in Nat
    BY <1>1, <1>2, <2>1, RankIs
  <2> QED
    BY <1>1, <1>3, <1>4, <2>1, <2>2, <2>3
<1> QED
  BY <1>2, <1>6, <1>7, <1>8, <1>9

\* At the beginning of a range nothing is claimed.
LEMMA NoPages ==
    ASSUME TypeOK, NEW j \in Job, j.offset = 0
    PROVE  HasPages(j, Result(j.dir, j.cursor, j.to))
<1>1. PICK R : R = Result(j.dir, j.cursor, j.to)
  OBVIOUS
<1>2. R \in SUBSET Invoices /\ date \in [Invoices -> Nat] /\ 0 * PageSize = 0
  BY <1>1, Constants DEF Result, TypeOK
<1>3. \A i \in R : ~(Rank(R, i) < 0)
  BY <1>2, RankIs
<1> QED
  BY <1>1, <1>2, <1>3 DEF HasPages

LEMMA WindowOpens ==
    ASSUME TypeOK, NEW j \in Job, NEW from \in Nat, NEW end \in Nat, 1 <= from, from <= end,
           j.known[j.dir] # 0 => from = j.known[j.dir]
    PROVE  MaySet("read", Window(j, from, end))
<1>1. PICK w : w = Window(j, from, end)
  OBVIOUS
<1>2. /\ w \in Job /\ w.dir = j.dir /\ w.known = j.known /\ w.offset = 0 /\ w.got = {}
      /\ w.from = from /\ w.cursor = from /\ w.to = Lesser(from + MaxWindow, end)
  BY <1>1, WindowTyped
<1>3. from <= w.to
  BY <1>2, Constants DEF Lesser
<1>4. Has(w.dir, w.from, w.cursor - 1, w.got)
  BY <1>2 DEF Has, TypeOK
<1>5. IsReading(w)
  BY <1>2, <1>3, <1>4 DEF IsReading
<1>6. HasPages(w, Result(w.dir, w.cursor, w.to))
  BY <1>2, NoPages
<1> QED
  BY <1>1, <1>2, <1>5, <1>6 DEF MaySet, Points

-----------------------------------------------------------------------------
(* The actions of a run                                                    *)

LEMMA ReadPageKeeps ==
    ASSUME IInv, NEW r \in Runs, ReadPage(r)
    PROVE  IInv'
<1>1. PICK j, R, page, got :
          /\ j = job[r] /\ R = Result(j.dir, j.cursor, j.to) /\ page = Page(R, j.offset)
          /\ got = j.got \cup page
  OBVIOUS
<1>2. /\ pc[r] = "read" /\ ~OutOfRange(j.cursor)
      /\ UNCHANGED <<now, date, watermark, stored, mark, syncError, syncEnabled, faults, since>>
  BY <1>1 DEF ReadPage, ksef, database
<1>3. PICK more, count : count = j.pages + 1 /\ more = [[j EXCEPT !.got = got] EXCEPT !.pages = count]
  OBVIOUS
<1>4. \/ /\ HasMore(R, j.offset)
         /\ job' = [job EXCEPT ![r] = [more EXCEPT !.offset = more.offset + 1]] /\ pc' = pc
      \/ /\ IsTruncated(R, j.offset) /\ j.cursor < LastDate(page)
         /\ job' = [job EXCEPT ![r] = [[more EXCEPT !.cursor = NarrowFrom(page)] EXCEPT !.offset = 0]] /\ pc' = pc
      \/ /\ ~HasMore(R, j.offset)
         /\ job' = [job EXCEPT ![r] = [[j EXCEPT !.got = got] EXCEPT !.target = Target(j)]]
         /\ pc' = [pc EXCEPT ![r] = "commit"]
  BY <1>1, <1>3, Zenon DEF ReadPage
<1>5. j \in Job /\ IsReading(j) /\ HasPages(j, R) /\ pc = [pc EXCEPT ![r] = "read"]
  BY <1>1, <1>2 DEF IInv, TypeOK, ReadingOK
<1>6. /\ R \in SUBSET Invoices /\ got \in SUBSET Invoices
      /\ \A i \in R : Rank(R, i) < (j.offset + 1) * PageSize => i \in got
      /\ ~HasMore(R, j.offset) => R \subseteq got
  BY <1>1, <1>5, PageRead DEF IInv
<1>7. /\ j.offset \in Nat /\ j.cursor \in Nat /\ j.to \in Nat /\ j.from \in Nat /\ watermark \in Nat
      /\ j.cursor <= watermark /\ count \in Nat /\ date \in [Invoices -> Nat] /\ j.got \subseteq got
      /\ j.dir \in Directions /\ j.known \in [Directions -> Nat]
  BY <1>1, <1>2, <1>3, <1>5 DEF Job, IInv, TypeOK, OutOfRange
\* The variables of readWindow() after a page.
<1>8. /\ more \in Job /\ more.got = got /\ more.dir = j.dir /\ more.known = j.known /\ more.from = j.from
      /\ more.to = j.to /\ more.cursor = j.cursor /\ more.offset = j.offset
  <2>1. PICK a : a = [j EXCEPT !.got = got]
    OBVIOUS
  <2>2. /\ a \in Job /\ a.got = got /\ a.dir = j.dir /\ a.known = j.known /\ a.from = j.from
        /\ a.to = j.to /\ a.cursor = j.cursor /\ a.offset = j.offset
    BY <1>5, <1>6, <2>1 DEF Job
  <2>3. more = [a EXCEPT !.pages = count]
    BY <1>3, <2>1
  <2> QED
    BY <1>7, <2>2, <2>3 DEF Job
<1>9. Has(j.dir, j.from, j.cursor - 1, got)
  BY <1>5, <1>6, <1>7 DEF IsReading, Has
<1>10. CASE HasMore(R, j.offset) /\ job' = [job EXCEPT ![r] = [more EXCEPT !.offset = more.offset + 1]] /\ pc' = pc
  <2>1. PICK new, n : n = j.offset + 1 /\ new = [more EXCEPT !.offset = n]
    OBVIOUS
  <2>2. job' = [job EXCEPT ![r] = new]
    BY <1>8, <1>10, <2>1
  <2>3. /\ new \in Job /\ new.offset = n /\ new.got = got /\ new.dir = j.dir /\ new.known = j.known
        /\ new.from = j.from /\ new.to = j.to /\ new.cursor = j.cursor
    BY <1>7, <1>8, <2>1 DEF Job
  <2>4. IsReading(new)
    BY <1>5, <1>9, <2>3 DEF IsReading
  <2>5. HasPages(new, R)
    BY <1>6, <1>10, <2>1, <2>3 DEF HasPages, HasMore
  <2>6. MaySet("read", new)
    BY <1>1, <2>3, <2>4, <2>5 DEF MaySet, Points
  <2>7. pc' = [pc EXCEPT ![r] = "read"]
    BY <1>5, <1>10
  <2> QED
    BY <1>2, <2>2, <2>6, <2>7, QuietRun DEF IInv, TypeOK
<1>11. CASE /\ IsTruncated(R, j.offset) /\ j.cursor < LastDate(page)
            /\ job' = [job EXCEPT ![r] = [[more EXCEPT !.cursor = NarrowFrom(page)] EXCEPT !.offset = 0]] /\ pc' = pc
  <2>1. PICK last, a, new : last = LastDate(page) /\ a = [more EXCEPT !.cursor = last] /\ new = [a EXCEPT !.offset = 0]
    OBVIOUS
  <2>2. job' = [job EXCEPT ![r] = new]
    BY <1>11, <2>1 DEF NarrowFrom
  <2>3. /\ last \in Nat /\ last <= j.to /\ last <= watermark /\ j.cursor < last
        /\ \A i \in R : date[i] < last => i \in got
    BY <1>1, <1>5, <1>11, <2>1, PageNarrows DEF IInv
  <2>4. /\ a \in Job /\ a.cursor = last /\ a.got = got /\ a.dir = j.dir /\ a.known = j.known
        /\ a.from = j.from /\ a.to = j.to
    BY <1>8, <2>1, <2>3 DEF Job
  <2>5. /\ new \in Job /\ new.offset = 0 /\ new.cursor = last /\ new.got = got /\ new.dir = j.dir
        /\ new.known = j.known /\ new.from = j.from /\ new.to = j.to
    BY <2>1, <2>4 DEF Job
  <2>6. Has(j.dir, j.from, last - 1, got)
    <3> SUFFICES ASSUME NEW i \in Invoices, DirectionOf[i] = j.dir, date[i] # 0, j.from <= date[i], date[i] <= last - 1
                 PROVE  i \in got
      BY DEF Has
    <3>1. date[i] \in Nat /\ date[i] < last
      BY <1>7, <2>3
    <3>2. CASE date[i] < j.cursor
      BY <1>7, <1>9, <3>1, <3>2 DEF Has
    <3>3. CASE j.cursor <= date[i]
      BY <1>1, <1>7, <2>3, <3>1, <3>3 DEF Result, Lesser
    <3> QED
      BY <1>7, <3>1, <3>2, <3>3
  <2>7. IsReading(new)
    BY <1>5, <1>7, <2>3, <2>5, <2>6 DEF IsReading
  <2>8. MaySet("read", new)
    BY <2>5, <2>7, NoPages DEF MaySet, Points, IInv
  <2>9. pc' = [pc EXCEPT ![r] = "read"]
    BY <1>5, <1>11
  <2> QED
    BY <1>2, <2>2, <2>8, <2>9, QuietRun DEF IInv, TypeOK
<1>12. CASE /\ ~HasMore(R, j.offset)
            /\ job' = [job EXCEPT ![r] = [[j EXCEPT !.got = got] EXCEPT !.target = Target(j)]]
            /\ pc' = [pc EXCEPT ![r] = "commit"]
  <2>1. PICK target, a, new : target = Target(j) /\ a = [j EXCEPT !.got = got] /\ new = [a EXCEPT !.target = target]
    OBVIOUS
  <2>2. job' = [job EXCEPT ![r] = new]
    BY <1>12, <2>1
  <2>3. target \in Nat /\ j.from <= target /\ target <= j.to /\ target <= watermark /\ target = Lesser(j.to, watermark)
    BY <1>5, <1>7, <2>1 DEF Target, Greater, Lesser, IsReading
  <2>4. a \in Job /\ a.got = got /\ a.dir = j.dir /\ a.known = j.known /\ a.from = j.from /\ a.to = j.to
    BY <1>5, <1>6, <2>1 DEF Job
  <2>5. /\ new \in Job /\ new.target = target /\ new.got = got /\ new.dir = j.dir /\ new.known = j.known
        /\ new.from = j.from /\ new.to = j.to
    BY <2>1, <2>3, <2>4 DEF Job
  <2>6. Has(j.dir, j.from, target, got)
    <3> SUFFICES ASSUME NEW i \in Invoices, DirectionOf[i] = j.dir, date[i] # 0, j.from <= date[i], date[i] <= target
                 PROVE  i \in got
      BY DEF Has
    <3>1. date[i] \in Nat
      BY <1>7
    <3>2. CASE date[i] < j.cursor
      BY <1>7, <1>9, <3>1, <3>2 DEF Has
    <3>3. CASE j.cursor <= date[i]
      BY <1>1, <1>6, <1>7, <1>12, <2>3, <3>1, <3>3 DEF Result
    <3> QED
      BY <1>7, <3>1, <3>2, <3>3
  <2>7. IsComplete(new)
    BY <1>5, <2>3, <2>5, <2>6 DEF IsComplete, IsReading
  <2>8. MaySet("commit", new)
    BY <2>5, <2>7 DEF MaySet, Points
  <2> QED
    BY <1>2, <1>12, <2>2, <2>8, QuietRun DEF IInv, TypeOK
<1> QED
  BY <1>4, <1>10, <1>11, <1>12

LEMMA LeaveKeeps ==
    ASSUME IInv, NEW r \in Runs, NEW failed \in BOOLEAN, Leave(r, failed),
           UNCHANGED <<now, date, watermark, syncError, syncEnabled>>, faults' \in Nat,
           stored' \subseteq Invoices, mark' \in [Directions -> Nat], since' \in [Directions -> Nat],
           \A d \in Directions : MarkOK(d)'
    PROVE  IInv'
<1>1. PICK at, new : /\ MaySet(at, new)
                     /\ pc' = [pc EXCEPT ![r] = at] /\ job' = [job EXCEPT ![r] = new]
  BY LeaveTyped
<1> QED
  BY <1>1, OneRunMoves DEF IInv, TypeOK

LEMMA FaultTyped == IInv /\ Fault => faults' \in Nat
BY DEF IInv, TypeOK, Fault

LEMMA MarksStand ==
    ASSUME IInv, UNCHANGED <<date, watermark, stored, mark, since>>
    PROVE  /\ \A d \in Directions : MarkOK(d)'
           /\ stored' \subseteq Invoices /\ mark' \in [Directions -> Nat] /\ since' \in [Directions -> Nat]
BY DEF IInv, TypeOK, MarkOK, Has

LEMMA BeginKeeps ==
    ASSUME IInv, NEW r \in Runs, Begin(r)
    PROVE  IInv'
<1>1. PICK new : new = [job[r] EXCEPT !.known = mark]
  OBVIOUS
<1>2. pc' = [pc EXCEPT ![r] = "auth"] /\ job' = [job EXCEPT ![r] = new]
  BY <1>1, Zenon DEF Begin, Move
<1>3. job[r] \in Job /\ mark \in [Directions -> Nat]
  BY DEF IInv, TypeOK
<1>4. new \in Job
  BY <1>1, <1>3 DEF Job
<1>5. MaySet("auth", new)
  BY <1>4, Elsewhere DEF Points
<1> QED
  BY <1>2, <1>5, QuietRun DEF Begin, ksef, database, IInv, TypeOK

LEMMA AuthenticateKeeps ==
    ASSUME IInv, NEW r \in Runs, Authenticate(r) \/ AuthenticateFails(r)
    PROVE  IInv'
<1>1. PICK failed, new : failed = TRUE /\ new = [job[r] EXCEPT !.failed = failed]
  OBVIOUS
<1>2. job[r] \in Job /\ job = [job EXCEPT ![r] = job[r]]
  BY DEF IInv, TypeOK
<1>3. new \in Job
  BY <1>1, <1>2 DEF Job
<1>4. CASE Authenticate(r)
  <2>1. pc' = [pc EXCEPT ![r] = "direction"] /\ job' = [job EXCEPT ![r] = job[r]]
    BY <1>2, <1>4 DEF Authenticate, Move
  <2>2. MaySet("direction", job[r])
    BY <1>2, Elsewhere DEF Points
  <2> QED
    BY <1>4, <2>1, <2>2, QuietRun DEF Authenticate, ksef, database, IInv, TypeOK
<1>5. CASE AuthenticateFails(r)
  <2>1. pc' = [pc EXCEPT ![r] = "status"] /\ job' = [job EXCEPT ![r] = new]
    BY <1>1, <1>5, Zenon DEF AuthenticateFails, Move
  <2>2. MaySet("status", new)
    BY <1>3, Elsewhere DEF Points
  <2> QED
    BY <1>5, <2>1, <2>2, QuietRun, FaultTyped DEF AuthenticateFails, ksef, database, IInv, TypeOK
<1> QED
  BY <1>4, <1>5

LEMMA StartDirectionKeeps ==
    ASSUME IInv, NEW r \in Runs, StartDirection(r)
    PROVE  IInv'
<1>1. PICK j, known, from :
          /\ j = job[r] /\ known = j.known[j.dir]
          /\ from = IF known = 0 THEN now - FirstLookback ELSE known
  OBVIOUS
<1>2. UNCHANGED <<now, date, watermark, stored, mark, syncError, syncEnabled, faults, since>>
  BY DEF StartDirection, ksef, database
<1>3. \/ from < now /\ pc' = [pc EXCEPT ![r] = "read"] /\ job' = [job EXCEPT ![r] = Window(j, from, now)]
      \/ Leave(r, FALSE)
  BY <1>1, Zenon DEF StartDirection
<1>4. j \in Job /\ known \in Nat /\ now \in Nat /\ FirstLookback < now /\ FirstLookback \in Nat
  <2>1. j \in Job /\ now \in Nat /\ FirstLookback < now
    BY <1>1 DEF IInv, TypeOK
  <2>2. j.dir \in Directions /\ j.known \in [Directions -> Nat]
    BY <2>1 DEF Job
  <2> QED
    BY <1>1, <2>1, <2>2, Constants
<1>5. from \in Nat /\ 1 <= from /\ (known # 0 => from = known)
  BY <1>1, <1>4
<1>6. CASE from < now /\ pc' = [pc EXCEPT ![r] = "read"] /\ job' = [job EXCEPT ![r] = Window(j, from, now)]
  <2>1. MaySet("read", Window(j, from, now))
    BY <1>1, <1>4, <1>5, <1>6, WindowOpens DEF IInv
  <2> QED
    BY <1>2, <1>6, <2>1, QuietRun DEF IInv, TypeOK
<1>7. CASE Leave(r, FALSE)
  BY <1>2, <1>7, LeaveKeeps, MarksStand DEF IInv, TypeOK
<1> QED
  BY <1>3, <1>6, <1>7

LEMMA GivingUpKeeps ==
    ASSUME IInv, NEW r \in Runs, ReadGivesUp(r) \/ QueryFails(r) \/ CommitNothing(r)
    PROVE  IInv'
<1>1. job[r].aborted \in BOOLEAN
  BY DEF IInv, TypeOK, Job
<1>2. \E failed \in BOOLEAN : Leave(r, failed)
  BY <1>1 DEF ReadGivesUp, QueryFails, CommitNothing
<1>3. UNCHANGED <<now, date, watermark, stored, mark, syncError, syncEnabled, since>>
  BY DEF ReadGivesUp, QueryFails, CommitNothing, ksef, database
<1>4. faults' \in Nat
  BY FaultTyped DEF ReadGivesUp, QueryFails, CommitNothing, IInv, TypeOK
<1> QED
  BY <1>2, <1>3, <1>4, LeaveKeeps, MarksStand

\* The statement stores what was read before it moves the mark over it.
LEMMA CommitMarks ==
    ASSUME IInv, NEW r \in Runs, pc[r] = "commit", CommitStatement(r), UNCHANGED <<date, watermark>>
    PROVE  /\ stored' \subseteq Invoices /\ mark' \in [Directions -> Nat] /\ since' \in [Directions -> Nat]
           /\ UNCHANGED <<syncError, syncEnabled>>
           /\ \A d \in Directions : MarkOK(d)' /\ mark[d] <= mark'[d]
<1>1. PICK j, d : j = job[r] /\ d = j.dir
  OBVIOUS
<1>2. j \in Job /\ IsComplete(j)
  BY <1>1 DEF IInv, TypeOK, CommitOK
<1>3. /\ d \in Directions /\ j.target \in Nat /\ j.from \in Nat /\ j.got \subseteq Invoices /\ j.known[d] \in Nat
      /\ 1 <= j.from /\ j.from <= j.target /\ j.target <= watermark /\ (j.known[d] # 0 => j.from = j.known[d])
      /\ Has(d, j.from, j.target, j.got)
  BY <1>1, <1>2 DEF Job, IsComplete
<1>4. stored' = stored \cup j.got /\ UNCHANGED <<syncError, syncEnabled>>
  BY <1>1 DEF CommitStatement
<1>5. /\ stored \subseteq Invoices /\ mark \in [Directions -> Nat] /\ since \in [Directions -> Nat] /\ watermark \in Nat
      /\ date \in [Invoices -> Nat] /\ \A e \in Directions : MarkOK(e)
  BY DEF IInv, TypeOK
\* A direction whose mark stays.
<1>6. ASSUME NEW e \in Directions, mark'[e] = mark[e], since'[e] = since[e]
      PROVE  MarkOK(e)' /\ mark[e] <= mark'[e]
  BY <1>4, <1>5, <1>6 DEF MarkOK, Has
<1>7. CASE MarkAsKnown(r)
  <2>1. mark[d] = j.known[d] /\ mark' = [mark EXCEPT ![d] = j.target]
    BY <1>1, <1>7 DEF MarkAsKnown, CommitStatement
  <2>2. since' = IF mark[d] = 0 THEN [since EXCEPT ![d] = j.from] ELSE since
    BY <1>1, <1>7 DEF CommitStatement
  <2>3. mark' \in [Directions -> Nat] /\ since' \in [Directions -> Nat] /\ mark'[d] = j.target
    BY <1>3, <1>5, <2>1, <2>2
  <2>4. mark[d] <= mark'[d]
    BY <1>3, <1>5, <2>1, <2>3
  <2>5. Has(d, since'[d], j.target, stored')
    <3>1. CASE mark[d] = 0
      BY <1>3, <1>4, <1>5, <2>2, <3>1 DEF Has
    <3>2. CASE mark[d] # 0
      <4>1. since'[d] = since[d] /\ j.from = mark[d] /\ Has(d, since[d], mark[d], stored)
        BY <1>3, <1>5, <2>1, <2>2, <3>2 DEF MarkOK
      <4> QED
        BY <1>3, <1>4, <1>5, <4>1 DEF Has
    <3> QED
      BY <3>1, <3>2
  <2>6. MarkOK(d)'
    BY <1>3, <2>3, <2>5 DEF MarkOK, Has
  <2>7. \A e \in Directions \ {d} : mark'[e] = mark[e] /\ since'[e] = since[e]
    BY <1>3, <1>5, <2>1, <2>2
  <2> QED
    BY <1>3, <1>4, <1>5, <1>6, <2>3, <2>4, <2>6, <2>7
<1>8. CASE ~MarkAsKnown(r)
  <2>1. UNCHANGED <<mark, since>>
    BY <1>8 DEF CommitStatement
  <2> QED
    BY <1>3, <1>4, <1>5, <1>6, <2>1
<1> QED
  BY <1>7, <1>8

LEMMA CommitKeeps ==
    ASSUME IInv, NEW r \in Runs, Commit(r)
    PROVE  IInv'
<1>1. PICK j : j = job[r]
  OBVIOUS
<1>2. pc[r] = "commit" /\ CommitStatement(r) /\ UNCHANGED <<now, date, watermark, faults>>
  BY DEF Commit, ksef
<1>3. /\ stored' \subseteq Invoices /\ mark' \in [Directions -> Nat] /\ since' \in [Directions -> Nat]
      /\ UNCHANGED <<syncError, syncEnabled>>
      /\ \A d \in Directions : MarkOK(d)'
  BY <1>2, CommitMarks
<1>4. faults' \in Nat /\ syncError' \in BOOLEAN /\ syncEnabled' \in BOOLEAN
  BY <1>2, <1>3 DEF IInv, TypeOK
<1>5. CASE ~MarkAsKnown(r) \/ j.end <= j.to \/ j.target <= j.from
  <2>1. Leave(r, FALSE)
    BY <1>1, <1>5 DEF Commit
  <2> QED
    BY <1>2, <1>3, <1>4, <2>1, LeaveKeeps
<1>6. CASE ~(~MarkAsKnown(r) \/ j.end <= j.to \/ j.target <= j.from)
  <2>1. PICK known, next : known = [j.known EXCEPT ![j.dir] = j.target] /\ next = [j EXCEPT !.known = known]
    OBVIOUS
  <2>2. pc' = [pc EXCEPT ![r] = "read"] /\ job' = [job EXCEPT ![r] = Window(next, j.target, j.end)]
    BY <1>1, <1>6, <2>1, Zenon DEF Commit
  <2>3. j \in Job /\ IsComplete(j)
    BY <1>1, <1>2 DEF IInv, TypeOK, CommitOK
  <2>4. /\ j.target \in Nat /\ j.end \in Nat /\ j.to \in Nat /\ j.from \in Nat /\ 1 <= j.from /\ j.from <= j.target
        /\ j.target <= j.to /\ j.dir \in Directions /\ j.known \in [Directions -> Nat]
    BY <2>3 DEF Job, IsComplete
  <2>5. 1 <= j.target /\ j.target <= j.end
    BY <1>6, <2>4
  <2>6. known \in [Directions -> Nat] /\ known[j.dir] = j.target
    BY <2>1, <2>4
  <2>7. next \in Job /\ next.known = known /\ next.dir = j.dir
    <3>1. next = [j EXCEPT !.known = known]
      BY <2>1
    <3> QED
      BY <2>3, <2>6, <3>1 DEF Job
  <2>8. MaySet("read", Window(next, j.target, j.end))
    BY <2>4, <2>5, <2>6, <2>7, WindowOpens DEF IInv
  <2> QED
    BY <1>2, <1>3, <1>4, <2>2, <2>8, OneRunMoves
<1> QED
  BY <1>5, <1>6

LEMMA CommitFailsKeeps ==
    ASSUME IInv, NEW r \in Runs, CommitFails(r)
    PROVE  IInv'
<1>1. /\ pc[r] = "commit" /\ Leave(r, TRUE) /\ UNCHANGED <<now, date, watermark>> /\ faults' \in Nat
      /\ CommitStatement(r) \/ UNCHANGED <<stored, mark, syncError, syncEnabled, since>>
  BY FaultTyped DEF CommitFails, ksef, database
<1>2. CASE CommitStatement(r)
  BY <1>1, <1>2, CommitMarks, LeaveKeeps
<1>3. CASE UNCHANGED <<stored, mark, syncError, syncEnabled, since>>
  BY <1>1, <1>3, MarksStand, LeaveKeeps
<1> QED
  BY <1>1, <1>2, <1>3

LEMMA EndingKeeps ==
    ASSUME IInv, NEW r \in Runs, RecordStatus(r) \/ Crash(r)
    PROVE  IInv'
<1>1. /\ pc' = [pc EXCEPT ![r] = "idle"] /\ job' = [job EXCEPT ![r] = NoJob]
      /\ UNCHANGED <<now, date, watermark, stored, mark, since, syncEnabled>>
  BY DEF RecordStatus, Crash, Move, ksef, database
<1>2. faults' \in Nat
  BY FaultTyped DEF RecordStatus, Crash, IInv, TypeOK
<1>3. syncError' \in BOOLEAN
  <2>1. syncError \in BOOLEAN /\ job[r].failed \in BOOLEAN
    BY DEF IInv, TypeOK, Job
  <2>2. syncError' \in {syncError, job[r].failed}
    BY DEF RecordStatus, Crash, database
  <2> QED
    BY <2>1, <2>2
<1>4. MaySet("idle", NoJob)
  BY Elsewhere, NoJobTyped DEF Points
<1>5. syncEnabled' \in BOOLEAN
  BY <1>1 DEF IInv, TypeOK
<1> QED
  BY <1>1, <1>2, <1>3, <1>4, <1>5, QuietRun

LEMMA AbortKeeps ==
    ASSUME IInv, NEW r \in Runs, Abort(r)
    PROVE  IInv'
<1>1. PICK j, aborted, new : j = job[r] /\ aborted = TRUE /\ new = [j EXCEPT !.aborted = aborted]
  OBVIOUS
<1>2. job' = [job EXCEPT ![r] = new] /\ pc' = pc
  BY <1>1 DEF Abort
<1>3. j \in Job /\ pc[r] \in Points /\ pc' = [pc EXCEPT ![r] = pc[r]]
  BY <1>1, <1>2 DEF IInv, TypeOK, Points
<1>4. /\ new \in Job /\ new.dir = j.dir /\ new.known = j.known /\ new.from = j.from /\ new.to = j.to
      /\ new.cursor = j.cursor /\ new.offset = j.offset /\ new.got = j.got /\ new.target = j.target
  BY <1>1, <1>3 DEF Job
<1>5. MaySet(pc[r], new)
  <2>1. CASE pc[r] = "read"
    <3>1. IsReading(j) /\ HasPages(j, Result(j.dir, j.cursor, j.to))
      BY <1>1, <2>1 DEF IInv, ReadingOK
    <3>2. IsReading(new) /\ HasPages(new, Result(new.dir, new.cursor, new.to))
      BY <1>4, <3>1 DEF IsReading, HasPages
    <3> QED
      BY <1>4, <2>1, <3>2 DEF MaySet, Points
  <2>2. CASE pc[r] = "commit"
    <3>1. IsComplete(new)
      BY <1>1, <1>4, <2>2 DEF IInv, CommitOK, IsComplete
    <3> QED
      BY <1>4, <2>2, <3>1 DEF MaySet, Points
  <2>3. CASE pc[r] \notin {"read", "commit"}
    BY <1>3, <1>4, <2>3, Elsewhere
  <2> QED
    BY <2>1, <2>2, <2>3
<1>6. UNCHANGED <<now, date, watermark, stored, mark, since, syncError, syncEnabled>> /\ faults' \in Nat
  BY FaultTyped DEF Abort, ksef, database
<1> QED
  BY <1>2, <1>3, <1>5, <1>6, QuietRun DEF IInv, TypeOK

-----------------------------------------------------------------------------
(* The invariant                                                           *)

LEMMA Starts == Init => IInv
<1> SUFFICES ASSUME Init PROVE IInv
  OBVIOUS
<1>1. /\ now = FirstLookback + 1 /\ date = [i \in Invoices |-> 0] /\ stored = {} /\ mark = InitialMark
      /\ pc = [r \in Runs |-> "idle"] /\ job = [r \in Runs |-> NoJob] /\ faults = 0 /\ since = InitialMark
      /\ syncError = FALSE /\ syncEnabled = TRUE
      /\ watermark = CHOOSE t \in {InitialMark[d] : d \in Directions} : \A d \in Directions : InitialMark[d] <= t
  BY DEF Init
<1>2. \A d \in Directions : InitialMark[d] \in Nat /\ InitialMark[d] <= FirstLookback + 1
  BY Constants
\* KSeF has completed what a mark covers.
<1>3. watermark \in Nat /\ \A d \in Directions : InitialMark[d] <= watermark
  <2> DEFINE T == {m \in Nat : \A d \in Directions : InitialMark[d] <= m}
  <2>1. FirstLookback + 1 \in T /\ T \in SUBSET Nat
    BY <1>2, Constants
  <2>2. \E n \in T : \A m \in T : n <= m
    <3> HIDE DEF T
    <3> QED
      BY <2>1, LeastNumber
  <2>3. PICK t \in Nat : /\ \A d \in Directions : InitialMark[d] <= t
                         /\ \A m \in Nat : (\A d \in Directions : InitialMark[d] <= m) => t <= m
    BY <2>2
  <2>4. \E d \in Directions : InitialMark[d] = t
    <3> SUFFICES ASSUME \A d \in Directions : InitialMark[d] # t PROVE FALSE
      OBVIOUS
    <3>1. \A d \in Directions : InitialMark[d] \in Nat /\ InitialMark[d] < t
      BY <1>2, <2>3
    <3>2. t - 1 \in Nat /\ \A d \in Directions : InitialMark[d] <= t - 1
      BY <3>1, Constants
    <3> QED
      BY <2>3, <3>2
  <2>5. \E s \in {InitialMark[d] : d \in Directions} : \A d \in Directions : InitialMark[d] <= s
    BY <2>3, <2>4
  <2> QED
    BY <1>1, <1>2, <2>5
<1>4. TypeOK /\ FirstLookback < now
  <2>1. InitialMark \in [Directions -> Nat] /\ now \in Nat /\ FirstLookback < now
    BY <1>1, Constants
  <2>2. job \in [Runs -> Job] /\ pc \in [Runs -> Points] /\ date \in [Invoices -> Nat]
    BY <1>1, NoJobTyped DEF Points
  <2> QED
    BY <1>1, <1>3, <2>1, <2>2 DEF TypeOK, Points
<1>5. \A d \in Directions : MarkOK(d)
  BY <1>1, <1>3 DEF MarkOK, Has
<1>6. \A r \in Runs : ReadingOK(r) /\ CommitOK(r)
  BY <1>1 DEF ReadingOK, CommitOK
<1> QED
  BY <1>4, <1>5, <1>6 DEF IInv

LEMMA NobodyMoves ==
    ASSUME IInv, UNCHANGED <<date, watermark, stored, mark, syncError, pc, job, faults, since>>,
           now' \in Nat, now <= now', syncEnabled' \in BOOLEAN
    PROVE  IInv'
<1>1. TypeOK' /\ (FirstLookback < now)'
  BY Constants DEF IInv, TypeOK
<1>2. \A d \in Directions : MarkOK(d)'
  BY MarksStand
<1>3. ASSUME NEW r \in Runs PROVE ReadingOK(r)' /\ CommitOK(r)'
  <2>1. ReadingOK(r) /\ CommitOK(r)
    BY DEF IInv
  <2> QED
    BY <2>1 DEF ReadingOK, CommitOK, IsReading, IsComplete, Has, HasPages, Rank, Before, Result
<1> QED
  BY <1>1, <1>2, <1>3 DEF IInv

LEMMA AcceptKeeps ==
    ASSUME IInv, NEW i \in Invoices, Accept(i)
    PROVE  IInv'
<1>1. PICK t \in watermark + 1 .. now : date' = [date EXCEPT ![i] = t]
  BY DEF Accept
<1>2. KsefGrows
  BY <1>1 DEF Accept, KsefGrows, IInv, TypeOK
<1> QED
  BY <1>2, KsefKeeps DEF Accept, database

LEMMA AdvanceWatermarkKeeps ==
    ASSUME IInv, AdvanceWatermark
    PROVE  IInv'
<1>1. PICK t \in watermark + 1 .. now : watermark' = t
  BY DEF AdvanceWatermark
<1>2. KsefGrows
  BY <1>1 DEF AdvanceWatermark, KsefGrows, IInv, TypeOK
<1> QED
  BY <1>2, KsefKeeps DEF AdvanceWatermark, database

LEMMA Inductive == IInv /\ [Next]_vars => IInv'
<1> SUFFICES ASSUME IInv, [Next]_vars PROVE IInv'
  OBVIOUS
<1>1. ASSUME NEW r \in Runs, RunStep(r) PROVE IInv'
  BY <1>1, BeginKeeps, AuthenticateKeeps, StartDirectionKeeps, ReadPageKeeps, GivingUpKeeps, CommitKeeps, EndingKeeps
     DEF RunStep
<1>2. ASSUME NEW r \in Runs, FaultStep(r) PROVE IInv'
  BY <1>2, AuthenticateKeeps, GivingUpKeeps, CommitFailsKeeps, AbortKeeps, EndingKeeps DEF FaultStep
<1>3. CASE (\E i \in Invoices : Accept(i)) \/ AdvanceWatermark
  BY <1>3, AcceptKeeps, AdvanceWatermarkKeeps
<1>4. CASE SwitchSync \/ Tick \/ UNCHANGED vars
  <2>1. UNCHANGED <<date, watermark, stored, mark, syncError, pc, job, faults, since>>
    BY <1>4 DEF SwitchSync, Tick, vars, ksef, database
  <2>2. now' \in Nat /\ now <= now'
    BY <1>4 DEF SwitchSync, Tick, vars, IInv, TypeOK
  <2>3. syncEnabled' \in BOOLEAN
    BY <1>4 DEF SwitchSync, Tick, vars, database, IInv, TypeOK
  <2> QED
    BY <2>1, <2>2, <2>3, NobodyMoves
<1> QED
  BY <1>1, <1>2, <1>3, <1>4 DEF Next

LEMMA Invariance == Spec => []IInv
BY Starts, Inductive, PTL DEF Spec

-----------------------------------------------------------------------------
(* What follows                                                            *)

\* No invoice is skipped for good: everything KSeF holds between the start of
\* the first window and the mark is stored, for any number of invoices, runs,
\* pages, truncations and faults (invoice-retrieval.ts:9).
THEOREM NothingIsSkipped == Spec => []NothingSkipped
<1>1. IInv => NothingSkipped
  <2> SUFFICES ASSUME IInv, NEW i \in Invoices, date[i] # 0, mark[DirectionOf[i]] # 0,
                      since[DirectionOf[i]] <= date[i], date[i] <= mark[DirectionOf[i]]
               PROVE  i \in stored
    BY DEF NothingSkipped
  <2>1. MarkOK(DirectionOf[i])
    BY Constants DEF IInv
  <2> QED
    BY <2>1 DEF MarkOK, Has
<1> QED
  BY <1>1, Invariance, PTL

\* A window that is handed over for committing was read to its end although
\* KSeF went on while its pages were read (invoice-retrieval.ts:177-217).
THEOREM WindowsAreComplete == Spec => []WindowIsComplete
<1>1. IInv => WindowIsComplete
  <2> SUFFICES ASSUME IInv, NEW r \in Runs, pc[r] = "commit",
                      NEW i \in Result(job[r].dir, job[r].from, job[r].target)
               PROVE  i \in job[r].got
    BY DEF WindowIsComplete
  <2>1. Has(job[r].dir, job[r].from, job[r].target, job[r].got)
    BY DEF IInv, CommitOK, IsComplete
  <2>2. /\ i \in Invoices /\ DirectionOf[i] = job[r].dir /\ date[i] # 0 /\ job[r].from <= date[i]
        /\ date[i] <= Lesser(job[r].target, watermark)
    BY DEF Result
  <2>3. date[i] \in Nat /\ job[r].target \in Nat /\ watermark \in Nat
    BY <2>2 DEF IInv, TypeOK, Job
  <2>4. date[i] <= job[r].target
    BY <2>2, <2>3 DEF Lesser
  <2> QED
    BY <2>1, <2>2, <2>4 DEF Has
<1> QED
  BY <1>1, Invariance, PTL

\* Whichever of several overlapping runs commits last, the mark never moves
\* back (invoice-retrieval.ts:121-159, the comparison in the UPDATE).
THEOREM MarksNeverMoveBack == Spec => MarkNeverMovesBack
<1>1. ASSUME IInv, [Next]_vars PROVE \A d \in Directions : mark[d] <= mark'[d]
  <2>1. \A d \in Directions : mark[d] \in Nat
    BY <1>1 DEF IInv, TypeOK
  <2>2. CASE UNCHANGED mark
    BY <2>1, <2>2
  <2>3. ASSUME NEW r \in Runs, pc[r] = "commit", CommitStatement(r), UNCHANGED <<date, watermark>>
        PROVE  \A d \in Directions : mark[d] <= mark'[d]
    BY <1>1, <2>3, CommitMarks
  <2>4. \/ UNCHANGED mark
        \/ \E r \in Runs : pc[r] = "commit" /\ CommitStatement(r) /\ UNCHANGED <<date, watermark>>
    <3>1. ASSUME NEW r \in Runs, Commit(r) \/ CommitFails(r)
          PROVE  UNCHANGED mark \/ (pc[r] = "commit" /\ CommitStatement(r) /\ UNCHANGED <<date, watermark>>)
      BY <3>1 DEF Commit, CommitFails, ksef, database
    <3>2. ASSUME NEW r \in Runs,
                 \/ Begin(r) \/ Authenticate(r) \/ StartDirection(r) \/ ReadPage(r) \/ ReadGivesUp(r)
                 \/ CommitNothing(r) \/ RecordStatus(r) \/ AuthenticateFails(r) \/ QueryFails(r) \/ Abort(r) \/ Crash(r)
          PROVE  UNCHANGED mark
      BY <3>2 DEF Begin, Authenticate, StartDirection, ReadPage, ReadGivesUp, CommitNothing, RecordStatus,
         AuthenticateFails, QueryFails, Abort, Crash, database
    <3>3. CASE (\E i \in Invoices : Accept(i)) \/ AdvanceWatermark \/ SwitchSync \/ Tick \/ UNCHANGED vars
      BY <3>3 DEF Accept, AdvanceWatermark, SwitchSync, Tick, vars, database
    <3> QED
      BY <1>1, <3>1, <3>2, <3>3 DEF Next, RunStep, FaultStep
  <2> QED
    BY <2>2, <2>3, <2>4
<1>2. IInv /\ [Next]_vars => [\A d \in Directions : mark[d] <= mark'[d]]_vars
  BY <1>1
<1> QED
  BY <1>2, Invariance, PTL DEF Spec, MarkNeverMovesBack
=============================================================================
