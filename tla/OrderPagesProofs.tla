-------------------------- MODULE OrderPagesProofs --------------------------
(***************************************************************************)
(* Proofs about the walk through the pages of a signer's orders, for every *)
(* table, page size and number of requests: what the walk cannot miss, and *)
(* what it gives when nothing changes.                                     *)
(*                                                                         *)
(* Both go by the rank of an order, the number of listed orders that are   *)
(* newer.  In any listing an order that shares its second with no other    *)
(* has the place its rank gives it, and as long as no listed order is      *)
(* taken away, ranks only grow: what is not yet seen lies further down     *)
(* than the pages already read.                                            *)
(***************************************************************************)
EXTENDS OrderPages, FiniteSetTheorems, SequenceTheorems, TLAPS

Newer(o) == {x \in Listed : created[x] > created[o]}

Rank(o) == Cardinality(Newer(o))

PagesTypeOK ==
    /\ created \in [DOMAIN row -> Int]
    /\ IsFiniteSet(DOMAIN row)
    /\ born \in [Reqs -> Int]
    /\ now \in Int
    /\ lpc \in {"idle", "count", "list", "done"}
    /\ status \in {"all", "Pending"}
    /\ size \in PageSizes
    /\ page \in Nat \ {0}
    /\ seen \in Seq(Orders)
    /\ lpc = "idle" => page = 1 /\ seen = <<>>

\* An order of the start that was not seen has the pages read so far, and at
\* the end the whole list, before it: so at the end there is none.
NotPassed ==
    lpc /= "idle" /\ ~shrunk =>
        /\ start \subseteq Listed
        /\ \A o \in start :
              \/ o \in Range(seen)
              \/ Tied(o)
              \/ lpc /= "done" /\ Rank(o) >= Offset(page)

NoTies == ~(\E o \in Listed : Tied(o))

\* While the table does not change, what was seen is the beginning of the
\* list, up to the page the walk is at, and at the end all of it.
QuietSoFar ==
    lpc /= "idle" /\ quiet /\ NoTies =>
        /\ \A i \in DOMAIN seen : seen[i] \in Listed /\ Rank(seen[i]) = i - 1
        /\ lpc \in {"list", "done"} => total = Cardinality(Listed)
        /\ IF lpc = "done" THEN Len(seen) = Cardinality(Listed)
                           ELSE /\ Len(seen) = Offset(page)
                                /\ Offset(page) <= Cardinality(Listed)

IInv == PagesTypeOK /\ NotPassed /\ QuietSoFar

-----------------------------------------------------------------------------
(* The list and its pages.                                                 *)

LEMMA ListedFinite ==
    ASSUME PagesTypeOK
    PROVE  /\ Listed \subseteq DOMAIN row /\ Listed \subseteq Orders
           /\ IsFiniteSet(Listed) /\ Cardinality(Listed) \in Nat
           /\ \A o \in Listed : created[o] \in Int
           /\ \A o : IsFiniteSet(Newer(o)) /\ Rank(o) \in Nat
<1>1. Listed \subseteq DOMAIN row /\ Listed \subseteq Orders
  BY WantedAssumption DEF Listed, Matching
<1>2. IsFiniteSet(Listed) BY <1>1, FS_Subset DEF PagesTypeOK
<1>3. \A o : Newer(o) \subseteq Listed BY DEF Newer
<1>4. \A o : IsFiniteSet(Newer(o)) BY <1>2, <1>3, FS_Subset
<1> QED BY <1>1, <1>2, <1>4, FS_CardinalityType DEF PagesTypeOK, Rank

\* Where pages begin.
LEMMA Offsets ==
    ASSUME PagesTypeOK
    PROVE  /\ size \in Nat \ {0} /\ Offset(page) \in Nat
           /\ page = 1 => Offset(page) = 0
           /\ page' = page + 1 /\ size' = size => Offset(page)' = Offset(page) + size
<1>1. size \in Nat \ {0} /\ page \in Nat \ {0} BY PageSizesAssumption DEF PagesTypeOK
<1>2. \A p \in Nat \ {0}, n \in Nat \ {0} :
         (p - 1) * n \in Nat /\ (1 - 1) * n = 0 /\ (p + 1 - 1) * n = (p - 1) * n + n
  OBVIOUS
<1> QED BY <1>1, <1>2 DEF Offset

\* An order that has its second to itself has one place in every listing.
LEMMA RankIsPlace ==
    ASSUME PagesTypeOK, NEW t \in Listings, NEW k \in DOMAIN t, ~Tied(t[k])
    PROVE  Rank(t[k]) = k - 1
<1> DEFINE N == Cardinality(Listed)
           f == [i \in 1..(k - 1) |-> t[i]]
<1>1. N \in Nat /\ \A o \in Listed : created[o] \in Int BY ListedFinite
<1>2. /\ DOMAIN t = 1..N /\ k \in 1..N
      /\ \A i \in 1..N : t[i] \in Listed
      /\ \A i, j \in 1..N : t[i] = t[j] => i = j
      /\ \A x \in Listed : \E i \in 1..N : x = t[i]
      /\ \A i, j \in 1..N : i < j => created[t[i]] >= created[t[j]]
  BY DEF Listings, Bijection, Injection, Surjection, IsInjective
<1> HIDE DEF N
<1>3. \A x \in Newer(t[k]) : \E i \in 1..(k - 1) : x = t[i]
  <2> SUFFICES ASSUME NEW x \in Newer(t[k]) PROVE \E i \in 1..(k - 1) : x = t[i] OBVIOUS
  <2>1. PICK i \in 1..N : x = t[i] BY <1>2 DEF Newer
  <2>2. created[t[i]] > created[t[k]] BY <2>1 DEF Newer
  <2>3. created[t[i]] \in Int /\ created[t[k]] \in Int BY <1>1, <1>2
  <2>4. i /= k BY <2>2, <2>3
  <2>5. ~(k < i) BY <2>2, <2>3, <1>2
  <2> QED BY <2>1, <2>4, <2>5, <1>1, <1>2
<1>4. \A i \in 1..(k - 1) : t[i] \in Newer(t[k])
  <2> SUFFICES ASSUME NEW i \in 1..(k - 1) PROVE t[i] \in Newer(t[k]) OBVIOUS
  <2>1. i \in 1..N /\ i < k BY <1>1, <1>2
  <2>2. created[t[i]] >= created[t[k]] /\ t[i] \in Listed /\ t[i] /= t[k] BY <2>1, <1>2
  <2>3. created[t[i]] /= created[t[k]] BY <2>2 DEF Tied
  <2>4. created[t[i]] \in Int /\ created[t[k]] \in Int BY <1>1, <1>2, <2>1
  <2> QED BY <2>2, <2>3, <2>4 DEF Newer
<1>5. f \in Bijection(1..(k - 1), Newer(t[k]))
  <2>1. f \in [1..(k - 1) -> Newer(t[k])] BY <1>4
  <2>2. IsInjective(f)
    <3>1. \A i \in 1..(k - 1) : i \in 1..N BY <1>1, <1>2
    <3> QED BY <3>1, <1>2 DEF IsInjective
  <2>3. \A x \in Newer(t[k]) : \E i \in 1..(k - 1) : f[i] = x BY <1>3
  <2> QED BY <2>1, <2>2, <2>3 DEF Bijection, Injection, Surjection
<1>6. k - 1 \in Nat BY <1>1, <1>2
<1>7. Cardinality(Newer(t[k])) = k - 1
  <2>1. ExistsBijection(1..(k - 1), Newer(t[k])) BY <1>5 DEF ExistsBijection
  <2> QED BY <2>1, <1>6, FS_CountingElements
<1> QED BY <1>7 DEF Rank

\* A page is the part of the listing that begins after its offset, and it is
\* full exactly if the listing goes on that far.
LEMMA PageOfListing ==
    ASSUME PagesTypeOK, NEW t \in Listings
    PROVE  /\ PageOf(t) \in Seq(Orders)
           /\ \A i \in 1..Len(PageOf(t)) :
                 /\ Offset(page) + i \in 1..Cardinality(Listed)
                 /\ PageOf(t)[i] = t[Offset(page) + i]
           /\ Cardinality(Listed) >= Offset(page) + size => Len(PageOf(t)) = size
           /\ Cardinality(Listed) < Offset(page) + size =>
                 /\ Len(PageOf(t)) < size
                 /\ Offset(page) <= Cardinality(Listed) =>
                       Len(PageOf(t)) = Cardinality(Listed) - Offset(page)
           /\ \A k \in 1..Cardinality(Listed) :
                 Offset(page) < k /\ k <= Offset(page) + size =>
                    k - Offset(page) \in 1..Len(PageOf(t))
<1> DEFINE N == Cardinality(Listed)
           off == Offset(page)
           m == IF N >= off + size THEN size ELSE IF N > off THEN N - off ELSE 0
           Rows == {n \in DOMAIN t : n - off \in 1..size}
<1>1. N \in Nat /\ off \in Nat /\ size \in Nat \ {0} /\ Listed \subseteq Orders
  BY ListedFinite, Offsets
<1>2. t \in [1..N -> Listed] /\ DOMAIN t = 1..N
  BY DEF Listings, Bijection, Injection
<1>3. PageOf(t) = [i \in 1..Cardinality(Rows) |-> t[off + i]] BY DEF PageOf
<1> HIDE DEF N, off
<1>4. m \in Nat BY <1>1
<1>5. Rows = (off + 1)..(off + m)
  <2>1. \A n \in Int : n \in 1..N /\ n - off \in 1..size <=> n \in (off + 1)..(off + m)
    BY <1>1
  <2> QED BY <2>1, <1>1, <1>2, <1>4
<1>6. Cardinality(Rows) = m
  <2>1. off + 1 \in Int /\ off + m \in Int BY <1>1, <1>4
  <2>2. Cardinality((off + 1)..(off + m))
          = IF off + 1 > off + m THEN 0 ELSE (off + m) - (off + 1) + 1
    BY <2>1, FS_Interval
  <2> HIDE DEF m, Rows
  <2>3. Cardinality((off + 1)..(off + m)) = m BY <2>2, <1>1, <1>4
  <2> QED BY <2>3, <1>5
<1> HIDE DEF Rows
<1>7. \A i \in 1..m : off + i \in 1..N BY <1>1
<1>8. PageOf(t) = [i \in 1..m |-> t[off + i]] BY <1>3, <1>6
<1>9. \A i \in 1..m : t[off + i] \in Orders BY <1>1, <1>2, <1>7
<1>10. m = (IF N >= off + size THEN size ELSE IF N > off THEN N - off ELSE 0) OBVIOUS
<1> HIDE DEF m
<1>11. PageOf(t) \in Seq(Orders) /\ Len(PageOf(t)) = m BY <1>4, <1>8, <1>9
<1>12. \A i \in 1..m : PageOf(t)[i] = t[off + i] BY <1>8
<1>13. /\ N >= off + size => m = size
       /\ N < off + size => m < size /\ (off <= N => m = N - off)
       /\ \A k \in 1..N : off < k /\ k <= off + size => k - off \in 1..m
  BY <1>1, <1>10
<1> QED BY <1>7, <1>11, <1>12, <1>13 DEF N, off

-----------------------------------------------------------------------------
(* What the table's changes do to the list.                                *)

LEMMA SameTable ==
    ASSUME UNCHANGED <<row, created, status>>
    PROVE  /\ Listed' = Listed
           /\ \A o : (Tied(o)' <=> Tied(o)) /\ Rank(o)' = Rank(o)
           /\ NoTies' <=> NoTies
<1>1. Listed' = Listed BY DEF Listed, Matching
<1>2. \A o : Tied(o)' <=> Tied(o) BY <1>1 DEF Tied
<1>3. \A o : Newer(o)' = Newer(o) BY <1>1 DEF Newer
<1> QED BY <1>1, <1>2, <1>3 DEF Rank, NoTies

\* Orders that come in as one likes push the others down, if anything.
LEMMA GrownTable ==
    ASSUME PagesTypeOK, PagesTypeOK', Listed \subseteq Listed',
           \A o \in Listed : created'[o] = created[o]
    PROVE  \A o \in Listed : (Tied(o) => Tied(o)') /\ Rank(o)' >= Rank(o)
<1> SUFFICES ASSUME NEW o \in Listed PROVE (Tied(o) => Tied(o)') /\ Rank(o)' >= Rank(o)
  OBVIOUS
<1>1. Tied(o) => Tied(o)' BY DEF Tied
<1>2. Newer(o) \subseteq Newer(o)' BY DEF Newer
<1>3. IsFiniteSet(Newer(o)') /\ Rank(o) \in Nat /\ Rank(o)' \in Nat
  <2>1. Newer(o)' \subseteq DOMAIN row' BY DEF Newer, Listed, Matching
  <2>2. IsFiniteSet(Newer(o)') BY <2>1, FS_Subset DEF PagesTypeOK
  <2> QED BY <2>2, ListedFinite, FS_CardinalityType DEF Rank
<1>4. Cardinality(Newer(o)) <= Cardinality(Newer(o)') BY <1>2, <1>3, FS_Subset
<1> QED BY <1>1, <1>3, <1>4 DEF Rank

\* A handler changes the table by inserting one row, if at all.
LEMMA HandlersTable ==
    ASSUME PagesTypeOK, NEW r \in Reqs, HandlersStep(r)
    PROVE  /\ created' \in [DOMAIN row' -> Int] /\ IsFiniteSet(DOMAIN row')
           /\ born' \in [Reqs -> Int] /\ now' = now
           /\ DOMAIN row \subseteq DOMAIN row'
           /\ \A o \in DOMAIN row : row'[o] = row[o] /\ created'[o] = created[o]
           /\ row' = row => created' = created
<1>1. /\ created' = [o \in DOMAIN row' |-> IF o \in DOMAIN row THEN created[o] ELSE born[r]]
      /\ created \in [DOMAIN row -> Int] /\ born[r] \in Int
  BY DEF HandlersStep, PagesTypeOK
<1>2. now' = now /\ (row' = row \/ Inserted(order[r]))
  BY DEF HandlersStep, HandlerStep, Receive, Find, FindFails, Insert, InsertFails,
         CallAdd, AddReturns
<1>3. \/ row' = row
      \/ row' = [x \in DOMAIN row \cup {order[r]} |->
                    IF x = order[r] THEN NewRow ELSE row[x]] /\ order[r] \notin DOMAIN row
  BY DEF HandlersStep, HandlerStep, Receive, Find, FindFails, Insert, InsertFails,
         CallAdd, AddReturns, Inserted
<1>4. /\ DOMAIN row \subseteq DOMAIN row' /\ \A o \in DOMAIN row : row'[o] = row[o]
      /\ DOMAIN row' = DOMAIN row \/ DOMAIN row' = DOMAIN row \cup {order[r]}
  BY <1>3
<1>5. IsFiniteSet(DOMAIN row')
  <2>1. IsFiniteSet(DOMAIN row) BY DEF PagesTypeOK
  <2>2. IsFiniteSet(DOMAIN row \cup {order[r]}) BY <2>1, FS_AddElement
  <2>3. CASE DOMAIN row' = DOMAIN row BY <2>1, <2>3
  <2>4. CASE DOMAIN row' = DOMAIN row \cup {order[r]} BY <2>2, <2>4
  <2> QED BY <2>3, <2>4, <1>4
<1>6. created' \in [DOMAIN row' -> Int] BY <1>1
<1>7. \A o \in DOMAIN row : created'[o] = created[o] BY <1>1, <1>4
<1>8. row' = row => created' = created
  <2> SUFFICES ASSUME row' = row PROVE created' = created OBVIOUS
  <2>1. DOMAIN created' = DOMAIN created BY <1>1
  <2> QED BY <2>1, <1>1
<1>9. born' \in [Reqs -> Int] BY DEF HandlersStep, PagesTypeOK
<1> QED BY <1>2, <1>4, <1>5, <1>6, <1>7, <1>8, <1>9

-----------------------------------------------------------------------------
(* The steps.                                                              *)

LEMMA InitPages == PagesInit => IInv
<1> SUFFICES ASSUME PagesInit PROVE IInv OBVIOUS
<1> USE DEF PagesInit
<1>1. DOMAIN row = DOMAIN Earlier OBVIOUS
<1>2. PagesTypeOK
  <2>1. created \in [DOMAIN row -> Int] /\ IsFiniteSet(DOMAIN row)
    BY <1>1, EarlierAssumption
  <2>2. born \in [Reqs -> Int] /\ seen \in Seq(Orders) OBVIOUS
  <2> QED BY <2>1, <2>2 DEF PagesTypeOK
<1> QED BY <1>2 DEF IInv, NotPassed, QuietSoFar

\* The table grows, or a row in it changes its status: what is written of the
\* walk stays true if the orders listed stay listed.
LEMMA TableStep ==
    ASSUME IInv, PagesTypeOK',
           UNCHANGED <<lpc, status, size, page, total, seen, start>>,
           ~shrunk' => ~shrunk /\ Listed \subseteq Listed',
           \A o \in Listed : created'[o] = created[o],
           quiet' => quiet /\ UNCHANGED <<row, created>>
    PROVE  IInv'
<1> USE DEF IInv
<1>1. Offset(page)' = Offset(page) BY DEF Offset
<1>2. NotPassed'
  <2> SUFFICES ASSUME lpc /= "idle", ~shrunk'
               PROVE  /\ start \subseteq Listed'
                      /\ \A o \in start :
                            \/ o \in Range(seen)
                            \/ Tied(o)'
                            \/ lpc /= "done" /\ Rank(o)' >= Offset(page)
    BY <1>1 DEF NotPassed
  <2>1. /\ start \subseteq Listed
        /\ \A o \in start : \/ o \in Range(seen)
                            \/ Tied(o)
                            \/ lpc /= "done" /\ Rank(o) >= Offset(page)
    BY DEF NotPassed
  <2>2. \A o \in Listed : (Tied(o) => Tied(o)') /\ Rank(o)' >= Rank(o)
    BY GrownTable
  <2>3. Offset(page) \in Nat /\ \A o : Rank(o) \in Nat BY Offsets, ListedFinite
  <2>4. \A o : Rank(o)' \in Nat
    <3>1. \A o : Newer(o)' \subseteq DOMAIN row' BY DEF Newer, Listed, Matching
    <3>2. \A o : IsFiniteSet(Newer(o)') BY <3>1, FS_Subset DEF PagesTypeOK
    <3> QED BY <3>2, FS_CardinalityType DEF Rank
  <2>5. \A o \in Listed : Rank(o) >= Offset(page) => Rank(o)' >= Offset(page)
    BY <2>2, <2>3, <2>4
  <2> QED BY <2>1, <2>2, <2>5
<1>3. QuietSoFar'
  <2> SUFFICES ASSUME quiet' PROVE QuietSoFar' BY DEF QuietSoFar
  <2>1. Listed' = Listed /\ (NoTies' <=> NoTies) /\ \A o : Rank(o)' = Rank(o)
    BY SameTable
  <2> QED BY <2>1, <1>1 DEF QuietSoFar
<1> QED BY <1>2, <1>3

LEMMA HandlersInv ==
    ASSUME IInv, NEW r \in Reqs, HandlersStep(r) PROVE IInv'
<1>1. /\ created' \in [DOMAIN row' -> Int] /\ IsFiniteSet(DOMAIN row')
      /\ born' \in [Reqs -> Int] /\ now' = now
      /\ DOMAIN row \subseteq DOMAIN row'
      /\ \A o \in DOMAIN row : row'[o] = row[o] /\ created'[o] = created[o]
      /\ row' = row => created' = created
  BY HandlersTable DEF IInv
<1>2. /\ UNCHANGED <<lpc, status, size, page, total, seen, start, shrunk>>
      /\ quiet' => quiet /\ row' = row
  BY DEF HandlersStep
<1>3. PagesTypeOK' BY <1>1, <1>2 DEF IInv, PagesTypeOK
<1>4. Listed \subseteq DOMAIN row /\ Listed \subseteq Listed'
  BY <1>1, <1>2 DEF Listed, Matching
<1> QED BY <1>1, <1>2, <1>3, <1>4, TableStep

LEMMA FillInv ==
    ASSUME IInv, NEW o \in Orders, Fill(o) PROVE IInv'
<1>1. /\ o \in DOMAIN row /\ row[o].status = "Pending"
      /\ row' = [row EXCEPT ![o] = [status |-> "Filled", filled |-> Size(o)]]
      /\ shrunk' = (shrunk \/ (o \in Listed /\ status = "Pending"))
      /\ quiet' = FALSE
      /\ UNCHANGED <<lpc, status, size, page, total, seen, start, created, born, now>>
  BY DEF Fill, tableVars
<1>2. DOMAIN row' = DOMAIN row /\ \A x \in DOMAIN row : x /= o => row'[x] = row[x]
  BY <1>1
<1>3. PagesTypeOK' BY <1>1, <1>2 DEF IInv, PagesTypeOK
<1>4. ASSUME ~shrunk' PROVE ~shrunk /\ Listed \subseteq Listed'
  <2>1. ~shrunk /\ (o \notin Listed \/ status = "all")
    BY <1>1, <1>4 DEF IInv, PagesTypeOK
  <2>2. ASSUME NEW x \in Listed PROVE x \in Listed'
    BY <1>1, <1>2, <2>1, <2>2 DEF Listed, Matching
  <2> QED BY <2>1, <2>2
<1> QED BY <1>1, <1>3, <1>4, TableStep

LEMMA RestartInv ==
    ASSUME IInv, RestartListing \/ (ListFails /\ UNCHANGED <<vars, tableVars>>)
    PROVE  IInv'
<1>1. /\ UNCHANGED <<row, created, born, now, status, size, page, total, seen, start,
                    quiet, shrunk>>
      /\ lpc' = lpc \/ (lpc = "list" /\ lpc' = "count")
  BY DEF RestartListing, Restart, ListFails, vars, tableVars
<1>2. PagesTypeOK' BY <1>1 DEF IInv, PagesTypeOK
<1>3. Listed' = Listed /\ (NoTies' <=> NoTies)
      /\ \A o : (Tied(o)' <=> Tied(o)) /\ Rank(o)' = Rank(o)
  BY <1>1, SameTable
<1>4. Offset(page)' = Offset(page) BY <1>1 DEF Offset
<1>5. NotPassed' BY <1>1, <1>3, <1>4 DEF IInv, NotPassed
<1>6. QuietSoFar' BY <1>1, <1>3, <1>4 DEF IInv, QuietSoFar
<1> QED BY <1>2, <1>5, <1>6 DEF IInv

LEMMA BeginInv ==
    ASSUME IInv, NEW st \in {"all", "Pending"}, Begin(st), UNCHANGED <<vars, tableVars>>
    PROVE  IInv'
<1>1. /\ lpc = "idle" /\ lpc' = "count" /\ status' = st /\ start' = Matching(st)
      /\ UNCHANGED <<row, created, born, now, size, page, total, seen>>
  BY DEF Begin, vars, tableVars
<1>2. PagesTypeOK' BY <1>1 DEF IInv, PagesTypeOK
<1>3. Offset(page)' = 0 /\ seen' = <<>>
  <2>1. page = 1 /\ seen = <<>> BY <1>1 DEF IInv, PagesTypeOK
  <2>2. Offset(page) = 0 BY <2>1, Offsets DEF IInv
  <2>3. Offset(page)' = Offset(page) BY <1>1 DEF Offset
  <2> QED BY <1>1, <2>1, <2>2, <2>3
<1>4. Listed' = start' BY <1>1 DEF Listed, Matching
<1>5. \A o : Rank(o)' \in Nat
  <2>1. \A o : Newer(o)' \subseteq DOMAIN row' BY DEF Newer, Listed, Matching
  <2>2. \A o : IsFiniteSet(Newer(o)') BY <1>2, <2>1, FS_Subset DEF PagesTypeOK
  <2> QED BY <2>2, FS_CardinalityType DEF Rank
<1>6. Cardinality(Listed)' \in Nat
  <2>1. Listed' \subseteq DOMAIN row' BY DEF Listed, Matching
  <2>2. IsFiniteSet(Listed') BY <1>2, <2>1, FS_Subset DEF PagesTypeOK
  <2> QED BY <2>2, FS_CardinalityType
<1>7. NotPassed' BY <1>1, <1>3, <1>4, <1>5 DEF NotPassed
<1>8. QuietSoFar' BY <1>1, <1>3, <1>6 DEF QuietSoFar
<1> QED BY <1>2, <1>7, <1>8 DEF IInv

LEMMA CountInv ==
    ASSUME IInv, Count, UNCHANGED <<vars, tableVars>>
    PROVE  IInv'
<1>1. /\ lpc = "count" /\ lpc' = "list" /\ total' = Cardinality(Listed)
      /\ UNCHANGED <<row, created, born, now, status, size, page, seen, start, quiet, shrunk>>
  BY DEF Count, vars, tableVars
<1>2. PagesTypeOK' BY <1>1 DEF IInv, PagesTypeOK
<1>3. Listed' = Listed /\ (NoTies' <=> NoTies)
      /\ \A o : (Tied(o)' <=> Tied(o)) /\ Rank(o)' = Rank(o)
  BY <1>1, SameTable
<1>4. Offset(page)' = Offset(page) BY <1>1 DEF Offset
<1>5. NotPassed' BY <1>1, <1>3, <1>4 DEF IInv, NotPassed
<1>6. QuietSoFar' BY <1>1, <1>3, <1>4 DEF IInv, QuietSoFar
<1> QED BY <1>2, <1>5, <1>6 DEF IInv

\* A page is read: the unseen orders that are on it become seen, the others
\* lie beyond it; a page that is not full was the last.
LEMMA ListInv ==
    ASSUME IInv, List, UNCHANGED <<vars, tableVars>>
    PROVE  IInv'
<1> DEFINE N == Cardinality(Listed)
           off == Offset(page)
<1>1. PICK t \in Listings :
         /\ seen' = seen \o PageOf(t)
         /\ IF Len(PageOf(t)) < size
            THEN lpc' = "done" /\ UNCHANGED page
            ELSE lpc' = "count" /\ page' = page + 1
  BY DEF List
<1>2. /\ lpc = "list"
      /\ UNCHANGED <<row, created, born, now, status, size, total, start, quiet, shrunk>>
  BY DEF List, vars, tableVars
<1>3. N \in Nat /\ off \in Nat /\ size \in Nat \ {0} /\ page \in Nat \ {0}
      /\ \A o : Rank(o) \in Nat
  BY ListedFinite, Offsets DEF IInv, PagesTypeOK
<1>4. /\ PageOf(t) \in Seq(Orders)
      /\ \A i \in 1..Len(PageOf(t)) : off + i \in 1..N /\ PageOf(t)[i] = t[off + i]
      /\ N >= off + size => Len(PageOf(t)) = size
      /\ N < off + size => /\ Len(PageOf(t)) < size
                           /\ off <= N => Len(PageOf(t)) = N - off
      /\ \A k \in 1..N : off < k /\ k <= off + size => k - off \in 1..Len(PageOf(t))
  BY PageOfListing DEF IInv
<1>5. /\ seen \in Seq(Orders) /\ seen' \in Seq(Orders)
      /\ Len(seen) \in Nat /\ DOMAIN seen = 1..Len(seen)
      /\ Len(seen') = Len(seen) + Len(PageOf(t))
      /\ DOMAIN seen' = 1..Len(seen')
      /\ \A i \in 1..Len(seen') :
            seen'[i] = IF i <= Len(seen) THEN seen[i] ELSE PageOf(t)[i - Len(seen)]
  BY <1>1, <1>4, ConcatProperties, LenProperties DEF IInv, PagesTypeOK
<1>6. Len(PageOf(t)) \in Nat BY <1>4, LenProperties
<1>7. PagesTypeOK'
  <2>1. lpc' \in {"count", "done"} /\ page' \in Nat \ {0} BY <1>1, <1>3
  <2> QED BY <2>1, <1>2, <1>5 DEF IInv, PagesTypeOK
<1>8. Listed' = Listed /\ (NoTies' <=> NoTies)
      /\ \A o : (Tied(o)' <=> Tied(o)) /\ Rank(o)' = Rank(o)
  BY <1>2, SameTable
<1>9. /\ Range(seen) \subseteq Range(seen')
      /\ \A i \in 1..Len(PageOf(t)) : PageOf(t)[i] \in Range(seen')
  <2>1. \A i \in DOMAIN seen : i \in DOMAIN seen' /\ seen'[i] = seen[i] BY <1>5, <1>6
  <2>2. \A i \in 1..Len(PageOf(t)) :
           /\ Len(seen) + i \in DOMAIN seen'
           /\ seen'[Len(seen) + i] = PageOf(t)[i]
    <3> SUFFICES ASSUME NEW i \in 1..Len(PageOf(t))
                 PROVE  /\ Len(seen) + i \in DOMAIN seen'
                        /\ seen'[Len(seen) + i] = PageOf(t)[i]
      OBVIOUS
    <3>1. PICK k : k = Len(seen) + i OBVIOUS
    <3>2. k \in 1..Len(seen') /\ ~(k <= Len(seen)) /\ k - Len(seen) = i
      BY <3>1, <1>5, <1>6
    <3> QED BY <3>1, <3>2, <1>5
  <2> QED BY <2>1, <2>2 DEF Range
<1>10. /\ t \in [1..N -> Listed]
       /\ \A x \in Listed : \E k \in 1..N : t[k] = x
       /\ \A i, j \in 1..N : t[i] = t[j] => i = j
  BY DEF Listings, Bijection, Injection, Surjection, IsInjective
<1>11. \A k \in 1..N : ~Tied(t[k]) => Rank(t[k]) = k - 1
  BY <1>10, RankIsPlace DEF IInv
<1>12. ASSUME NEW i \in DOMAIN seen', i > Len(seen)
       PROVE  /\ off + (i - Len(seen)) \in 1..N
              /\ seen'[i] = t[off + (i - Len(seen))]
  <2>1. i - Len(seen) \in 1..Len(PageOf(t)) BY <1>5, <1>6, <1>12
  <2>2. seen'[i] = PageOf(t)[i - Len(seen)] BY <1>5, <1>12
  <2> QED BY <2>1, <2>2, <1>4
<1>13. ASSUME NoTies, Len(seen) = off, NEW i \in DOMAIN seen',
              \A j \in DOMAIN seen : seen[j] \in Listed /\ Rank(seen[j]) = j - 1
       PROVE  seen'[i] \in Listed /\ Rank(seen'[i]) = i - 1
  <2>1. CASE i <= Len(seen)
    <3>1. i \in DOMAIN seen /\ seen'[i] = seen[i] BY <2>1, <1>5
    <3> QED BY <3>1, <1>13
  <2>2. CASE ~(i <= Len(seen))
    <3>1. i > Len(seen) /\ off + (i - Len(seen)) = i BY <2>2, <1>3, <1>5, <1>13
    <3>2. i \in 1..N /\ seen'[i] = t[i] BY <3>1, <1>12
    <3>3. t[i] \in Listed BY <3>2, <1>10
    <3> QED BY <3>2, <3>3, <1>11, <1>13 DEF NoTies
  <2> QED BY <2>1, <2>2
<1>14. CASE Len(PageOf(t)) < size
  <2>1. lpc' = "done" /\ page' = page BY <1>1, <1>14
  <2>2. N < off + size BY <1>3, <1>4, <1>14
  <2> HIDE DEF N, off
  <2>3. NotPassed'
    <3> SUFFICES ASSUME ~shrunk
                 PROVE  start \subseteq Listed /\ \A o \in start : o \in Range(seen') \/ Tied(o)
      BY <1>2, <1>8 DEF NotPassed
    <3>1. start \subseteq Listed BY <1>2 DEF IInv, NotPassed
    <3>2. ASSUME NEW o \in start, ~Tied(o), o \notin Range(seen) PROVE o \in Range(seen')
      <4>1. Rank(o) >= off BY <1>2, <3>2 DEF IInv, NotPassed, off
      <4>2. PICK k \in 1..N : t[k] = o BY <1>10, <3>1
      <4>3. k - 1 >= off BY <1>11, <3>2, <4>1, <4>2
      <4>4. k - off \in 1..Len(PageOf(t)) BY <1>3, <1>4, <2>2, <4>2, <4>3
      <4>5. PageOf(t)[k - off] = o
        <5>1. off + (k - off) = k BY <1>3
        <5> QED BY <5>1, <1>4, <4>2, <4>4
      <4> QED BY <4>4, <4>5, <1>9
    <3> QED BY <3>1, <3>2, <1>9
  <2>4. QuietSoFar'
    <3> SUFFICES ASSUME quiet, NoTies
                 PROVE  /\ \A i \in DOMAIN seen' : seen'[i] \in Listed /\ Rank(seen'[i]) = i - 1
                        /\ total = N
                        /\ Len(seen') = N
      BY <1>2, <1>8, <2>1 DEF QuietSoFar, N
    <3>1. /\ \A i \in DOMAIN seen : seen[i] \in Listed /\ Rank(seen[i]) = i - 1
          /\ total = N /\ Len(seen) = off /\ off <= N
      BY <1>2 DEF IInv, QuietSoFar, N, off
    <3>2. Len(seen') = N BY <1>3, <1>4, <1>5, <2>2, <3>1
    <3>3. ASSUME NEW i \in DOMAIN seen' PROVE seen'[i] \in Listed /\ Rank(seen'[i]) = i - 1
      BY <3>1, <3>3, <1>13
    <3> QED BY <3>1, <3>2, <3>3
  <2> QED BY <1>7, <2>3, <2>4 DEF IInv
<1>15. CASE ~(Len(PageOf(t)) < size)
  <2>1. lpc' = "count" /\ page' = page + 1 BY <1>1, <1>15
  <2>2. Offset(page)' = off + size BY <1>2, <2>1, Offsets DEF IInv
  <2>3. N >= off + size /\ Len(PageOf(t)) = size BY <1>3, <1>4, <1>15
  <2> HIDE DEF N, off
  <2>4. NotPassed'
    <3> SUFFICES ASSUME ~shrunk
                 PROVE  /\ start \subseteq Listed
                        /\ \A o \in start : \/ o \in Range(seen')
                                            \/ Tied(o)
                                            \/ Rank(o) >= off + size
      BY <1>2, <1>8, <2>1, <2>2 DEF NotPassed
    <3>1. start \subseteq Listed BY <1>2 DEF IInv, NotPassed
    <3>2. ASSUME NEW o \in start, ~Tied(o), o \notin Range(seen), ~(Rank(o) >= off + size)
          PROVE  o \in Range(seen')
      <4>1. Rank(o) >= off BY <1>2, <3>2 DEF IInv, NotPassed, off
      <4>2. PICK k \in 1..N : t[k] = o BY <1>10, <3>1
      <4>3. k - 1 >= off /\ k <= off + size BY <1>3, <1>11, <3>2, <4>1, <4>2
      <4>4. k - off \in 1..Len(PageOf(t)) BY <1>3, <1>4, <4>2, <4>3
      <4>5. PageOf(t)[k - off] = o
        <5>1. off + (k - off) = k BY <1>3
        <5> QED BY <5>1, <1>4, <4>2, <4>4
      <4> QED BY <4>4, <4>5, <1>9
    <3> QED BY <3>1, <3>2, <1>9
  <2>5. QuietSoFar'
    <3> SUFFICES ASSUME quiet, NoTies
                 PROVE  /\ \A i \in DOMAIN seen' : seen'[i] \in Listed /\ Rank(seen'[i]) = i - 1
                        /\ Len(seen') = off + size /\ off + size <= N
      BY <1>2, <1>8, <2>1, <2>2 DEF QuietSoFar, N
    <3>1. /\ \A i \in DOMAIN seen : seen[i] \in Listed /\ Rank(seen[i]) = i - 1
          /\ Len(seen) = off
      BY <1>2 DEF IInv, QuietSoFar, off
    <3>2. Len(seen') = off + size BY <1>5, <2>3, <3>1
    <3>3. ASSUME NEW i \in DOMAIN seen' PROVE seen'[i] \in Listed /\ Rank(seen'[i]) = i - 1
      BY <3>1, <3>3, <1>13
    <3> QED BY <2>3, <3>2, <3>3, <1>3
  <2> QED BY <1>7, <2>4, <2>5 DEF IInv
<1> QED BY <1>14, <1>15

-----------------------------------------------------------------------------
\* The inductive invariant holds, whoever inserts, fills, fails or restarts.
THEOREM PagesInvariance == PagesSpec => []IInv
<1>1. PagesInit => IInv BY InitPages
<1>2. IInv /\ [PagesNext]_<<vars, tableVars, walkVars>> => IInv'
  <2> SUFFICES ASSUME IInv, [PagesNext]_<<vars, tableVars, walkVars>> PROVE IInv' OBVIOUS
  <2>1. ASSUME NEW st \in {"all", "Pending"}, Begin(st), UNCHANGED <<vars, tableVars>>
        PROVE  IInv'
    BY <2>1, BeginInv
  <2>2. CASE Count /\ UNCHANGED <<vars, tableVars>> BY <2>2, CountInv
  <2>3. CASE List /\ UNCHANGED <<vars, tableVars>> BY <2>3, ListInv
  <2>4. CASE RestartListing \/ (ListFails /\ UNCHANGED <<vars, tableVars>>)
    BY <2>4, RestartInv
  <2>5. ASSUME NEW r \in Reqs, HandlersStep(r) PROVE IInv' BY <2>5, HandlersInv
  <2>6. ASSUME NEW o \in Orders, Fill(o) PROVE IInv' BY <2>6, FillInv
  <2>7. CASE Tick /\ UNCHANGED <<tableVars, walkVars>>
    <3>1. /\ UNCHANGED <<row, created, born, lpc, status, size, page, total, seen, start,
                        quiet, shrunk>>
          /\ now' = now + 1
      BY <2>7 DEF Tick, tableVars, walkVars
    <3>2. PagesTypeOK' BY <3>1 DEF IInv, PagesTypeOK
    <3>3. Listed' = Listed BY <3>1 DEF Listed, Matching
    <3> QED BY <3>1, <3>2, <3>3, TableStep
  <2>8. CASE UNCHANGED <<vars, tableVars, walkVars>>
    <3>1. UNCHANGED <<row, now, created, born, lpc, status, size, page, total, seen, start,
                      quiet, shrunk>>
      BY <2>8 DEF vars, tableVars, walkVars
    <3>2. PagesTypeOK' BY <3>1 DEF IInv, PagesTypeOK
    <3>3. Listed' = Listed BY <3>1 DEF Listed, Matching
    <3> QED BY <3>1, <3>2, <3>3, TableStep
  <2> QED
    BY <2>1, <2>2, <2>3, <2>4, <2>5, <2>6, <2>7, <2>8 DEF PagesNext, WalkStep
<1> QED BY <1>1, <1>2, PTL DEF PagesSpec

\* A walk that is over has seen every order that was listed when it began,
\* whatever came in between its pages and however often a page was asked for.
THEOREM NothingMissed == PagesSpec => []NoneMissed
<1>1. IInv => NoneMissed BY DEF IInv, NotPassed, NoneMissed
<1> QED BY <1>1, PagesInvariance, PTL

\* The newer of two orders has the smaller rank.
LEMMA RankOrders ==
    ASSUME PagesTypeOK, NEW a \in Listed, NEW b \in Listed, Rank(a) < Rank(b)
    PROVE  created[a] > created[b]
<1> SUFFICES ASSUME ~(created[a] > created[b]) PROVE FALSE OBVIOUS
<1>1. \A o \in Listed : created[o] \in Int BY ListedFinite
<1>2. Newer(b) \subseteq Newer(a) BY <1>1 DEF Newer
<1>3. IsFiniteSet(Newer(a)) /\ Rank(a) \in Nat /\ Rank(b) \in Nat BY ListedFinite
<1>4. Cardinality(Newer(b)) <= Cardinality(Newer(a)) BY <1>2, <1>3, FS_Subset
<1> QED BY <1>3, <1>4 DEF Rank

\* Read in peace, the pages side by side are the list: as many orders as
\* there are, each at the place of its rank.
THEOREM QuietWalkReadsList == PagesSpec => []QuietWalkIsList
<1>1. IInv => QuietWalkIsList
  <2> DEFINE N == Cardinality(Listed)
  <2> SUFFICES ASSUME IInv, lpc = "done", quiet, NoTies
               PROVE  /\ Range(seen) = Listed
                      /\ total = Len(seen)
                      /\ \A i, j \in DOMAIN seen :
                            i < j => created[seen[i]] > created[seen[j]]
    BY DEF QuietWalkIsList, NoTies
  <2>1. /\ \A i \in DOMAIN seen : seen[i] \in Listed /\ Rank(seen[i]) = i - 1
        /\ total = N /\ Len(seen) = N
    BY DEF IInv, QuietSoFar
  <2>2. IsFiniteSet(Listed) /\ N \in Nat BY ListedFinite DEF IInv
  <2>3. seen \in Seq(Orders) /\ DOMAIN seen = 1..N
    BY <2>1, LenProperties DEF IInv, PagesTypeOK
  <2>4. \A i, j \in DOMAIN seen : i < j => created[seen[i]] > created[seen[j]]
    <3> SUFFICES ASSUME NEW i \in DOMAIN seen, NEW j \in DOMAIN seen, i < j
                 PROVE  created[seen[i]] > created[seen[j]]
      OBVIOUS
    <3>1. Rank(seen[i]) < Rank(seen[j]) BY <2>1, <2>2, <2>3
    <3> QED BY <2>1, <3>1, RankOrders DEF IInv
  <2>5. Range(seen) = Listed
    <3>1. IsInjective(seen)
      <4> SUFFICES ASSUME NEW i \in DOMAIN seen, NEW j \in DOMAIN seen, seen[i] = seen[j]
                   PROVE  i = j
        BY DEF IsInjective
      <4> HIDE DEF N
      <4>1. i - 1 = j - 1 BY <2>1
      <4> QED BY <2>2, <2>3, <4>1
    <3>2. seen \in [1..N -> Listed] BY <2>1, <2>3, LenProperties
    <3>3. seen \in Injection(1..N, Listed) BY <3>1, <3>2 DEF Injection
    <3>4. Cardinality(1..N) = N BY <2>2, FS_Interval
    <3>5. seen \in Surjection(1..N, Listed) BY <2>2, <3>3, <3>4, FS_Injection
    <3> QED BY <2>3, <3>2, <3>5 DEF Surjection, Range
  <2> QED BY <2>1, <2>4, <2>5
<1> QED BY <1>1, PagesInvariance, PTL

=============================================================================
