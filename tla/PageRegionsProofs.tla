------------------------- MODULE PageRegionsProofs --------------------------
(***************************************************************************)
(* Why the watcher forgets only what a person took off a page, for any      *)
(* facts, pages, calls, crashes and edits by hand, when one job is on the    *)
(* pages at a time, no turn writes a page of the plan during a round and no *)
(* edit leaves a region open.                                               *)
(***************************************************************************)
EXTENDS PageRegions, SequenceTheorems, FiniteSetTheorems, WellFoundedInduction, TLAPS

On(p) == Written(file[p].body)

\* The fact's marker is on the page, or a person took it off.
Kept(p, f) == f \in On(p) \/ <<p, f>> \in gestures

\* Jobs at work on a page know the page and the fact they are about.
Placed(j) ==
    /\ j.stage \in {"insert", "write", "stamp", "cut", "read", "rows", "reindex",
                    "repoint", "remove", "cutall", "settleall"} => j.page \in Pages
    /\ j.stage \in {"insert", "write", "stamp", "strip", "cut", "settle"} => j.fact \in Facts
    /\ j.stage \in {"read", "rows", "reindex"} /\ j.after = "settle" => j.fact \in Facts
    /\ j.stage = "supersede" => j.old \in Facts
    /\ j.stage \in {"strip", "cut", "read", "rows"} => j.todo = {}

\* Facts a job holds as rendered have rows, and a round has planned a page for
\* every fact it has still to point there.
Pointed ==
    /\ \A f \in Facts : row[f].state # "none" => row[f].page \in Pages
    /\ \A a \in Actors : \A f \in jobs[a].rows : row[f].state # "none"
    /\ jobs[Dream].stage = "prepoint" => \A f \in jobs[Dream].todo : plan[f] \in PlanPages

TypeInv == TypeOK /\ (\A a \in Actors : Placed(jobs[a])) /\ Pointed

\* No region is left open, on a page or in the copy a job read.
Closed(b) == \A i \in DOMAIN b : b[i].closed
AllClosed ==
    /\ \A p \in Pages : Closed(file[p].body)
    /\ \A a \in Actors : Closed(jobs[a].disk.body)

\* One job is on the pages at a time.
Alone == \A a, b \in Actors : OnAPage(a) /\ OnAPage(b) => a = b

\* A rendered row has its marker, unless a person took it off.
Standing == \A f \in Facts : Active(f) /\ row[f].at => Kept(row[f].page, f)

\* What a job in flight may rely on, however long ago it read.
Knows(a) ==
    LET j == jobs[a]
    IN  /\ j.stage \in {"insert", "write", "cut", "cutall", "rows"} =>
              On(j.page) \subseteq Written(j.disk.body)
        /\ j.stage = "rows" => \A f \in Written(j.disk.body) : Kept(j.page, f)
        /\ j.stage = "insert" => row[j.fact].state = "none"
        /\ j.stage = "stamp" => Kept(j.page, j.fact)
        /\ j.stage = "cut" => Retired(j.fact)
        /\ j.stage = "cutall" => \A f \in j.todo : Retired(f)
        /\ j.stage = "reindex" =>
              /\ \A f \in j.todo : Kept(j.page, f) /\ (Active(f) => row[f].page = j.page)
              /\ \A f \in j.rows : <<j.page, f>> \in gestures

\* While a round goes on every row on a page of the plan is on the page planned
\* for it, or is still to be pointed there, and turns stay off those pages.
Round ==
    LET j == jobs[Dream]
    IN  /\ j.stage # "idle" =>
              /\ \A f \in Facts : Active(f) /\ row[f].page \in PlanPages =>
                    /\ plan[f] \in PlanPages
                    /\ row[f].page = plan[f] \/ (j.stage = "prepoint" /\ f \in j.todo)
              /\ \A t \in Turns : jobs[t].stage \in {"insert", "write", "stamp"} =>
                    jobs[t].page \in RulesPages
        /\ j.stage \in {"prepoint", "repoint"} => j.left \subseteq PlanPages
        /\ j.stage = "repoint" => \A f \in j.todo : plan[f] = j.page /\ Kept(j.page, f)
        /\ j.stage \in {"files", "remove"} => j.left \subseteq PlanPages \ Planned
        /\ j.stage = "remove" => j.page \in j.left
        /\ j.stage \in {"read", "rows", "reindex"} => j.after # "idle"

\* One job at a time, no turn on a page of the plan during a round, no torn page.
Orderly == ~ Overlap /\ ~ MidRound /\ ~ Tears

IInv ==
    /\ TypeInv /\ AllClosed /\ Alone /\ Standing /\ Round
    /\ \A a \in Actors : Knows(a)
    /\ OnlyGesturesForget

-----------------------------------------------------------------------------
(* What the operators on pages leave of them.                               *)

\* A finite set of naturals can be listed in its order: the set with the fewest
\* elements that cannot would have a least element, and a rest that can.
LEMMA AscendingExists ==
    ASSUME NEW K \in SUBSET Nat, IsFiniteSet(K)
    PROVE  \E k \in [1..Cardinality(K) -> K] : \A m, n \in DOMAIN k : m < n => k[m] < k[n]
<1> DEFINE Lists(L) == {k \in [1..Cardinality(L) -> L] :
                            \A m, n \in 1..Cardinality(L) : m < n => k[m] < k[n]}
           Bad == {c \in Nat : \E L \in SUBSET Nat : /\ IsFiniteSet(L) /\ Cardinality(L) = c
                                                    /\ Lists(L) = {}}
<1>1. SUFFICES Lists(K) # {}
  OBVIOUS
<1>2. SUFFICES ASSUME Lists(K) = {} PROVE FALSE
  OBVIOUS
<1>3. Cardinality(K) \in Bad
  BY <1>2, FS_CardinalityType
<1>4. PICK c \in Bad : \A y \in Bad : <<y, c>> \notin OpToRel(<, Nat)
  <2> HIDE DEF Bad
  <2>1. Bad \subseteq Nat
    BY DEF Bad
  <2> QED
    BY <1>3, <2>1, NatLessThanWellFounded, WFMin
<1>5. \A y \in Bad : ~(y < c)
  BY <1>4 DEF OpToRel
<1>6. PICK L \in SUBSET Nat : IsFiniteSet(L) /\ Cardinality(L) = c /\ Lists(L) = {}
  OBVIOUS
<1>7. L # {}
  <2>1. SUFFICES ASSUME L = {} PROVE FALSE
    OBVIOUS
  <2>2. Cardinality(L) = 0
    BY <2>1, FS_EmptySet
  <2>3. [i \in 1..0 |-> 0] \in Lists(L)
    BY <2>1, <2>2
  <2> QED
    BY <1>6, <2>3
<1>8. PICK x \in L : \A y \in L : <<y, x>> \notin OpToRel(<, Nat)
  BY <1>7, NatLessThanWellFounded, WFMin
<1>9. \A y \in L \ {x} : x < y
  <2>1. SUFFICES ASSUME NEW y \in L \ {x} PROVE x < y
    OBVIOUS
  <2>2. ~(y < x)
    <3>1. y < x => <<y, x>> \in OpToRel(<, Nat)
      BY DEF OpToRel
    <3> QED
      BY <1>8, <3>1
  <2>3. x \in Nat /\ y \in Nat /\ x # y
    OBVIOUS
  <2> QED
    BY <2>2, <2>3
<1> DEFINE M == L \ {x}
<1>10. IsFiniteSet(M) /\ Cardinality(M) = c - 1 /\ M \in SUBSET Nat /\ c \in Nat /\ c > 0
  <2>1. c \in Nat /\ IsFiniteSet(M) /\ Cardinality(M) = c - 1
    BY <1>6, FS_RemoveElement
  <2>2. c # 0
    BY <1>6, <1>7, FS_EmptySet
  <2> QED
    BY <2>1, <2>2
<1>11. Lists(M) # {}
  <2> HIDE DEF Lists, M
  <2>1. SUFFICES ASSUME Lists(M) = {} PROVE FALSE
    OBVIOUS
  <2>2. c - 1 \in Bad
    BY <1>10, <2>1
  <2>3. c - 1 < c
    BY <1>10
  <2> QED
    BY <1>5, <2>2, <2>3
<1>12. PICK k \in [1..(c - 1) -> M] : \A m, n \in 1..(c - 1) : m < n => k[m] < k[n]
  BY <1>10, <1>11
<1> DEFINE new == [i \in 1..c |-> IF i = 1 THEN x ELSE k[i - 1]]
<1>13. new \in [1..c -> L]
  <2>1. ASSUME NEW i \in 1..c, i # 1 PROVE k[i - 1] \in L
    BY <1>10, <1>12, <2>1
  <2> QED
    BY <2>1
<1>14. ASSUME NEW m \in 1..c, NEW n \in 1..c, m < n PROVE new[m] < new[n]
  <2>1. n # 1 /\ n - 1 \in 1..(c - 1)
    BY <1>10, <1>14
  <2>2. CASE m = 1
    BY <1>9, <1>12, <2>1, <2>2
  <2>3. CASE m # 1
    BY <1>10, <1>12, <1>14, <2>1, <2>3
  <2> QED
    BY <2>2, <2>3
<1>15. new \in Lists(L)
  BY <1>6, <1>13, <1>14
<1> QED
  BY <1>6, <1>15

LEMMA AscendingCovers ==
    ASSUME NEW K \in SUBSET Nat, IsFiniteSet(K)
    PROVE  /\ Cardinality(K) \in Nat
           /\ Ascending(K) \in [1..Cardinality(K) -> K]
           /\ \A x \in K : \E n \in 1..Cardinality(K) : Ascending(K)[n] = x
<1> DEFINE k == Ascending(K)
<1>1. k \in [1..Cardinality(K) -> K] /\ \A m, n \in DOMAIN k : m < n => k[m] < k[n]
  BY AscendingExists DEF Ascending
<1>2. Cardinality(K) \in Nat
  BY FS_CardinalityType
<1>3. k \in Injection(1..Cardinality(K), K)
  <2>1. ASSUME NEW m \in 1..Cardinality(K), NEW n \in 1..Cardinality(K), k[m] = k[n]
        PROVE  m = n
    <3>1. k[m] \in Nat /\ k[n] \in Nat
      BY <1>1
    <3>2. ~(m < n) /\ ~(n < m)
      BY <1>1, <2>1, <3>1
    <3> QED
      BY <1>2, <3>2
  <2> QED
    BY <1>1, <2>1 DEF Injection, IsInjective
<1>4. k \in Surjection(1..Cardinality(K), K)
  <2>1. IsFiniteSet(1..Cardinality(K)) /\ Cardinality(1..Cardinality(K)) = Cardinality(K)
    BY <1>2, FS_Interval
  <2> QED
    BY <1>3, <2>1, FS_Injection
<1> QED
  BY <1>1, <1>2, <1>4 DEF Surjection

\* Where every region has its end, each is parsed, and by itself.
LEMMA ClosedParses ==
    ASSUME NEW b \in Seq(Regions), Closed(b)
    PROVE  /\ Parsed(b) = DOMAIN b
           /\ Marks(b) = Written(b)
           /\ markers_parse_whole(b)
           /\ \A i \in DOMAIN b : Span(b, i) = {i}
<1>1. DOMAIN b = 1..Len(b) /\ Len(b) \in Nat
  OBVIOUS
<1>2. \A i \in DOMAIN b : i \in Ends(b, i) /\ \A j \in Ends(b, i) : i <= j
  BY <1>1 DEF Ends, Closed
<1>3. Parsed(b) = DOMAIN b
  BY <1>1, <1>2 DEF Parsed, Closed
<1>4. ASSUME NEW i \in DOMAIN b PROVE Span(b, i) = {i}
  <2>1. Ends(b, i) \subseteq Nat
    BY <1>1 DEF Ends
  <2>2. Min(Ends(b, i)) = i
    BY <1>1, <1>2, <2>1 DEF Min
  <2> QED
    BY <1>1, <2>2 DEF Span
<1> QED
  BY <1>2, <1>3, <1>4 DEF Marks, Written, markers_parse_whole

\* Cutting the regions at I leaves the facts of the others.
LEMMA WithoutKeeps ==
    ASSUME NEW b \in Seq(Regions), NEW I
    PROVE  /\ Without(b, I) \in Seq(Regions)
           /\ Closed(b) => Closed(Without(b, I))
           /\ Written(Without(b, I)) = {b[i].fact : i \in DOMAIN b \ I}
<1> DEFINE K == DOMAIN b \ I
           k == Ascending(K)
           c == Cardinality(K)
<1>1. DOMAIN b = 1..Len(b) /\ Len(b) \in Nat /\ b \in [1..Len(b) -> Regions]
  OBVIOUS
<1>2. K \in SUBSET Nat /\ IsFiniteSet(K)
  <2>1. IsFiniteSet(1..Len(b))
    BY <1>1, FS_Interval
  <2> QED
    BY <1>1, <2>1, FS_Subset
<1>3. c \in Nat /\ k \in [1..c -> K] /\ \A x \in K : \E n \in 1..c : k[n] = x
  <2> HIDE DEF K
  <2> QED
    BY <1>2, AscendingCovers
<1> HIDE DEF k, c
<1>4. Without(b, I) = [n \in 1..c |-> b[k[n]]]
  BY <1>3 DEF Without, k
<1>5. Without(b, I) \in [1..c -> Regions]
  BY <1>1, <1>3, <1>4
<1>6. Closed(b) => Closed(Without(b, I))
  BY <1>3, <1>4 DEF Closed
<1>7. Written(Without(b, I)) = {b[i].fact : i \in K}
  <2> HIDE DEF K
  <2>1. DOMAIN Without(b, I) = 1..c /\ \A n \in 1..c : Without(b, I)[n].fact = b[k[n]].fact
    BY <1>4
  <2>2. ASSUME NEW i \in K PROVE \E n \in 1..c : b[i].fact = b[k[n]].fact
    BY <1>3
  <2>3. ASSUME NEW n \in 1..c PROVE k[n] \in K
    BY <1>3
  <2> QED
    BY <2>1, <2>2, <2>3 DEF Written
<1>8. Without(b, I) \in Seq(Regions)
  BY <1>3, <1>5
<1> QED
  BY <1>6, <1>7, <1>8

\* Cutting a fact's regions takes that fact off the page and no other.
LEMMA CutAllKeeps ==
    ASSUME NEW b \in Seq(Regions), Closed(b), NEW S
    PROVE  /\ CutAll(b, S) \in Seq(Regions)
           /\ Closed(CutAll(b, S))
           /\ Written(CutAll(b, S)) = Written(b) \ S
<1> DEFINE I == UNION {Span(b, i) : i \in {k \in Parsed(b) : b[k].fact \in S}}
<1>1. I = {k \in DOMAIN b : b[k].fact \in S}
  BY ClosedParses
<1>2. CutAll(b, S) = Without(b, I)
  BY DEF CutAll
<1> HIDE DEF I
<1>3. Written(CutAll(b, S)) = {b[i].fact : i \in DOMAIN b \ I}
  BY <1>2, WithoutKeeps
<1>4. {b[i].fact : i \in DOMAIN b \ I} = Written(b) \ S
  BY <1>1 DEF Written
<1> QED
  BY <1>2, <1>3, <1>4, WithoutKeeps

\* So does cutting one of them.
LEMMA CutOneKeeps ==
    ASSUME NEW b \in Seq(Regions), Closed(b), NEW f, NEW i \in Cuttable(b, f)
    PROVE  /\ Without(b, Span(b, i)) \in Seq(Regions)
           /\ Closed(Without(b, Span(b, i)))
           /\ Written(b) \ {f} \subseteq Written(Without(b, Span(b, i)))
<1>1. i \in DOMAIN b /\ b[i].fact = f
  BY DEF Cuttable
<1>2. Span(b, i) = {i}
  BY <1>1, ClosedParses
<1>3. Written(b) \ {f} \subseteq {b[n].fact : n \in DOMAIN b \ {i}}
  BY <1>1 DEF Written
<1> QED
  BY <1>2, <1>3, WithoutKeeps

\* Facts rendered one after another are all on the page.
LEMMA RenderedAreWritten ==
    ASSUME NEW S \in SUBSET Facts, NEW b \in Rendered(S)
    PROVE  b \in Seq(Regions) /\ Closed(b) /\ Written(b) = S
<1>1. IsFiniteSet(S)
  BY PageRegionsAssumption, FS_Subset
<1> DEFINE c == Cardinality(S)
<1>2. c \in Nat
  BY <1>1, FS_CardinalityType
<1>3. PICK q \in [1..c -> S] : /\ \A i, j \in 1..c : i # j => q[i] # q[j]
                               /\ b = [i \in DOMAIN q |-> Whole(q[i])]
  BY DEF Rendered, SetToSeqs
<1>4. q \in Surjection(1..c, S)
  <2>1. q \in Injection(1..c, S)
    BY <1>3 DEF Injection, IsInjective
  <2>2. IsFiniteSet(1..c) /\ Cardinality(1..c) = c
    BY <1>2, FS_Interval
  <2> QED
    BY <1>1, <2>1, <2>2, FS_Injection
<1>5. \A f \in S : \E i \in 1..c : q[i] = f
  BY <1>4 DEF Surjection
<1> HIDE DEF c
<1>6. b = [i \in 1..c |-> Whole(q[i])] /\ \A i \in 1..c : Whole(q[i]) \in Regions
  BY <1>3 DEF Whole, Regions
<1>7. b \in Seq(Regions)
  BY <1>2, <1>6
<1> QED
  BY <1>3, <1>5, <1>6, <1>7 DEF Closed, Written, Whole

LEMMA AppendIsWritten ==
    ASSUME NEW b \in Seq(Regions), Closed(b), NEW f \in Facts
    PROVE  /\ Append(b, Whole(f)) \in Seq(Regions)
           /\ Closed(Append(b, Whole(f)))
           /\ Written(Append(b, Whole(f))) = Written(b) \cup {f}
<1>1. Whole(f) \in Regions /\ Whole(f).closed /\ Whole(f).fact = f
  BY DEF Whole, Regions
<1> DEFINE n == Len(b)
           c == Append(b, Whole(f))
<1>2. /\ n \in Nat /\ c \in Seq(Regions) /\ DOMAIN c = 1..(n + 1) /\ DOMAIN b = 1..n
      /\ \A i \in 1..n : c[i] = b[i]
      /\ c[n + 1] = Whole(f)
  BY <1>1
<1> HIDE DEF n, c
<1>3. Closed(c)
  BY <1>1, <1>2 DEF Closed
<1>4. ASSUME NEW g PROVE g \in Written(c) <=> g \in Written(b) \cup {f}
  <2>1. g \in Written(c) <=> \E i \in 1..(n + 1) : g = c[i].fact
    BY <1>2 DEF Written
  <2>2. g \in Written(b) <=> \E i \in 1..n : g = b[i].fact
    BY <1>2 DEF Written
  <2> QED
    BY <1>1, <1>2, <2>1, <2>2
<1> QED
  BY <1>2, <1>3, <1>4 DEF c

LEMMA ConcatIsWritten ==
    ASSUME NEW b \in Seq(Regions), NEW d \in Seq(Regions)
    PROVE  /\ b \o d \in Seq(Regions)
           /\ Closed(b) /\ Closed(d) => Closed(b \o d)
           /\ Written(b \o d) = Written(b) \cup Written(d)
<1> DEFINE n == Len(b)
           m == Len(d)
           c == b \o d
<1>1. /\ n \in Nat /\ m \in Nat /\ c \in Seq(Regions)
      /\ DOMAIN c = 1..(n + m) /\ DOMAIN b = 1..n /\ DOMAIN d = 1..m
      /\ \A i \in 1..(n + m) : c[i] = IF i <= n THEN b[i] ELSE d[i - n]
  OBVIOUS
<1> HIDE DEF n, m, c
<1>2. ASSUME NEW i \in 1..(n + m) PROVE (i \in 1..n /\ c[i] = b[i]) \/ (i - n \in 1..m /\ c[i] = d[i - n])
  BY <1>1
<1>3. Closed(b) /\ Closed(d) => Closed(c)
  BY <1>1, <1>2 DEF Closed
<1>4. ASSUME NEW g PROVE g \in Written(c) <=> g \in Written(b) \cup Written(d)
  <2>1. /\ g \in Written(c) <=> \E i \in 1..(n + m) : g = c[i].fact
        /\ g \in Written(b) <=> \E i \in 1..n : g = b[i].fact
        /\ g \in Written(d) <=> \E i \in 1..m : g = d[i].fact
    BY <1>1 DEF Written
  <2>2. ASSUME NEW i \in 1..n PROVE i \in 1..(n + m) /\ c[i] = b[i]
    BY <1>1
  <2>3. ASSUME NEW i \in 1..m PROVE i + n \in 1..(n + m) /\ c[i + n] = d[i]
    BY <1>1
  <2> QED
    BY <1>2, <2>1, <2>2, <2>3
<1> QED
  BY <1>1, <1>3, <1>4 DEF c

\* A region removed by hand takes no other fact along.
LEMMA RemoveAtKeeps ==
    ASSUME NEW b \in Seq(Regions), NEW i \in DOMAIN b
    PROVE  /\ RemoveAt(b, i) \in Seq(Regions)
           /\ Closed(b) => Closed(RemoveAt(b, i))
           /\ Written(b) \ {b[i].fact} \subseteq Written(RemoveAt(b, i))
           /\ Written(RemoveAt(b, i)) \subseteq Written(b)
<1> DEFINE n == Len(b)
           x == SubSeq(b, 1, i - 1)
           y == SubSeq(b, i + 1, n)
<1>1. n \in Nat /\ i \in 1..n /\ DOMAIN b = 1..n
  OBVIOUS
<1>2. /\ x \in Seq(Regions) /\ DOMAIN x = 1..(i - 1)
      /\ \A k \in 1..(i - 1) : x[k] = b[k]
  BY <1>1
<1>3. /\ y \in Seq(Regions) /\ DOMAIN y = 1..(n - i)
      /\ \A k \in 1..(n - i) : y[k] = b[k + i]
  BY <1>1
<1>4. RemoveAt(b, i) = x \o y
  BY DEF RemoveAt
<1> HIDE DEF n, x, y
<1>5. Closed(b) => Closed(x) /\ Closed(y)
  <2>1. ASSUME NEW k \in 1..(i - 1) PROVE k \in DOMAIN b
    BY <1>1
  <2>2. ASSUME NEW k \in 1..(n - i) PROVE k + i \in DOMAIN b
    BY <1>1
  <2> QED
    BY <1>2, <1>3, <2>1, <2>2 DEF Closed
<1>6. Written(RemoveAt(b, i)) = Written(x) \cup Written(y)
  BY <1>2, <1>3, <1>4, ConcatIsWritten
<1>7. Written(x) \subseteq Written(b)
  BY <1>1, <1>2 DEF Written
<1>8. Written(y) \subseteq Written(b)
  <2>1. ASSUME NEW k \in 1..(n - i) PROVE k + i \in DOMAIN b /\ y[k] = b[k + i]
    BY <1>1, <1>3
  <2> QED
    BY <1>3, <2>1 DEF Written
<1>9. ASSUME NEW k \in DOMAIN b, k # i PROVE b[k].fact \in Written(x) \cup Written(y)
  <2>1. CASE k < i
    <3>1. k \in DOMAIN x /\ x[k] = b[k]
      BY <1>1, <1>2, <2>1
    <3> QED
      BY <3>1 DEF Written
  <2>2. CASE k > i
    <3>1. k - i \in 1..(n - i) /\ (k - i) + i = k
      BY <1>1, <2>2
    <3>2. k - i \in DOMAIN y /\ y[k - i] = b[k]
      BY <1>3, <3>1
    <3> QED
      BY <3>2 DEF Written
  <2> QED
    BY <1>1, <1>9, <2>1, <2>2
<1>10. Written(b) \ {b[i].fact} \subseteq Written(x) \cup Written(y)
  BY <1>9 DEF Written
<1> QED
  BY <1>2, <1>3, <1>4, <1>5, <1>6, <1>7, <1>8, <1>10, ConcatIsWritten

\* The compiler writes a page with its planned facts on it and no other, whether
\* from scratch or by repairing what is there.
LEMMA CompiledIsThePlan ==
    ASSUME NEW p, file[p].body \in Seq(Regions), Closed(file[p].body), NEW b \in Compiled(p)
    PROVE  b \in Seq(Regions) /\ Closed(b) /\ Written(b) = planned(p)
<1> DEFINE kept == CutAll(file[p].body, Facts \ planned(p))
<1>1. planned(p) \in SUBSET Facts
  BY DEF planned
<1>2. /\ kept \in Seq(Regions) /\ Closed(kept)
      /\ Written(kept) = Written(file[p].body) \ (Facts \ planned(p))
  BY CutAllKeeps
<1>3. Written(file[p].body) \subseteq Facts
  <2>1. \A i \in DOMAIN file[p].body : file[p].body[i] \in Regions
    OBVIOUS
  <2> QED
    BY <2>1 DEF Written, Regions
<1>4. Marks(kept) = Written(kept) /\ Written(kept) \subseteq planned(p)
  BY <1>2, <1>3, ClosedParses
<1> HIDE DEF kept
<1>5. CASE b \in Rendered(planned(p))
  BY <1>1, <1>5, RenderedAreWritten
<1>6. ASSUME NEW d \in Rendered(planned(p) \ Marks(kept)), b = kept \o d
      PROVE  b \in Seq(Regions) /\ Closed(b) /\ Written(b) = planned(p)
  <2>1. d \in Seq(Regions) /\ Closed(d) /\ Written(d) = planned(p) \ Marks(kept)
    BY <1>1, <1>6, RenderedAreWritten
  <2>2. b \in Seq(Regions) /\ Closed(b) /\ Written(b) = Written(kept) \cup Written(d)
    BY <1>2, <1>6, <2>1, ConcatIsWritten
  <2> QED
    BY <1>4, <2>1, <2>2
<1> QED
  BY <1>5, <1>6 DEF Compiled, kept

LEMMA CutsAreBodies ==
    ASSUME NEW b \in Seq(Regions), NEW S
    PROVE  CutAll(b, S) \in Seq(Regions)
BY WithoutKeeps DEF CutAll

LEMMA CompiledIsABody ==
    ASSUME NEW p, file[p].body \in Seq(Regions), NEW b \in Compiled(p)
    PROVE  b \in Seq(Regions)
<1> DEFINE kept == CutAll(file[p].body, Facts \ planned(p))
<1>1. kept \in Seq(Regions)
  BY CutsAreBodies
<1>2. planned(p) \in SUBSET Facts /\ planned(p) \ Marks(kept) \in SUBSET Facts
  BY DEF planned
<1>3. \A d \in Rendered(planned(p) \ Marks(kept)) : kept \o d \in Seq(Regions)
  <2> HIDE DEF kept
  <2>1. \A d \in Rendered(planned(p) \ Marks(kept)) : d \in Seq(Regions)
    BY <1>2, RenderedAreWritten
  <2> QED
    BY <1>1, <2>1
<1>4. \A d \in Rendered(planned(p)) : d \in Seq(Regions)
  BY <1>2, RenderedAreWritten
<1> QED
  BY <1>3, <1>4 DEF Compiled

-----------------------------------------------------------------------------
(* Types.                                                                   *)

LEMMA FilesAreThere ==
    /\ NoFile \in Files /\ NoFile.body = <<>>
    /\ \A b \in Seq(Regions) : File(b) \in Files /\ File(b).body = b /\ File(b).there
    /\ \A c \in Files : c.body \in Seq(Regions)
<1>1. <<>> \in Seq(Regions)
  OBVIOUS
<1>2. NoFile \in Files /\ NoFile.body = <<>>
  BY DEF NoFile, Files
<1>3. ASSUME NEW b \in Seq(Regions) PROVE File(b) \in Files /\ File(b).body = b /\ File(b).there
  <2>1. [there |-> TRUE, body |-> b] \in [there : {TRUE}, body : Seq(Regions)]
    OBVIOUS
  <2> QED
    BY <2>1 DEF Files, File
<1>4. ASSUME NEW c \in Files PROVE c.body \in Seq(Regions)
  <2>1. CASE c = NoFile
    BY <1>1, <1>2, <2>1
  <2>2. CASE c \in [there : {TRUE}, body : Seq(Regions)]
    BY <2>2
  <2> QED
    BY <2>1, <2>2 DEF Files
<1> QED
  BY <1>2, <1>3, <1>4

LEMMA WriteFileTypes ==
    ASSUME TypeOK, NEW p \in Pages, NEW b \in Seq(Regions), WriteFile(p, b)
    PROVE  /\ file' \in [Pages -> Files] /\ gestures' \in SUBSET (Pages \X Facts)
           /\ events' \in SUBSET Pages
BY FilesAreThere DEF TypeOK, WriteFile

\* A job takes another's place.
LEMMA JobTypes ==
    ASSUME TypeInv, NEW a \in Actors, NEW j \in Jobs, Placed(j), Does(a, j)
    PROVE  /\ jobs' \in [Actors -> Jobs]
           /\ \A b \in Actors : Placed(jobs'[b])
           /\ \A b \in Actors : jobs'[b] = IF b = a THEN j ELSE jobs[b]
BY DEF TypeInv, TypeOK, Does

LEMMA IdleJobIsAJob ==
    /\ IdleJob \in Jobs /\ Placed(IdleJob)
    /\ IdleJob.rows = {} /\ IdleJob.todo = {} /\ IdleJob.stage = "idle" /\ IdleJob.disk.body = <<>>
BY FilesAreThere DEF IdleJob, Jobs, Placed, Stages

LEMMA ActorsAre == Dream \in Actors /\ Watcher \in Actors /\ Turns \subseteq Actors
BY DEF Actors

\* A row that is moved keeps its state.
LEMMA MoveTypes ==
    ASSUME TypeInv, NEW f \in Facts, NEW p \in Pages, NEW at \in BOOLEAN, move_region(f, p, at)
    PROVE  /\ row' \in [Facts -> Rows]
           /\ \A g \in Facts : row'[g].state = row[g].state
           /\ \A g \in Facts : row'[g].state # "none" => row'[g].page \in Pages
           /\ \A g \in Facts \ {f} : row'[g] = row[g]
           /\ row'[f] = IF Active(f) THEN [state |-> "active", page |-> p, at |-> at] ELSE row[f]
<1>1. row \in [Facts -> Rows]
  BY DEF TypeInv, TypeOK
<1>2. [state |-> "active", page |-> p, at |-> at] \in Rows
  BY DEF Rows, States
<1>3. row' = [row EXCEPT ![f] = IF row[f].state = "active"
                               THEN [state |-> "active", page |-> p, at |-> at] ELSE row[f]]
  BY DEF move_region
<1> QED
  BY <1>1, <1>2, <1>3 DEF TypeInv, Pointed, Active

\* A job goes on, and what it wrote is well formed.
LEMMA StepTypes ==
    ASSUME TypeInv, NEW a \in Actors, NEW j \in Jobs, Placed(j), Does(a, j),
           row' \in [Facts -> Rows],
           \A f \in Facts : row[f].state # "none" => row'[f].state # "none",
           \A f \in Facts : row'[f].state # "none" => row'[f].page \in Pages,
           \A f \in j.rows : row[f].state # "none",
           a = Dream /\ j.stage = "prepoint" => \A f \in j.todo : plan[f] \in PlanPages,
           file' \in [Pages -> Files], gestures' \in SUBSET (Pages \X Facts),
           events' \in SUBSET Pages, UNCHANGED <<faults, plan>>
    PROVE  TypeInv'
<1>1. TypeOK'
  BY JobTypes DEF TypeInv, TypeOK
<1>2. \A b \in Actors : Placed(jobs'[b]) /\ jobs'[b] = IF b = a THEN j ELSE jobs[b]
  BY JobTypes
<1>3. ASSUME NEW b \in Actors, NEW f \in jobs'[b].rows PROVE row'[f].state # "none"
  <2>1. f \in Facts
    BY <1>1, <1>3 DEF TypeOK, Jobs
  <2>2. row[f].state # "none"
    BY <1>2, <1>3 DEF TypeInv, Pointed
  <2> QED
    BY <2>1, <2>2
<1>4. ASSUME jobs'[Dream].stage = "prepoint", NEW f \in jobs'[Dream].todo PROVE plan'[f] \in PlanPages
  BY <1>2, <1>4, ActorsAre DEF TypeInv, Pointed
<1> QED
  BY <1>1, <1>2, <1>3, <1>4 DEF TypeInv, Pointed

\* A job goes on and nothing else changes.
LEMMA JobOnlyTypes ==
    ASSUME TypeInv, NEW a \in Actors, NEW j \in Jobs, Placed(j), Does(a, j),
           \A f \in j.rows : row[f].state # "none",
           a # Dream \/ j.stage # "prepoint" \/ j.todo = {},
           UNCHANGED <<file, row, gestures, faults, plan>>, events' \subseteq events
    PROVE  TypeInv'
<1>1. TypeOK'
  BY JobTypes DEF TypeInv, TypeOK
<1>2. \A b \in Actors : Placed(jobs'[b]) /\ jobs'[b] = IF b = a THEN j ELSE jobs[b]
  BY JobTypes
<1>3. ASSUME NEW b \in Actors, NEW f \in jobs'[b].rows PROVE row'[f].state # "none"
  BY <1>2, <1>3 DEF TypeInv, Pointed
<1>4. ASSUME jobs'[Dream].stage = "prepoint", NEW f \in jobs'[Dream].todo PROVE plan'[f] \in PlanPages
  BY <1>2, <1>4, ActorsAre DEF TypeInv, Pointed
<1>5. \A f \in Facts : row'[f].state # "none" => row'[f].page \in Pages
  BY DEF TypeInv, Pointed
<1> QED
  BY <1>1, <1>2, <1>3, <1>4, <1>5 DEF TypeInv, Pointed

\* Each statement of a call leaves well-formed state behind.
LEMMA TurnTypes ==
    ASSUME TypeInv, NEW t \in Turns, Call(t) \/ TurnStep(t), ~ Reindex(t)
    PROVE  TypeInv'
<1> DEFINE j == jobs[t]
<1>0. /\ t \in Actors /\ j \in Jobs /\ Placed(j) /\ t # Dream
      /\ \A p \in Pages : file[p] \in Files
      /\ Dream \in Actors
  BY ActorsAre, PageRegionsAssumption DEF TypeInv, TypeOK
<1>1. ASSUME NEW f \in Facts, NEW p \in Pages, NEW old \in Facts \cup {NoFact},
             wiki_capture(t, f, p, old)
      PROVE  TypeInv'
  <2> DEFINE new == [IdleJob EXCEPT !.stage = "insert", !.page = p, !.fact = f,
                                    !.old = old, !.disk = file[p]]
  <2>1. new \in Jobs /\ Placed(new) /\ new.rows = {} /\ Does(t, new)
    BY <1>0, <1>1, FilesAreThere DEF IdleJob, Jobs, Placed, Stages, wiki_capture
  <2> HIDE DEF new
  <2> QED
    BY <1>0, <1>1, <2>1, JobTypes DEF wiki_capture, TypeInv, TypeOK, Pointed
<1>2. ASSUME NEW f \in Facts, wiki_forget(t, f) PROVE TypeInv'
  <2> DEFINE new == [IdleJob EXCEPT !.stage = "strip", !.fact = f]
  <2>1. new \in Jobs /\ Placed(new) /\ new.rows = {} /\ Does(t, new)
    BY <1>0, <1>2, FilesAreThere DEF IdleJob, Jobs, Placed, Stages, wiki_forget
  <2>2. /\ row' \in [Facts -> Rows]
        /\ \A g \in Facts : row'[g].page = row[g].page /\ (row'[g].state = "none" <=> row[g].state = "none")
    BY <1>2 DEF wiki_forget, TypeInv, TypeOK, Rows, States
  <2> HIDE DEF new
  <2> QED
    BY <1>0, <1>2, <2>1, <2>2, JobTypes DEF wiki_forget, TypeInv, TypeOK, Pointed, Jobs
<1>3. CASE InsertRow(t)
  <2> DEFINE new == [j EXCEPT !.stage = "write"]
  <2>1. new \in Jobs /\ Placed(new) /\ new.rows = j.rows /\ Does(t, new)
    BY <1>0, <1>3 DEF Jobs, Placed, Stages, InsertRow, Goto, Does
  <2>2. /\ row' \in [Facts -> Rows]
        /\ \A g \in Facts : row'[g].state # "none" =>
               row'[g].page \in Pages
        /\ \A g \in Facts : row[g].state # "none" => row'[g].state # "none"
    BY <1>0, <1>3 DEF InsertRow, TypeInv, TypeOK, Pointed, Placed, Rows, States
  <2> HIDE DEF new
  <2> QED
    BY <1>0, <1>3, <2>1, <2>2, JobTypes DEF InsertRow, TypeInv, TypeOK, Pointed, Jobs
<1>4. CASE WriteRegion(t)
  <2> DEFINE new == [j EXCEPT !.stage = "stamp"]
  <2>1. new \in Jobs /\ Placed(new) /\ new.rows = j.rows /\ Does(t, new)
    BY <1>0, <1>4 DEF Jobs, Placed, Stages, WriteRegion, Goto, Does
  <2>2. j.page \in Pages /\ Append(j.disk.body, Whole(j.fact)) \in Seq(Regions)
    <3>1. j.disk.body \in Seq(Regions) /\ j.page \in Pages /\ j.fact \in Facts
      BY <1>0, <1>4, FilesAreThere DEF Jobs, Placed, WriteRegion
    <3>2. Whole(j.fact) \in Regions
      BY <3>1 DEF Whole, Regions
    <3> QED
      BY <3>1, <3>2
  <2>3. file' \in [Pages -> Files] /\ gestures' \in SUBSET (Pages \X Facts) /\ events' \in SUBSET Pages
    BY <1>4, <2>2, WriteFileTypes DEF TypeInv, WriteRegion
  <2> HIDE DEF new
  <2> QED
    BY <1>0, <1>4, <2>1, <2>3, JobTypes DEF WriteRegion, TypeInv, TypeOK, Pointed, Jobs
<1>5. CASE WriteRegionFails(t)
  <2>1. /\ row' \in [Facts -> Rows]
        /\ \A g \in Facts : row'[g].page = row[g].page /\ (row'[g].state = "none" <=> row[g].state = "none")
    BY <1>0, <1>5 DEF WriteRegionFails, TypeInv, TypeOK, Placed, Rows, States
  <2> QED
    BY <1>0, <1>5, <2>1, JobTypes, IdleJobIsAJob DEF WriteRegionFails, TypeInv, TypeOK, Pointed, Jobs
<1>6. CASE StampRegion(t)
  <2> DEFINE new == IF j.old = NoFact THEN IdleJob ELSE [j EXCEPT !.stage = "supersede"]
  <2>1. new \in Jobs /\ Placed(new) /\ new.rows \subseteq j.rows /\ Does(t, new)
    BY <1>0, <1>6, IdleJobIsAJob DEF Jobs, Placed, Stages, StampRegion, Goto, Does
  <2>2. /\ row' \in [Facts -> Rows]
        /\ \A g \in Facts : row'[g].state = row[g].state
        /\ \A g \in Facts : row'[g].state # "none" => row'[g].page \in Pages
    <3>1. j.fact \in Facts /\ j.page \in Pages /\ move_region(j.fact, j.page, TRUE)
      BY <1>0, <1>6 DEF StampRegion, Placed
    <3> QED
      BY <3>1, MoveTypes
  <2> HIDE DEF new
  <2> QED
    BY <1>0, <1>6, <2>1, <2>2, JobTypes DEF StampRegion, TypeInv, TypeOK, Pointed, Jobs
<1>7. CASE mark_superseded(t)
  <2> DEFINE new == [IdleJob EXCEPT !.stage = "strip", !.fact = j.old]
  <2>1. new \in Jobs /\ Placed(new) /\ new.rows = {} /\ Does(t, new)
    BY <1>0, <1>7, FilesAreThere DEF IdleJob, Jobs, Placed, Stages, mark_superseded
  <2>2. /\ row' \in [Facts -> Rows]
        /\ \A g \in Facts : row'[g].page = row[g].page /\ (row'[g].state = "none" <=> row[g].state = "none")
    BY <1>0, <1>7 DEF mark_superseded, TypeInv, TypeOK, Placed, Rows, States
  <2> HIDE DEF new
  <2> QED
    BY <1>0, <1>7, <2>1, <2>2, JobTypes DEF mark_superseded, TypeInv, TypeOK, Pointed, Jobs
<1>8. CASE strip_fact_region(t)
  <2>1. PICK new \in Jobs : Placed(new) /\ (\A f \in new.rows : row[f].state # "none") /\ Does(t, new)
    <3>0. \A f \in j.rows : row[f].state # "none"
      BY <1>0 DEF TypeInv, Pointed
    <3>1. CASE Does(t, IdleJob)
      BY <3>1, IdleJobIsAJob
    <3>2. CASE /\ Retired(j.fact)
               /\ Does(t, [j EXCEPT !.stage = "cut", !.page = row[j.fact].page, !.disk = file[row[j.fact].page]])
      <4>1. j.fact \in Facts /\ row[j.fact].page \in Pages
        BY <1>0, <1>8, <3>2 DEF strip_fact_region, Placed, TypeInv, Pointed, Retired
      <4>2. [j EXCEPT !.stage = "cut", !.page = row[j.fact].page, !.disk = file[row[j.fact].page]] \in Jobs
        BY <1>0, <4>1 DEF Jobs, Stages
      <4>3. Placed([j EXCEPT !.stage = "cut", !.page = row[j.fact].page, !.disk = file[row[j.fact].page]])
        BY <1>0, <1>8, <4>1 DEF Jobs, Placed, strip_fact_region
      <4> QED
        BY <1>0, <3>0, <3>2, <4>2, <4>3 DEF Jobs
    <3> QED
      BY <1>8, <3>1, <3>2 DEF strip_fact_region
  <2>2. UNCHANGED <<file, row, plan, events, gestures, faults>>
    BY <1>8 DEF strip_fact_region
  <2> QED
    BY <1>0, <2>1, <2>2, JobOnlyTypes
<1>9. CASE cut_region(t)
  <2> DEFINE new == [j EXCEPT !.stage = "read", !.after = "settle"]
  <2>1. new \in Jobs /\ Placed(new) /\ new.rows = j.rows /\ Does(t, new)
    BY <1>0, <1>9 DEF Jobs, Placed, Stages, cut_region
  <2>2. j.page \in Pages /\ j.disk.body \in Seq(Regions)
    BY <1>0, <1>9, FilesAreThere DEF Jobs, Placed, cut_region
  <2>3. PICK i \in Cuttable(j.disk.body, j.fact) : WriteFile(j.page, Without(j.disk.body, Span(j.disk.body, i)))
    BY <1>9 DEF cut_region
  <2>4. file' \in [Pages -> Files] /\ gestures' \in SUBSET (Pages \X Facts) /\ events' \in SUBSET Pages
    BY <2>2, <2>3, WithoutKeeps, WriteFileTypes DEF TypeInv
  <2> HIDE DEF new
  <2> QED
    BY <1>0, <1>9, <2>1, <2>4, JobTypes DEF cut_region, TypeInv, TypeOK, Pointed, Jobs
<1>10. CASE Settle(t)
  <2>1. j.fact \in Facts
    BY <1>0, <1>10 DEF Settle, Placed
  <2>2. /\ row' \in [Facts -> Rows]
        /\ \A g \in Facts : row'[g].page = row[g].page /\ row'[g].state = row[g].state
    BY <1>10, <2>1 DEF Settle, TypeInv, TypeOK, Rows
  <2> QED
    BY <1>0, <1>10, <2>2, JobTypes, IdleJobIsAJob DEF Settle, TypeInv, TypeOK, Pointed, Jobs
<1> QED
  BY <1>1, <1>2, <1>3, <1>4, <1>5, <1>6, <1>7, <1>8, <1>9, <1>10 DEF Call, TurnStep

LEMMA ReindexTypes ==
    ASSUME TypeInv, NEW a \in Actors, Reindex(a) \/ (a = Watcher /\ \E p \in Pages : HandleEvent(p))
    PROVE  TypeInv'
<1> DEFINE j == jobs[a]
<1>0. /\ j \in Jobs /\ Placed(j) /\ Dream \in Actors /\ Dream # Watcher /\ Watcher \in Actors
      /\ \A p \in Pages : file[p] \in Files
      /\ \A f \in j.rows : row[f].state # "none"
  BY ActorsAre, PageRegionsAssumption DEF TypeInv, TypeOK, Pointed
<1>1. ASSUME NEW p \in Pages, a = Watcher, HandleEvent(p) PROVE TypeInv'
  <2> DEFINE new == [IdleJob EXCEPT !.stage = "rows", !.page = p, !.disk = file[p]]
  <2>1. new \in Jobs /\ Placed(new) /\ new.rows = {} /\ Does(Watcher, new)
    BY <1>0, <1>1, FilesAreThere DEF IdleJob, Jobs, Placed, Stages, HandleEvent
  <2> HIDE DEF new
  <2>2. UNCHANGED <<file, row, gestures, faults, plan>> /\ events' \subseteq events
    BY <1>1 DEF HandleEvent
  <2> QED
    BY <1>0, <2>1, <2>2, JobOnlyTypes
<1>2. CASE ReadPage(a)
  <2> DEFINE new == [j EXCEPT !.disk = file[j.page], !.stage = "rows"]
  <2>1. new \in Jobs /\ Placed(new) /\ new.rows = j.rows /\ new.stage = "rows" /\ Does(a, new)
    BY <1>0, <1>2 DEF Jobs, Placed, Stages, ReadPage
  <2> HIDE DEF new
  <2>2. UNCHANGED <<file, row, gestures, faults, plan>> /\ events' \subseteq events
    BY <1>2 DEF ReadPage
  <2> QED
    BY <1>0, <2>1, <2>2, JobOnlyTypes
<1>3. CASE ReadRows(a)
  <2> DEFINE here == {f \in Facts : Active(f) /\ row[f].page = j.page}
             rendered == {f \in here : row[f].at}
             found == Marks(j.disk.body)
             new == IF j.disk.there
                    THEN [j EXCEPT !.stage = "reindex", !.todo = here \cap found,
                       !.rows = IF markers_parse_whole(j.disk.body) THEN rendered \ found ELSE {}]
                    ELSE [j EXCEPT !.stage = "reindex", !.rows = rendered]
  <2>1. new \in Jobs
    BY <1>0 DEF Jobs, Stages
  <2>2. new.stage = "reindex" /\ new.page = j.page /\ new.fact = j.fact /\ new.after = j.after
    BY <1>0 DEF Jobs
  <2>3. Placed(new)
    <3> HIDE DEF new
    <3> QED
      BY <1>0, <1>3, <2>2 DEF Placed, ReadRows
  <2>4. \A f \in new.rows : row[f].state # "none"
    BY <1>0 DEF Jobs, Active
  <2>5. Does(a, new) /\ UNCHANGED <<file, row, gestures, faults, plan, events>>
    BY <1>3 DEF ReadRows
  <2> HIDE DEF new
  <2> QED
    BY <2>1, <2>2, <2>3, <2>4, <2>5, JobOnlyTypes
<1>4. CASE ReindexDone(a)
  <2> DEFINE new == IF j.after = "idle" THEN IdleJob
                    ELSE [IdleJob EXCEPT !.stage = j.after, !.page = j.page,
                                         !.fact = j.fact, !.left = j.left]
  <2>1. new \in Jobs /\ new.rows = {} /\ new.stage # "prepoint"
    BY <1>0, FilesAreThere DEF IdleJob, Jobs, Stages
  <2>2. Placed(new)
    BY <1>0, <1>4, IdleJobIsAJob DEF ReindexDone, Placed, Jobs, IdleJob
  <2>3. Does(a, new) /\ UNCHANGED <<file, row, gestures, faults, plan, events>>
    BY <1>4 DEF ReindexDone
  <2> HIDE DEF new
  <2> QED
    BY <2>1, <2>2, <2>3, JobOnlyTypes
<1>5. ASSUME NEW f \in Facts, RepairMarker(a, f) PROVE TypeInv'
  <2> DEFINE new == [j EXCEPT !.todo = @ \ {f}]
  <2>1. new \in Jobs /\ Placed(new) /\ new.rows = j.rows /\ new.stage = "reindex" /\ Does(a, new)
    BY <1>0, <1>5 DEF Jobs, Placed, RepairMarker
  <2>2. /\ row' \in [Facts -> Rows]
        /\ \A g \in Facts : row'[g].state = row[g].state
        /\ \A g \in Facts : row'[g].state # "none" => row'[g].page \in Pages
    <3>1. j.page \in Pages
      BY <1>0, <1>5 DEF RepairMarker, Placed
    <3>2. CASE move_region(f, j.page, TRUE)
      BY <3>1, <3>2, MoveTypes
    <3>3. CASE UNCHANGED row
      BY <3>3 DEF TypeInv, TypeOK, Pointed
    <3> QED
      BY <1>5, <3>2, <3>3 DEF RepairMarker
  <2>3. UNCHANGED <<file, gestures, faults, plan, events>>
    BY <1>5 DEF RepairMarker
  <2> HIDE DEF new
  <2>4. /\ \A g \in Facts : row'[g].state # "none" => row'[g].page \in Pages
        /\ \A g \in Facts : row[g].state # "none" => row'[g].state # "none"
        /\ \A g \in new.rows : row[g].state # "none"
    BY <1>0, <2>1, <2>2 DEF TypeInv, Pointed
  <2> QED
    BY <2>1, <2>2, <2>3, <2>4, StepTypes DEF TypeInv, TypeOK
<1>6. ASSUME NEW f \in Facts, SweepOrphan(a, f) PROVE TypeInv'
  <2> DEFINE new == [j EXCEPT !.rows = @ \ {f}]
  <2>1. /\ new \in Jobs /\ Placed(new) /\ new.rows \subseteq j.rows
        /\ new.stage = "reindex" /\ Does(a, new) /\ f \in j.rows
    BY <1>0, <1>6 DEF Jobs, Placed, SweepOrphan
  <2>2. /\ row' \in [Facts -> Rows]
        /\ \A g \in Facts : row'[g].page = row[g].page /\ (row'[g].state = "none" <=> row[g].state = "none")
    BY <1>0, <1>6, <2>1 DEF SweepOrphan, TypeInv, TypeOK, Rows, States
  <2>3. UNCHANGED <<file, gestures, faults, plan, events>>
    BY <1>6 DEF SweepOrphan
  <2> HIDE DEF new
  <2>4. /\ \A g \in Facts : row'[g].state # "none" => row'[g].page \in Pages
        /\ \A g \in Facts : row[g].state # "none" => row'[g].state # "none"
        /\ \A g \in new.rows : row[g].state # "none"
    BY <1>0, <2>1, <2>2 DEF TypeInv, Pointed
  <2> QED
    BY <2>1, <2>2, <2>3, <2>4, StepTypes DEF TypeInv, TypeOK
<1> QED
  BY <1>1, <1>2, <1>3, <1>4, <1>5, <1>6 DEF Reindex

LEMMA HygieneTypes ==
    ASSUME TypeInv, NEW left \in SUBSET Pages, Hygiene(left), jobs[Dream].stage # "prepoint",
           row' \in [Facts -> Rows],
           \A f \in Facts : row'[f].page = row[f].page /\ row'[f].state = row[f].state,
           UNCHANGED <<file, events, gestures, faults>>
    PROVE  TypeInv'
<1> DEFINE new == IF left = {} THEN IdleJob ELSE [IdleJob EXCEPT !.stage = "hygiene", !.left = left]
<1>1. new \in Jobs /\ Placed(new) /\ new.rows = {} /\ new.stage # "prepoint"
  BY IdleJobIsAJob DEF IdleJob, Jobs, Placed, Stages
<1>2. Does(Dream, new) /\ plan' \in [Facts -> PlanPages \cup {NoPage}]
  BY DEF Hygiene, NoPlan, TypeInv, TypeOK
<1> HIDE DEF new
<1>3. /\ jobs' \in [Actors -> Jobs]
      /\ \A b \in Actors : Placed(jobs'[b]) /\ jobs'[b] = IF b = Dream THEN new ELSE jobs[b]
  BY <1>1, <1>2, JobTypes, ActorsAre
<1>4. ASSUME NEW b \in Actors, NEW f \in jobs'[b].rows PROVE row'[f].state # "none"
  <2>1. f \in Facts /\ f \in jobs[b].rows
    BY <1>1, <1>3, <1>4 DEF Jobs
  <2> QED
    BY <2>1 DEF TypeInv, Pointed
<1> QED
  BY <1>1, <1>2, <1>3, <1>4, ActorsAre DEF TypeInv, TypeOK, Pointed

LEMMA DreamTypes ==
    ASSUME TypeInv, DreamStep \/ (\E p \in PlanPages : CompileFails(p)), ~ Reindex(Dream)
    PROVE  TypeInv'
<1> DEFINE j == jobs[Dream]
<1>0. /\ Dream \in Actors /\ j \in Jobs /\ Placed(j)
      /\ \A p \in Pages : file[p] \in Files
      /\ \A f \in j.rows : row[f].state # "none"
      /\ PlanPages \subseteq Pages
  BY ActorsAre DEF TypeInv, TypeOK, Pointed, Pages
<1>1. CASE BuildPlan
  <2> DEFINE homed == {f \in Facts : Active(f) /\ row[f].page \in PlanPages}
             new == [IdleJob EXCEPT !.stage = "prepoint", !.todo = homed,
                                    !.left = {plan'[f] : f \in homed}]
  <2>1. /\ plan' \in [Facts -> PlanPages \cup {NoPage}]
        /\ \A f \in homed : plan'[f] \in PlanPages
    BY <1>1 DEF BuildPlan
  <2>2. Does(Dream, new) /\ UNCHANGED <<file, row, events, gestures, faults>>
    BY <1>1 DEF BuildPlan
  <2> HIDE DEF homed
  <2>3. homed \subseteq Facts /\ {plan'[f] : f \in homed} \subseteq Pages
    BY <1>0, <2>1 DEF homed
  <2>4. new \in Jobs
    BY <2>3, FilesAreThere DEF IdleJob, Jobs, Stages
  <2>5. Placed(new) /\ new.rows = {} /\ new.todo = homed
    BY DEF Placed, IdleJob
  <2> HIDE DEF new
  <2>6. PICK k \in Jobs : k = new
    BY <2>4
  <2>7. /\ jobs' \in [Actors -> Jobs]
        /\ \A b \in Actors : Placed(jobs'[b]) /\ jobs'[b] = IF b = Dream THEN k ELSE jobs[b]
    BY <1>0, <2>2, <2>5, <2>6, JobTypes
  <2> QED
    BY <1>0, <2>1, <2>2, <2>5, <2>6, <2>7 DEF TypeInv, TypeOK, Pointed
<1>2. CASE ToOrphanFiles
  <2> DEFINE new == [IdleJob EXCEPT !.stage = "files", !.left = PlanPages \ Planned]
  <2>1. /\ new \in Jobs /\ Placed(new) /\ new.rows = {} /\ new.stage # "prepoint"
        /\ Does(Dream, new) /\ UNCHANGED <<file, row, plan, events, gestures, faults>>
    BY <1>0, <1>2, FilesAreThere DEF IdleJob, Jobs, Placed, Stages, ToOrphanFiles
  <2> HIDE DEF new
  <2>2. PICK k \in Jobs : k = new
    BY <2>1
  <2> QED
    BY <1>0, <2>1, <2>2, JobOnlyTypes
<1>3. CASE RemoveFile
  <2> DEFINE new == [j EXCEPT !.stage = "files", !.left = @ \ {j.page}, !.page = NoPage]
  <2>1. /\ new \in Jobs /\ Placed(new) /\ new.rows = j.rows /\ new.stage # "prepoint"
        /\ Does(Dream, new) /\ j.page \in Pages
    BY <1>0, <1>3 DEF Jobs, Placed, Stages, RemoveFile
  <2>2. /\ file' \in [Pages -> Files] /\ events' \in SUBSET Pages
        /\ UNCHANGED <<row, plan, gestures, faults>>
    BY <1>0, <1>3, <2>1, FilesAreThere DEF RemoveFile, TypeInv, TypeOK
  <2> HIDE DEF new
  <2> QED
    BY <1>0, <2>1, <2>2, StepTypes DEF TypeInv, TypeOK, Pointed
<1>4. CASE sweep_retired_regions
  BY <1>4, HygieneTypes DEF sweep_retired_regions, TypeInv, TypeOK
<1>5. CASE CutRetired
  <2> DEFINE new == [j EXCEPT !.stage = "read", !.todo = {}, !.after = "settleall"]
  <2>1. /\ new \in Jobs /\ Placed(new) /\ new.rows = j.rows /\ new.stage # "prepoint"
        /\ Does(Dream, new) /\ j.page \in Pages /\ j.disk.body \in Seq(Regions)
    BY <1>0, <1>5, FilesAreThere DEF Jobs, Placed, Stages, CutRetired
  <2>2. CutAll(j.disk.body, j.todo) \in Seq(Regions)
    BY <2>1, CutsAreBodies
  <2>3. file' \in [Pages -> Files] /\ gestures' \in SUBSET (Pages \X Facts) /\ events' \in SUBSET Pages
    BY <1>5, <2>1, <2>2, WriteFileTypes DEF TypeInv, CutRetired
  <2>4. UNCHANGED <<row, plan, faults>>
    BY <1>5 DEF CutRetired
  <2> HIDE DEF new
  <2> QED
    BY <1>0, <2>1, <2>3, <2>4, StepTypes DEF TypeInv, TypeOK, Pointed
<1>6. CASE SettleRetired
  <2>1. /\ row' \in [Facts -> Rows]
        /\ \A f \in Facts : row'[f].page = row[f].page /\ row'[f].state = row[f].state
    <3>1. row' = [f \in Facts |-> IF Retired(f) /\ row[f].page = j.page
                  THEN [row[f] EXCEPT !.at = row[f].at /\ f \in Written(file[j.page].body)] ELSE row[f]]
      BY <1>6 DEF SettleRetired
    <3>2. \A f \in Facts : row[f] \in Rows
      BY DEF TypeInv, TypeOK
    <3>3. ASSUME NEW f \in Facts, NEW at \in BOOLEAN
          PROVE  /\ [row[f] EXCEPT !.at = at] \in Rows
                 /\ [row[f] EXCEPT !.at = at].page = row[f].page
                 /\ [row[f] EXCEPT !.at = at].state = row[f].state
      BY <3>2 DEF Rows
    <3>4. \A f \in Facts : (row[f].at /\ f \in Written(file[j.page].body)) \in BOOLEAN
      OBVIOUS
    <3> QED
      BY <3>1, <3>2, <3>3, <3>4
  <2>2. Hygiene(j.left \ {j.page}) /\ UNCHANGED <<file, events, gestures, faults>> /\ j.stage # "prepoint"
    BY <1>6 DEF SettleRetired
  <2>3. j.left \ {j.page} \in SUBSET Pages
    BY <1>0 DEF Jobs
  <2> QED
    BY <2>1, <2>2, <2>3, HygieneTypes
<1>7. ASSUME NEW f \in Facts, prepoint_plan_moves(f) PROVE TypeInv'
  <2> DEFINE new == [j EXCEPT !.todo = @ \ {f}]
  <2>1. /\ new \in Jobs /\ Placed(new) /\ new.rows = j.rows
        /\ Does(Dream, new) /\ UNCHANGED <<file, plan, events, gestures, faults>>
        /\ j.stage = "prepoint" /\ new.todo \subseteq j.todo /\ f \in j.todo
    BY <1>0, <1>7 DEF Jobs, Placed, Stages, prepoint_plan_moves
  <2>2. \A g \in j.todo : plan[g] \in PlanPages
    BY <2>1 DEF TypeInv, Pointed
  <2>3. /\ row' \in [Facts -> Rows]
        /\ \A g \in Facts : row'[g].state = row[g].state
        /\ \A g \in Facts : row'[g].state # "none" => row'[g].page \in Pages
    <3>1. plan[f] \in Pages
      BY <1>0, <2>1, <2>2
    <3>2. CASE move_region(f, plan[f], FALSE)
      BY <3>1, <3>2, MoveTypes
    <3>3. CASE UNCHANGED row
      BY <3>3 DEF TypeInv, TypeOK, Pointed
    <3> QED
      BY <1>7, <3>2, <3>3 DEF prepoint_plan_moves
  <2> HIDE DEF new
  <2> QED
    BY <1>0, <2>1, <2>2, <2>3, StepTypes DEF TypeInv, TypeOK
<1>8. ASSUME NEW f \in Facts, repoint_facts(f) PROVE TypeInv'
  <2> DEFINE new == [j EXCEPT !.todo = @ \ {f}]
  <2>1. /\ new \in Jobs /\ Placed(new) /\ new.rows = j.rows /\ new.stage # "prepoint"
        /\ Does(Dream, new) /\ UNCHANGED <<file, plan, events, gestures, faults>>
        /\ j.page \in Pages
    BY <1>0, <1>8 DEF Jobs, Placed, Stages, repoint_facts
  <2>2. /\ row' \in [Facts -> Rows]
        /\ \A g \in Facts : row'[g].state = row[g].state
        /\ \A g \in Facts : row'[g].state # "none" => row'[g].page \in Pages
    BY <1>8, <2>1, MoveTypes DEF repoint_facts
  <2> HIDE DEF new
  <2> QED
    BY <1>0, <2>1, <2>2, StepTypes DEF TypeInv, TypeOK
<1>9. ASSUME NEW p \in Pages, compile_page(p) PROVE TypeInv'
  <2>1. PICK b \in Compiled(p) :
            /\ WriteFile(p, b)
            /\ Does(Dream, [j EXCEPT !.stage = "repoint", !.page = p,
                                     !.todo = planned(p) \cap Marks(b), !.left = @ \ {p}])
    BY <1>9 DEF compile_page
  <2> DEFINE new == [j EXCEPT !.stage = "repoint", !.page = p,
                              !.todo = planned(p) \cap Marks(b), !.left = @ \ {p}]
  <2>2. planned(p) \cap Marks(b) \in SUBSET Facts
    BY DEF planned
  <2>3. new \in Jobs /\ Placed(new) /\ new.rows = j.rows /\ new.stage = "repoint"
    BY <1>0, <2>2 DEF Jobs, Placed, Stages
  <2>4. b \in Seq(Regions)
    BY <1>0, FilesAreThere, CompiledIsABody
  <2>5. file' \in [Pages -> Files] /\ gestures' \in SUBSET (Pages \X Facts) /\ events' \in SUBSET Pages
    BY <2>1, <2>4, WriteFileTypes DEF TypeInv
  <2>6. UNCHANGED <<row, plan, faults>> /\ Does(Dream, new)
    BY <1>9, <2>1 DEF compile_page
  <2> HIDE DEF new
  <2> QED
    BY <1>0, <2>3, <2>5, <2>6, StepTypes DEF TypeInv, TypeOK, Pointed
<1>10. ASSUME NEW p \in PlanPages, CompileFails(p) PROVE TypeInv'
  <2> DEFINE new == [j EXCEPT !.left = @ \ {p}]
  <2>1. /\ new \in Jobs /\ Placed(new) /\ new.rows = j.rows /\ new.todo = {}
        /\ Does(Dream, new) /\ UNCHANGED <<file, row, plan, events, gestures, faults>>
    BY <1>0, <1>10 DEF Jobs, Placed, Stages, CompileFails, BetweenPages
  <2> HIDE DEF new
  <2> QED
    BY <1>0, <2>1, JobOnlyTypes
<1>11. ASSUME NEW p \in Pages, CountRows(p) PROVE TypeInv'
  <2>1. PICK new \in {[j EXCEPT !.left = @ \ {p}], [j EXCEPT !.stage = "remove", !.page = p]} : Does(Dream, new)
    BY <1>11 DEF CountRows
  <2>2. new \in Jobs /\ Placed(new) /\ new.rows = j.rows /\ new.stage # "prepoint"
    BY <1>0, <1>11 DEF Jobs, Placed, Stages, CountRows
  <2>3. UNCHANGED <<file, row, plan, events, gestures, faults>>
    BY <1>11 DEF CountRows
  <2> QED
    BY <1>0, <2>1, <2>2, <2>3, JobOnlyTypes
<1>12. ASSUME NEW p \in Pages, strip_retired_regions_on_page(p) PROVE TypeInv'
  <2> DEFINE cut == {f \in Marks(file[p].body) : Retired(f)}
             new == [j EXCEPT !.stage = IF cut = {} THEN "settleall" ELSE "cutall",
                                 !.page = p, !.disk = file[p], !.todo = cut]
  <2>1. Marks(file[p].body) \subseteq Facts
    <3>1. file[p].body \in Seq(Regions)
      BY <1>0, FilesAreThere
    <3>2. \A i \in DOMAIN file[p].body : file[p].body[i] \in Regions
      BY <3>1
    <3>3. Parsed(file[p].body) \subseteq DOMAIN file[p].body
      BY DEF Parsed
    <3> QED
      BY <3>2, <3>3 DEF Marks, Regions
  <2>2. Does(Dream, new) /\ UNCHANGED <<file, row, plan, events, gestures, faults>>
    BY <1>12 DEF strip_retired_regions_on_page
  <2>3. cut \in SUBSET Facts
    BY <2>1
  <2> HIDE DEF cut
  <2>4. new \in Jobs /\ Placed(new) /\ new.rows = j.rows /\ new.stage # "prepoint"
    <3> DEFINE s == IF cut = {} THEN "settleall" ELSE "cutall"
    <3>1. s \in {"settleall", "cutall"} /\ s \in Stages
      BY DEF Stages
    <3>2. new = [j EXCEPT !.stage = s, !.page = p, !.disk = file[p], !.todo = cut]
      OBVIOUS
    <3> HIDE DEF s, new
    <3>3. /\ new \in Jobs /\ new.rows = j.rows /\ new.stage = s /\ new.page = p
      BY <1>0, <2>3, <3>1, <3>2 DEF Jobs
    <3> QED
      BY <3>1, <3>3 DEF Placed
  <2> HIDE DEF new
  <2> QED
    BY <1>0, <2>2, <2>4, JobOnlyTypes
<1> QED
  BY <1>1, <1>2, <1>3, <1>4, <1>5, <1>6, <1>7, <1>8, <1>9, <1>10, <1>11, <1>12 DEF DreamStep

LEMMA PersonTypes ==
    ASSUME TypeInv, ByPerson
    PROVE  TypeInv'
<1>0. /\ \A p \in Pages : file[p] \in Files /\ file[p].body \in Seq(Regions)
      /\ file \in [Pages -> Files]
  BY FilesAreThere DEF TypeInv, TypeOK
<1>1. PICK p \in Pages : \/ HandDelete(p) \/ HandMend(p)
                         \/ \E i \in DOMAIN file[p].body : HandCut(p, i) \/ HandTear(p, i)
  BY DEF ByPerson
<1> DEFINE b == file[p].body
<1>2. b \in Seq(Regions) /\ \A i \in DOMAIN b : b[i] \in Regions
  BY <1>0
<1>3. ASSUME NEW c \in Files, NEW gone \in SUBSET Facts, ByHand(p, c, gone) PROVE TypeInv'
  <2>1. file' \in [Pages -> Files] /\ events' \in SUBSET Pages
        /\ gestures' \in SUBSET (Pages \X Facts) /\ UNCHANGED <<row, plan, jobs>>
    BY <1>0, <1>3 DEF ByHand, TypeInv, TypeOK
  <2>2. faults' \in 0..MaxFaults
    BY <1>3, PageRegionsAssumption DEF ByHand, TypeInv, TypeOK
  <2> QED
    BY <2>1, <2>2 DEF TypeInv, TypeOK, Pointed
<1>4. CASE HandDelete(p)
  <2>1. Written(b) \in SUBSET Facts
    BY <1>2 DEF Written, Regions
  <2> QED
    BY <1>3, <1>4, <2>1, FilesAreThere DEF HandDelete
<1>5. ASSUME NEW i \in DOMAIN b, HandCut(p, i) PROVE TypeInv'
  <2>1. {b[i].fact} \in SUBSET Facts
    BY <1>2 DEF Regions
  <2>2. File(RemoveAt(b, i)) \in Files
    BY <1>2, RemoveAtKeeps, FilesAreThere
  <2> QED
    BY <1>3, <1>5, <2>1, <2>2 DEF HandCut
<1>6. ASSUME NEW i \in DOMAIN b, HandTear(p, i) PROVE TypeInv'
  <2>1. [b EXCEPT ![i].closed = FALSE] \in Seq(Regions)
    <3>1. [b[i] EXCEPT !.closed = FALSE] \in Regions
      BY <1>2 DEF Regions
    <3> QED
      BY <1>2, <3>1
  <2>2. File([b EXCEPT ![i].closed = FALSE]) \in Files /\ {} \in SUBSET Facts
    <3> HIDE DEF b
    <3> QED
      BY <2>1, FilesAreThere
  <2>3. ByHand(p, File([b EXCEPT ![i].closed = FALSE]), {})
    BY <1>6 DEF HandTear
  <2> HIDE DEF b
  <2> QED
    BY <1>3, <2>2, <2>3
<1>7. CASE HandMend(p)
  <2>1. [i \in DOMAIN b |-> Whole(b[i].fact)] \in Seq(Regions)
    <3>1. \A i \in DOMAIN b : Whole(b[i].fact) \in Regions
      BY <1>2 DEF Whole, Regions
    <3>2. DOMAIN b = 1..Len(b) /\ Len(b) \in Nat
      BY <1>2
    <3> QED
      BY <3>1, <3>2
  <2>2. file' \in [Pages -> Files] /\ events' \in SUBSET Pages
        /\ UNCHANGED <<row, plan, jobs, gestures, faults>>
    BY <1>0, <1>7, <2>1, FilesAreThere DEF HandMend, TypeInv, TypeOK
  <2> QED
    BY <2>2 DEF TypeInv, TypeOK, Pointed
<1> QED
  BY <1>1, <1>4, <1>5, <1>6, <1>7

LEMMA CrashTypes ==
    ASSUME TypeInv, Crash
    PROVE  TypeInv'
<1>1. jobs' \in [Actors -> Jobs] /\ \A a \in Actors : jobs'[a] = IdleJob
  BY IdleJobIsAJob DEF Crash
<1>2. plan' \in [Facts -> PlanPages \cup {NoPage}] /\ faults' \in 0..MaxFaults
  BY PageRegionsAssumption DEF Crash, NoPlan, TypeInv, TypeOK
<1> QED
  BY <1>1, <1>2, IdleJobIsAJob, ActorsAre DEF Crash, TypeInv, TypeOK, Pointed

LEMMA ProposalTypes ==
    ASSUME TypeInv, NEW f \in Facts, ForgetByProposal(f)
    PROVE  TypeInv'
<1>1. /\ row' \in [Facts -> Rows]
      /\ \A g \in Facts : row'[g].page = row[g].page /\ (row'[g].state = "none" <=> row[g].state = "none")
  BY DEF ForgetByProposal, TypeInv, TypeOK, Rows, States
<1>2. \A a \in Actors : jobs[a].rows \subseteq Facts
  BY DEF TypeInv, TypeOK, Jobs
<1> QED
  BY <1>1, <1>2 DEF ForgetByProposal, TypeInv, TypeOK, Pointed

LEMMA TypeInit == Init => TypeInv
<1> SUFFICES ASSUME Init PROVE TypeInv
  OBVIOUS
<1>1. PICK known \in {{}} \cup {{f} : f \in Facts}, p \in PlanPages :
          /\ file = [q \in Pages |-> IF q = p /\ known # {}
                                     THEN File([i \in 1..1 |-> Whole(CHOOSE f \in known : TRUE)])
                                     ELSE NoFile]
          /\ row = [f \in Facts |-> IF f \in known
                                    THEN [state |-> "active", page |-> p, at |-> TRUE] ELSE NoRow]
  BY DEF Init
<1>2. file \in [Pages -> Files]
  <2>1. CASE known = {}
    BY <1>1, <2>1, FilesAreThere
  <2>2. CASE known # {}
    <3>1. (CHOOSE f \in known : TRUE) \in Facts
      BY <2>2
    <3>2. Whole(CHOOSE f \in known : TRUE) \in Regions
      BY <3>1 DEF Whole, Regions
    <3>3. [i \in 1..1 |-> Whole(CHOOSE f \in known : TRUE)] \in Seq(Regions)
      BY <3>2
    <3> QED
      BY <1>1, <3>3, FilesAreThere
  <2> QED
    BY <2>1, <2>2
<1>3. row \in [Facts -> Rows] /\ \A f \in Facts : row[f].state # "none" => row[f].page \in Pages
  BY <1>1 DEF Rows, States, NoRow, Pages
<1>4. plan \in [Facts -> PlanPages \cup {NoPage}] /\ events \in SUBSET Pages
      /\ gestures \in SUBSET (Pages \X Facts) /\ faults \in 0..MaxFaults
  BY PageRegionsAssumption DEF Init, NoPlan
<1>5. jobs \in [Actors -> Jobs] /\ \A a \in Actors : jobs[a] = IdleJob
  BY IdleJobIsAJob DEF Init
<1> QED
  BY <1>2, <1>3, <1>4, <1>5, IdleJobIsAJob, ActorsAre DEF TypeInv, TypeOK, Pointed

LEMMA TypeStep == TypeInv /\ [Next]_vars => TypeInv'
<1> SUFFICES ASSUME TypeInv, [Next]_vars PROVE TypeInv'
  OBVIOUS
<1>1. CASE UNCHANGED vars
  BY <1>1 DEF vars, TypeInv, TypeOK, Pointed
<1>2. ASSUME NEW t \in Turns, Call(t) \/ TurnStep(t) PROVE TypeInv'
  BY <1>2, TurnTypes, ReindexTypes, ActorsAre
<1>3. CASE DreamStep \/ \E p \in PlanPages : CompileFails(p)
  BY <1>3, DreamTypes, ReindexTypes, ActorsAre
<1>4. CASE WatcherStep
  BY <1>4, ReindexTypes, ActorsAre DEF WatcherStep
<1>5. ASSUME NEW f \in Facts, ForgetByProposal(f) PROVE TypeInv'
  BY <1>5, ProposalTypes
<1>6. CASE ByPerson
  BY <1>6, PersonTypes
<1>7. CASE Crash
  BY <1>7, CrashTypes
<1> QED
  BY <1>1, <1>2, <1>3, <1>4, <1>5, <1>6, <1>7 DEF Next

\* Pages, rows, the plan and every job stay well formed, whatever overlaps,
\* whatever an edit tears and wherever the process dies.
THEOREM TypesHold == Spec => []TypeOK
<1>1. TypeInv => TypeOK
  BY DEF TypeInv
<1> QED
  BY <1>1, TypeInit, TypeStep, PTL DEF Spec

-----------------------------------------------------------------------------
(* What one step leaves of what the others know.                            *)

\* A write keeps every marker that it prints or that was not there before, and
\* every gesture whose fact is gone for good.
LEMMA WriteFileKeeps ==
    ASSUME TypeInv, NEW p \in Pages, NEW b \in Seq(Regions), WriteFile(p, b)
    PROVE  /\ file'[p].body = b
           /\ \A q \in Pages \ {p} : file'[q] = file[q]
           /\ \A q \in Pages, f \in Facts :
                 Kept(q, f) /\ (q = p => f \in Written(b) \/ f \notin On(p)) => Kept(q, f)'
           /\ \A q \in Pages, f \in Facts :
                 row[f].state = "swept" /\ <<q, f>> \in gestures => <<q, f>> \in gestures'
<1>1. /\ file'[p] = File(b) /\ File(b).body = b
      /\ \A q \in Pages \ {p} : file'[q] = file[q]
  BY FilesAreThere DEF WriteFile, TypeInv, TypeOK
<1>2. gestures' = gestures \ {<<p, f>> : f \in {g \in Written(b) : row[g].state # "swept"}}
  BY DEF WriteFile
<1>3. ASSUME NEW q \in Pages, NEW f \in Facts, <<q, f>> \in gestures, <<q, f>> \notin gestures'
      PROVE  q = p /\ f \in Written(b) /\ row[f].state # "swept"
  BY <1>2, <1>3
<1>4. ASSUME NEW q \in Pages, NEW f \in Facts, Kept(q, f), q = p => f \in Written(b) \/ f \notin On(p)
      PROVE  Kept(q, f)'
  <2>1. CASE f \in Written(b) /\ q = p
    BY <1>1, <2>1 DEF Kept, On
  <2>2. CASE q # p
    BY <1>1, <1>3, <1>4, <2>2 DEF Kept, On
  <2>3. CASE q = p /\ f \notin Written(b)
    BY <1>3, <1>4, <2>3 DEF Kept
  <2> QED
    BY <2>1, <2>2, <2>3
<1> QED
  BY <1>1, <1>3, <1>4

\* While a job is on a page, or before one starts, the others are on none.
LEMMA OthersAreOff ==
    ASSUME IInv, Orderly, NEW a \in Actors, OnAPage(a) \/ MayStart(a),
           NEW j \in Jobs, Does(a, j)
    PROVE  /\ \A b \in Actors \ {a} : ~ OnAPage(b) /\ jobs'[b] = jobs[b] /\ Knows(b)'
           /\ jobs'[a] = j
           /\ Alone'
<1>1. jobs \in [Actors -> Jobs]
  BY DEF IInv, TypeInv, TypeOK
<1>2. jobs'[a] = j /\ \A b \in Actors \ {a} : jobs'[b] = jobs[b]
  BY <1>1 DEF Does
<1>3. ASSUME NEW b \in Actors \ {a} PROVE ~ OnAPage(b)
  BY DEF IInv, Alone, MayStart, Orderly
<1>4. ASSUME NEW b \in Actors \ {a} PROVE ~ OnAPage(b)' /\ Knows(b)'
  <2>1. jobs'[b].stage \in {"idle", "prepoint", "files", "hygiene", "repoint"}
        /\ (jobs'[b].stage = "repoint" => jobs'[b].todo = {})
    BY <1>2, <1>3 DEF OnAPage
  <2> QED
    BY <2>1 DEF OnAPage, Knows
<1>5. Alone'
  BY <1>4 DEF Alone
<1> QED
  BY <1>2, <1>3, <1>4, <1>5

\* So a step of one job has only its own part of the invariant to establish.
LEMMA SoleStep ==
    ASSUME IInv, Orderly, NEW a \in Actors, OnAPage(a) \/ MayStart(a),
           NEW j \in Jobs, Does(a, j), Closed(j.disk.body),
           \A p \in Pages : Closed(file'[p].body),
           TypeInv', Standing', Knows(a)', Round', OnlyGesturesForget'
    PROVE  IInv'
<1>1. Alone' /\ jobs'[a] = j /\ \A b \in Actors \ {a} : jobs'[b] = jobs[b] /\ Knows(b)'
  BY OthersAreOff
<1>2. AllClosed'
  BY <1>1 DEF IInv, AllClosed
<1>3. \A b \in Actors : Knows(b)'
  BY <1>1
<1> QED
  BY <1>1, <1>2, <1>3 DEF IInv

\* What a job in flight knows depends on the pages, the rows and itself.
LEMMA QuietKnows ==
    ASSUME NEW a, Knows(a), UNCHANGED <<file, row, gestures>>, jobs'[a] = jobs[a]
    PROVE  Knows(a)'
BY DEF Knows, Kept, On, Active, Retired

\* A round goes on unharmed beside a step that moves no row on its pages.
LEMMA RoundGoesOn ==
    ASSUME IInv, Orderly, NEW a \in Actors, OnAPage(a) \/ MayStart(a),
           NEW j \in Jobs, Does(a, j), UNCHANGED plan,
           jobs[Dream].stage # "idle" =>
               \A f \in Facts : Active(f)' /\ row'[f].page \in PlanPages
                                => Active(f) /\ row'[f].page = row[f].page,
           jobs[Dream].stage # "idle" /\ j.stage \in {"insert", "write", "stamp"} => j.page \in RulesPages,
           a = Dream => /\ jobs[Dream].stage \notin {"idle", "prepoint"}
                        /\ j.stage \in {"read", "rows", "reindex"} => j.after # "idle"
                        /\ j.stage \notin {"idle", "prepoint", "repoint", "files", "remove"}
    PROVE  Round'
<1>1. jobs'[a] = j /\ \A b \in Actors \ {a} : jobs'[b] = jobs[b] /\ ~ OnAPage(b)
  BY OthersAreOff
<1>2. Planned' = Planned
  BY DEF Planned, planned
<1>3. Dream \in Actors /\ Turns \subseteq Actors /\ Dream \notin Turns /\ Round
  BY ActorsAre, PageRegionsAssumption DEF IInv
<1>4. CASE a = Dream
  <2>1. jobs'[Dream] = j /\ \A t \in Turns : jobs'[t] = jobs[t]
    BY <1>1, <1>3, <1>4
  <2>2. ASSUME NEW f \in Facts, Active(f)', row'[f].page \in PlanPages
        PROVE  plan'[f] \in PlanPages /\ row'[f].page = plan'[f]
    BY <1>3, <1>4, <2>2 DEF Round
  <2>3. \A t \in Turns : jobs'[t].stage \in {"insert", "write", "stamp"} => jobs'[t].page \in RulesPages
    BY <1>3, <1>4, <2>1 DEF Round
  <2> QED
    BY <1>4, <2>1, <2>2, <2>3 DEF Round
<1>5. CASE a # Dream
  <2>1. jobs'[Dream] = jobs[Dream] /\ (jobs[Dream].stage = "repoint" => jobs[Dream].todo = {})
        /\ jobs[Dream].stage # "remove"
    BY <1>1, <1>3, <1>5 DEF OnAPage
  <2>2. ASSUME jobs[Dream].stage # "idle", NEW f \in Facts, Active(f)', row'[f].page \in PlanPages
        PROVE  /\ plan'[f] \in PlanPages
               /\ row'[f].page = plan'[f] \/ (jobs[Dream].stage = "prepoint" /\ f \in jobs[Dream].todo)
    BY <1>3, <2>2 DEF Round
  <2>3. ASSUME jobs[Dream].stage # "idle", NEW t \in Turns, jobs'[t].stage \in {"insert", "write", "stamp"}
        PROVE  jobs'[t].page \in RulesPages
    BY <1>1, <1>3, <2>3 DEF Round
  <2> QED
    BY <1>2, <1>3, <2>1, <2>2, <2>3 DEF Round
<1> QED
  BY <1>4, <1>5

\* A job that goes on without touching page or row.
LEMMA QuietStep ==
    ASSUME IInv, Orderly, NEW a \in Actors, OnAPage(a) \/ MayStart(a),
           NEW j \in Jobs, Does(a, j), Closed(j.disk.body),
           UNCHANGED <<file, row, gestures>>, TypeInv', Knows(a)', Round'
    PROVE  IInv'
<1>1. Standing'
  BY DEF IInv, Standing, Active, Kept, On
<1>2. OnlyGesturesForget'
  BY DEF IInv, OnlyGesturesForget
<1>3. \A p \in Pages : Closed(file'[p].body)
  BY DEF IInv, AllClosed
<1> QED
  BY <1>1, <1>2, <1>3, SoleStep

\* A statement on the rows.
LEMMA RowStep ==
    ASSUME IInv, Orderly, NEW a \in Actors, OnAPage(a) \/ MayStart(a),
           NEW j \in Jobs, Does(a, j), Closed(j.disk.body),
           UNCHANGED <<file, gestures>>, TypeInv', Knows(a)', Round',
           \A f \in Facts : Active(f)' /\ row'[f].at => Kept(row'[f].page, f),
           \A f \in Facts : row'[f].state = "swept" =>
               row[f].state = "swept" \/ \E p \in Pages : <<p, f>> \in gestures
    PROVE  IInv'
<1>1. Standing'
  BY DEF Standing, Active, Kept, On
<1>2. OnlyGesturesForget'
  BY DEF IInv, OnlyGesturesForget
<1>3. \A p \in Pages : Closed(file'[p].body)
  BY DEF IInv, AllClosed
<1> QED
  BY <1>1, <1>2, <1>3, SoleStep

\* A write that takes no rendered row's marker off its page.
LEMMA PageStep ==
    ASSUME IInv, Orderly, NEW a \in Actors, OnAPage(a) \/ MayStart(a),
           NEW j \in Jobs, Does(a, j), Closed(j.disk.body),
           NEW p \in Pages, NEW b \in Seq(Regions), Closed(b), WriteFile(p, b),
           UNCHANGED row, TypeInv', Knows(a)', Round',
           \A f \in Facts : Active(f) /\ row[f].at /\ row[f].page = p
               => f \in Written(b) \/ f \notin On(p)
    PROVE  IInv'
<1>0. TypeInv
  BY DEF IInv
<1>1. Standing'
  <2>1. ASSUME NEW f \in Facts, Active(f), row[f].at PROVE Kept(row[f].page, f)'
    <3>1. PICK q \in Pages : q = row[f].page
      BY <1>0, <2>1 DEF TypeInv, Pointed, Active
    <3>2. Kept(q, f) /\ (q = p => f \in Written(b) \/ f \notin On(p))
      BY <2>1, <3>1 DEF IInv, Standing
    <3>3. Kept(q, f)'
      BY <1>0, <3>2, WriteFileKeeps
    <3> QED
      BY <3>1, <3>3
  <2> QED
    BY <2>1 DEF Standing, Active
<1>2. OnlyGesturesForget'
  <2>1. ASSUME NEW f \in Facts, row[f].state = "swept" PROVE \E q \in Pages : <<q, f>> \in gestures'
    BY <1>0, <2>1, WriteFileKeeps DEF IInv, OnlyGesturesForget
  <2> QED
    BY <2>1 DEF OnlyGesturesForget
<1>3. \A q \in Pages : Closed(file'[q].body)
  BY <1>0, WriteFileKeeps DEF IInv, AllClosed
<1> QED
  BY <1>1, <1>2, <1>3, SoleStep

LEMMA TurnKeeps ==
    ASSUME IInv, Orderly, NEW t \in Turns, Call(t) \/ TurnStep(t), ~ Reindex(t)
    PROVE  IInv'
<1> DEFINE j == jobs[t]
<1>0. /\ t \in Actors /\ t # Dream /\ j \in Jobs /\ Placed(j)
      /\ TypeInv /\ TypeInv' /\ Knows(t) /\ Round /\ Standing
      /\ Closed(j.disk.body) /\ j.disk.body \in Seq(Regions)
      /\ \A p \in Pages : file[p] \in Files /\ Closed(file[p].body)
      /\ jobs \in [Actors -> Jobs] /\ row \in [Facts -> Rows]
      /\ Closed(<<>>) /\ PlanPages \cap RulesPages = {}
  <2>1. TypeInv /\ TypeInv'
    BY TurnTypes DEF IInv
  <2>2. t \in Actors /\ t # Dream /\ PlanPages \cap RulesPages = {}
    BY ActorsAre, PageRegionsAssumption
  <2>3. j \in Jobs /\ Placed(j) /\ jobs \in [Actors -> Jobs] /\ row \in [Facts -> Rows]
        /\ \A p \in Pages : file[p] \in Files
    BY <2>1, <2>2 DEF TypeInv, TypeOK
  <2>4. j.disk.body \in Seq(Regions)
    BY <2>3, FilesAreThere DEF Jobs
  <2> QED
    BY <2>1, <2>2, <2>3, <2>4 DEF IInv, AllClosed, Closed
<1>1. ASSUME NEW f \in Facts, NEW p \in Pages, NEW old \in Facts \cup {NoFact},
             wiki_capture(t, f, p, old)
      PROVE  IInv'
  <2> DEFINE new == [IdleJob EXCEPT !.stage = "insert", !.page = p, !.fact = f,
                                    !.old = old, !.disk = file[p]]
  <2>1. /\ new \in Jobs /\ Does(t, new) /\ new.stage = "insert" /\ new.page = p
        /\ new.fact = f /\ new.disk = file[p]
    BY <1>0, <1>1, FilesAreThere DEF IdleJob, Jobs, Stages, wiki_capture
  <2> HIDE DEF new
  <2>2. /\ MayStart(t) /\ UNCHANGED <<file, row, gestures, plan>> /\ row[f].state = "none"
        /\ jobs[Dream].stage # "idle" => p \in RulesPages
    BY <1>1 DEF wiki_capture, Orderly
  <2>3. jobs'[t] = new
    BY <1>0, <2>1 DEF Does
  <2>4. Knows(t)'
    BY <2>1, <2>2, <2>3 DEF Knows, On, Written
  <2>5. Round'
    BY <1>0, <2>1, <2>2, RoundGoesOn DEF Active
  <2> QED
    BY <1>0, <2>1, <2>2, <2>4, <2>5, QuietStep
<1>2. ASSUME NEW f \in Facts, wiki_forget(t, f) PROVE IInv'
  <2> DEFINE new == [IdleJob EXCEPT !.stage = "strip", !.fact = f]
  <2>1. new \in Jobs /\ Does(t, new) /\ new.stage = "strip" /\ new.disk.body = <<>>
    BY <1>0, <1>2, FilesAreThere DEF IdleJob, Jobs, Stages, wiki_forget
  <2> HIDE DEF new
  <2>2. /\ MayStart(t) /\ UNCHANGED <<file, gestures, plan>>
        /\ \A g \in Facts \ {f} : row'[g] = row[g]
        /\ row'[f].state = "forgotten"
    BY <1>0, <1>2 DEF wiki_forget, Rows
  <2>3. jobs'[t] = new
    BY <1>0, <2>1 DEF Does
  <2>4. Knows(t)'
    BY <2>1, <2>3 DEF Knows
  <2>5. \A g \in Facts : Active(g)' => g # f /\ Active(g) /\ row'[g] = row[g]
    BY <2>2 DEF Active
  <2>6. Round'
    BY <1>0, <2>1, <2>2, <2>5, RoundGoesOn
  <2>7. \A g \in Facts : Active(g)' /\ row'[g].at => Kept(row'[g].page, g)
    BY <1>0, <2>5 DEF Standing
  <2>8. \A g \in Facts : row'[g].state = "swept" => row[g].state = "swept"
    BY <2>2
  <2> QED
    BY <1>0, <2>1, <2>2, <2>4, <2>6, <2>7, <2>8, RowStep
<1>3. CASE InsertRow(t)
  <2> DEFINE new == [j EXCEPT !.stage = "write"]
             f == j.fact
  <2>1. /\ new \in Jobs /\ Does(t, new) /\ new.stage = "write" /\ new.page = j.page
        /\ new.disk = j.disk
    BY <1>0, <1>3 DEF Jobs, Stages, InsertRow, Goto, Does
  <2>2. OnAPage(t) /\ UNCHANGED <<file, gestures, plan>> /\ f \in Facts
        /\ (jobs[Dream].stage # "idle" => j.page \in RulesPages)
    BY <1>0, <1>3 DEF InsertRow, OnAPage, Placed, Round
  <2>3. /\ \A g \in Facts \ {f} : row'[g] = row[g]
        /\ row'[f] = [state |-> "active", page |-> j.page, at |-> FALSE]
    BY <1>0, <1>3, <2>2 DEF InsertRow
  <2> HIDE DEF new
  <2>4. jobs'[t] = new
    BY <1>0, <2>1 DEF Does
  <2>5. Knows(t)'
    <3>1. On(j.page) \subseteq Written(j.disk.body)
      BY <1>0, <1>3 DEF InsertRow, Knows
    <3> QED
      BY <2>1, <2>2, <2>4, <3>1 DEF Knows, On
  <2>6. Round'
    <3>1. ASSUME jobs[Dream].stage # "idle", NEW g \in Facts, Active(g)', row'[g].page \in PlanPages
          PROVE  Active(g) /\ row'[g].page = row[g].page
      <4>1. g # f
        BY <1>0, <2>2, <2>3, <3>1
      <4> QED
        BY <2>3, <3>1, <4>1 DEF Active
    <3> QED
      BY <1>0, <2>1, <2>2, <3>1, RoundGoesOn
  <2>7. \A g \in Facts : Active(g)' /\ row'[g].at => Kept(row'[g].page, g)
    BY <1>0, <2>3 DEF Standing, Active
  <2>8. \A g \in Facts : row'[g].state = "swept" => row[g].state = "swept"
    BY <2>3
  <2> QED
    BY <1>0, <2>1, <2>2, <2>5, <2>6, <2>7, <2>8, RowStep
<1>4. CASE WriteRegion(t)
  <2> DEFINE new == [j EXCEPT !.stage = "stamp"]
             b == Append(j.disk.body, Whole(j.fact))
  <2>1. /\ new \in Jobs /\ Does(t, new) /\ new.stage = "stamp" /\ new.page = j.page
        /\ new.disk = j.disk /\ new.fact = j.fact
    BY <1>0, <1>4 DEF Jobs, Stages, WriteRegion, Goto, Does
  <2>2. /\ OnAPage(t) /\ UNCHANGED <<row, plan>> /\ j.fact \in Facts /\ j.page \in Pages
        /\ jobs[Dream].stage # "idle" => j.page \in RulesPages
        /\ WriteFile(j.page, b)
        /\ On(j.page) \subseteq Written(j.disk.body)
    BY <1>0, <1>4 DEF WriteRegion, OnAPage, Placed, Round, Knows
  <2>3. b \in Seq(Regions) /\ Closed(b) /\ Written(b) = Written(j.disk.body) \cup {j.fact}
    BY <1>0, <2>2, AppendIsWritten
  <2> HIDE DEF new, b
  <2>4. jobs'[t] = new
    BY <1>0, <2>1 DEF Does
  <2>5. Knows(t)'
    <3>1. file'[j.page].body = b
      BY <1>0, <2>2, <2>3, WriteFileKeeps
    <3>2. j.fact \in Written(file'[j.page].body)
      BY <2>3, <3>1
    <3> QED
      BY <2>1, <2>4, <3>2 DEF Knows, Kept, On
  <2>6. Round'
    BY <1>0, <2>1, <2>2, RoundGoesOn DEF Active
  <2> QED
    BY <1>0, <2>1, <2>2, <2>3, <2>5, <2>6, PageStep
<1>5. CASE WriteRegionFails(t)
  <2> DEFINE f == j.fact
  <2>1. Does(t, IdleJob) /\ OnAPage(t) /\ UNCHANGED <<file, gestures, plan>> /\ f \in Facts
    BY <1>0, <1>5 DEF WriteRegionFails, OnAPage, Placed
  <2>2. /\ \A g \in Facts \ {f} : row'[g] = row[g]
        /\ row'[f].state # "active"
        /\ row'[f].state = "swept" => row[f].state = "swept"
    BY <1>0, <1>5, <2>1 DEF WriteRegionFails, Rows
  <2>3. jobs'[t] = IdleJob
    BY <1>0, <2>1 DEF Does
  <2>4. Knows(t)'
    BY <2>3, IdleJobIsAJob DEF Knows
  <2>5. \A g \in Facts : Active(g)' => Active(g) /\ row'[g] = row[g]
    BY <2>2 DEF Active
  <2>6. Round'
    BY <1>0, <2>1, <2>5, IdleJobIsAJob, RoundGoesOn
  <2>7. \A g \in Facts : Active(g)' /\ row'[g].at => Kept(row'[g].page, g)
    BY <1>0, <2>5 DEF Standing
  <2>8. \A g \in Facts : row'[g].state = "swept" => row[g].state = "swept"
    BY <2>2
  <2> QED
    BY <1>0, <2>1, <2>4, <2>6, <2>7, <2>8, IdleJobIsAJob, RowStep
<1>6. CASE StampRegion(t)
  <2> DEFINE new == IF j.old = NoFact THEN IdleJob ELSE [j EXCEPT !.stage = "supersede"]
             f == j.fact
  <2>1. new \in Jobs /\ Does(t, new) /\ new.stage \in {"idle", "supersede"} /\ Closed(new.disk.body)
    BY <1>0, <1>6, IdleJobIsAJob DEF Jobs, Stages, StampRegion, Goto, Does
  <2>2. /\ OnAPage(t) /\ UNCHANGED <<file, gestures, plan>> /\ f \in Facts /\ j.page \in Pages
        /\ jobs[Dream].stage # "idle" => j.page \in RulesPages
        /\ move_region(f, j.page, TRUE) /\ Kept(j.page, f)
    BY <1>0, <1>6 DEF StampRegion, OnAPage, Placed, Round, Knows
  <2>3. /\ \A g \in Facts : row'[g].state = row[g].state
        /\ \A g \in Facts \ {f} : row'[g] = row[g]
        /\ row'[f] = IF Active(f) THEN [state |-> "active", page |-> j.page, at |-> TRUE] ELSE row[f]
    BY <1>0, <2>2, MoveTypes
  <2> HIDE DEF new
  <2>4. jobs'[t] = new
    BY <1>0, <2>1 DEF Does
  <2>5. Knows(t)'
    BY <2>1, <2>4 DEF Knows
  <2>6. Round'
    <3>1. ASSUME jobs[Dream].stage # "idle", NEW g \in Facts, Active(g)', row'[g].page \in PlanPages
          PROVE  Active(g) /\ row'[g].page = row[g].page
      <4>1. Active(g)
        BY <2>3, <3>1 DEF Active
      <4>2. g # f
        BY <1>0, <2>2, <2>3, <3>1, <4>1
      <4> QED
        BY <2>3, <4>1, <4>2
    <3> QED
      BY <1>0, <2>1, <2>2, <3>1, RoundGoesOn
  <2>7. ASSUME NEW g \in Facts, Active(g)', row'[g].at PROVE Kept(row'[g].page, g)
    <3>1. Active(g)
      BY <2>3, <2>7 DEF Active
    <3>2. CASE g = f
      BY <2>2, <2>3, <3>1, <3>2
    <3>3. CASE g # f
      BY <1>0, <2>3, <2>7, <3>1, <3>3 DEF Standing
    <3> QED
      BY <3>2, <3>3
  <2>8. \A g \in Facts : row'[g].state = "swept" => row[g].state = "swept"
    BY <2>3
  <2> QED
    BY <1>0, <2>1, <2>2, <2>5, <2>6, <2>7, <2>8, RowStep
<1>7. CASE mark_superseded(t)
  <2> DEFINE new == [IdleJob EXCEPT !.stage = "strip", !.fact = j.old]
             f == j.old
  <2>1. new \in Jobs /\ Does(t, new) /\ new.stage = "strip" /\ new.disk.body = <<>>
    BY <1>0, <1>7, FilesAreThere DEF IdleJob, Jobs, Stages, mark_superseded
  <2> HIDE DEF new
  <2>2. /\ OnAPage(t) /\ UNCHANGED <<file, gestures, plan>> /\ f \in Facts
        /\ \A g \in Facts \ {f} : row'[g] = row[g]
        /\ row'[f].state # "active" /\ (row'[f].state = "swept" => row[f].state = "swept")
    BY <1>0, <1>7 DEF mark_superseded, OnAPage, Placed, Rows
  <2>3. jobs'[t] = new
    BY <1>0, <2>1 DEF Does
  <2>4. Knows(t)'
    BY <2>1, <2>3 DEF Knows
  <2>5. \A g \in Facts : Active(g)' => Active(g) /\ row'[g] = row[g]
    BY <2>2 DEF Active
  <2>6. Round'
    BY <1>0, <2>1, <2>2, <2>5, RoundGoesOn
  <2>7. \A g \in Facts : Active(g)' /\ row'[g].at => Kept(row'[g].page, g)
    BY <1>0, <2>5 DEF Standing
  <2>8. \A g \in Facts : row'[g].state = "swept" => row[g].state = "swept"
    BY <2>2
  <2> QED
    BY <1>0, <2>1, <2>2, <2>4, <2>6, <2>7, <2>8, RowStep
<1>8. CASE strip_fact_region(t)
  <2> DEFINE f == j.fact
  <2>1. f \in Facts /\ OnAPage(t) /\ UNCHANGED <<file, row, gestures, plan>>
    BY <1>0, <1>8 DEF strip_fact_region, OnAPage, Placed
  <2>2. CASE Does(t, IdleJob)
    <3>1. jobs'[t] = IdleJob
      BY <1>0, <2>2 DEF Does
    <3>2. Knows(t)'
      BY <3>1, IdleJobIsAJob DEF Knows
    <3>3. Round'
      BY <1>0, <2>1, <2>2, IdleJobIsAJob, RoundGoesOn DEF Active
    <3> QED
      BY <1>0, <2>1, <2>2, <3>2, <3>3, IdleJobIsAJob, QuietStep
  <2>3. CASE Retired(f) /\ Does(t, [j EXCEPT !.stage = "cut", !.page = row[f].page, !.disk = file[row[f].page]])
    <3> DEFINE new == [j EXCEPT !.stage = "cut", !.page = row[f].page, !.disk = file[row[f].page]]
    <3>1. row[f].page \in Pages
      BY <1>0, <2>1, <2>3 DEF TypeInv, Pointed, Retired
    <3>2. /\ new \in Jobs /\ new.stage = "cut" /\ new.page = row[f].page /\ new.disk = file[row[f].page]
          /\ new.fact = f /\ Does(t, new)
      BY <1>0, <2>3, <3>1 DEF Jobs, Stages
    <3> HIDE DEF new
    <3>3. jobs'[t] = new
      BY <1>0, <3>2 DEF Does
    <3>4. Knows(t)'
      BY <2>1, <2>3, <3>2, <3>3 DEF Knows, On, Retired
    <3>5. Round'
      BY <1>0, <2>1, <3>2, RoundGoesOn DEF Active
    <3> QED
      BY <1>0, <2>1, <3>1, <3>2, <3>4, <3>5, QuietStep
  <2> QED
    BY <1>8, <2>2, <2>3 DEF strip_fact_region
<1>9. CASE cut_region(t)
  <2> DEFINE new == [j EXCEPT !.stage = "read", !.after = "settle"]
  <2>1. new \in Jobs /\ Does(t, new) /\ new.stage = "read" /\ new.disk = j.disk
    BY <1>0, <1>9 DEF Jobs, Stages, cut_region
  <2>2. /\ OnAPage(t) /\ UNCHANGED <<row, plan>> /\ j.page \in Pages /\ Retired(j.fact)
        /\ On(j.page) \subseteq Written(j.disk.body)
    BY <1>0, <1>9 DEF cut_region, OnAPage, Placed, Knows
  <2>3. PICK i \in Cuttable(j.disk.body, j.fact) : WriteFile(j.page, Without(j.disk.body, Span(j.disk.body, i)))
    BY <1>9 DEF cut_region
  <2>4. PICK b \in Seq(Regions) : /\ WriteFile(j.page, b) /\ Closed(b)
                                  /\ Written(j.disk.body) \ {j.fact} \subseteq Written(b)
    BY <1>0, <2>3, CutOneKeeps
  <2> HIDE DEF new
  <2>5. jobs'[t] = new
    BY <1>0, <2>1 DEF Does
  <2>6. Knows(t)'
    BY <2>1, <2>5 DEF Knows
  <2>7. Round'
    BY <1>0, <2>1, <2>2, RoundGoesOn DEF Active
  <2>8. \A f \in Facts : Active(f) => f \in Written(b) \/ f \notin On(j.page)
    BY <2>2, <2>4 DEF Active, Retired
  <2> QED
    BY <1>0, <2>1, <2>2, <2>4, <2>6, <2>7, <2>8, PageStep
<1>10. CASE Settle(t)
  <2> DEFINE f == j.fact
  <2>1. Does(t, IdleJob) /\ OnAPage(t) /\ UNCHANGED <<file, gestures, plan>> /\ f \in Facts
    BY <1>0, <1>10 DEF Settle, OnAPage, Placed
  <2>2. /\ \A g \in Facts \ {f} : row'[g] = row[g]
        /\ row'[f].state = row[f].state /\ row'[f].page = row[f].page
        /\ row'[f].at => row[f].at
    BY <1>0, <1>10, <2>1 DEF Settle, Rows
  <2>3. jobs'[t] = IdleJob
    BY <1>0, <2>1 DEF Does
  <2>4. Knows(t)'
    BY <2>3, IdleJobIsAJob DEF Knows
  <2>5. \A g \in Facts : Active(g)' => Active(g) /\ row'[g].page = row[g].page /\ (row'[g].at => row[g].at)
    BY <2>2 DEF Active
  <2>6. Round'
    BY <1>0, <2>1, <2>5, IdleJobIsAJob, RoundGoesOn
  <2>7. \A g \in Facts : Active(g)' /\ row'[g].at => Kept(row'[g].page, g)
    BY <1>0, <2>5 DEF Standing
  <2>8. \A g \in Facts : row'[g].state = "swept" => row[g].state = "swept"
    BY <2>2
  <2> QED
    BY <1>0, <2>1, <2>4, <2>6, <2>7, <2>8, IdleJobIsAJob, RowStep
<1> QED
  BY <1>1, <1>2, <1>3, <1>4, <1>5, <1>6, <1>7, <1>8, <1>9, <1>10 DEF Call, TurnStep

LEMMA ReindexKeeps ==
    ASSUME IInv, Orderly, NEW a \in Actors,
           Reindex(a) \/ (a = Watcher /\ \E p \in Pages : HandleEvent(p))
    PROVE  IInv'
<1> DEFINE j == jobs[a]
<1>0. /\ j \in Jobs /\ Placed(j)
      /\ TypeInv /\ TypeInv' /\ Knows(a) /\ Round /\ Standing
      /\ Closed(j.disk.body) /\ j.disk.body \in Seq(Regions)
      /\ \A p \in Pages : file[p] \in Files /\ Closed(file[p].body)
      /\ jobs \in [Actors -> Jobs] /\ row \in [Facts -> Rows]
      /\ Closed(<<>>) /\ Dream # Watcher
  <2>1. TypeInv /\ TypeInv'
    BY ReindexTypes DEF IInv
  <2>2. j \in Jobs /\ Placed(j) /\ jobs \in [Actors -> Jobs] /\ row \in [Facts -> Rows]
        /\ \A p \in Pages : file[p] \in Files
    BY <2>1 DEF TypeInv, TypeOK
  <2>3. j.disk.body \in Seq(Regions)
    BY <2>2, FilesAreThere DEF Jobs
  <2> QED
    BY <2>1, <2>2, <2>3, PageRegionsAssumption DEF IInv, AllClosed, Closed
<1>1. ASSUME NEW p \in Pages, a = Watcher, HandleEvent(p) PROVE IInv'
  <2> DEFINE new == [IdleJob EXCEPT !.stage = "rows", !.page = p, !.disk = file[p]]
  <2>1. new \in Jobs /\ Does(a, new) /\ new.stage = "rows" /\ new.page = p /\ new.disk = file[p]
    BY <1>0, <1>1, FilesAreThere DEF IdleJob, Jobs, Stages, HandleEvent
  <2> HIDE DEF new
  <2>2. MayStart(a) /\ UNCHANGED <<file, row, gestures, plan>>
    BY <1>1 DEF HandleEvent
  <2>3. jobs'[a] = new
    BY <1>0, <2>1 DEF Does
  <2>4. Knows(a)'
    BY <2>1, <2>2, <2>3 DEF Knows, On, Kept
  <2>5. Round'
    BY <1>0, <1>1, <2>1, <2>2, RoundGoesOn DEF Active
  <2> QED
    BY <1>0, <2>1, <2>2, <2>4, <2>5, QuietStep
<1>2. CASE ReadPage(a)
  <2> DEFINE new == [j EXCEPT !.disk = file[j.page], !.stage = "rows"]
  <2>1. /\ new \in Jobs /\ Does(a, new) /\ new.stage = "rows" /\ new.page = j.page
        /\ new.disk = file[j.page] /\ j.page \in Pages /\ new.after = j.after
    BY <1>0, <1>2 DEF Jobs, Stages, ReadPage, Placed
  <2> HIDE DEF new
  <2>2. OnAPage(a) /\ UNCHANGED <<file, row, gestures, plan>> /\ j.stage = "read"
    BY <1>2 DEF ReadPage, OnAPage
  <2>3. jobs'[a] = new
    BY <1>0, <2>1 DEF Does
  <2>4. Knows(a)'
    BY <2>1, <2>2, <2>3 DEF Knows, On, Kept
  <2>5. Round'
    <3>1. a = Dream => j.after # "idle"
      BY <1>0, <2>2 DEF Round
    <3> QED
      BY <1>0, <2>1, <2>2, <3>1, RoundGoesOn DEF Active
  <2> QED
    BY <1>0, <2>1, <2>2, <2>4, <2>5, QuietStep
<1>3. CASE ReadRows(a)
  <2> DEFINE here == {f \in Facts : Active(f) /\ row[f].page = j.page}
             rendered == {f \in here : row[f].at}
             found == Marks(j.disk.body)
             new == IF j.disk.there
                    THEN [j EXCEPT !.stage = "reindex", !.todo = here \cap found,
                       !.rows = IF markers_parse_whole(j.disk.body) THEN rendered \ found ELSE {}]
                    ELSE [j EXCEPT !.stage = "reindex", !.rows = rendered]
  <2>1. Does(a, new) /\ UNCHANGED <<file, row, gestures, plan>> /\ OnAPage(a) /\ j.stage = "rows"
    BY <1>3 DEF ReadRows, OnAPage
  <2>2. j.todo = {} /\ j.page \in Pages
    BY <1>0, <2>1 DEF Placed
  <2>3. /\ new \in Jobs /\ new.stage = "reindex" /\ new.page = j.page /\ new.disk = j.disk
        /\ new.todo \subseteq here \cap found /\ new.after = j.after
        /\ new.rows \subseteq rendered /\ (j.disk.there => new.rows \subseteq rendered \ found)
    BY <1>0, <2>2 DEF Jobs, Stages
  <2> HIDE DEF new
  <2>4. found = Written(j.disk.body)
    BY <1>0, ClosedParses
  <2>5. /\ On(j.page) \subseteq Written(j.disk.body)
        /\ \A f \in Written(j.disk.body) : Kept(j.page, f)
    BY <1>0, <2>1 DEF Knows
  <2>6. ~ j.disk.there => Written(j.disk.body) = {}
    <3>1. j.disk \in Files
      BY <1>0 DEF Jobs
    <3>2. ~ j.disk.there => j.disk = NoFile
      BY <3>1 DEF Files
    <3> QED
      BY <3>2, FilesAreThere DEF Written
  <2>7. ASSUME NEW f \in new.rows PROVE <<j.page, f>> \in gestures
    <3>1. f \in rendered /\ f \notin Written(j.disk.body)
      BY <2>3, <2>4, <2>6
    <3>2. Kept(j.page, f)
      BY <1>0, <3>1 DEF Standing
    <3> QED
      BY <2>5, <3>1, <3>2 DEF Kept
  <2>8. ASSUME NEW f \in new.todo PROVE Kept(j.page, f) /\ row[f].page = j.page
    BY <2>3, <2>4, <2>5
  <2>9. jobs'[a] = new
    BY <1>0, <2>1 DEF Does
  <2>10. Knows(a)'
    BY <2>1, <2>3, <2>7, <2>8, <2>9 DEF Knows, Kept, On
  <2>11. Round'
    <3>1. a = Dream => j.after # "idle"
      BY <1>0, <2>1 DEF Round
    <3> QED
      BY <1>0, <2>1, <2>3, <3>1, RoundGoesOn DEF Active
  <2> QED
    BY <1>0, <2>1, <2>3, <2>10, <2>11, QuietStep
<1>4. CASE ReindexDone(a)
  <2> DEFINE new == IF j.after = "idle" THEN IdleJob
                    ELSE [IdleJob EXCEPT !.stage = j.after, !.page = j.page,
                                         !.fact = j.fact, !.left = j.left]
  <2>1. new \in Jobs /\ new.stage \in {"idle", "settle", "settleall"} /\ new.disk.body = <<>>
        /\ new.stage = j.after
    BY <1>0, FilesAreThere DEF IdleJob, Jobs, Stages
  <2>2. Does(a, new) /\ UNCHANGED <<file, row, gestures, plan>> /\ OnAPage(a) /\ j.stage = "reindex"
    BY <1>4 DEF ReindexDone, OnAPage
  <2> HIDE DEF new
  <2>3. jobs'[a] = new
    BY <1>0, <2>2 DEF Does
  <2>4. Knows(a)'
    BY <2>1, <2>3 DEF Knows
  <2>5. a = Dream => j.after # "idle"
    BY <1>0, <2>2 DEF Round
  <2>6. Round'
    BY <1>0, <2>1, <2>2, <2>5, RoundGoesOn DEF Active
  <2> QED
    BY <1>0, <2>1, <2>2, <2>4, <2>6, QuietStep
<1>5. ASSUME NEW f \in Facts, RepairMarker(a, f) PROVE IInv'
  <2> DEFINE new == [j EXCEPT !.todo = @ \ {f}]
  <2>1. /\ new \in Jobs /\ Does(a, new) /\ new.stage = "reindex" /\ new.page = j.page /\ new.disk = j.disk
        /\ new.todo \subseteq j.todo /\ new.rows = j.rows /\ new.after = j.after
    BY <1>0, <1>5 DEF Jobs, RepairMarker
  <2>2. /\ OnAPage(a) /\ UNCHANGED <<file, gestures, plan>> /\ j.page \in Pages /\ f \in j.todo
        /\ j.stage = "reindex"
        /\ \A g \in j.todo : Kept(j.page, g) /\ (Active(g) => row[g].page = j.page)
        /\ \A g \in j.rows : <<j.page, g>> \in gestures
    BY <1>0, <1>5 DEF RepairMarker, OnAPage, Placed, Knows
  <2>3. /\ \A g \in Facts : row'[g].state = row[g].state
        /\ \A g \in Facts : Active(g) => row'[g].page = row[g].page
        /\ \A g \in Facts \ {f} : row'[g] = row[g]
    <3>1. CASE move_region(f, j.page, TRUE)
      <4>1. /\ \A g \in Facts : row'[g].state = row[g].state
            /\ \A g \in Facts \ {f} : row'[g] = row[g]
            /\ row'[f] = IF Active(f) THEN [state |-> "active", page |-> j.page, at |-> TRUE] ELSE row[f]
        BY <1>0, <2>2, <3>1, MoveTypes
      <4>2. Active(f) => row'[f].page = j.page
        BY <4>1
      <4> QED
        BY <2>2, <4>1, <4>2
    <3>2. CASE UNCHANGED row
      BY <3>2
    <3> QED
      BY <1>5, <3>1, <3>2 DEF RepairMarker
  <2> HIDE DEF new
  <2>4. jobs'[a] = new
    BY <1>0, <2>1 DEF Does
  <2>5. Knows(a)'
    <3>1. j.todo \subseteq Facts
      BY <1>0 DEF Jobs
    <3>2. ASSUME NEW g \in new.todo
          PROVE  /\ g \in Written(file'[j.page].body) \/ <<j.page, g>> \in gestures'
                 /\ Active(g)' => row'[g].page = j.page
      BY <2>1, <2>2, <2>3, <3>1 DEF Kept, On, Active
    <3> QED
      BY <2>1, <2>2, <2>4, <3>2 DEF Knows, Kept, On
  <2>6. Round'
    <3>1. a = Dream => j.after # "idle"
      BY <1>0, <2>2 DEF Round
    <3> QED
      BY <1>0, <2>1, <2>2, <2>3, <3>1, RoundGoesOn DEF Active
  <2>7. ASSUME NEW g \in Facts, Active(g)', row'[g].at PROVE Kept(row'[g].page, g)
    <3>1. Active(g) /\ row'[g].page = row[g].page
      BY <2>3, <2>7 DEF Active
    <3>2. CASE g = f
      BY <2>2, <3>1, <3>2
    <3>3. CASE g # f
      BY <1>0, <2>3, <2>7, <3>1, <3>3 DEF Standing
    <3> QED
      BY <3>2, <3>3
  <2>8. \A g \in Facts : row'[g].state = "swept" => row[g].state = "swept"
    BY <2>3
  <2> QED
    BY <1>0, <2>1, <2>2, <2>5, <2>6, <2>7, <2>8, RowStep
<1>6. ASSUME NEW f \in Facts, SweepOrphan(a, f) PROVE IInv'
  <2> DEFINE new == [j EXCEPT !.rows = @ \ {f}]
  <2>1. /\ new \in Jobs /\ Does(a, new) /\ new.stage = "reindex" /\ new.page = j.page /\ new.disk = j.disk
        /\ new.todo = {} /\ new.rows \subseteq j.rows /\ new.after = j.after
    BY <1>0, <1>6 DEF Jobs, SweepOrphan
  <2>2. /\ OnAPage(a) /\ UNCHANGED <<file, gestures, plan>> /\ j.page \in Pages /\ f \in j.rows
        /\ j.stage = "reindex"
        /\ \A g \in j.rows : <<j.page, g>> \in gestures
    BY <1>0, <1>6 DEF SweepOrphan, OnAPage, Placed, Knows
  <2>3. /\ \A g \in Facts \ {f} : row'[g] = row[g]
        /\ row'[f] = row[f] \/ row'[f].state = "swept"
    <3>1. row' = [row EXCEPT ![f] = [row[f] EXCEPT !.state = "swept"]] \/ row' = row
      BY <1>0, <1>6 DEF SweepOrphan, Rows
    <3>2. row[f] \in Rows
      BY <1>0
    <3> QED
      BY <1>0, <3>1, <3>2 DEF Rows
  <2> HIDE DEF new
  <2>4. jobs'[a] = new
    BY <1>0, <2>1 DEF Does
  <2>5. Knows(a)'
    BY <2>1, <2>2, <2>4 DEF Knows
  <2>6. \A g \in Facts : Active(g)' => Active(g) /\ row'[g] = row[g]
    BY <2>3 DEF Active
  <2>7. Round'
    <3>1. a = Dream => j.after # "idle"
      BY <1>0, <2>2 DEF Round
    <3> QED
      BY <1>0, <2>1, <2>2, <2>6, <3>1, RoundGoesOn
  <2>8. \A g \in Facts : Active(g)' /\ row'[g].at => Kept(row'[g].page, g)
    BY <1>0, <2>6 DEF Standing
  <2>9. \A g \in Facts : row'[g].state = "swept" =>
            row[g].state = "swept" \/ \E p \in Pages : <<p, g>> \in gestures
    BY <2>2, <2>3
  <2> QED
    BY <1>0, <2>1, <2>2, <2>5, <2>7, <2>8, <2>9, RowStep
<1> QED
  BY <1>1, <1>2, <1>3, <1>4, <1>5, <1>6 DEF Reindex

\* A job off the pages goes on without going to one.
LEMMA OffPageStep ==
    ASSUME IInv, NEW a \in Actors, NEW j \in Jobs, Does(a, j), Closed(j.disk.body),
           j.stage \in {"idle", "prepoint", "files", "hygiene"} \/ (j.stage = "repoint" /\ j.todo = {}),
           UNCHANGED <<file, row, gestures>>, TypeInv', Round'
    PROVE  IInv'
<1>1. jobs \in [Actors -> Jobs]
  BY DEF IInv, TypeInv, TypeOK
<1>2. jobs'[a] = j /\ \A b \in Actors \ {a} : jobs'[b] = jobs[b]
  BY <1>1 DEF Does
<1>3. ~ OnAPage(a)' /\ Knows(a)'
  BY <1>2 DEF OnAPage, Knows
<1>4. \A b \in Actors \ {a} : Knows(b)'
  BY <1>2, QuietKnows DEF IInv
<1>5. Alone'
  BY <1>2, <1>3 DEF Alone, OnAPage, IInv
<1>6. AllClosed'
  BY <1>2 DEF AllClosed, IInv
<1>7. Standing'
  BY DEF IInv, Standing, Active, Kept, On
<1>8. OnlyGesturesForget'
  BY DEF IInv, OnlyGesturesForget
<1>9. \A b \in Actors : Knows(b)'
  BY <1>3, <1>4
<1> QED
  BY <1>5, <1>6, <1>7, <1>8, <1>9 DEF IInv

\* The hygiene pass ends the round or has pages left.
LEMMA HygieneJob ==
    ASSUME IInv, NEW left \in SUBSET Pages, Hygiene(left),
           jobs[Dream].stage \notin {"idle", "prepoint"},
           \A f \in Facts : row'[f].page = row[f].page /\ row'[f].state = row[f].state
    PROVE  /\ Round'
           /\ \E new \in Jobs : /\ Does(Dream, new) /\ Closed(new.disk.body)
                                /\ new.stage \in {"idle", "hygiene"}
<1>0. Dream \in Actors /\ Turns \subseteq Actors /\ Dream \notin Turns /\ jobs \in [Actors -> Jobs] /\ Round
  BY ActorsAre, PageRegionsAssumption DEF IInv, TypeInv, TypeOK
<1>1. Closed(<<>>)
  BY DEF Closed
<1>2. CASE left = {}
  <2>1. Does(Dream, IdleJob)
    BY <1>2 DEF Hygiene
  <2>2. jobs'[Dream].stage = "idle"
    BY <1>0, <2>1, IdleJobIsAJob DEF Does
  <2>3. Round'
    BY <2>2 DEF Round
  <2> QED
    BY <1>1, <2>1, <2>3, IdleJobIsAJob
<1>3. CASE left # {}
  <2> DEFINE new == [IdleJob EXCEPT !.stage = "hygiene", !.left = left]
  <2>1. new \in Jobs /\ new.stage = "hygiene" /\ new.disk.body = <<>>
    BY IdleJobIsAJob DEF IdleJob, Jobs, Stages
  <2>2. Does(Dream, new) /\ UNCHANGED plan
    BY <1>3 DEF Hygiene
  <2> HIDE DEF new
  <2>3. jobs'[Dream] = new /\ \A t \in Turns : jobs'[t] = jobs[t]
    BY <1>0, <2>2 DEF Does
  <2>4. Round'
    BY <1>0, <2>1, <2>2, <2>3 DEF Round, Active
  <2> QED
    BY <1>1, <2>1, <2>2, <2>4
<1> QED
  BY <1>2, <1>3

LEMMA DreamKeeps ==
    ASSUME IInv, Orderly, DreamStep \/ (\E p \in PlanPages : CompileFails(p)), ~ Reindex(Dream)
    PROVE  IInv'
<1> DEFINE j == jobs[Dream]
<1>0. /\ Dream \in Actors /\ Turns \subseteq Actors /\ Dream \notin Turns
      /\ j \in Jobs /\ Placed(j) /\ j.left \subseteq Pages /\ j.todo \subseteq Facts
      /\ TypeInv /\ TypeInv' /\ Knows(Dream) /\ Round /\ Standing
      /\ Closed(j.disk.body) /\ j.disk.body \in Seq(Regions)
      /\ \A p \in Pages : file[p] \in Files /\ Closed(file[p].body) /\ file[p].body \in Seq(Regions)
      /\ jobs \in [Actors -> Jobs] /\ row \in [Facts -> Rows]
      /\ Closed(<<>>) /\ PlanPages \subseteq Pages /\ Pages = PlanPages \cup RulesPages
  <2>1. TypeInv /\ TypeInv'
    BY DreamTypes DEF IInv
  <2>2. Dream \in Actors /\ Turns \subseteq Actors /\ Dream \notin Turns
    BY ActorsAre, PageRegionsAssumption
  <2>3. /\ j \in Jobs /\ Placed(j) /\ jobs \in [Actors -> Jobs] /\ row \in [Facts -> Rows]
        /\ \A p \in Pages : file[p] \in Files
    BY <2>1, <2>2 DEF TypeInv, TypeOK
  <2>4. j.disk.body \in Seq(Regions) /\ j.left \subseteq Pages /\ j.todo \subseteq Facts
    BY <2>3, FilesAreThere DEF Jobs
  <2>5. \A p \in Pages : file[p].body \in Seq(Regions)
    BY <2>3, FilesAreThere
  <2> QED
    BY <2>1, <2>2, <2>3, <2>4, <2>5 DEF IInv, AllClosed, Closed, Pages
<1>1. CASE BuildPlan
  <2> DEFINE homed == {f \in Facts : Active(f) /\ row[f].page \in PlanPages}
             new == [IdleJob EXCEPT !.stage = "prepoint", !.todo = homed,
                                    !.left = {plan'[f] : f \in homed}]
  <2>1. /\ \A f \in homed : plan'[f] \in PlanPages
        /\ Does(Dream, new) /\ UNCHANGED <<file, row, gestures>>
        /\ \A t \in Turns : jobs[t].page \notin PlanPages
    BY <1>1 DEF BuildPlan, Orderly
  <2>2. \A f \in Facts : Active(f) /\ row[f].page \in PlanPages => f \in homed
    OBVIOUS
  <2> HIDE DEF homed
  <2>3. homed \subseteq Facts /\ {plan'[f] : f \in homed} \subseteq PlanPages
    BY <2>1 DEF homed
  <2>4. new \in Jobs
    BY <1>0, <2>3, FilesAreThere DEF IdleJob, Jobs, Stages
  <2>5. /\ new.stage = "prepoint" /\ new.todo = homed /\ new.left \subseteq PlanPages
        /\ new.disk.body = <<>>
    BY <2>3, FilesAreThere DEF IdleJob
  <2> HIDE DEF new
  <2>6. PICK k \in Jobs : k = new
    BY <2>4
  <2>7. jobs'[Dream] = k /\ \A t \in Turns : jobs'[t] = jobs[t]
    BY <1>0, <2>1, <2>6 DEF Does
  <2>8. ASSUME NEW t \in Turns, jobs[t].stage \in {"insert", "write", "stamp"}
        PROVE  jobs[t].page \in RulesPages
    <3>1. jobs[t].page \in Pages
      BY <1>0, <2>8 DEF TypeInv, Placed
    <3> QED
      BY <1>0, <2>1, <3>1
  <2>9. Round'
    BY <2>1, <2>2, <2>5, <2>6, <2>7, <2>8 DEF Round, Active
  <2> QED
    BY <1>0, <2>1, <2>5, <2>6, <2>9, OffPageStep
<1>2. CASE ToOrphanFiles
  <2> DEFINE new == [IdleJob EXCEPT !.stage = "files", !.left = PlanPages \ Planned]
  <2>1. new \in Jobs /\ new.stage = "files" /\ new.left = PlanPages \ Planned /\ new.disk.body = <<>>
    BY <1>0, FilesAreThere DEF IdleJob, Jobs, Stages
  <2>2. /\ Does(Dream, new) /\ UNCHANGED <<file, row, gestures, plan>>
        /\ j.stage \in {"prepoint", "repoint"} /\ j.todo = {}
    BY <1>2 DEF ToOrphanFiles, BetweenPages
  <2> HIDE DEF new
  <2>3. PICK k \in Jobs : k = new
    BY <2>1
  <2>4. jobs'[Dream] = k /\ \A t \in Turns : jobs'[t] = jobs[t]
    BY <1>0, <2>2, <2>3 DEF Does
  <2>5. Planned' = Planned
    BY <2>2 DEF Planned, planned
  <2>6. \A f \in Facts : Active(f)' /\ row'[f].page \in PlanPages => plan'[f] \in PlanPages /\ row'[f].page = plan'[f]
    BY <1>0, <2>2 DEF Round, Active
  <2>7. \A t \in Turns : jobs'[t].stage \in {"insert", "write", "stamp"} => jobs'[t].page \in RulesPages
    BY <1>0, <2>2, <2>4 DEF Round
  <2>8. Round'
    BY <2>1, <2>3, <2>4, <2>5, <2>6, <2>7 DEF Round
  <2> QED
    BY <1>0, <2>1, <2>2, <2>3, <2>8, OffPageStep
<1>3. CASE RemoveFile
  <2> DEFINE new == [j EXCEPT !.stage = "files", !.left = @ \ {j.page}, !.page = NoPage]
             p == j.page
  <2>1. /\ new \in Jobs /\ Does(Dream, new) /\ new.stage = "files" /\ new.left \subseteq j.left
        /\ new.disk = j.disk
    BY <1>0, <1>3 DEF Jobs, Stages, RemoveFile
  <2>2. /\ OnAPage(Dream) /\ p \in PlanPages \ Planned /\ j.left \subseteq PlanPages \ Planned
        /\ j.stage = "remove" /\ UNCHANGED <<row, plan, gestures>>
    BY <1>0, <1>3 DEF RemoveFile, OnAPage, Round
  <2>3. file'[p] = NoFile /\ \A q \in Pages \ {p} : file'[q] = file[q]
    BY <1>0, <1>3, <2>2 DEF RemoveFile, TypeInv, TypeOK
  <2> HIDE DEF new
  <2>4. jobs'[Dream] = new /\ \A t \in Turns : jobs'[t] = jobs[t]
    BY <1>0, <2>1 DEF Does
  <2>5. \A f \in Facts : Active(f) /\ row[f].page \in PlanPages => plan[f] = row[f].page
    BY <1>0, <2>2 DEF Round
  <2>6. \A f \in Facts : Active(f) => row[f].page # p
    BY <2>2, <2>5 DEF Planned, planned
  <2>7. Planned' = Planned
    BY <2>2 DEF Planned, planned
  <2>8. Round'
    <3>1. \A f \in Facts : Active(f)' /\ row'[f].page \in PlanPages => plan'[f] \in PlanPages /\ row'[f].page = plan'[f]
      BY <1>0, <2>2 DEF Round, Active
    <3>2. \A t \in Turns : jobs'[t].stage \in {"insert", "write", "stamp"} => jobs'[t].page \in RulesPages
      BY <1>0, <2>2, <2>4 DEF Round
    <3> QED
      BY <2>1, <2>2, <2>4, <2>7, <3>1, <3>2 DEF Round
  <2>9. Standing'
    <3>1. ASSUME NEW f \in Facts, Active(f), row[f].at
          PROVE  f \in Written(file'[row[f].page].body) \/ <<row[f].page, f>> \in gestures'
      <4>1. row[f].page \in Pages /\ row[f].page # p
        BY <1>0, <2>6, <3>1 DEF TypeInv, Pointed, Active
      <4>2. file'[row[f].page] = file[row[f].page]
        BY <2>3, <4>1
      <4> QED
        BY <1>0, <2>2, <3>1, <4>2 DEF Standing, Kept, On
    <3> QED
      BY <2>2, <3>1 DEF Standing, Active, Kept, On
  <2>10. OnlyGesturesForget'
    BY <2>2 DEF IInv, OnlyGesturesForget
  <2>11. Knows(Dream)'
    BY <2>1, <2>4 DEF Knows
  <2>12. \A q \in Pages : Closed(file'[q].body)
    BY <1>0, <2>3, FilesAreThere
  <2> QED
    BY <1>0, <2>1, <2>2, <2>8, <2>9, <2>10, <2>11, <2>12, SoleStep
<1>4. CASE sweep_retired_regions
  <2>1. PICK left \in SUBSET Pages : Hygiene(left)
    BY <1>4 DEF sweep_retired_regions
  <2>2. UNCHANGED <<file, row, gestures>> /\ j.stage = "files"
    BY <1>4 DEF sweep_retired_regions
  <2>3. Round' /\ \E new \in Jobs : /\ Does(Dream, new) /\ Closed(new.disk.body)
                                    /\ new.stage \in {"idle", "hygiene"}
    BY <2>1, <2>2, HygieneJob
  <2> QED
    BY <1>0, <2>2, <2>3, OffPageStep
<1>5. CASE CutRetired
  <2> DEFINE new == [j EXCEPT !.stage = "read", !.todo = {}, !.after = "settleall"]
             b == CutAll(j.disk.body, j.todo)
  <2>1. new \in Jobs /\ Does(Dream, new) /\ new.stage = "read" /\ new.disk = j.disk /\ new.after = "settleall"
    BY <1>0, <1>5 DEF Jobs, Stages, CutRetired
  <2>2. /\ OnAPage(Dream) /\ UNCHANGED <<row, plan>> /\ j.page \in Pages /\ j.stage = "cutall"
        /\ On(j.page) \subseteq Written(j.disk.body) /\ WriteFile(j.page, b)
        /\ \A f \in j.todo : Retired(f)
    BY <1>0, <1>5 DEF CutRetired, OnAPage, Placed, Knows
  <2>3. b \in Seq(Regions) /\ Closed(b) /\ Written(b) = Written(j.disk.body) \ j.todo
    BY <1>0, CutAllKeeps
  <2> HIDE DEF new, b
  <2>4. jobs'[Dream] = new
    BY <1>0, <2>1 DEF Does
  <2>5. Knows(Dream)'
    BY <2>1, <2>4 DEF Knows
  <2>6. Round'
    BY <1>0, <2>1, <2>2, RoundGoesOn DEF Active
  <2>7. \A f \in Facts : Active(f) => f \in Written(b) \/ f \notin On(j.page)
    BY <2>2, <2>3 DEF Active, Retired
  <2> QED
    BY <1>0, <2>1, <2>2, <2>3, <2>5, <2>6, <2>7, PageStep
<1>6. CASE SettleRetired
  <2>1. /\ row' = [f \in Facts |-> IF Retired(f) /\ row[f].page = j.page
                  THEN [row[f] EXCEPT !.at = row[f].at /\ f \in Written(file[j.page].body)] ELSE row[f]]
        /\ Hygiene(j.left \ {j.page}) /\ UNCHANGED <<file, gestures>> /\ j.stage = "settleall"
    BY <1>6 DEF SettleRetired
  <2>2. \A f \in Facts : row'[f].page = row[f].page /\ row'[f].state = row[f].state
    <3>1. \A f \in Facts : row[f] \in Rows
      BY <1>0
    <3>2. ASSUME NEW f \in Facts, NEW at
          PROVE  [row[f] EXCEPT !.at = at].page = row[f].page /\ [row[f] EXCEPT !.at = at].state = row[f].state
      BY <3>1 DEF Rows
    <3> QED
      BY <2>1, <3>2
  <2>3. \A f \in Facts : Active(f) => row'[f] = row[f]
    BY <2>1 DEF Active, Retired
  <2>4. PICK new \in Jobs : Round' /\ Does(Dream, new) /\ Closed(new.disk.body)
                            /\ new.stage \in {"idle", "hygiene"}
    BY <1>0, <2>1, <2>2, HygieneJob
  <2>5. jobs'[Dream] = new /\ OnAPage(Dream)
    BY <1>0, <2>1, <2>4 DEF Does, OnAPage
  <2>6. Knows(Dream)'
    BY <2>4, <2>5 DEF Knows
  <2>7. \A f \in Facts : Active(f)' /\ row'[f].at => Kept(row'[f].page, f)
    BY <1>0, <2>2, <2>3 DEF Standing, Active
  <2> QED
    BY <1>0, <2>1, <2>2, <2>4, <2>5, <2>6, <2>7, RowStep
<1>7. ASSUME NEW f \in Facts, prepoint_plan_moves(f) PROVE IInv'
  <2> DEFINE new == [j EXCEPT !.todo = @ \ {f}]
  <2>1. /\ new \in Jobs /\ Does(Dream, new) /\ new.stage = "prepoint" /\ new.todo = j.todo \ {f}
        /\ new.left = j.left /\ new.disk = j.disk
    BY <1>0, <1>7 DEF Jobs, prepoint_plan_moves
  <2>2. /\ MayStart(Dream) /\ UNCHANGED <<file, plan, gestures>> /\ f \in j.todo /\ j.stage = "prepoint"
        /\ IF row[f].page # plan[f] THEN move_region(f, plan[f], FALSE) ELSE UNCHANGED row
    BY <1>7 DEF prepoint_plan_moves
  <2>3. plan[f] \in PlanPages /\ plan[f] \in Pages
    BY <1>0, <2>2 DEF TypeInv, Pointed
  <2>4. /\ \A g \in Facts : row'[g].state = row[g].state
        /\ \A g \in Facts \ {f} : row'[g] = row[g]
        /\ row'[f] = row[f] \/ (Active(f) => ~ row'[f].at)
        /\ Active(f) => row'[f].page = plan[f]
    <3>1. CASE row[f].page # plan[f]
      <4>1. /\ \A g \in Facts : row'[g].state = row[g].state
            /\ \A g \in Facts \ {f} : row'[g] = row[g]
            /\ row'[f] = IF Active(f) THEN [state |-> "active", page |-> plan[f], at |-> FALSE] ELSE row[f]
        BY <1>0, <2>2, <2>3, <3>1, MoveTypes
      <4>2. CASE Active(f)
        <5>1. row'[f] = [state |-> "active", page |-> plan[f], at |-> FALSE]
          BY <4>1, <4>2
        <5> QED
          BY <4>1, <5>1
      <4>3. CASE ~ Active(f)
        BY <4>1, <4>3
      <4> QED
        BY <4>2, <4>3
    <3>2. CASE row[f].page = plan[f]
      BY <2>2, <3>2
    <3> QED
      BY <3>1, <3>2
  <2> HIDE DEF new
  <2>5. jobs'[Dream] = new /\ \A t \in Turns : jobs'[t] = jobs[t]
    BY <1>0, <2>1 DEF Does
  <2>6. Knows(Dream)'
    BY <2>1, <2>5 DEF Knows
  <2>7. Round'
    <3>1. ASSUME NEW g \in Facts, Active(g)', row'[g].page \in PlanPages
          PROVE  plan'[g] \in PlanPages /\ (row'[g].page = plan'[g] \/ g \in new.todo)
      <4>1. Active(g)
        BY <2>4, <3>1 DEF Active
      <4>2. CASE g = f
        BY <2>2, <2>3, <2>4, <4>1, <4>2
      <4>3. CASE g # f
        BY <1>0, <2>1, <2>2, <2>4, <3>1, <4>1, <4>3 DEF Round
      <4> QED
        BY <4>2, <4>3
    <3>2. \A t \in Turns : jobs'[t].stage \in {"insert", "write", "stamp"} => jobs'[t].page \in RulesPages
      BY <1>0, <2>2, <2>5 DEF Round
    <3>3. new.left \subseteq PlanPages
      BY <1>0, <2>1, <2>2 DEF Round
    <3> QED
      BY <2>1, <2>5, <3>1, <3>2, <3>3 DEF Round
  <2>8. \A g \in Facts : Active(g)' /\ row'[g].at => Kept(row'[g].page, g)
    BY <1>0, <2>4 DEF Standing, Active
  <2>9. \A g \in Facts : row'[g].state = "swept" => row[g].state = "swept"
    BY <2>4
  <2> QED
    BY <1>0, <2>1, <2>2, <2>6, <2>7, <2>8, <2>9, RowStep
<1>8. ASSUME NEW f \in Facts, repoint_facts(f) PROVE IInv'
  <2> DEFINE new == [j EXCEPT !.todo = @ \ {f}]
  <2>1. /\ new \in Jobs /\ Does(Dream, new) /\ new.stage = "repoint" /\ new.todo = j.todo \ {f}
        /\ new.left = j.left /\ new.disk = j.disk /\ new.page = j.page
    BY <1>0, <1>8 DEF Jobs, repoint_facts
  <2>2. /\ OnAPage(Dream) /\ UNCHANGED <<file, plan, gestures>> /\ f \in j.todo /\ j.stage = "repoint"
        /\ move_region(f, j.page, TRUE) /\ j.page \in Pages
        /\ \A g \in j.todo : plan[g] = j.page /\ Kept(j.page, g)
    BY <1>0, <1>8 DEF repoint_facts, OnAPage, Placed, Round
  <2>3. /\ \A g \in Facts : row'[g].state = row[g].state
        /\ \A g \in Facts \ {f} : row'[g] = row[g]
        /\ row'[f] = IF Active(f) THEN [state |-> "active", page |-> j.page, at |-> TRUE] ELSE row[f]
    BY <1>0, <2>2, MoveTypes
  <2> HIDE DEF new
  <2>4. jobs'[Dream] = new /\ \A t \in Turns : jobs'[t] = jobs[t]
    BY <1>0, <2>1 DEF Does
  <2>5. Knows(Dream)'
    BY <2>1, <2>4 DEF Knows
  <2>6. Round'
    <3>1. ASSUME NEW g \in Facts, Active(g)', row'[g].page \in PlanPages
          PROVE  plan'[g] \in PlanPages /\ row'[g].page = plan'[g]
      <4>1. Active(g)
        BY <2>3, <3>1 DEF Active
      <4>2. CASE g = f
        BY <2>2, <2>3, <3>1, <4>1, <4>2
      <4>3. CASE g # f
        BY <1>0, <2>2, <2>3, <3>1, <4>1, <4>3 DEF Round
      <4> QED
        BY <4>2, <4>3
    <3>2. \A t \in Turns : jobs'[t].stage \in {"insert", "write", "stamp"} => jobs'[t].page \in RulesPages
      BY <1>0, <2>2, <2>4 DEF Round
    <3>3. new.left \subseteq PlanPages
      BY <1>0, <2>1, <2>2 DEF Round
    <3>4. ASSUME NEW g \in new.todo
          PROVE  plan'[g] = j.page /\ (g \in Written(file'[j.page].body) \/ <<j.page, g>> \in gestures')
      BY <2>1, <2>2 DEF Kept, On
    <3> QED
      BY <2>1, <2>4, <3>1, <3>2, <3>3, <3>4 DEF Round, Kept, On
  <2>7. ASSUME NEW g \in Facts, Active(g)', row'[g].at PROVE Kept(row'[g].page, g)
    <3>1. Active(g)
      BY <2>3, <2>7 DEF Active
    <3>2. CASE g = f
      BY <2>2, <2>3, <3>1, <3>2
    <3>3. CASE g # f
      BY <1>0, <2>3, <2>7, <3>1, <3>3 DEF Standing
    <3> QED
      BY <3>2, <3>3
  <2>8. \A g \in Facts : row'[g].state = "swept" => row[g].state = "swept"
    BY <2>3
  <2> QED
    BY <1>0, <2>1, <2>2, <2>5, <2>6, <2>7, <2>8, RowStep
<1>9. ASSUME NEW p \in Pages, compile_page(p) PROVE IInv'
  <2>1. PICK b \in Compiled(p) :
            /\ WriteFile(p, b)
            /\ Does(Dream, [j EXCEPT !.stage = "repoint", !.page = p,
                                     !.todo = planned(p) \cap Marks(b), !.left = @ \ {p}])
    BY <1>9 DEF compile_page
  <2> DEFINE new == [j EXCEPT !.stage = "repoint", !.page = p,
                              !.todo = planned(p) \cap Marks(b), !.left = @ \ {p}]
  <2>2. b \in Seq(Regions) /\ Closed(b) /\ Written(b) = planned(p)
    BY <1>0, CompiledIsThePlan
  <2>3. Marks(b) = planned(p) /\ planned(p) \subseteq Facts
    BY <2>2, ClosedParses DEF planned
  <2>4. /\ new \in Jobs /\ Does(Dream, new) /\ new.stage = "repoint" /\ new.todo = planned(p)
        /\ new.left \subseteq j.left /\ new.disk = j.disk /\ new.page = p
    <3> DEFINE todo == planned(p) \cap Marks(b)
               left == j.left \ {p}
               to(x, y) == [j EXCEPT !.stage = "repoint", !.page = p, !.todo = x, !.left = y]
    <3>1. todo = planned(p) /\ todo \in SUBSET Facts /\ left \in SUBSET Pages /\ left \subseteq j.left
      BY <1>0, <2>3
    <3>2. Does(Dream, new) /\ new = to(todo, left)
      BY <2>1
    <3> HIDE DEF todo, left, new
    <3>3. /\ to(todo, left) \in Jobs /\ to(todo, left).stage = "repoint" /\ to(todo, left).todo = todo
          /\ to(todo, left).left = left /\ to(todo, left).disk = j.disk /\ to(todo, left).page = p
      BY <1>0, <3>1 DEF Jobs, Stages
    <3> QED
      BY <3>1, <3>2, <3>3
  <2>5. /\ MayStart(Dream) /\ UNCHANGED <<row, plan>> /\ j.stage \in {"prepoint", "repoint"}
        /\ j.todo = {} /\ p \in j.left /\ j.left \subseteq PlanPages
    BY <1>0, <1>9 DEF compile_page, BetweenPages, Round
  <2> HIDE DEF new
  <2>6. jobs'[Dream] = new /\ \A t \in Turns : jobs'[t] = jobs[t]
    BY <1>0, <2>4 DEF Does
  <2>7. Knows(Dream)'
    BY <2>4, <2>6 DEF Knows
  <2>8. \A f \in Facts : Active(f) /\ row[f].page \in PlanPages => plan[f] \in PlanPages /\ row[f].page = plan[f]
    BY <1>0, <2>5 DEF Round
  <2>9. Round'
    <3>1. \A t \in Turns : jobs'[t].stage \in {"insert", "write", "stamp"} => jobs'[t].page \in RulesPages
      BY <1>0, <2>5, <2>6 DEF Round
    <3>2. file'[p].body = b
      BY <1>0, <2>1, <2>2, WriteFileKeeps
    <3>3. \A g \in new.todo : plan'[g] = p /\ g \in Written(file'[p].body)
      BY <2>2, <2>4, <2>5, <3>2 DEF planned
    <3> QED
      BY <2>4, <2>5, <2>6, <2>8, <3>1, <3>3 DEF Round, Kept, On, Active
  <2>10. \A f \in Facts : Active(f) /\ row[f].page = p => f \in Written(b)
    BY <2>2, <2>5, <2>8 DEF planned
  <2> QED
    BY <1>0, <2>1, <2>2, <2>4, <2>5, <2>7, <2>9, <2>10, PageStep
<1>10. ASSUME NEW p \in PlanPages, CompileFails(p) PROVE IInv'
  <2> DEFINE new == [j EXCEPT !.left = @ \ {p}]
  <2>1. /\ new \in Jobs /\ Does(Dream, new) /\ new.stage = j.stage /\ new.todo = j.todo
        /\ new.left \subseteq j.left /\ new.disk = j.disk
    BY <1>0, <1>10 DEF Jobs, CompileFails
  <2>2. UNCHANGED <<file, row, plan, gestures>> /\ j.stage \in {"prepoint", "repoint"} /\ j.todo = {}
    BY <1>10 DEF CompileFails, BetweenPages
  <2> HIDE DEF new
  <2>3. jobs'[Dream] = new /\ \A t \in Turns : jobs'[t] = jobs[t]
    BY <1>0, <2>1 DEF Does
  <2>4. Round'
    <3>1. \A f \in Facts : Active(f)' /\ row'[f].page \in PlanPages => plan'[f] \in PlanPages /\ row'[f].page = plan'[f]
      BY <1>0, <2>2 DEF Round, Active
    <3>2. \A t \in Turns : jobs'[t].stage \in {"insert", "write", "stamp"} => jobs'[t].page \in RulesPages
      BY <1>0, <2>2, <2>3 DEF Round
    <3>3. new.left \subseteq PlanPages
      BY <1>0, <2>1, <2>2 DEF Round
    <3> QED
      BY <2>1, <2>2, <2>3, <3>1, <3>2, <3>3 DEF Round
  <2> QED
    BY <1>0, <2>1, <2>2, <2>4, OffPageStep
<1>11. ASSUME NEW p \in Pages, CountRows(p) PROVE IInv'
  <2>1. PICK new \in {[j EXCEPT !.left = @ \ {p}], [j EXCEPT !.stage = "remove", !.page = p]} : Does(Dream, new)
    BY <1>11 DEF CountRows
  <2>2. /\ new \in Jobs /\ new.stage \in {"files", "remove"} /\ new.left \subseteq j.left /\ new.disk = j.disk
        /\ new.stage = "remove" => new.page \in new.left
    <3>1. j.stage = "files" /\ p \in j.left
      BY <1>11 DEF CountRows
    <3>2. CASE new = [j EXCEPT !.left = @ \ {p}]
      BY <1>0, <3>1, <3>2 DEF Jobs, Stages
    <3>3. CASE new = [j EXCEPT !.stage = "remove", !.page = p]
      BY <1>0, <3>1, <3>3 DEF Jobs, Stages
    <3> QED
      BY <3>2, <3>3
  <2>3. MayStart(Dream) /\ UNCHANGED <<file, row, plan, gestures>> /\ j.stage = "files"
    BY <1>11 DEF CountRows
  <2>4. jobs'[Dream] = new /\ \A t \in Turns : jobs'[t] = jobs[t]
    BY <1>0, <2>1 DEF Does
  <2>5. Knows(Dream)'
    BY <2>2, <2>4 DEF Knows
  <2>6. Round'
    <3>1. \A f \in Facts : Active(f)' /\ row'[f].page \in PlanPages => plan'[f] \in PlanPages /\ row'[f].page = plan'[f]
      BY <1>0, <2>3 DEF Round, Active
    <3>2. \A t \in Turns : jobs'[t].stage \in {"insert", "write", "stamp"} => jobs'[t].page \in RulesPages
      BY <1>0, <2>3, <2>4 DEF Round
    <3>3. new.left \subseteq PlanPages \ Planned /\ Planned' = Planned
      BY <1>0, <2>2, <2>3 DEF Round, Planned, planned
    <3> QED
      BY <2>2, <2>4, <3>1, <3>2, <3>3 DEF Round
  <2> QED
    BY <1>0, <2>1, <2>2, <2>3, <2>5, <2>6, QuietStep
<1>12. ASSUME NEW p \in Pages, strip_retired_regions_on_page(p) PROVE IInv'
  <2> DEFINE cut == {f \in Marks(file[p].body) : Retired(f)}
             new == [j EXCEPT !.stage = IF cut = {} THEN "settleall" ELSE "cutall",
                                 !.page = p, !.disk = file[p], !.todo = cut]
  <2>1. Does(Dream, new) /\ UNCHANGED <<file, row, plan, gestures>> /\ MayStart(Dream) /\ j.stage = "hygiene"
    BY <1>12 DEF strip_retired_regions_on_page
  <2>2. cut \subseteq Facts /\ \A f \in cut : Retired(f)
    <3>1. \A i \in DOMAIN file[p].body : file[p].body[i] \in Regions
      BY <1>0
    <3>2. Marks(file[p].body) = Written(file[p].body)
      BY <1>0, ClosedParses
    <3> QED
      BY <3>1, <3>2 DEF Written, Regions
  <2> HIDE DEF cut
  <2>3. /\ new \in Jobs /\ new.stage \in {"settleall", "cutall"} /\ new.disk = file[p] /\ new.page = p
        /\ new.todo = cut
    BY <1>0, <2>2 DEF Jobs, Stages
  <2> HIDE DEF new
  <2>4. jobs'[Dream] = new
    BY <1>0, <2>1 DEF Does
  <2>5. Knows(Dream)'
    BY <2>1, <2>2, <2>3, <2>4 DEF Knows, On, Retired
  <2>6. Round'
    BY <1>0, <2>1, <2>3, RoundGoesOn DEF Active
  <2> QED
    BY <1>0, <2>1, <2>3, <2>5, <2>6, QuietStep
<1> QED
  BY <1>1, <1>2, <1>3, <1>4, <1>5, <1>6, <1>7, <1>8, <1>9, <1>10, <1>11, <1>12 DEF DreamStep

\* An edit by hand takes markers off a page and says so; it adds none.
LEMMA PersonKeeps ==
    ASSUME IInv, Orderly, ByPerson
    PROVE  IInv'
<1>0. /\ TypeInv /\ TypeInv' /\ file \in [Pages -> Files]
      /\ \A p \in Pages : file[p].body \in Seq(Regions) /\ Closed(file[p].body)
  BY PersonTypes, FilesAreThere DEF IInv, AllClosed, TypeInv, TypeOK
<1>1. PICK p \in Pages : \/ HandDelete(p) \/ HandMend(p)
                         \/ \E i \in DOMAIN file[p].body : HandCut(p, i) \/ HandTear(p, i)
  BY DEF ByPerson
<1>2. ~ HandMend(p) /\ \A i \in DOMAIN file[p].body : ~ HandTear(p, i)
  BY <1>0 DEF HandMend, HandTear, Orderly, Closed
<1>3. ASSUME NEW c \in Files, NEW gone, ByHand(p, c, gone), Closed(c.body),
             Written(c.body) \subseteq On(p), On(p) \ gone \subseteq Written(c.body)
      PROVE  IInv'
  <2>1. UNCHANGED <<row, plan, jobs>> /\ file'[p] = c /\ \A q \in Pages \ {p} : file'[q] = file[q]
    BY <1>0, <1>3 DEF ByHand
  <2>2. gestures \subseteq gestures' /\ \A f \in gone : <<p, f>> \in gestures'
    BY <1>3 DEF ByHand
  <2>3. \A q \in Pages : On(q)' \subseteq On(q)
    BY <1>3, <2>1 DEF On
  <2>4. ASSUME NEW q \in Pages, NEW f, Kept(q, f) PROVE f \in Written(file'[q].body) \/ <<q, f>> \in gestures'
    <3>1. CASE q = p
      BY <1>3, <2>1, <2>2, <2>4, <3>1 DEF Kept, On
    <3>2. CASE q # p
      BY <2>1, <2>2, <2>4, <3>2 DEF Kept, On
    <3> QED
      BY <3>1, <3>2
  <2>5. \A q \in Pages : \A f : Kept(q, f) => Kept(q, f)'
    BY <2>4 DEF Kept, On
  <2>6. \A q \in Pages : Closed(file'[q].body)
    BY <1>0, <1>3, <2>1
  <2>7. AllClosed' /\ Alone'
    BY <2>1, <2>6 DEF IInv, AllClosed, Alone, OnAPage
  <2>8. Standing'
    <3>1. ASSUME NEW f \in Facts, Active(f), row[f].at PROVE Kept(row[f].page, f)'
      <4>1. PICK q \in Pages : q = row[f].page
        BY <1>0, <3>1 DEF TypeInv, Pointed, Active
      <4>2. Kept(q, f)
        BY <3>1, <4>1 DEF IInv, Standing
      <4>3. Kept(q, f)'
        BY <2>5, <4>2
      <4> QED
        BY <2>1, <4>1, <4>3
    <3> QED
      BY <2>1, <3>1 DEF Standing, Active
  <2>9. Round'
    <3>1. Round /\ Planned' = Planned
      BY <2>1 DEF IInv, Planned, planned
    <3>2. ASSUME jobs[Dream].stage = "repoint", NEW f \in jobs[Dream].todo
          PROVE  plan[f] = jobs[Dream].page /\ Kept(jobs[Dream].page, f)'
      <4>1. PICK q \in Pages : q = jobs[Dream].page
        BY <1>0, <3>2, ActorsAre DEF TypeInv, Placed
      <4>2. plan[f] = q /\ Kept(q, f)
        BY <3>1, <3>2, <4>1 DEF Round
      <4>3. Kept(q, f)'
        BY <2>5, <4>2
      <4> QED
        BY <2>1, <4>1, <4>2, <4>3
    <3> QED
      BY <2>1, <3>1, <3>2 DEF Round, Active
  <2>10. ASSUME NEW a \in Actors PROVE Knows(a)'
    <3> DEFINE j == jobs[a]
    <3>0. j \in Jobs /\ Placed(j) /\ Knows(a) /\ jobs'[a] = j /\ row' = row
      BY <1>0, <2>1 DEF IInv, TypeInv, TypeOK
    <3>1. CASE j.stage \notin {"insert", "write", "stamp", "cut", "cutall", "rows", "reindex"}
      BY <3>0, <3>1 DEF Knows
    <3>2. CASE j.stage \in {"insert", "write", "stamp", "cut", "cutall", "rows", "reindex"}
      <4>1. PICK q \in Pages : q = j.page
        BY <3>0, <3>2 DEF Placed
      <4>2. On(q)' \subseteq On(q) /\ (\A f : Kept(q, f) => Kept(q, f)') /\ gestures \subseteq gestures'
        BY <2>2, <2>3, <2>5
      <4>3. jobs'[a].page = q /\ j.page = q
        BY <3>0, <4>1
      <4>4. /\ j.stage \in {"insert", "write", "cut", "cutall", "rows"} => On(q) \subseteq Written(j.disk.body)
            /\ j.stage = "rows" => \A f \in Written(j.disk.body) : Kept(q, f)
            /\ j.stage = "insert" => row[j.fact].state = "none"
            /\ j.stage = "stamp" => Kept(q, j.fact)
            /\ j.stage = "cut" => Retired(j.fact)
            /\ j.stage = "cutall" => \A f \in j.todo : Retired(f)
            /\ j.stage = "reindex" =>
                  /\ \A f \in j.todo : Kept(q, f) /\ (Active(f) => row[f].page = q)
                  /\ \A f \in j.rows : <<q, f>> \in gestures
        BY <3>0, <4>3 DEF Knows
      <4>5. On(jobs[a].page)' = On(q)' /\ \A f : Kept(jobs[a].page, f)' <=> Kept(q, f)'
        BY <4>3 DEF On, Kept
      <4> QED
        BY <3>0, <4>2, <4>3, <4>4, <4>5 DEF Knows, Active, Retired
    <3> QED
      BY <3>1, <3>2
  <2>11. OnlyGesturesForget'
    BY <2>1, <2>2 DEF IInv, OnlyGesturesForget
  <2>12. \A a \in Actors : Knows(a)'
    BY <2>10
  <2> QED
    BY <1>0, <2>7, <2>8, <2>9, <2>11, <2>12 DEF IInv
<1>4. CASE HandDelete(p)
  <2>1. Written(<<>>) = {} /\ Closed(<<>>)
    BY DEF Written, Closed
  <2> QED
    BY <1>3, <1>4, <2>1, FilesAreThere DEF HandDelete, On
<1>5. ASSUME NEW i \in DOMAIN file[p].body, HandCut(p, i) PROVE IInv'
  <2> DEFINE b == file[p].body
             r == RemoveAt(b, i)
  <2>1. /\ r \in Seq(Regions) /\ Closed(r) /\ Written(r) \subseteq Written(b)
        /\ Written(b) \ {b[i].fact} \subseteq Written(r)
    BY <1>0, RemoveAtKeeps
  <2>2. ByHand(p, File(r), {b[i].fact})
    BY <1>5 DEF HandCut
  <2>3. On(p) = Written(b)
    BY DEF On
  <2> HIDE DEF b, r
  <2>4. File(r) \in Files /\ File(r).body = r
    BY <2>1, FilesAreThere
  <2> QED
    BY <1>3, <2>1, <2>2, <2>3, <2>4
<1> QED
  BY <1>1, <1>2, <1>4, <1>5

\* A crash takes the jobs, and nothing that is written.
LEMMA CrashKeeps ==
    ASSUME IInv, Crash
    PROVE  IInv'
<1>1. TypeInv'
  BY CrashTypes DEF IInv
<1>2. UNCHANGED <<file, row, gestures>> /\ \A a \in Actors : jobs'[a] = IdleJob
  BY DEF Crash
<1>3. IdleJob.stage = "idle" /\ IdleJob.disk.body = <<>> /\ Closed(<<>>)
  BY FilesAreThere DEF IdleJob, Closed
<1>4. AllClosed' /\ Alone' /\ \A a \in Actors : Knows(a)'
  BY <1>2, <1>3 DEF IInv, AllClosed, Alone, OnAPage, Knows
<1>5. Round'
  BY <1>2, <1>3, ActorsAre DEF Round
<1>6. Standing' /\ OnlyGesturesForget'
  BY <1>2 DEF IInv, Standing, Active, Kept, On, OnlyGesturesForget
<1> QED
  BY <1>1, <1>4, <1>5, <1>6 DEF IInv

\* A fact a proposal forgets was active or superseded, and keeps its page.
LEMMA ProposalKeeps ==
    ASSUME IInv, NEW f \in Facts, ForgetByProposal(f)
    PROVE  IInv'
<1>1. TypeInv /\ TypeInv'
  BY ProposalTypes DEF IInv
<1>2. /\ UNCHANGED <<file, plan, jobs, gestures>>
      /\ \A g \in Facts : row'[g].page = row[g].page /\ row'[g].at = row[g].at
      /\ \A g \in Facts \ {f} : row'[g].state = row[g].state
      /\ row'[f].state = "forgotten" /\ row[f].state \in {"active", "superseded"}
  BY <1>1 DEF ForgetByProposal, TypeInv, TypeOK, Rows
<1>3. /\ \A g \in Facts : Active(g)' => Active(g)
      /\ \A g \in Facts : Retired(g) => Retired(g)'
  BY <1>2 DEF Active, Retired
<1>4. AllClosed' /\ Alone'
  BY <1>2 DEF IInv, AllClosed, Alone, OnAPage
<1>5. Standing'
  <2>1. ASSUME NEW g \in Facts, Active(g)', row'[g].at PROVE Kept(row[g].page, g)'
    <3>1. Active(g) /\ row[g].at /\ row'[g].page = row[g].page
      BY <1>2, <1>3, <2>1
    <3>2. Kept(row[g].page, g)
      BY <3>1 DEF IInv, Standing
    <3> QED
      BY <1>2, <3>1, <3>2 DEF Kept, On
  <2> QED
    BY <2>1 DEF Standing
<1>6. Round'
  <2>1. Round /\ Planned' = Planned
    BY <1>2 DEF IInv, Planned, planned
  <2>2. ASSUME NEW g \in Facts, Active(g)', row'[g].page \in PlanPages
        PROVE  Active(g) /\ row[g].page \in PlanPages /\ row'[g].page = row[g].page
    BY <1>2, <1>3, <2>2
  <2> QED
    BY <1>2, <2>1, <2>2 DEF Round, Kept, On
<1>7. ASSUME NEW a \in Actors PROVE Knows(a)'
  <2> DEFINE j == jobs[a]
  <2>1. j \in Jobs /\ Placed(j) /\ Knows(a) /\ jobs' = jobs
    BY <1>1, <1>2 DEF IInv, TypeInv, TypeOK
  <2>2. j.todo \subseteq Facts /\ (j.stage \in {"insert", "cut"} => j.fact \in Facts)
    BY <2>1 DEF Jobs, Placed
  <2>3. j.stage = "insert" => row'[j.fact].state = "none"
    BY <1>2, <2>1, <2>2 DEF Knows
  <2>4. j.stage = "cut" => Retired(j.fact)'
    BY <1>2, <2>1, <2>2 DEF Knows, Retired
  <2>5. j.stage = "cutall" => \A g \in j.todo : Retired(g)'
    BY <1>3, <2>1, <2>2 DEF Knows
  <2>6. j.stage = "reindex" => \A g \in j.todo : Kept(j.page, g) /\ (Active(g)' => row'[g].page = j.page)
    BY <1>2, <1>3, <2>1, <2>2 DEF Knows
  <2> QED
    BY <1>2, <2>1, <2>3, <2>4, <2>5, <2>6 DEF Knows, Kept, On, Retired
<1>8. OnlyGesturesForget'
  BY <1>2 DEF IInv, OnlyGesturesForget
<1>9. \A a \in Actors : Knows(a)'
  BY <1>7
<1> QED
  BY <1>1, <1>4, <1>5, <1>6, <1>8, <1>9 DEF IInv

LEMMA InvInit == Init => IInv
<1> SUFFICES ASSUME Init PROVE IInv
  OBVIOUS
<1>1. TypeInv
  BY TypeInit
<1>2. PICK known \in {{}} \cup {{f} : f \in Facts}, p \in PlanPages :
          /\ file = [q \in Pages |-> IF q = p /\ known # {}
                                     THEN File([i \in 1..1 |-> Whole(CHOOSE f \in known : TRUE)])
                                     ELSE NoFile]
          /\ row = [f \in Facts |-> IF f \in known
                                    THEN [state |-> "active", page |-> p, at |-> TRUE] ELSE NoRow]
  BY DEF Init
<1>3. /\ IdleJob.stage = "idle" /\ IdleJob.disk.body = <<>> /\ Closed(<<>>)
      /\ \A a \in Actors : jobs[a] = IdleJob
  BY FilesAreThere DEF IdleJob, Closed, Init
<1>4. (\A q \in Pages : Closed(file[q].body)) /\ Standing
  <2>1. CASE known = {}
    BY <1>2, <1>3, <2>1, FilesAreThere DEF Standing, Active, NoRow
  <2>2. ASSUME NEW f \in Facts, known = {f} PROVE (\A q \in Pages : Closed(file[q].body)) /\ Standing
    <3> DEFINE b == [i \in 1..1 |-> Whole(f)]
    <3>1. b \in Seq(Regions) /\ b = [i \in 1..1 |-> Whole(CHOOSE g \in known : TRUE)]
      <4>1. (CHOOSE g \in known : TRUE) = f
        BY <2>2
      <4>2. Whole(f) \in Regions
        BY DEF Whole, Regions
      <4>3. b \in Seq(Regions)
        BY <4>2
      <4> QED
        BY <4>1, <4>3
    <3>2. Closed(b) /\ Written(b) = {f}
      <4>1. DOMAIN b = {1} /\ b[1].closed /\ b[1].fact = f
        BY DEF Whole
      <4> HIDE DEF b
      <4> QED
        BY <4>1 DEF Closed, Written
    <3> HIDE DEF b
    <3>3. File(b).body = b
      BY <3>1, FilesAreThere
    <3>4. /\ p \in Pages /\ file[p].body = b
          /\ \A q \in Pages \ {p} : file[q] = NoFile
      BY <1>2, <2>2, <3>1, <3>3 DEF Pages
    <3>5. \A g \in Facts : Active(g) => g = f /\ row[g].page = p
      BY <1>2, <2>2 DEF Active, NoRow
    <3> QED
      BY <1>3, <3>2, <3>4, <3>5, FilesAreThere DEF Standing, Kept, On
  <2> QED
    BY <2>1, <2>2
<1>5. AllClosed /\ Alone /\ \A a \in Actors : Knows(a)
  BY <1>3, <1>4 DEF AllClosed, Alone, OnAPage, Knows
<1>6. Round
  BY <1>3, ActorsAre DEF Round
<1>7. OnlyGesturesForget
  BY <1>2 DEF OnlyGesturesForget, NoRow
<1> QED
  BY <1>1, <1>4, <1>5, <1>6, <1>7 DEF IInv

LEMMA InvStep == Orderly => (IInv /\ [Next]_vars => IInv')
<1> SUFFICES ASSUME Orderly, IInv, [Next]_vars PROVE IInv'
  OBVIOUS
<1>1. CASE UNCHANGED vars
  <2>1. UNCHANGED <<file, row, plan, jobs, gestures>>
    BY <1>1 DEF vars
  <2>2. TypeInv'
    BY <1>1, TypeStep DEF IInv
  <2>3. \A a \in Actors : Knows(a)'
    BY <2>1, QuietKnows DEF IInv
  <2>4. AllClosed' /\ Alone' /\ Standing' /\ OnlyGesturesForget'
    BY <2>1 DEF IInv, AllClosed, Alone, OnAPage, Standing, Active, Kept, On, OnlyGesturesForget
  <2>5. Round'
    BY <2>1 DEF IInv, Round, Active, Kept, On, Planned, planned
  <2> QED
    BY <2>2, <2>3, <2>4, <2>5 DEF IInv
<1>2. ASSUME NEW t \in Turns, Call(t) \/ TurnStep(t) PROVE IInv'
  BY <1>2, TurnKeeps, ReindexKeeps, ActorsAre
<1>3. CASE DreamStep \/ \E p \in PlanPages : CompileFails(p)
  BY <1>3, DreamKeeps, ReindexKeeps, ActorsAre
<1>4. CASE WatcherStep
  BY <1>4, ReindexKeeps, ActorsAre DEF WatcherStep
<1>5. ASSUME NEW f \in Facts, ForgetByProposal(f) PROVE IInv'
  BY <1>5, ProposalKeeps
<1>6. CASE ByPerson
  BY <1>6, PersonKeeps
<1>7. CASE Crash
  BY <1>7, CrashKeeps
<1> QED
  BY <1>1, <1>2, <1>3, <1>4, <1>5, <1>6, <1>7 DEF Next

\* A missing marker that the watcher, or the reindex_file at the end of a cut,
\* takes for a wish to forget was taken off by a person, never by the engine:
\* whatever crashes, edits, late events and moves come between, when one job is
\* on the pages at a time, turns stay off the pages of the plan during a round
\* and no edit leaves a region open.
THEOREM WatcherForgetsOnlyGestures ==
    ASSUME Orderly
    PROVE  Spec => []OnlyGesturesForget
<1>1. IInv /\ [Next]_vars => IInv'
  BY InvStep
<1>2. IInv => OnlyGesturesForget
  BY DEF IInv
<1> QED
  BY <1>1, <1>2, InvInit, PTL DEF Spec
=============================================================================
