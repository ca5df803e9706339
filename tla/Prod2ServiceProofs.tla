------------------------- MODULE Prod2ServiceProofs -------------------------
(***************************************************************************)
(* What holds of the daily service of PROD2 and of its sweeps for every    *)
(* number of queries, candidates, consumers and retries.                   *)
(***************************************************************************)
EXTENDS Prod2Service, FiniteSetTheorems, SequenceTheorems, WellFoundedInduction, TLAPS

Page == [total : Int, rows : Seq(Ids)]

Thread ==
    [at : {"waiting", "offer", "emit", "search", "read", "settle", "over"},
     rest : Seq(Ids), first : Page, repeats : Nat,
     result : {"none", "complete", "stopped", "error", "changed", "denied", "outage", "tolerated"}]

\* What the world may still do.
Cost == {"edits", "denials", "outages", "errors", "pauses", "doubts", "deaths", "stops"}

\* Each variable of the sweeps has its type, and
SweepTypeOK ==
    /\ listing \in [Queries -> Seq(Ids)] /\ steady \in [Queries -> SUBSET Ids]
    /\ changes \in [Queries -> 0..2]
    /\ pages \in [Queries -> Seq(Page)] /\ complete \in SUBSET Queries
    /\ sweep \in [Queries -> Thread]
    /\ staged \in [Ids -> {"none", "queued", "pending", "done"}] /\ added \in Nat
    /\ child \in {"off", "sweeping", "consuming", "ended", "died"}
    /\ stop \in BOOLEAN /\ egress \in BOOLEAN /\ block \in BOOLEAN
    /\ left \in [{"cycles"} \cup Cost -> Nat]

\* ... each of the service and its consumers.
ServiceTypeOK ==
    /\ hand \in [Consumers -> Ids \cup {"ready", "gone"}]
    /\ accepted \in SUBSET Ids /\ IsFiniteSet(accepted) /\ doubt \in BOOLEAN
    /\ status \in {"none", "running", "attention_required", "complete"} \cup Resumable
    /\ pc \in {"down", "top", "made", "child", "returned"}
    /\ asleep \in BOOLEAN /\ due \in BOOLEAN /\ folder \in BOOLEAN /\ asked \in BOOLEAN
    /\ retries \in [{"blocked", "incomplete"} -> Nat]
    /\ past \in [{"complete", "blocked", "incomplete", "review", "outage", "unclean"} -> Nat]
    /\ grave \in SUBSET {"doubt", "refused", "death", "stop"}

-----------------------------------------------------------------------------
(* The invariant                                                           *)

\* A thread of the sweep has offered every cached row but the rest it has in
\* hand, unless the cap was reached in between; the others have no result yet.
Offered(q) == \A id \in ToSet(Captured(q)) : staged[id] # "none"
OfferedSoFar(q) ==
    added < MaxCandidates =>
        \A id \in ToSet(Captured(q)) : staged[id] # "none" \/ id \in ToSet(sweep[q].rest)

Working(q) == sweep[q].at \in {"offer", "emit", "search", "read"}

ThreadAgrees(q) ==
    /\ Working(q) => sweep[q].result = "complete" /\ OfferedSoFar(q)
    /\ sweep[q].at \in {"search", "read"} => sweep[q].rest = <<>> /\ q \notin complete
    /\ sweep[q].at \in {"offer", "emit"} => sweep[q].rest # <<>>
    /\ sweep[q].at = "search" => sweep[q].first = NoPage

\* How the pass over a query ended.
ResultAgrees(q) ==
    /\ q \in complete => Offered(q)
    /\ sweep[q].at \in {"settle", "over"} =>
         /\ sweep[q].result = "complete" => q \in complete
         /\ sweep[q].result \in {"changed", "tolerated"} => Offered(q)
         /\ sweep[q].result = "tolerated" => q \in Today /\ sweep[q].at = "over"
    /\ sweep[q].result = "denied" => sweep[q].at \in {"settle", "over"}
    /\ child \in {"consuming", "ended"} => sweep[q].at = "over"

\* As long as the listing has not changed since the first page, every page of
\* the cache is the page the source shows; after one change the totals differ.
Session(q) == sweep[q].first # NoPage
Total(q) == pages[q][1].total

PagesAgree(q) ==
    /\ Session(q) =>
         /\ q \notin complete /\ sweep[q].at \in {"offer", "emit", "read"}
         /\ sweep[q].first.total \in Nat
         /\ changes[q] = 0 => sweep[q].first = FirstPage(q)
         /\ changes[q] = 1 => Len(listing[q]) # sweep[q].first.total
         /\ pages[q] # <<>> => Total(q) = sweep[q].first.total
    /\ sweep[q].at = "read" => Session(q)
    /\ pages[q] # <<>> /\ changes[q] = 0 =>
         /\ Total(q) = Len(listing[q])
         /\ \A n \in 1..Len(pages[q]) : pages[q][n].rows = RowsOn(q, n)
    /\ pages[q] # <<>> /\ changes[q] = 1 => Len(listing[q]) # Total(q)
    /\ (Session(q) \/ pages[q] # <<>>) /\ changes[q] = 0 => steady[q] = ToSet(listing[q])

PassAgrees(q) ==
    q \in complete /\ changes[q] <= 1 => steady[q] \subseteq ToSet(Captured(q))

QueryOK(q) == ThreadAgrees(q) /\ ResultAgrees(q) /\ PagesAgree(q) /\ PassAgrees(q)

SweepInv == SweepTypeOK /\ \A q \in Queries : QueryOK(q)

\* The state file, the folder and the child go together.
PhasesAgree ==
    /\ pc = "child" <=> child # "off"
    /\ pc \in {"top", "made"} => status \in {"none"} \cup Resumable
    /\ pc = "made" => folder
    /\ pc = "child" => status = "running"
    /\ pc = "down" => status \in {"none", "running"} \cup Resumable
    /\ pc = "returned" => status \in {"attention_required", "complete"}
    /\ pc = "returned" \/ left.cycles > 0

\* What only a person can settle is noted.
GraveIsNoted ==
    /\ asked \/ doubt \/ child = "died" => grave # {}
    /\ pc = "top" /\ folder => grave # {}
    /\ pc = "down" /\ (folder \/ status = "running") => grave # {}

\* The retries of the state file count the failed attempts of the cycle.
Limits == retries.blocked <= BlockedRetries /\ retries.incomplete <= Retries

Clean ==
    /\ past.complete = 0 /\ past.review = 0 /\ past.unclean = 0
    /\ past.blocked = retries.blocked /\ past.incomplete = retries.incomplete

One(kind) == IF Outcome = kind THEN 1 ELSE 0

PastAgrees ==
    /\ \/ pc \in {"top", "made"}
       \/ pc = "down" /\ status # "running"
       \/ child \in {"sweeping", "consuming"}
       \/ child = "ended" /\ egress
       => Limits /\ Clean
    /\ child = "ended" /\ ~egress =>
        /\ Limits
        /\ past.complete = One("complete") /\ past.review = One("review")
        /\ past.blocked = retries.blocked + One("blocked")
        /\ past.incomplete = retries.incomplete + One("incomplete")
        /\ ~doubt => past.unclean = 0

\* Why a child stops, and why cases are left in the queue.
Capped == Cardinality(accepted) >= MaxAccepted

StopIsKnown ==
    child \in {"sweeping", "consuming", "ended"} /\ stop => egress \/ grave # {} \/ Denials # {}

QueueIsServed ==
    /\ child = "sweeping" => \A id \in Ids : staged[id] # "pending"
    /\ child = "consuming" =>
         /\ \A id \in Ids : staged[id] = "pending" => stop \/ Capped \/ \E c \in Consumers : hand[c] = id
         /\ \A c \in Consumers :
              hand[c] = "gone" => stop \/ Capped \/ \A id \in Ids : staged[id] # "queued"
    /\ child = "ended" => QueueIsEmpty \/ stop \/ Capped

ServiceInv ==
    /\ ServiceTypeOK /\ PhasesAgree /\ GraveIsNoted /\ PastAgrees /\ StopIsKnown
    /\ QueueIsServed /\ AttentionIsEarned

-----------------------------------------------------------------------------
(* Sequences                                                               *)

\* A set of numbers that is not empty has a least one.
LEMMA LeastNumber ==
    ASSUME NEW U \in SUBSET Nat, U # {}
    PROVE  \E n \in U : \A m \in U : n <= m
<1> DEFINE T == {1..n : n \in U}
<1>1. T \subseteq FiniteSubsetsOf(Nat) /\ T # {}
  <2>1. \A n \in U : 1..n \in SUBSET Nat /\ IsFiniteSet(1..n)
    BY FS_Interval
  <2> QED BY <2>1 DEF FiniteSubsetsOf
<1>2. PICK x \in T : \A y \in T : ~(<<y, x>> \in StrictSubsetOrdering(Nat))
  <2> HIDE DEF T
  <2> QED BY <1>1, FS_StrictSubsetOrderingWellFounded, WFMin
<1>3. PICK n \in U : x = 1..n
  OBVIOUS
<1>4. ASSUME NEW m \in U, m < n PROVE FALSE
  <2>1. 1..m \in T /\ 1..m \subseteq 1..n /\ n \in 1..n /\ n \notin 1..m
    BY <1>4
  <2>2. <<1..m, x>> \in StrictSubsetOrdering(Nat)
    BY <1>3, <2>1 DEF StrictSubsetOrdering
  <2> QED BY <1>2, <2>1, <2>2
<1>5. \A m \in U : n <= m
  BY <1>4
<1> QED BY <1>5

\* The equation of the recursive function by which FlattenSeq is defined.
Flattens(g, s, k) ==
    g = [i \in 1..k |-> IF i = 1 THEN s[i] ELSE g[i - 1] \o s[i]]

\* ... has a solution for every length.
LEMMA FlattensExist ==
    ASSUME NEW S, NEW s \in Seq(Seq(S)), NEW k \in Nat
    PROVE  \E g : Flattens(g, s, k)
<1> DEFINE U == {m \in Nat : ~ \E g : Flattens(g, s, m)}
<1>1. SUFFICES ASSUME U # {} PROVE FALSE
  OBVIOUS
<1>2. PICK n \in U : \A m \in U : n <= m
  <2> HIDE DEF U
  <2>1. U \in SUBSET Nat
    BY DEF U
  <2> QED BY <1>1, <2>1, LeastNumber
<1>3. CASE n = 0
  <2>1. Flattens([i \in 1..0 |-> 0], s, 0)
    BY DEF Flattens
  <2> QED BY <1>2, <1>3, <2>1
<1>4. CASE n # 0
  <2>1. n - 1 \in Nat /\ n - 1 \notin U /\ n \in 1..n
    BY <1>2, <1>4
  <2>2. PICK g : Flattens(g, s, n - 1)
    BY <2>1
  <2> DEFINE h == [i \in 1..n |-> IF i < n THEN g[i] ELSE IF i = 1 THEN s[i] ELSE g[i - 1] \o s[i]]
  <2>3. \A i \in 1..n : h[i] = IF i = 1 THEN s[i] ELSE h[i - 1] \o s[i]
    <3> TAKE i \in 1..n
    <3>1. CASE i = n
      BY <3>1
    <3>2. CASE i < n
      <4>1. i \in 1..(n - 1) /\ h[i] = g[i]
        BY <3>2
      <4>2. g[i] = IF i = 1 THEN s[i] ELSE g[i - 1] \o s[i]
        BY <2>2, <4>1 DEF Flattens
      <4>3. i # 1 => h[i - 1] = g[i - 1]
        BY <3>2, <4>1
      <4> QED BY <4>1, <4>2, <4>3
    <3> QED BY <3>1, <3>2
  <2>4. Flattens(h, s, n)
    BY <2>3 DEF Flattens
  <2> QED BY <1>2, <2>4
<1> QED BY <1>3, <1>4

\* The elements of two sequences.
LEMMA ToSetJoin ==
    ASSUME NEW S, NEW a \in Seq(S), NEW b \in Seq(S)
    PROVE  a \o b \in Seq(S) /\ ToSet(a \o b) = ToSet(a) \cup ToSet(b)
<1>1. a \o b \in Seq(S) /\ Len(a \o b) = Len(a) + Len(b)
  OBVIOUS
<1>2. /\ Len(a) \in Nat /\ Len(b) \in Nat
      /\ DOMAIN a = 1..Len(a) /\ DOMAIN b = 1..Len(b) /\ DOMAIN (a \o b) = 1..Len(a \o b)
  OBVIOUS
<1>3. \A i \in 1..Len(a) : (a \o b)[i] = a[i] /\ i \in 1..Len(a \o b)
  BY <1>1, <1>2
<1>4. \A i \in 1..Len(b) : (a \o b)[Len(a) + i] = b[i] /\ Len(a) + i \in 1..Len(a \o b)
  BY <1>1, <1>2
<1>5. ASSUME NEW i \in 1..Len(a \o b)
      PROVE  (a \o b)[i] \in ToSet(a) \cup ToSet(b)
  <2>1. CASE i \in 1..Len(a)
    BY <1>2, <1>3, <2>1 DEF ToSet
  <2>2. CASE i \notin 1..Len(a)
    <3>1. i - Len(a) \in 1..Len(b) /\ i = Len(a) + (i - Len(a))
      BY <1>1, <1>2, <2>2
    <3>2. (a \o b)[i] = b[i - Len(a)]
      BY <1>4, <3>1
    <3> QED BY <1>2, <3>1, <3>2 DEF ToSet
  <2> QED BY <2>1, <2>2
<1>6. ToSet(a \o b) \subseteq ToSet(a) \cup ToSet(b)
  <2>1. \A x \in ToSet(a \o b) : \E i \in 1..Len(a \o b) : x = (a \o b)[i]
    BY <1>2 DEF ToSet
  <2> QED BY <1>5, <2>1
<1>7. ToSet(a) \subseteq ToSet(a \o b)
  BY <1>2, <1>3 DEF ToSet
<1>8. ToSet(b) \subseteq ToSet(a \o b)
  BY <1>2, <1>4 DEF ToSet
<1> QED BY <1>1, <1>6, <1>7, <1>8

\* What it computes.
LEMMA FlattensRows ==
    ASSUME NEW S, NEW s \in Seq(Seq(S)), NEW g, Flattens(g, s, Len(s))
    PROVE  \A k \in 1..Len(s) : /\ g[k] \in Seq(S)
                                /\ ToSet(g[k]) = UNION {ToSet(s[i]) : i \in 1..k}
<1> DEFINE Right(m) == g[m] \in Seq(S) /\ ToSet(g[m]) = UNION {ToSet(s[i]) : i \in 1..m}
           U == {m \in 1..Len(s) : ~Right(m)}
<1>0. Len(s) \in Nat /\ \A m \in 1..Len(s) : s[m] \in Seq(S)
  OBVIOUS
<1>1. SUFFICES ASSUME U # {} PROVE FALSE
  <2>1. U = {} => \A k \in 1..Len(s) : Right(k)
    OBVIOUS
  <2> QED BY <2>1
<1>2. PICK n \in U : \A m \in U : n <= m
  <2>1. U \in SUBSET Nat
    BY <1>0
  <2> HIDE DEF U
  <2> QED BY <1>1, <2>1, LeastNumber
<1> HIDE DEF Right
<1>3. n \in 1..Len(s) /\ ~Right(n) /\ s[n] \in Seq(S)
  BY <1>0, <1>2
<1>4. g[n] = IF n = 1 THEN s[n] ELSE g[n - 1] \o s[n]
  BY <1>3 DEF Flattens
<1>5. CASE n = 1
  <2>1. {ToSet(s[i]) : i \in 1..1} = {ToSet(s[1])}
    OBVIOUS
  <2>2. Right(1)
    BY <1>3, <1>4, <1>5, <2>1 DEF Right
  <2> QED BY <1>3, <1>5, <2>2
<1>6. CASE n # 1
  <2>1. n - 1 \in 1..Len(s) /\ n - 1 \notin U
    BY <1>0, <1>2, <1>3, <1>6
  <2>2. Right(n - 1)
    BY <2>1
  <2>3. g[n] \in Seq(S) /\ ToSet(g[n]) = ToSet(g[n - 1]) \cup ToSet(s[n])
    <3>1. g[n - 1] \in Seq(S) /\ g[n] = g[n - 1] \o s[n]
      BY <1>4, <1>6, <2>2 DEF Right
    <3> QED BY <1>3, <3>1, ToSetJoin
  <2>4. UNION {ToSet(s[i]) : i \in 1..n} = (UNION {ToSet(s[i]) : i \in 1..(n - 1)}) \cup ToSet(s[n])
    <3>1. 1..n = 1..(n - 1) \cup {n}
      BY <1>0, <1>3
    <3> QED BY <3>1
  <2>5. Right(n)
    BY <2>2, <2>3, <2>4 DEF Right
  <2> QED BY <1>3, <2>5
<1> QED BY <1>5, <1>6

\* FlattenSeq joins the rows of all pages.
LEMMA Flatten ==
    ASSUME NEW S, NEW s \in Seq(Seq(S))
    PROVE  /\ FlattenSeq(s) \in Seq(S)
           /\ ToSet(FlattenSeq(s)) = UNION {ToSet(s[i]) : i \in 1..Len(s)}
<1>1. CASE Len(s) = 0
  <2>1. s = <<>> /\ 1..Len(s) = {} /\ <<>> \in Seq(S) /\ DOMAIN <<>> = {}
    BY <1>1
  <2>2. FlattenSeq(s) = <<>>
    BY <1>1, <2>1 DEF FlattenSeq
  <2>3. ToSet(<<>>) = {}
    BY <2>1 DEF ToSet
  <2> QED BY <2>1, <2>2, <2>3
<1>2. CASE Len(s) # 0
  <2>1. PICK flat : flat = CHOOSE g : Flattens(g, s, Len(s))
    OBVIOUS
  <2>2. Flattens(flat, s, Len(s))
    <3>1. \E g : Flattens(g, s, Len(s))
      BY FlattensExist, Len(s) \in Nat
    <3> QED BY <2>1, <3>1
  <2>3. FlattenSeq(s) = flat[Len(s)]
    BY <1>2, <2>1 DEF FlattenSeq, Flattens
  <2>4. Len(s) \in 1..Len(s)
    BY <1>2
  <2>5. /\ flat[Len(s)] \in Seq(S)
        /\ ToSet(flat[Len(s)]) = UNION {ToSet(s[i]) : i \in 1..Len(s)}
    <3>1. \A k \in 1..Len(s) : /\ flat[k] \in Seq(S)
                                /\ ToSet(flat[k]) = UNION {ToSet(s[i]) : i \in 1..k}
      BY <2>2, FlattensRows
    <3> QED BY <2>4, <3>1
  <2> QED BY <2>3, <2>5
<1> QED BY <1>1, <1>2

-----------------------------------------------------------------------------
(* Numbers and pages                                                       *)

LEMMA MinOfTwo ==
    ASSUME NEW a \in Int, NEW b \in Int
    PROVE  Min({a, b}) = IF a <= b THEN a ELSE b
<1>1. \E x \in {a, b} : \A y \in {a, b} : x <= y
  OBVIOUS
<1>2. PICK m : m = CHOOSE x \in {a, b} : \A y \in {a, b} : x <= y
  OBVIOUS
<1>3. m \in {a, b} /\ \A y \in {a, b} : m <= y
  BY <1>1, <1>2
<1>4. m = IF a <= b THEN a ELSE b
  BY <1>3
<1> QED BY <1>2, <1>4 DEF Min

LEMMA MaxOfTwo ==
    ASSUME NEW a \in Int, NEW b \in Int
    PROVE  Max({a, b}) = IF a >= b THEN a ELSE b
<1>1. \E x \in {a, b} : \A y \in {a, b} : x >= y
  OBVIOUS
<1>2. PICK m : m = CHOOSE x \in {a, b} : \A y \in {a, b} : x >= y
  OBVIOUS
<1>3. m \in {a, b} /\ \A y \in {a, b} : m >= y
  BY <1>1, <1>2
<1>4. m = IF a >= b THEN a ELSE b
  BY <1>3
<1> QED BY <1>2, <1>4 DEF Max

LEMMA SizeIsNumber == PageSize \in Nat \ {0} /\ MaxCandidates \in Nat \ {0} /\ Repeats \in Nat
BY SweepAssumption

\* A part of a sequence.
LEMMA PartOf ==
    ASSUME NEW S, NEW s \in Seq(S), NEW m \in Nat \ {0}, NEW n \in Int, n <= Len(s)
    PROVE  /\ SubSeq(s, m, n) \in Seq(S)
           /\ Len(SubSeq(s, m, n)) = IF m <= n THEN n - m + 1 ELSE 0
           /\ \A i \in m..n : SubSeq(s, m, n)[i - m + 1] = s[i]
BY SubSeqProperties

\* Where the rows of a page begin and end.
LEMMA PageBounds ==
    ASSUME NEW n \in Nat \ {0}
    PROVE  /\ (n - 1) * PageSize + 1 \in Nat \ {0}
           /\ n * PageSize \in Nat
           /\ n * PageSize = (n - 1) * PageSize + PageSize
<1>1. PICK k \in Nat : n = k + 1
  BY n - 1 \in Nat, n = (n - 1) + 1
<1>2. k * PageSize \in Nat /\ (k + 1) * PageSize = k * PageSize + PageSize
  BY SizeIsNumber
<1> QED BY <1>1, <1>2, SizeIsNumber

LEMMA RowsAreIds ==
    ASSUME NEW q \in Queries, listing[q] \in Seq(Ids), NEW n \in Nat \ {0}
    PROVE  /\ RowsOn(q, n) \in Seq(Ids)
           /\ \A i \in 1..Len(listing[q]) :
                (n - 1) * PageSize < i /\ i <= n * PageSize => listing[q][i] \in ToSet(RowsOn(q, n))
<1> DEFINE m == (n - 1) * PageSize + 1
           L == listing[q]
           e == Min({n * PageSize, Len(L)})
<1>1. m \in Nat \ {0} /\ n * PageSize \in Nat /\ Len(L) \in Nat
  BY PageBounds
<1>2. e = IF n * PageSize <= Len(L) THEN n * PageSize ELSE Len(L)
  BY <1>1, MinOfTwo
<1>3. e \in Nat /\ e <= Len(L)
  BY <1>1, <1>2
<1>4. RowsOn(q, n) = SubSeq(L, m, e)
  BY DEF RowsOn
<1>5. \A i \in 1..Len(L) : (n - 1) * PageSize < i /\ i <= n * PageSize => i \in m..e
  <2>1. (n - 1) * PageSize \in Int
    BY SizeIsNumber
  <2> QED BY <1>1, <1>2, <2>1
<1> HIDE DEF m, e
<1>6. /\ SubSeq(L, m, e) \in Seq(Ids)
      /\ Len(SubSeq(L, m, e)) = IF m <= e THEN e - m + 1 ELSE 0
      /\ \A i \in m..e : SubSeq(L, m, e)[i - m + 1] = L[i]
  BY <1>1, <1>3, PartOf
<1>7. ASSUME NEW i \in m..e
      PROVE  L[i] \in ToSet(SubSeq(L, m, e))
  <2>1. i - m + 1 \in 1..Len(SubSeq(L, m, e))
    BY <1>1, <1>3, <1>6
  <2>2. DOMAIN SubSeq(L, m, e) = 1..Len(SubSeq(L, m, e))
    BY <1>6
  <2> QED BY <1>6, <2>1, <2>2 DEF ToSet
<1> QED BY <1>4, <1>5, <1>6, <1>7

\* The pages of a session hold all rows of its total.
LEMMA PagesCover ==
    ASSUME NEW t \in Nat, NEW i \in 1..t
    PROVE  \E n \in 1..PageCount(t) : (n - 1) * PageSize < i /\ i <= n * PageSize
<1> DEFINE k == (t + PageSize - 1) \div PageSize
<1>1. k \in Nat /\ t <= k * PageSize
  BY SizeIsNumber
<1>2. PageCount(t) = IF 1 >= k THEN 1 ELSE k
  BY <1>1, MaxOfTwo DEF PageCount
<1> HIDE DEF k
<1> DEFINE U == {n \in Nat : i <= n * PageSize}
<1>3. PICK n \in U : \A m \in U : n <= m
  <2>1. k \in U
    BY <1>1, SizeIsNumber
  <2>2. U \in SUBSET Nat /\ U # {}
    BY <2>1
  <2> HIDE DEF U
  <2> QED BY <2>2, LeastNumber
<1>4. n \in Nat /\ i <= n * PageSize /\ n <= k
  BY <1>1, <1>3, SizeIsNumber
<1>5. n # 0
  BY <1>4, SizeIsNumber
<1>6. n - 1 \in Nat /\ n - 1 \notin U
  BY <1>3, <1>4, <1>5
<1>7. (n - 1) * PageSize < i
  BY <1>6, SizeIsNumber
<1>8. n \in 1..PageCount(t)
  BY <1>1, <1>2, <1>4, <1>5
<1> QED BY <1>4, <1>7, <1>8

\* All rows of some pages.
Joined(P) == FlattenSeq([n \in DOMAIN P |-> P[n].rows])

LEMMA JoinedRows ==
    ASSUME NEW P \in Seq(Page)
    PROVE  /\ Joined(P) \in Seq(Ids)
           /\ ToSet(Joined(P)) = UNION {ToSet(P[n].rows) : n \in 1..Len(P)}
<1> DEFINE s == [n \in DOMAIN P |-> P[n].rows]
<1>1. DOMAIN P = 1..Len(P) /\ Len(P) \in Nat /\ \A n \in 1..Len(P) : P[n] \in Page
  OBVIOUS
<1>2. s \in Seq(Seq(Ids)) /\ Len(s) = Len(P) /\ \A n \in 1..Len(P) : s[n] = P[n].rows
  <2>1. s \in [1..Len(P) -> Seq(Ids)]
    BY <1>1 DEF Page
  <2>2. s \in Seq(Seq(Ids)) /\ DOMAIN s = 1..Len(s) /\ Len(s) \in Nat
    BY <1>1, <2>1
  <2>3. DOMAIN s = 1..Len(P)
    BY <1>1
  <2> QED BY <1>1, <2>2, <2>3
<1> HIDE DEF s
<1>3. FlattenSeq(s) \in Seq(Ids) /\ ToSet(FlattenSeq(s)) = UNION {ToSet(s[n]) : n \in 1..Len(s)}
  BY <1>2, Flatten
<1>4. {ToSet(s[n]) : n \in 1..Len(s)} = {ToSet(P[n].rows) : n \in 1..Len(P)}
  BY <1>2
<1> QED BY <1>3, <1>4 DEF Joined, s

LEMMA JoinedAppend ==
    ASSUME NEW P \in Seq(Page), NEW r \in Page
    PROVE  ToSet(Joined(Append(P, r))) = ToSet(Joined(P)) \cup ToSet(r.rows)
<1>1. /\ Append(P, r) \in Seq(Page) /\ Len(Append(P, r)) = Len(P) + 1 /\ Len(P) \in Nat
      /\ Append(P, r)[Len(P) + 1] = r /\ \A n \in 1..Len(P) : Append(P, r)[n] = P[n]
  OBVIOUS
<1>2. 1..(Len(P) + 1) = 1..Len(P) \cup {Len(P) + 1}
  BY <1>1
<1>3. {ToSet(Append(P, r)[n].rows) : n \in 1..(Len(P) + 1)}
        = {ToSet(P[n].rows) : n \in 1..Len(P)} \cup {ToSet(r.rows)}
  BY <1>1, <1>2
<1>4. ToSet(Joined(Append(P, r))) = UNION {ToSet(Append(P, r)[n].rows) : n \in 1..(Len(P) + 1)}
  BY <1>1, JoinedRows
<1>5. ToSet(Joined(P)) = UNION {ToSet(P[n].rows) : n \in 1..Len(P)}
  BY JoinedRows
<1> QED BY <1>3, <1>4, <1>5

LEMMA JoinedNone == Joined(<<>>) = <<>> /\ ToSet(<<>>) = {} /\ <<>> \in Seq(Page) /\ <<>> \in Seq(Ids)
<1>1. DOMAIN <<>> = {} /\ Len(<<>>) = 0
  OBVIOUS
<1>2. [n \in DOMAIN <<>> |-> <<>>[n].rows] = <<>>
  BY <1>1
<1>3. FlattenSeq(<<>>) = <<>>
  BY <1>1 DEF FlattenSeq
<1> QED BY <1>1, <1>2, <1>3 DEF Joined, ToSet

LEMMA CapturedIsJoined ==
    ASSUME NEW q
    PROVE  Captured(q) = Joined(pages[q]) /\ Captured(q)' = Joined(pages'[q])
BY DEF Captured, Joined

\* A convocatoria more, or one less.
LEMMA Longer ==
    ASSUME NEW s \in Seq(Ids), NEW i \in 1..(Len(s) + 1), NEW id \in Ids
    PROVE  InsertAt(s, i, id) \in Seq(Ids) /\ Len(InsertAt(s, i, id)) = Len(s) + 1
<1> DEFINE a == SubSeq(s, 1, i - 1)
           b == SubSeq(s, i, Len(s))
<1>1. Len(s) \in Nat /\ i \in Nat \ {0} /\ i <= Len(s) + 1
  OBVIOUS
<1>2. a \in Seq(Ids) /\ Len(a) = i - 1
  BY <1>1, PartOf
<1>3. b \in Seq(Ids) /\ Len(b) = Len(s) - i + 1
  BY <1>1, PartOf
<1>4. InsertAt(s, i, id) = a \o <<id>> \o b
  BY DEF InsertAt
<1> HIDE DEF a, b
<1>5. <<id>> \in Seq(Ids) /\ Len(<<id>>) = 1
  OBVIOUS
<1>6. a \o <<id>> \in Seq(Ids) /\ Len(a \o <<id>>) = i
  BY <1>1, <1>2, <1>5
<1>7. (a \o <<id>>) \o b \in Seq(Ids) /\ Len((a \o <<id>>) \o b) = Len(s) + 1
  BY <1>1, <1>3, <1>6
<1> QED BY <1>4, <1>7

LEMMA Shorter ==
    ASSUME NEW s \in Seq(Ids), NEW i \in 1..Len(s)
    PROVE  RemoveAt(s, i) \in Seq(Ids) /\ Len(RemoveAt(s, i)) = Len(s) - 1
<1> DEFINE a == SubSeq(s, 1, i - 1)
           b == SubSeq(s, i + 1, Len(s))
<1>1. Len(s) \in Nat /\ i \in Nat \ {0} /\ i <= Len(s)
  OBVIOUS
<1>2. a \in Seq(Ids) /\ Len(a) = i - 1
  BY <1>1, PartOf
<1>3. b \in Seq(Ids) /\ Len(b) = Len(s) - i
  BY <1>1, PartOf
<1>4. RemoveAt(s, i) = a \o b
  BY DEF RemoveAt
<1> HIDE DEF a, b
<1>5. a \o b \in Seq(Ids) /\ Len(a \o b) = Len(a) + Len(b)
  BY <1>2, <1>3
<1> QED BY <1>1, <1>2, <1>3, <1>4, <1>5

\* What becomes of a listing that changes.
LEMMA Relisted ==
    ASSUME SweepTypeOK, NEW q \in Queries, Change(q)
    PROVE  \E rows \in Seq(Ids) : Relist(q, rows) /\ Len(rows) # Len(listing[q])
<1>0. listing[q] \in Seq(Ids) /\ Len(listing[q]) \in Nat /\ DOMAIN listing[q] = 1..Len(listing[q])
  BY DEF SweepTypeOK
<1>1. CASE \E id \in Ids \ UNION {ToSet(listing[p]) : p \in Queries}, i \in 1..(Len(listing[q]) + 1) :
             Relist(q, InsertAt(listing[q], i, id))
  <2>1. PICK id \in Ids, i \in 1..(Len(listing[q]) + 1) : Relist(q, InsertAt(listing[q], i, id))
    BY <1>1
  <2>2. InsertAt(listing[q], i, id) \in Seq(Ids) /\ Len(InsertAt(listing[q], i, id)) = Len(listing[q]) + 1
    BY <1>0, Longer
  <2> QED BY <1>0, <2>1, <2>2
<1>2. CASE \E i \in DOMAIN listing[q] : Relist(q, RemoveAt(listing[q], i))
  <2>1. PICK i \in 1..Len(listing[q]) : Relist(q, RemoveAt(listing[q], i))
    BY <1>0, <1>2
  <2>2. RemoveAt(listing[q], i) \in Seq(Ids) /\ Len(RemoveAt(listing[q], i)) = Len(listing[q]) - 1
    BY <1>0, Shorter
  <2> QED BY <1>0, <2>1, <2>2
<1> QED BY <1>1, <1>2 DEF Change

-----------------------------------------------------------------------------
(* The steps of a thread, by what they do to its record                    *)

Untouched == UNCHANGED <<source, cache, queue, child, switches, left>>

\* The cached pages are offered again, for the first time or once more,
Replays(q) ==
    /\ child = "sweeping"
    /\ sweep[q].at = "waiting" \/ (sweep[q].at = "settle" /\ sweep[q].result = "changed")
    /\ \E n \in Nat : Replay(q, n)
    /\ Untouched

\* ... a query is not taken after a stop,
Skips(q) ==
    /\ child = "sweeping" /\ sweep[q].at = "waiting"
    /\ sweep' = [sweep EXCEPT ![q].at = "over", ![q].result = "stopped"]
    /\ Untouched

\* ... a row may be staged,
Checks(q) ==
    /\ child = "sweeping" /\ sweep[q].at = "offer"
    /\ sweep' = [sweep EXCEPT ![q].at = "emit"]
    /\ Untouched

\* ... a page is read,
Reads(q) ==
    /\ child = "sweeping" /\ sweep[q].at = "read"
    /\ LET s == sweep[q]
           n == Len(pages[q]) + 1
           rows == IF n = 1 THEN s.first.rows ELSE RowsOn(q, n) IN
       /\ pages' = [pages EXCEPT ![q] = Append(@, [total |-> s.first.total, rows |-> rows])]
       /\ Go(q, [s EXCEPT !.rest = rows])
    /\ UNCHANGED <<source, complete, queue, child, switches, left>>

\* ... the pass is complete,
Completes(q) ==
    /\ child = "sweeping" /\ AllRead(q) /\ ~Halted /\ FirstPage(q) = sweep[q].first
    /\ complete' = complete \cup {q} /\ End(q, "complete")
    /\ UNCHANGED <<source, pages, queue, child, switches, left>>

\* ... or it ends in another way,
Spends == UNCHANGED left \/ \E what \in Cost : Spend(what)

Ends(q, why) ==
    /\ child = "sweeping" /\ why \in {"stopped", "error", "changed", "denied", "outage"}
    /\ sweep[q].at \in {"offer", "search", "read"} /\ End(q, why)
    /\ why = "changed" => sweep[q].at = "read" /\ ~Halted
    /\ stop' \in {stop, TRUE} /\ egress' \in {egress, TRUE} /\ block' \in {block, TRUE}
    /\ stop' => stop \/ egress' \/ why = "denied"
    /\ Spends
    /\ UNCHANGED <<source, cache, queue, child>>

\* ... and what is settled is over.
Settles(q) ==
    /\ child = "sweeping" /\ sweep[q].at = "settle"
    /\ sweep' = [sweep EXCEPT ![q] = [Unstarted EXCEPT !.at = "over",
                    !.result = IF Unstable(q) /\ ~stop THEN "tolerated" ELSE sweep[q].result]]
    /\ Untouched

ThreadStep(q) ==
    \/ Replays(q) \/ Skips(q) \/ Checks(q) \/ EmitRow(q) \/ Search(q)
    \/ Reads(q) \/ Completes(q) \/ (\E why : Ends(q, why)) \/ Settles(q)

\* Every step of a sweep is one of them.
LEMMA StepsOfThreads ==
    ASSUME SweepTypeOK, SweepStep \/ SweepTrouble
    PROVE  \E q \in Queries : ThreadStep(q)
<1>1. ASSUME NEW q \in Queries, BeginSweep(q)
      PROVE  ThreadStep(q)
  <2>1. CASE Halted
    <3>1. Skips(q)
      BY <1>1, <2>1 DEF BeginSweep, Skips, Untouched
    <3> QED BY <3>1 DEF ThreadStep
  <2>2. CASE ~Halted
    <3>1. Replays(q)
      BY <1>1, <2>2 DEF BeginSweep, Replays, Untouched
    <3> QED BY <3>1 DEF ThreadStep
  <2> QED BY <2>1, <2>2
<1>2. ASSUME NEW q \in Queries, CheckRow(q)
      PROVE  ThreadStep(q)
  <2>1. CASE Halted
    <3>1. Ends(q, "stopped")
      BY <1>2, <2>1 DEF CheckRow, Ends, Sweeping, Spends, switches
    <3> QED BY <3>1 DEF ThreadStep
  <2>2. CASE ~Halted
    <3>1. Checks(q)
      BY <1>2, <2>2 DEF CheckRow, Checks, Sweeping, Untouched
    <3> QED BY <3>1 DEF ThreadStep
  <2> QED BY <2>1, <2>2
<1>3. ASSUME NEW q \in Queries, EmitRow(q) \/ Search(q)
      PROVE  ThreadStep(q)
  BY <1>3 DEF ThreadStep
<1>4. ASSUME NEW q \in Queries, StopSweep(q)
      PROVE  ThreadStep(q)
  <2>1. Ends(q, "stopped")
    BY <1>4 DEF StopSweep, Ends, Sweeping, Spends, switches
  <2> QED BY <2>1 DEF ThreadStep
<1>5. ASSUME NEW q \in Queries, ReadPage(q)
      PROVE  ThreadStep(q)
  <2> DEFINE s == sweep[q]
             n == Len(pages[q]) + 1
             rows == IF n = 1 THEN s.first.rows ELSE RowsOn(q, n)
  <2>1. CASE Len(rows) = Expected(s.first.total, n) /\ ToSet(rows) \cap ToSet(Captured(q)) = {}
    <3>1. Reads(q)
      BY <1>5, <2>1 DEF ReadPage, Reads, Sweeping
    <3> QED BY <3>1 DEF ThreadStep
  <2>2. CASE ~(Len(rows) = Expected(s.first.total, n) /\ ToSet(rows) \cap ToSet(Captured(q)) = {})
    <3>1. Ends(q, "error")
      BY <1>5, <2>2 DEF ReadPage, Ends, Sweeping, Spends, switches, cache
    <3> QED BY <3>1 DEF ThreadStep
  <2> QED BY <2>1, <2>2
<1>6. ASSUME NEW q \in Queries, CountDiffers(q)
      PROVE  ThreadStep(q)
  <2>1. Ends(q, "error")
    BY <1>6 DEF CountDiffers, Ends, Asking, Sweeping, Spends, switches
  <2> QED BY <2>1 DEF ThreadStep
<1>7. ASSUME NEW q \in Queries, Verify(q)
      PROVE  ThreadStep(q)
  <2>1. child = "sweeping" /\ sweep[q].at = "read"
    BY <1>7 DEF Verify, AllRead, Asking, Sweeping
  <2>2. CASE FirstPage(q) = sweep[q].first
    <3>1. Completes(q)
      BY <1>7, <2>1, <2>2 DEF Verify, Completes
    <3> QED BY <3>1 DEF ThreadStep
  <2>3. CASE FirstPage(q) # sweep[q].first
    <3>1. Ends(q, "changed")
      BY <1>7, <2>1, <2>3 DEF Verify, Ends, Spends, switches, cache
    <3> QED BY <3>1 DEF ThreadStep
  <2> QED BY <2>2, <2>3
<1>8. ASSUME NEW q \in Queries, TurnedAway(q)
      PROVE  ThreadStep(q)
  <2>1. Ends(q, "denied")
    BY <1>8 DEF TurnedAway, Ends, Asking, Sweeping, Spends, SweepTypeOK
  <2> QED BY <2>1 DEF ThreadStep
<1>9. ASSUME NEW q \in Queries, Repeat(q)
      PROVE  ThreadStep(q)
  <2>1. sweep[q].repeats + 1 \in Nat
    BY DEF SweepTypeOK, Thread
  <2>2. Replays(q)
    BY <1>9, <2>1 DEF Repeat, Replays, Sweeping, Untouched, Unstable
  <2> QED BY <2>2 DEF ThreadStep
<1>10. ASSUME NEW q \in Queries, Settle(q)
       PROVE  ThreadStep(q)
  <2>1. Settles(q)
    BY <1>10 DEF Settle, Settles, Sweeping, Untouched
  <2> QED BY <2>1 DEF ThreadStep
<1>11. ASSUME NEW q \in Queries, Denied(q)
       PROVE  ThreadStep(q)
  <2>1. Ends(q, "denied")
    BY <1>11 DEF Denied, Ends, Asking, Sweeping, Spends, Cost, SweepTypeOK
  <2> QED BY <2>1 DEF ThreadStep
<1>12. ASSUME NEW q \in Queries, Outage(q)
       PROVE  ThreadStep(q)
  <2>1. Ends(q, "outage")
    BY <1>12 DEF Outage, Ends, Asking, Sweeping, Spends, Cost, SweepTypeOK
  <2> QED BY <2>1 DEF ThreadStep
<1>13. ASSUME NEW q \in Queries, Error(q)
       PROVE  ThreadStep(q)
  <2>1. Ends(q, "error")
    BY <1>13 DEF Error, Ends, Asking, Sweeping, Spends, Cost, switches
  <2> QED BY <2>1 DEF ThreadStep
<1> QED
  BY <1>1, <1>2, <1>3, <1>4, <1>5, <1>6, <1>7, <1>8, <1>9, <1>10, <1>11, <1>12, <1>13
  DEF SweepStep, SweepTrouble

\* What the world may spend leaves the cycles alone.
LEMMA SpendsKeep ==
    ASSUME SweepTypeOK, Spends
    PROVE  left' \in [{"cycles"} \cup Cost -> Nat] /\ left'.cycles = left.cycles
<1>1. CASE UNCHANGED left
  BY <1>1 DEF SweepTypeOK
<1>2. ASSUME NEW what \in Cost, Spend(what)
      PROVE  left' \in [{"cycles"} \cup Cost -> Nat] /\ left'.cycles = left.cycles
  BY <1>2 DEF Spend, SweepTypeOK, Cost
<1> QED BY <1>1, <1>2 DEF Spends

\* The record of one thread changes.
LEMMA OneThread ==
    ASSUME SweepTypeOK, NEW q \in Queries, NEW t \in Thread, sweep' = [sweep EXCEPT ![q] = t]
    PROVE  /\ sweep' \in [Queries -> Thread] /\ sweep'[q] = t
           /\ \A p \in Queries : p # q => sweep'[p] = sweep[p]
BY DEF SweepTypeOK

-----------------------------------------------------------------------------
(* The steps of a thread keep the invariant of the sweeps                  *)

LEMMA CapturedAreIds ==
    ASSUME SweepTypeOK, NEW q \in Queries
    PROVE  Captured(q) \in Seq(Ids) /\ ToSet(Captured(q)) \subseteq Ids
<1>1. pages[q] \in Seq(Page)
  BY DEF SweepTypeOK
<1>2. Captured(q) \in Seq(Ids)
  BY <1>1, JoinedRows, CapturedIsJoined
<1>3. \A s \in Seq(Ids) : ToSet(s) \subseteq Ids
  BY DEF ToSet
<1> QED BY <1>2, <1>3

\* Whatever happens elsewhere leaves a query as it is.
LEMMA QueryKept ==
    ASSUME SweepTypeOK, NEW q \in Queries, QueryOK(q), added' \in Nat,
           sweep'[q] = sweep[q], pages'[q] = pages[q], listing'[q] = listing[q],
           steady'[q] = steady[q], changes'[q] = changes[q], q \in complete' <=> q \in complete,
           \A id \in Ids : staged[id] # "none" => staged'[id] # "none",
           added <= added',
           child' \in {"consuming", "ended"} => sweep[q].at = "over"
    PROVE  QueryOK(q)'
<1>1. Captured(q)' = Captured(q)
  BY CapturedIsJoined
<1>2. Offered(q) => Offered(q)'
  BY <1>1, CapturedAreIds DEF Offered
<1>3. OfferedSoFar(q) => OfferedSoFar(q)'
  <2>1. added' < MaxCandidates => added < MaxCandidates
    BY SizeIsNumber DEF SweepTypeOK
  <2> QED BY <1>1, <2>1, CapturedAreIds DEF OfferedSoFar
<1>4. ThreadAgrees(q)'
  BY <1>3 DEF QueryOK, ThreadAgrees, Working
<1>5. ResultAgrees(q)'
  BY <1>2 DEF QueryOK, ResultAgrees
<1>6. PagesAgree(q)'
  <2>1. FirstPage(q)' = FirstPage(q) /\ \A n : RowsOn(q, n)' = RowsOn(q, n)
    BY DEF FirstPage, RowsOn
  <2> QED BY <2>1 DEF QueryOK, PagesAgree, Session, Total
<1>7. PassAgrees(q)'
  BY <1>1 DEF QueryOK, PassAgrees
<1> QED BY <1>4, <1>5, <1>6, <1>7 DEF QueryOK

\* A step of one thread leaves the other queries alone.
LEMMA OneQuery ==
    ASSUME SweepInv, SweepTypeOK', NEW q \in Queries, QueryOK(q)',
           \A p \in Queries : p # q =>
             /\ sweep'[p] = sweep[p] /\ pages'[p] = pages[p] /\ listing'[p] = listing[p]
             /\ steady'[p] = steady[p] /\ changes'[p] = changes[p]
             /\ p \in complete' <=> p \in complete,
           \A id \in Ids : staged[id] # "none" => staged'[id] # "none",
           added <= added', child' = "sweeping"
    PROVE  SweepInv'
<1>1. ASSUME NEW p \in Queries, p # q PROVE QueryOK(p)'
  <2>1. SweepTypeOK /\ QueryOK(p) /\ added' \in Nat
    BY DEF SweepInv, SweepTypeOK
  <2> QED BY <1>1, <2>1, QueryKept
<1> QED BY <1>1 DEF SweepInv

\* A step that changes nothing but the record of the thread.
LEMMA OnlyThread ==
    ASSUME SweepInv, NEW q \in Queries, NEW t \in Thread, sweep' = [sweep EXCEPT ![q] = t],
           UNCHANGED <<source, cache, queue, child>>, child = "sweeping",
           stop' \in BOOLEAN, egress' \in BOOLEAN, block' \in BOOLEAN, Spends,
           ThreadAgrees(q)', ResultAgrees(q)',
           \/ t.first = NoPage /\ t.at # "read"
           \/ t.first = sweep[q].first /\ t.at = "emit" /\ sweep[q].at = "offer"
    PROVE  SweepInv'
<1>0. SweepTypeOK /\ QueryOK(q)
  BY DEF SweepInv
<1>1. /\ sweep' \in [Queries -> Thread] /\ sweep'[q] = t
      /\ \A p \in Queries : p # q => sweep'[p] = sweep[p]
  BY <1>0, OneThread
<1>2. left' \in [{"cycles"} \cup Cost -> Nat]
  BY <1>0, SpendsKeep
<1>3. SweepTypeOK'
  BY <1>0, <1>1, <1>2 DEF SweepTypeOK, source, cache, queue
<1>4. PagesAgree(q)'
  <2>1. FirstPage(q)' = FirstPage(q) /\ \A m : RowsOn(q, m)' = RowsOn(q, m)
    BY DEF FirstPage, RowsOn, source
  <2> QED BY <1>0, <1>1, <2>1 DEF PagesAgree, Session, Total, source, cache, QueryOK
<1>5. PassAgrees(q)'
  <2>1. Captured(q)' = Captured(q)
    BY CapturedIsJoined DEF cache
  <2> QED BY <1>0, <2>1 DEF PassAgrees, QueryOK, source, cache
<1>6. QueryOK(q)'
  BY <1>4, <1>5 DEF QueryOK
<1>7. added \in Nat /\ added' = added /\ staged' = staged /\ child' = "sweeping"
  BY <1>0 DEF SweepTypeOK, queue
<1>8. added <= added'
  BY <1>7
<1> QED BY <1>1, <1>3, <1>6, <1>7, <1>8, OneQuery DEF source, cache

LEMMA GoesTo ==
    ASSUME NEW q, NEW s
    PROVE  /\ s.rest # <<>> => AfterRows(q, s) = "offer"
           /\ s.rest = <<>> /\ q \in complete => AfterRows(q, s) = "settle"
           /\ s.rest = <<>> /\ q \notin complete /\ s.first = NoPage => AfterRows(q, s) = "search"
           /\ s.rest = <<>> /\ q \notin complete /\ s.first # NoPage => AfterRows(q, s) = "read"
BY DEF AfterRows

LEMMA NoPageIsPage == NoPage \in Page /\ NoPage.total = -1 /\ <<>> \in Seq(Ids)
BY DEF NoPage, Page

LEMMA UnstartedIsThread ==
    /\ Unstarted \in Thread /\ Unstarted.at = "waiting" /\ Unstarted.rest = <<>>
    /\ Unstarted.first = NoPage /\ Unstarted.result = "none"
BY NoPageIsPage DEF Unstarted, Thread

LEMMA ReplaysKeep ==
    ASSUME SweepInv, NEW q \in Queries, Replays(q)
    PROVE  SweepInv'
<1> USE DEF SweepInv
<1>1. PICK n \in Nat : Replay(q, n)
  BY DEF Replays
<1> DEFINE s == [Unstarted EXCEPT !.rest = Captured(q), !.repeats = n, !.result = "complete"]
           t == [s EXCEPT !.at = AfterRows(q, s)]
<1>2. /\ s \in Thread /\ s.rest = Captured(q) /\ s.first = NoPage /\ s.repeats = n
      /\ s.result = "complete"
  BY UnstartedIsThread, CapturedAreIds DEF Thread
<1>3. sweep' = [sweep EXCEPT ![q] = t]
  BY <1>1 DEF Replay, Go
<1> HIDE DEF s
<1>4. /\ Captured(q) # <<>> => AfterRows(q, s) = "offer"
      /\ Captured(q) = <<>> /\ q \in complete => AfterRows(q, s) = "settle"
      /\ Captured(q) = <<>> /\ q \notin complete => AfterRows(q, s) = "search"
  BY <1>2, GoesTo
<1>5. AfterRows(q, s) \in {"offer", "settle", "search"}
  BY <1>4
<1>6. /\ t \in Thread /\ t.at = AfterRows(q, s) /\ t.rest = Captured(q) /\ t.first = NoPage
      /\ t.result = "complete"
  BY <1>2, <1>5 DEF Thread
<1> HIDE DEF t
<1>7. /\ sweep' \in [Queries -> Thread] /\ sweep'[q] = t
      /\ \A p \in Queries : p # q => sweep'[p] = sweep[p]
  BY <1>3, <1>6, OneThread
<1>8. child' = "sweeping" /\ child = "sweeping" /\ UNCHANGED <<source, cache, queue, switches, left>>
  BY DEF Replays, Untouched
<1>9. /\ Captured(q)' = Captured(q)
      /\ Captured(q) = <<>> => ToSet(Captured(q)) = {}
  BY <1>8, CapturedIsJoined, JoinedNone DEF cache
<1>10. ThreadAgrees(q)'
  BY <1>4, <1>6, <1>7, <1>8, <1>9 DEF ThreadAgrees, Working, OfferedSoFar, cache
<1>11. ResultAgrees(q)'
  BY <1>4, <1>6, <1>7, <1>8, <1>9 DEF ResultAgrees, Offered, cache, queue, QueryOK
<1>12. /\ UNCHANGED <<source, cache, queue, child>> /\ Spends /\ t.at # "read"
       /\ stop' \in BOOLEAN /\ egress' \in BOOLEAN /\ block' \in BOOLEAN
  BY <1>5, <1>6, <1>8 DEF Spends, switches, SweepTypeOK
<1> QED BY <1>3, <1>6, <1>8, <1>10, <1>11, <1>12, OnlyThread

LEMMA SkipsKeep ==
    ASSUME SweepInv, NEW q \in Queries, Skips(q)
    PROVE  SweepInv'
<1>0. SweepTypeOK /\ QueryOK(q) /\ sweep[q] \in Thread
  BY DEF SweepInv, SweepTypeOK
<1> DEFINE t == [sweep[q] EXCEPT !.at = "over", !.result = "stopped"]
<1>1. /\ t \in Thread /\ t.at = "over" /\ t.result = "stopped" /\ t.first = sweep[q].first
  BY <1>0 DEF Thread
<1>2. sweep' = [sweep EXCEPT ![q] = t]
  BY <1>0 DEF Skips, SweepTypeOK
<1>3. sweep[q].first = NoPage
  BY <1>0 DEF QueryOK, PagesAgree, Session, Skips
<1> HIDE DEF t
<1>4. sweep'[q] = t
  BY <1>0, <1>1, <1>2, OneThread
<1>5. child = "sweeping" /\ child' = child /\ UNCHANGED <<source, cache, queue, switches, left>>
  BY DEF Skips, Untouched
<1>6. ThreadAgrees(q)'
  BY <1>1, <1>4 DEF ThreadAgrees, Working
<1>7. ResultAgrees(q)'
  <2>1. Captured(q)' = Captured(q)
    BY <1>5, CapturedIsJoined DEF cache
  <2> QED BY <1>0, <1>1, <1>4, <1>5, <2>1 DEF ResultAgrees, Offered, cache, queue, QueryOK
<1>8. /\ UNCHANGED <<source, cache, queue, child>> /\ Spends
      /\ stop' \in BOOLEAN /\ egress' \in BOOLEAN /\ block' \in BOOLEAN
  BY <1>0, <1>5 DEF Spends, switches, SweepTypeOK
<1>9. t.first = NoPage /\ t.at # "read"
  BY <1>1, <1>3
<1> QED BY <1>1, <1>2, <1>5, <1>6, <1>7, <1>8, <1>9, OnlyThread

LEMMA ChecksKeep ==
    ASSUME SweepInv, NEW q \in Queries, Checks(q)
    PROVE  SweepInv'
<1>0. SweepTypeOK /\ QueryOK(q) /\ sweep[q] \in Thread
  BY DEF SweepInv, SweepTypeOK
<1> DEFINE t == [sweep[q] EXCEPT !.at = "emit"]
<1>1. /\ t \in Thread /\ t.at = "emit" /\ t.result = sweep[q].result
      /\ t.first = sweep[q].first /\ t.rest = sweep[q].rest
  BY <1>0 DEF Thread
<1>2. sweep' = [sweep EXCEPT ![q] = t]
  BY <1>0 DEF Checks, SweepTypeOK
<1> HIDE DEF t
<1>4. sweep'[q] = t /\ sweep[q].at = "offer"
  BY <1>0, <1>1, <1>2, OneThread DEF Checks
<1>5. child = "sweeping" /\ child' = child /\ UNCHANGED <<source, cache, queue, switches, left>>
  BY DEF Checks, Untouched
<1>6. Captured(q)' = Captured(q)
  BY <1>5, CapturedIsJoined DEF cache
<1>7. ThreadAgrees(q)'
  BY <1>0, <1>1, <1>4, <1>5, <1>6
  DEF ThreadAgrees, Working, OfferedSoFar, QueryOK, queue, cache
<1>8. ResultAgrees(q)'
  BY <1>0, <1>1, <1>4, <1>5, <1>6 DEF ResultAgrees, Offered, cache, queue, QueryOK
<1>9. /\ UNCHANGED <<source, cache, queue, child>> /\ Spends
      /\ stop' \in BOOLEAN /\ egress' \in BOOLEAN /\ block' \in BOOLEAN
  BY <1>0, <1>5 DEF Spends, switches, SweepTypeOK
<1> QED BY <1>1, <1>2, <1>4, <1>5, <1>7, <1>8, <1>9, OnlyThread

\* What End makes of the record.
LEMMA Ended ==
    ASSUME SweepTypeOK, NEW q \in Queries,
           NEW why \in {"stopped", "error", "changed", "denied", "outage", "complete"},
           End(q, why)
    PROVE  \E t \in Thread : /\ sweep' = [sweep EXCEPT ![q] = t]
                             /\ t.at = "settle" /\ t.rest = <<>> /\ t.first = NoPage /\ t.result = why
<1> DEFINE t == [Unstarted EXCEPT !.at = "settle", !.repeats = sweep[q].repeats, !.result = why]
<1>1. sweep[q].repeats \in Nat
  BY DEF SweepTypeOK, Thread
<1>2. t \in Thread /\ t.at = "settle" /\ t.rest = <<>> /\ t.first = NoPage /\ t.result = why
  BY <1>1, UnstartedIsThread DEF Thread
<1> QED BY <1>2 DEF End

LEMMA EndsKeep ==
    ASSUME SweepInv, NEW q \in Queries, NEW why, Ends(q, why)
    PROVE  SweepInv'
<1>0. SweepTypeOK /\ QueryOK(q) /\ sweep[q] \in Thread
  BY DEF SweepInv, SweepTypeOK
<1>1. /\ child = "sweeping" /\ UNCHANGED <<source, cache, queue, child>> /\ Spends
      /\ why \in {"stopped", "error", "changed", "denied", "outage"} /\ End(q, why)
      /\ why = "changed" => sweep[q].at = "read" /\ ~Halted
      /\ stop' \in BOOLEAN /\ egress' \in BOOLEAN /\ block' \in BOOLEAN
  BY <1>0 DEF Ends, SweepTypeOK
<1>2. PICK t \in Thread : /\ sweep' = [sweep EXCEPT ![q] = t]
                          /\ t.at = "settle" /\ t.rest = <<>> /\ t.first = NoPage /\ t.result = why
  BY <1>0, <1>1, Ended
<1>3. sweep'[q] = t
  BY <1>0, <1>2, OneThread
<1>4. Captured(q)' = Captured(q)
  BY <1>1, CapturedIsJoined DEF cache
<1>5. ThreadAgrees(q)'
  BY <1>2, <1>3 DEF ThreadAgrees, Working
<1>6. ResultAgrees(q)'
  <2>1. why = "changed" => Offered(q)
    <3>1. ASSUME why = "changed" PROVE Offered(q)
      <4>1. sweep[q].rest = <<>> /\ OfferedSoFar(q) /\ added < MaxCandidates
        BY <1>0, <1>1, <3>1, SizeIsNumber DEF QueryOK, ThreadAgrees, Working, Halted, SweepTypeOK
      <4> QED BY <4>1, JoinedNone DEF OfferedSoFar, Offered
    <3> QED BY <3>1
  <2> QED BY <1>0, <1>1, <1>2, <1>3, <1>4, <2>1 DEF ResultAgrees, Offered, cache, queue, QueryOK
<1> QED BY <1>1, <1>2, <1>5, <1>6, OnlyThread

LEMMA SettlesKeep ==
    ASSUME SweepInv, NEW q \in Queries, Settles(q)
    PROVE  SweepInv'
<1>0. SweepTypeOK /\ QueryOK(q) /\ sweep[q] \in Thread
  BY DEF SweepInv, SweepTypeOK
<1>1. PICK r : r = IF Unstable(q) /\ ~stop THEN "tolerated" ELSE sweep[q].result
  OBVIOUS
<1> DEFINE t == [Unstarted EXCEPT !.at = "over", !.result = r]
<1>2. t \in Thread /\ t.at = "over" /\ t.first = NoPage /\ t.result = r
  <2>1. r \in {"none", "complete", "stopped", "error", "changed", "denied", "outage", "tolerated"}
    BY <1>0, <1>1 DEF Thread
  <2> QED BY <2>1, UnstartedIsThread DEF Thread
<1>3. sweep' = [sweep EXCEPT ![q] = t] /\ sweep[q].at = "settle"
  BY <1>1 DEF Settles
<1> HIDE DEF t
<1>4. sweep'[q] = t
  BY <1>0, <1>2, <1>3, OneThread
<1>5. child = "sweeping" /\ child' = child /\ UNCHANGED <<source, cache, queue, switches, left>>
  BY DEF Settles, Untouched
<1>6. Captured(q)' = Captured(q)
  BY <1>5, CapturedIsJoined DEF cache
<1>7. ThreadAgrees(q)'
  BY <1>2, <1>4 DEF ThreadAgrees, Working
<1>8. ResultAgrees(q)'
  BY <1>0, <1>1, <1>2, <1>3, <1>4, <1>5, <1>6
  DEF ResultAgrees, Offered, cache, queue, QueryOK, Unstable
<1>9. /\ UNCHANGED <<source, cache, queue, child>> /\ Spends
      /\ stop' \in BOOLEAN /\ egress' \in BOOLEAN /\ block' \in BOOLEAN
  BY <1>0, <1>5 DEF Spends, switches, SweepTypeOK
<1> QED BY <1>2, <1>3, <1>5, <1>7, <1>8, <1>9, OnlyThread

LEMMA EmitRowKeeps ==
    ASSUME SweepInv, NEW q \in Queries, EmitRow(q)
    PROVE  SweepInv'
<1>0. SweepTypeOK /\ QueryOK(q) /\ sweep[q] \in Thread
  BY DEF SweepInv, SweepTypeOK
<1> DEFINE s == [sweep[q] EXCEPT !.rest = Tail(@)]
           t == [s EXCEPT !.at = AfterRows(q, s)]
           id == Head(sweep[q].rest)
<1>1. child = "sweeping" /\ sweep[q].at = "emit"
  BY DEF EmitRow, Sweeping
<1>2. sweep[q].rest \in Seq(Ids) /\ sweep[q].rest # <<>> /\ sweep[q].result = "complete" /\ OfferedSoFar(q)
  BY <1>0, <1>1 DEF QueryOK, ThreadAgrees, Working, Thread
<1>3. /\ id \in Ids /\ Tail(sweep[q].rest) \in Seq(Ids)
      /\ ToSet(sweep[q].rest) \subseteq {id} \cup ToSet(Tail(sweep[q].rest))
  <2>1. PICK r \in Seq(Ids) : r = sweep[q].rest
    BY <1>2
  <2>2. r # <<>>
    BY <1>2, <2>1
  <2>3. Head(r) \in Ids /\ Tail(r) \in Seq(Ids)
    BY <2>2
  <2>4. /\ Len(r) \in Nat /\ Head(r) = r[1] /\ DOMAIN r = 1..Len(r) /\ Len(Tail(r)) = Len(r) - 1
        /\ DOMAIN Tail(r) = 1..Len(Tail(r)) /\ \A i \in 1..Len(Tail(r)) : Tail(r)[i] = r[i + 1]
    BY <2>2
  <2>5. ASSUME NEW i \in 1..Len(r), i # 1
        PROVE  r[i] \in ToSet(Tail(r))
    <3>1. i - 1 \in 1..Len(Tail(r)) /\ r[i] = Tail(r)[i - 1]
      BY <2>4, <2>5
    <3> QED BY <2>4, <3>1 DEF ToSet
  <2>6. \A x \in ToSet(r) : \E i \in 1..Len(r) : x = r[i]
    BY <2>4 DEF ToSet
  <2>7. ToSet(r) \subseteq {Head(r)} \cup ToSet(Tail(r))
    BY <2>4, <2>5, <2>6
  <2> QED BY <2>1, <2>3, <2>7
<1>4. /\ s \in Thread /\ s.rest = Tail(sweep[q].rest) /\ s.first = sweep[q].first
      /\ s.result = "complete"
  BY <1>0, <1>2, <1>3 DEF Thread
<1>5. /\ sweep' = [sweep EXCEPT ![q] = t]
      /\ IF added < MaxCandidates /\ staged[id] = "none"
         THEN staged' = [staged EXCEPT ![id] = "queued"] /\ added' = added + 1
         ELSE UNCHANGED queue
      /\ UNCHANGED <<source, cache, child, switches, left>>
  BY DEF EmitRow, Go
<1> HIDE DEF s
<1>6. /\ s.rest # <<>> => AfterRows(q, s) = "offer"
      /\ s.rest = <<>> /\ q \in complete => AfterRows(q, s) = "settle"
      /\ s.rest = <<>> /\ q \notin complete /\ s.first = NoPage => AfterRows(q, s) = "search"
      /\ s.rest = <<>> /\ q \notin complete /\ s.first # NoPage => AfterRows(q, s) = "read"
  BY GoesTo
<1>7. AfterRows(q, s) \in {"offer", "settle", "search", "read"}
  BY <1>6
<1>8. /\ t \in Thread /\ t.at = AfterRows(q, s) /\ t.rest = Tail(sweep[q].rest)
      /\ t.first = sweep[q].first /\ t.result = "complete"
  BY <1>4, <1>7 DEF Thread
<1> HIDE DEF t, id
<1>9. /\ sweep' \in [Queries -> Thread] /\ sweep'[q] = t
      /\ \A p \in Queries : p # q => sweep'[p] = sweep[p]
  BY <1>0, <1>5, <1>8, OneThread
<1>10. /\ staged' \in [Ids -> {"none", "queued", "pending", "done"}]
       /\ added' \in Nat /\ added \in Nat /\ added <= added'
       /\ \A i \in Ids : staged[i] # "none" => staged'[i] # "none"
       /\ added < MaxCandidates => staged'[id] # "none"
  <2>1. /\ staged \in [Ids -> {"none", "queued", "pending", "done"}] /\ added \in Nat
        /\ id \in Ids /\ MaxCandidates \in Nat
    BY <1>0, <1>3, SizeIsNumber DEF SweepTypeOK, id
  <2>2. CASE added < MaxCandidates /\ staged[id] = "none"
    <3>1. staged' = [staged EXCEPT ![id] = "queued"] /\ added' = added + 1
      BY <1>5, <2>2
    <3> QED BY <2>1, <3>1
  <2>3. CASE ~(added < MaxCandidates /\ staged[id] = "none")
    <3>1. staged' = staged /\ added' = added
      BY <1>5, <2>3 DEF queue
    <3> QED BY <2>1, <2>3, <3>1
  <2> QED BY <2>2, <2>3
<1>11. SweepTypeOK'
  BY <1>0, <1>5, <1>9, <1>10 DEF SweepTypeOK, source, cache, switches
<1>12. Captured(q)' = Captured(q) /\ ToSet(Captured(q)) \subseteq Ids
  BY <1>0, <1>5, CapturedIsJoined, CapturedAreIds DEF cache
<1>13. OfferedSoFar(q)'
  <2>1. added' < MaxCandidates => added < MaxCandidates
    BY <1>10, SizeIsNumber
  <2> QED BY <1>2, <1>3, <1>8, <1>9, <1>10, <1>12, <2>1 DEF OfferedSoFar
<1>14. ThreadAgrees(q)'
  <2>1. complete' = complete
    BY <1>5 DEF cache
  <2> QED BY <1>4, <1>6, <1>8, <1>9, <1>13, <2>1 DEF ThreadAgrees, Working
<1>15. ResultAgrees(q)'
  <2>1. complete' = complete /\ child' = "sweeping"
    BY <1>1, <1>5 DEF cache
  <2>2. Offered(q) => Offered(q)'
    BY <1>10, <1>12 DEF Offered
  <2>3. q \in complete => Offered(q)
    BY <1>0 DEF QueryOK, ResultAgrees
  <2> QED BY <1>4, <1>6, <1>8, <1>9, <2>1, <2>2, <2>3 DEF ResultAgrees
<1>16. PagesAgree(q)'
  <2>1. FirstPage(q)' = FirstPage(q) /\ \A m : RowsOn(q, m)' = RowsOn(q, m)
    BY <1>5 DEF FirstPage, RowsOn, source
  <2>2. UNCHANGED <<listing, steady, changes, pages, complete>>
    BY <1>5 DEF source, cache
  <2>3. PagesAgree(q)
    BY <1>0 DEF QueryOK
  <2>4. /\ t.at = "read" => t.first # NoPage
        /\ t.first # NoPage => q \notin complete /\ t.at \in {"offer", "emit", "read"}
    BY <1>4, <1>6, <1>8, <2>3 DEF PagesAgree, Session
  <2> QED BY <1>8, <1>9, <2>1, <2>2, <2>3, <2>4 DEF PagesAgree, Session, Total
<1>17. PassAgrees(q)'
  BY <1>0, <1>5, <1>12 DEF PassAgrees, QueryOK, source, cache
<1>18. QueryOK(q)'
  BY <1>14, <1>15, <1>16, <1>17 DEF QueryOK
<1> QED BY <1>1, <1>5, <1>9, <1>10, <1>11, <1>18, OneQuery DEF source, cache

LEMMA FirstPageIsPage ==
    ASSUME SweepTypeOK, NEW q \in Queries
    PROVE  /\ FirstPage(q) \in Page /\ FirstPage(q) # NoPage
           /\ FirstPage(q).total = Len(listing[q]) /\ FirstPage(q).rows = RowsOn(q, 1)
           /\ Len(listing[q]) \in Nat
<1>1. listing[q] \in Seq(Ids) /\ Len(listing[q]) \in Nat
  BY DEF SweepTypeOK
<1>2. RowsOn(q, 1) \in Seq(Ids)
  BY <1>1, RowsAreIds
<1> QED BY <1>1, <1>2, NoPageIsPage DEF FirstPage, Page

LEMMA SearchKeeps ==
    ASSUME SweepInv, NEW q \in Queries, Search(q)
    PROVE  SweepInv'
<1>0. SweepTypeOK /\ QueryOK(q) /\ sweep[q] \in Thread
  BY DEF SweepInv, SweepTypeOK
<1> DEFINE t == [sweep[q] EXCEPT !.at = "read", !.first = FirstPage(q)]
<1>1. /\ child = "sweeping" /\ sweep[q].at = "search"
      /\ sweep' = [sweep EXCEPT ![q].at = "read", ![q].first = FirstPage(q)]
      /\ UNCHANGED <<listing, complete, queue, child, switches, left>>
  BY DEF Search, Asking, Sweeping
<1>2. /\ t \in Thread /\ t.at = "read" /\ t.first = FirstPage(q)
      /\ t.rest = sweep[q].rest /\ t.result = sweep[q].result
  BY <1>0, FirstPageIsPage DEF Thread
<1>3. sweep' = [sweep EXCEPT ![q] = t]
  BY <1>0, <1>1 DEF SweepTypeOK
<1> HIDE DEF t
<1>4. /\ sweep' \in [Queries -> Thread] /\ sweep'[q] = t
      /\ \A p \in Queries : p # q => sweep'[p] = sweep[p]
  BY <1>0, <1>2, <1>3, OneThread
<1>5. added \in Nat /\ added' = added /\ staged' = staged /\ child' = "sweeping" /\ added <= added'
  BY <1>0, <1>1 DEF SweepTypeOK, queue
<1>6. /\ sweep[q].result = "complete" /\ sweep[q].rest = <<>> /\ q \notin complete /\ OfferedSoFar(q)
  BY <1>0, <1>1 DEF QueryOK, ThreadAgrees, Working
<1>7. FirstPage(q)' = FirstPage(q) /\ \A m : RowsOn(q, m)' = RowsOn(q, m)
  BY <1>1 DEF FirstPage, RowsOn
<1>8. CASE pages[q] # <<>> /\ pages[q][1] = FirstPage(q)
  <2>1. UNCHANGED <<pages, steady, changes>>
    BY <1>8 DEF Search
  <2>2. Captured(q)' = Captured(q)
    BY <2>1, CapturedIsJoined
  <2>3. SweepTypeOK'
    BY <1>0, <1>1, <1>4, <2>1 DEF SweepTypeOK, queue, switches
  <2>4. ThreadAgrees(q)'
    BY <1>1, <1>2, <1>4, <1>5, <1>6, <2>2 DEF ThreadAgrees, Working, OfferedSoFar
  <2>5. ResultAgrees(q)'
    BY <1>1, <1>2, <1>4, <1>5, <1>6 DEF ResultAgrees
  <2>6. PagesAgree(q)'
    <3>1. PagesAgree(q) /\ Total(q) = Len(listing[q])
      BY <1>0, <1>8, FirstPageIsPage DEF QueryOK, Total
    <3>2. changes[q] # 1
      BY <1>8, <3>1 DEF PagesAgree
    <3> QED BY <1>0, <1>1, <1>2, <1>4, <1>6, <1>7, <1>8, <2>1, <3>1, <3>2, FirstPageIsPage
            DEF PagesAgree, Session, Total
  <2>7. PassAgrees(q)'
    BY <1>1, <1>6 DEF PassAgrees
  <2>8. QueryOK(q)'
    BY <2>4, <2>5, <2>6, <2>7 DEF QueryOK
  <2> QED BY <1>1, <1>4, <1>5, <2>1, <2>3, <2>8, OneQuery
<1>9. CASE ~(pages[q] # <<>> /\ pages[q][1] = FirstPage(q))
  <2>1. /\ pages' = [pages EXCEPT ![q] = <<>>]
        /\ steady' = [steady EXCEPT ![q] = ToSet(listing[q])]
        /\ changes' = [changes EXCEPT ![q] = 0]
    BY <1>9 DEF Search
  <2>2. ToSet(listing[q]) \subseteq Ids
    <3>1. \A s \in Seq(Ids) : ToSet(s) \subseteq Ids
      BY DEF ToSet
    <3> QED BY <1>0, <3>1 DEF SweepTypeOK
  <2>3. SweepTypeOK'
    <3>1. pages' \in [Queries -> Seq(Page)] /\ steady' \in [Queries -> SUBSET Ids]
          /\ changes' \in [Queries -> 0..2]
      BY <1>0, <2>1, <2>2, JoinedNone DEF SweepTypeOK
    <3> QED BY <1>0, <1>1, <1>4, <3>1 DEF SweepTypeOK, queue, switches
  <2>4. /\ pages'[q] = <<>> /\ steady'[q] = ToSet(listing[q]) /\ changes'[q] = 0
        /\ \A p \in Queries : p # q => /\ pages'[p] = pages[p] /\ steady'[p] = steady[p]
                                       /\ changes'[p] = changes[p]
    BY <1>0, <2>1 DEF SweepTypeOK
  <2>5. Captured(q)' = <<>> /\ ToSet(<<>>) = {}
    BY <2>4, CapturedIsJoined, JoinedNone
  <2>6. ThreadAgrees(q)'
    BY <1>1, <1>2, <1>4, <1>5, <1>6, <2>5 DEF ThreadAgrees, Working, OfferedSoFar
  <2>7. ResultAgrees(q)'
    BY <1>1, <1>2, <1>4, <1>5, <1>6 DEF ResultAgrees
  <2>8. PagesAgree(q)'
    BY <1>0, <1>1, <1>2, <1>4, <1>6, <1>7, <2>4, FirstPageIsPage DEF PagesAgree, Session, Total
  <2>9. PassAgrees(q)'
    BY <1>1, <1>6 DEF PassAgrees
  <2>10. QueryOK(q)'
    BY <2>6, <2>7, <2>8, <2>9 DEF QueryOK
  <2> QED BY <1>1, <1>4, <1>5, <2>3, <2>4, <2>10, OneQuery
<1> QED BY <1>8, <1>9

LEMMA ReadsKeep ==
    ASSUME SweepInv, NEW q \in Queries, Reads(q)
    PROVE  SweepInv'
<1>0. SweepTypeOK /\ QueryOK(q) /\ sweep[q] \in Thread /\ pages[q] \in Seq(Page)
  BY DEF SweepInv, SweepTypeOK
<1>1. PICK n : n = Len(pages[q]) + 1
  OBVIOUS
<1>2. PICK rows : rows = IF n = 1 THEN sweep[q].first.rows ELSE RowsOn(q, n)
  OBVIOUS
<1> DEFINE s == [sweep[q] EXCEPT !.rest = rows]
           t == [s EXCEPT !.at = AfterRows(q, s)]
           r == [total |-> sweep[q].first.total, rows |-> rows]
<1>3. /\ child = "sweeping" /\ sweep[q].at = "read" /\ sweep' = [sweep EXCEPT ![q] = t]
      /\ pages' = [pages EXCEPT ![q] = Append(pages[q], r)]
      /\ UNCHANGED <<source, complete, queue, child, switches, left>>
  BY <1>0, <1>1, <1>2 DEF Reads, Go, SweepTypeOK
<1>4. /\ sweep[q].result = "complete" /\ sweep[q].rest = <<>> /\ q \notin complete
      /\ OfferedSoFar(q) /\ PagesAgree(q) /\ Session(q) /\ sweep[q].first.total \in Nat
  BY <1>0, <1>3 DEF QueryOK, ThreadAgrees, Working, PagesAgree
<1>5. n \in Nat \ {0} /\ Len(pages[q]) \in Nat /\ (pages[q] = <<>> <=> n = 1)
  BY <1>0, <1>1
<1>6. rows \in Seq(Ids)
  <2>1. CASE n = 1
    BY <1>0, <1>2, <2>1 DEF Thread, Page
  <2>2. CASE n # 1
    <3>1. RowsOn(q, n) \in Seq(Ids)
      BY <1>0, <1>5, RowsAreIds DEF SweepTypeOK
    <3> QED BY <1>2, <2>2, <3>1
  <2> QED BY <2>1, <2>2
<1>7. /\ s \in Thread /\ s.rest = rows /\ s.first = sweep[q].first /\ s.result = "complete"
  BY <1>0, <1>4, <1>6 DEF Thread
<1> HIDE DEF s
<1>8. /\ s.rest # <<>> => AfterRows(q, s) = "offer"
      /\ s.rest = <<>> => AfterRows(q, s) = "read"
  BY <1>4, <1>7, GoesTo DEF Session
<1>9. /\ t \in Thread /\ t.at = AfterRows(q, s) /\ t.rest = rows
      /\ t.first = sweep[q].first /\ t.result = "complete"
  BY <1>7, <1>8 DEF Thread
<1>10. t.at \in {"offer", "read"} /\ (t.at = "read" => rows = <<>>) /\ (t.at = "offer" => rows # <<>>)
  BY <1>7, <1>8, <1>9
<1>11. r \in Page /\ r.rows = rows /\ r.total = sweep[q].first.total
  BY <1>4, <1>6 DEF Page
<1> HIDE DEF t, r
<1>12. /\ sweep' \in [Queries -> Thread] /\ sweep'[q] = t
       /\ \A p \in Queries : p # q => sweep'[p] = sweep[p]
  BY <1>0, <1>3, <1>9, OneThread
<1>13. /\ pages' \in [Queries -> Seq(Page)] /\ pages'[q] = Append(pages[q], r)
       /\ \A p \in Queries : p # q => pages'[p] = pages[p]
  <2>1. Append(pages[q], r) \in Seq(Page)
    BY <1>0, <1>11
  <2> QED BY <1>0, <1>3, <2>1 DEF SweepTypeOK
<1>14. SweepTypeOK'
  BY <1>0, <1>3, <1>12, <1>13 DEF SweepTypeOK, source, queue, switches
<1>15. /\ added \in Nat /\ added' = added /\ staged' = staged /\ child' = "sweeping" /\ added <= added'
       /\ complete' = complete
  BY <1>0, <1>3 DEF SweepTypeOK, queue
<1>16. ToSet(Captured(q)') = ToSet(Captured(q)) \cup ToSet(rows)
  <2>1. ToSet(Joined(Append(pages[q], r))) = ToSet(Joined(pages[q])) \cup ToSet(r.rows)
    BY <1>0, <1>11, JoinedAppend
  <2> QED BY <1>11, <1>13, <2>1, CapturedIsJoined
<1>17. OfferedSoFar(q)'
  BY <1>4, <1>9, <1>12, <1>15, <1>16, JoinedNone DEF OfferedSoFar
<1>18. ThreadAgrees(q)'
  BY <1>4, <1>9, <1>10, <1>12, <1>15, <1>17 DEF ThreadAgrees, Working
<1>19. ResultAgrees(q)'
  BY <1>4, <1>9, <1>10, <1>12, <1>15 DEF ResultAgrees
<1>20. FirstPage(q)' = FirstPage(q) /\ \A m : RowsOn(q, m)' = RowsOn(q, m)
  BY <1>3 DEF FirstPage, RowsOn, source
<1>21. PagesAgree(q)'
  <2>1. UNCHANGED <<listing, steady, changes>>
    BY <1>3 DEF source
  <2>2. /\ Len(pages'[q]) = n /\ pages'[q][n] = r /\ pages'[q] # <<>>
        /\ \A m \in 1..Len(pages[q]) : pages'[q][m] = pages[q][m]
    BY <1>0, <1>1, <1>11, <1>13
  <2>3. pages'[q][1].total = sweep[q].first.total
    <3>1. CASE n = 1
      BY <1>11, <2>2, <3>1
    <3>2. CASE n # 1
      <4>1. 1 \in 1..Len(pages[q]) /\ pages[q] # <<>>
        BY <1>1, <1>5, <3>2
      <4> QED BY <1>4, <2>2, <4>1 DEF PagesAgree, Total
    <3> QED BY <3>1, <3>2
  <2>4. ASSUME changes[q] = 0, NEW m \in 1..n
        PROVE  pages'[q][m].rows = RowsOn(q, m)
    <3>1. CASE m = n /\ n = 1
      <4>1. sweep[q].first = FirstPage(q)
        BY <1>4, <2>4 DEF PagesAgree
      <4>2. rows = RowsOn(q, 1)
        BY <1>0, <1>2, <3>1, <4>1, FirstPageIsPage
      <4> QED BY <1>11, <2>2, <3>1, <4>2
    <3>2. CASE m = n /\ n # 1
      BY <1>2, <1>11, <2>2, <3>2
    <3>3. CASE m # n
      <4>1. m \in 1..Len(pages[q]) /\ pages[q] # <<>>
        BY <1>1, <1>5, <2>4, <3>3
      <4> QED BY <1>4, <2>2, <2>4, <4>1 DEF PagesAgree
    <3> QED BY <3>1, <3>2, <3>3
  <2>5. changes[q] = 0 => sweep[q].first.total = Len(listing[q])
    BY <1>0, <1>4, FirstPageIsPage DEF PagesAgree
  <2>6. (\A m \in 1..Len(pages'[q]) : changes[q] = 0 => pages'[q][m].rows = RowsOn(q, m))
    BY <2>2, <2>4
  <2>7. sweep'[q].first = sweep[q].first /\ sweep'[q].at \in {"offer", "read"}
    BY <1>9, <1>10, <1>12
  <2> QED BY <1>4, <1>15, <1>20, <2>1, <2>2, <2>3, <2>5, <2>6, <2>7 DEF PagesAgree, Session, Total
<1>22. PassAgrees(q)'
  BY <1>4, <1>15 DEF PassAgrees
<1>23. QueryOK(q)'
  BY <1>18, <1>19, <1>21, <1>22 DEF QueryOK
<1> QED BY <1>3, <1>12, <1>13, <1>14, <1>15, <1>23, OneQuery DEF source

LEMMA CompletesKeep ==
    ASSUME SweepInv, NEW q \in Queries, Completes(q)
    PROVE  SweepInv'
<1>0. SweepTypeOK /\ QueryOK(q) /\ sweep[q] \in Thread /\ pages[q] \in Seq(Page)
  BY DEF SweepInv, SweepTypeOK
<1>1. /\ child = "sweeping" /\ sweep[q].at = "read" /\ pages[q] # <<>> /\ ~Halted
      /\ Len(pages[q]) = PageCount(sweep[q].first.total) /\ FirstPage(q) = sweep[q].first
      /\ complete' = complete \cup {q} /\ End(q, "complete")
      /\ UNCHANGED <<source, pages, queue, child, switches, left>>
  BY DEF Completes, AllRead, Asking
<1>2. PICK t \in Thread : /\ sweep' = [sweep EXCEPT ![q] = t] /\ t.at = "settle" /\ t.rest = <<>>
                          /\ t.first = NoPage /\ t.result = "complete"
  BY <1>0, <1>1, Ended
<1>3. /\ sweep' \in [Queries -> Thread] /\ sweep'[q] = t
      /\ \A p \in Queries : p # q => sweep'[p] = sweep[p]
  BY <1>0, <1>2, OneThread
<1>4. SweepTypeOK'
  BY <1>0, <1>1, <1>3 DEF SweepTypeOK, source, queue, switches
<1>5. Captured(q)' = Captured(q)
  BY <1>1, CapturedIsJoined
<1>6. /\ added \in Nat /\ added' = added /\ staged' = staged /\ child' = "sweeping" /\ added <= added'
      /\ added < MaxCandidates
  BY <1>0, <1>1, SizeIsNumber DEF SweepTypeOK, queue, Halted
<1>7. Offered(q)
  <2>1. sweep[q].rest = <<>> /\ OfferedSoFar(q)
    BY <1>0, <1>1 DEF QueryOK, ThreadAgrees, Working
  <2> QED BY <1>6, <2>1, JoinedNone DEF OfferedSoFar, Offered
<1>8. ThreadAgrees(q)'
  BY <1>2, <1>3 DEF ThreadAgrees, Working
<1>9. ResultAgrees(q)'
  <2>1. Offered(q)'
    BY <1>5, <1>6, <1>7 DEF Offered
  <2> QED BY <1>1, <1>2, <1>3, <1>6, <2>1 DEF ResultAgrees
<1>10. PagesAgree(q) /\ Session(q)
  BY <1>0, <1>1 DEF QueryOK, PagesAgree
<1>11. PagesAgree(q)'
  <2>1. FirstPage(q)' = FirstPage(q) /\ \A m : RowsOn(q, m)' = RowsOn(q, m)
    BY <1>1 DEF FirstPage, RowsOn, source
  <2> QED BY <1>1, <1>2, <1>3, <1>10, <2>1 DEF PagesAgree, Session, Total, source
<1>12. changes[q] <= 1 => steady[q] \subseteq ToSet(Captured(q))
  <2>1. SUFFICES ASSUME changes[q] <= 1 PROVE steady[q] \subseteq ToSet(Captured(q))
    OBVIOUS
  <2>2. Len(listing[q]) = sweep[q].first.total /\ listing[q] \in Seq(Ids)
    BY <1>0, <1>1, FirstPageIsPage DEF SweepTypeOK
  <2>3. changes[q] = 0
    <3>1. changes[q] \in 0..2
      BY <1>0 DEF SweepTypeOK
    <3>2. changes[q] # 1
      BY <1>10, <2>2 DEF PagesAgree
    <3> QED BY <2>1, <3>1, <3>2
  <2>4. steady[q] = ToSet(listing[q])
    BY <1>10, <2>3 DEF PagesAgree
  <2>5. \A n \in 1..Len(pages[q]) : pages[q][n].rows = RowsOn(q, n)
    BY <1>1, <1>10, <2>3 DEF PagesAgree
  <2>6. ASSUME NEW i \in 1..Len(listing[q])
        PROVE  listing[q][i] \in ToSet(Captured(q))
    <3>1. Len(listing[q]) \in Nat
      BY <2>2
    <3>2. PICK n \in 1..PageCount(Len(listing[q])) : (n - 1) * PageSize < i /\ i <= n * PageSize
      BY <2>6, <3>1, PagesCover
    <3>3. n \in 1..Len(pages[q]) /\ n \in Nat \ {0}
      BY <1>0, <1>1, <2>2, <3>2
    <3>4. listing[q][i] \in ToSet(RowsOn(q, n))
      BY <2>2, <2>6, <3>2, <3>3, RowsAreIds
    <3>5. listing[q][i] \in UNION {ToSet(pages[q][m].rows) : m \in 1..Len(pages[q])}
      BY <2>5, <3>3, <3>4
    <3> QED BY <1>0, <3>5, JoinedRows, CapturedIsJoined
  <2>7. \A x \in ToSet(listing[q]) : \E i \in 1..Len(listing[q]) : x = listing[q][i]
    BY <2>2 DEF ToSet
  <2> QED BY <2>4, <2>6, <2>7
<1>13. PassAgrees(q)'
  BY <1>1, <1>5, <1>12 DEF PassAgrees, source
<1>14. QueryOK(q)'
  BY <1>8, <1>9, <1>11, <1>13 DEF QueryOK
<1> QED BY <1>1, <1>3, <1>4, <1>6, <1>14, OneQuery DEF source

LEMMA ThreadStepKeeps ==
    ASSUME SweepInv, NEW q \in Queries, ThreadStep(q)
    PROVE  SweepInv'
BY ReplaysKeep, SkipsKeep, ChecksKeep, EmitRowKeeps, SearchKeeps, ReadsKeep, CompletesKeep,
   EndsKeep, SettlesKeep
DEF ThreadStep

\* A query that was denied remains so.
LEMMA DenialsGrow ==
    ASSUME SweepInv, NEW q \in Queries, NEW t, sweep' = [sweep EXCEPT ![q] = t],
           sweep[q].at \in {"settle", "over"} => sweep[q].result # "denied" \/ t.result = "denied"
    PROVE  Denials \subseteq Denials' /\ (t.result = "denied" => Denials' # {})
<1>1. SweepTypeOK /\ (sweep[q].result = "denied" => sweep[q].at \in {"settle", "over"})
  BY DEF SweepInv, QueryOK, ResultAgrees
<1>2. sweep'[q] = t /\ \A p \in Queries : p # q => sweep'[p] = sweep[p]
  BY <1>1 DEF SweepTypeOK
<1> QED BY <1>1, <1>2 DEF Denials

\* What a step of a thread is to the service.
Serves ==
    /\ child = "sweeping" /\ child' = "sweeping" /\ left'.cycles = left.cycles
    /\ \A id \in Ids : staged'[id] # "pending"
    /\ egress => egress'
    /\ Denials \subseteq Denials'
    /\ stop' => stop \/ egress' \/ Denials' # {}

LEMMA QuietServes ==
    ASSUME SweepInv, NEW q \in Queries, \A id \in Ids : staged[id] # "pending",
           child = "sweeping", UNCHANGED <<staged, child, stop, egress, left>>,
           NEW t, sweep' = [sweep EXCEPT ![q] = t],
           sweep[q].at \in {"settle", "over"} => sweep[q].result # "denied" \/ t.result = "denied"
    PROVE  Serves
<1>1. Denials \subseteq Denials'
  BY DenialsGrow
<1> QED BY <1>1 DEF Serves

LEMMA ThreadServes ==
    ASSUME SweepInv, NEW q \in Queries, ThreadStep(q), \A id \in Ids : staged[id] # "pending"
    PROVE  Serves
<1>0. SweepTypeOK /\ QueryOK(q) /\ sweep[q] \in Thread
  BY DEF SweepInv, SweepTypeOK
<1>2. CASE Replays(q)
  <2>1. child = "sweeping" /\ UNCHANGED <<staged, child, stop, egress, left>> /\ (sweep[q].at \in {"settle", "over"} => sweep[q].result # "denied")
    BY <1>2 DEF Replays, Untouched, queue, switches
  <2>2. PICK n \in Nat : Replay(q, n)
    BY <1>2 DEF Replays
  <2>3. PICK t : sweep' = [sweep EXCEPT ![q] = t]
    BY <2>2 DEF Replay, Go
  <2> QED BY <2>1, <2>3, QuietServes
<1>3. CASE Skips(q)
  <2>1. child = "sweeping" /\ UNCHANGED <<staged, child, stop, egress, left>> /\ sweep[q].at = "waiting"
    BY <1>3 DEF Skips, Untouched, queue, switches
  <2>2. PICK t : t = [sweep[q] EXCEPT !.at = "over", !.result = "stopped"]
    OBVIOUS
  <2>3. sweep' = [sweep EXCEPT ![q] = t]
    BY <1>0, <1>3, <2>2 DEF Skips, SweepTypeOK
  <2> QED BY <2>1, <2>3, QuietServes
<1>4. CASE Checks(q)
  <2>1. child = "sweeping" /\ UNCHANGED <<staged, child, stop, egress, left>> /\ sweep[q].at = "offer"
    BY <1>4 DEF Checks, Untouched, queue, switches
  <2>2. PICK t : t = [sweep[q] EXCEPT !.at = "emit"]
    OBVIOUS
  <2>3. sweep' = [sweep EXCEPT ![q] = t]
    BY <1>0, <1>4, <2>2 DEF Checks, SweepTypeOK
  <2> QED BY <2>1, <2>3, QuietServes
<1>5. CASE EmitRow(q)
  <2>1. /\ child = "sweeping" /\ sweep[q].at = "emit" /\ UNCHANGED <<child, stop, egress, left>>
        /\ sweep[q].rest \in Seq(Ids) /\ sweep[q].rest # <<>>
    BY <1>0, <1>5 DEF EmitRow, Sweeping, switches, QueryOK, ThreadAgrees, Thread
  <2>2. Head(sweep[q].rest) \in Ids
    BY <2>1
  <2>3. \A id \in Ids : staged'[id] # "pending"
    <3>1. \/ staged' = [staged EXCEPT ![Head(sweep[q].rest)] = "queued"]
          \/ staged' = staged
      BY <1>5 DEF EmitRow, queue
    <3> QED BY <1>0, <2>2, <3>1 DEF SweepTypeOK
  <2>4. PICK t : sweep' = [sweep EXCEPT ![q] = t]
    BY <1>5 DEF EmitRow, Go
  <2>5. Denials \subseteq Denials'
    BY <2>1, <2>4, DenialsGrow
  <2> QED BY <2>1, <2>3, <2>5 DEF Serves
<1>6. CASE Search(q)
  <2>1. child = "sweeping" /\ UNCHANGED <<staged, child, stop, egress, left>> /\ sweep[q].at = "search"
    BY <1>6 DEF Search, Asking, Sweeping, queue, switches
  <2>2. PICK t : t = [sweep[q] EXCEPT !.at = "read", !.first = FirstPage(q)]
    OBVIOUS
  <2>3. sweep' = [sweep EXCEPT ![q] = t]
    BY <1>0, <1>6, <2>2 DEF Search, SweepTypeOK
  <2> QED BY <2>1, <2>3, QuietServes
<1>7. CASE Reads(q)
  <2>1. child = "sweeping" /\ UNCHANGED <<staged, child, stop, egress, left>> /\ sweep[q].at = "read"
    BY <1>7 DEF Reads, queue, switches
  <2>2. PICK t : sweep' = [sweep EXCEPT ![q] = t]
    BY <1>7 DEF Reads, Go
  <2> QED BY <2>1, <2>2, QuietServes
<1>8. CASE Completes(q)
  <2>1. child = "sweeping" /\ UNCHANGED <<staged, child, stop, egress, left>> /\ sweep[q].at = "read"
    BY <1>8 DEF Completes, AllRead, queue, switches
  <2>2. PICK t : sweep' = [sweep EXCEPT ![q] = t]
    BY <1>8 DEF Completes, End
  <2> QED BY <2>1, <2>2, QuietServes
<1>9. ASSUME NEW why, Ends(q, why)
      PROVE  Serves
  <2>1. /\ child = "sweeping" /\ child' = child /\ staged' = staged /\ Spends
        /\ why \in {"stopped", "error", "changed", "denied", "outage"} /\ End(q, why)
        /\ sweep[q].at \in {"offer", "search", "read"}
        /\ egress' \in {egress, TRUE} /\ (stop' => stop \/ egress' \/ why = "denied")
    BY <1>9 DEF Ends, queue
  <2>2. PICK t \in Thread : sweep' = [sweep EXCEPT ![q] = t] /\ t.result = why
    BY <1>0, <2>1, Ended
  <2>3. Denials \subseteq Denials' /\ (why = "denied" => Denials' # {})
    BY <2>1, <2>2, DenialsGrow
  <2>4. left'.cycles = left.cycles
    BY <1>0, <2>1, SpendsKeep
  <2>5. egress => egress'
    BY <1>0, <2>1 DEF SweepTypeOK
  <2>6. stop' => stop \/ egress' \/ Denials' # {}
    BY <2>1, <2>3
  <2>7. \A id \in Ids : staged'[id] # "pending"
    BY <2>1
  <2> QED BY <2>1, <2>3, <2>4, <2>5, <2>6, <2>7 DEF Serves
<1>10. CASE Settles(q)
  <2>1. child = "sweeping" /\ UNCHANGED <<staged, child, stop, egress, left>> /\ sweep[q].at = "settle"
    BY <1>10 DEF Settles, Untouched, queue, switches
  <2>2. PICK t : t = [Unstarted EXCEPT !.at = "over",
                        !.result = IF Unstable(q) /\ ~stop THEN "tolerated" ELSE sweep[q].result]
    OBVIOUS
  <2>3. sweep' = [sweep EXCEPT ![q] = t]
    BY <1>10, <2>2 DEF Settles
  <2>4. sweep[q].result = "denied" => t.result = "denied"
    BY <2>2, UnstartedIsThread DEF Unstable, Thread
  <2> QED BY <2>1, <2>3, <2>4, QuietServes
<1> QED BY <1>2, <1>3, <1>4, <1>5, <1>6, <1>7, <1>8, <1>9, <1>10 DEF ThreadStep

\* ... and the service is as it was.
LEMMA ServiceBySweep ==
    ASSUME SweepInv, ServiceInv, NEW q \in Queries, ThreadStep(q),
           UNCHANGED <<consumption, service, truth>>
    PROVE  ServiceInv'
<1>1. child = "sweeping"
  BY DEF ThreadStep, Replays, Skips, Checks, EmitRow, Search, Asking, Sweeping, Reads, Completes,
         Ends, Settles
<1>2. /\ child = "sweeping" /\ child' = "sweeping" /\ left'.cycles = left.cycles
      /\ \A id \in Ids : staged'[id] # "pending"
      /\ egress => egress'
      /\ Denials \subseteq Denials'
      /\ stop' => stop \/ egress' \/ Denials' # {}
  BY <1>1, ThreadServes DEF ServiceInv, QueueIsServed, Serves
<1>3. pc = "child" /\ status = "running"
  BY <1>1 DEF ServiceInv, PhasesAgree
<1>4. /\ UNCHANGED <<hand, accepted, doubt, status, pc, asleep, due, folder, retries, asked, past, grave>>
  BY DEF consumption, service, truth
<1>5. ServiceTypeOK'
  BY <1>4 DEF ServiceInv, ServiceTypeOK
<1>6. PhasesAgree'
  BY <1>2, <1>3, <1>4 DEF ServiceInv, PhasesAgree
<1>7. GraveIsNoted'
  BY <1>2, <1>3, <1>4 DEF ServiceInv, GraveIsNoted
<1>8. PastAgrees'
  BY <1>2, <1>3, <1>4 DEF ServiceInv, PastAgrees, Limits, Clean
<1>9. StopIsKnown'
  BY <1>2, <1>4 DEF ServiceInv, StopIsKnown
<1>10. QueueIsServed'
  BY <1>2 DEF QueueIsServed
<1>11. AttentionIsEarned'
  BY <1>3, <1>4 DEF AttentionIsEarned
<1> QED BY <1>5, <1>6, <1>7, <1>8, <1>9, <1>10, <1>11 DEF ServiceInv

-----------------------------------------------------------------------------
(* The other steps and the sweeps                                          *)

StagedGrows ==
    /\ staged' \in [Ids -> {"none", "queued", "pending", "done"}]
    /\ \A id \in Ids : staged[id] # "none" => staged'[id] # "none"

LEMMA SweepsKept ==
    ASSUME SweepInv, UNCHANGED <<source, cache, sweep, added>>, StagedGrows,
           child' \in {"off", "sweeping", "consuming", "ended", "died"},
           child' \in {"consuming", "ended"} =>
             child \in {"consuming", "ended"} \/ \A q \in Queries : sweep[q].at = "over",
           stop' \in BOOLEAN, egress' \in BOOLEAN, block' \in BOOLEAN,
           left' \in [{"cycles"} \cup Cost -> Nat]
    PROVE  SweepInv'
<1>1. SweepTypeOK /\ added \in Nat /\ added' = added /\ added <= added'
  BY DEF SweepInv, SweepTypeOK
<1>2. SweepTypeOK'
  BY <1>1 DEF SweepTypeOK, source, cache, StagedGrows
<1>3. ASSUME NEW q \in Queries PROVE QueryOK(q)'
  <2>1. QueryOK(q)
    BY DEF SweepInv
  <2>2. child' \in {"consuming", "ended"} => sweep[q].at = "over"
    BY <2>1 DEF QueryOK, ResultAgrees
  <2> QED BY <1>1, <2>1, <2>2, QueryKept DEF source, cache, StagedGrows
<1> QED BY <1>2, <1>3 DEF SweepInv

LEMMA ChangeKeeps ==
    ASSUME SweepInv, NEW q \in Queries, Change(q)
    PROVE  SweepInv' /\ left'.cycles = left.cycles
<1>0. SweepTypeOK /\ QueryOK(q)
  BY DEF SweepInv
<1>1. PICK rows \in Seq(Ids) : Relist(q, rows) /\ Len(rows) # Len(listing[q])
  BY <1>0, Relisted
<1>2. q \notin complete /\ Spends
  BY DEF Change, Spends, Cost
<1>3. left' \in [{"cycles"} \cup Cost -> Nat] /\ left'.cycles = left.cycles
  BY <1>0, <1>2, SpendsKeep
<1>4. PICK c : c = Min({changes[q] + 1, 2})
  OBVIOUS
<1>5. changes[q] \in 0..2 /\ c \in 0..2 /\ c # 0 /\ (c = 1 => changes[q] = 0)
  <2>1. changes[q] \in 0..2
    BY <1>0 DEF SweepTypeOK
  <2>2. c = IF changes[q] + 1 <= 2 THEN changes[q] + 1 ELSE 2
    BY <1>4, <2>1, MinOfTwo
  <2> QED BY <2>1, <2>2
<1>6. /\ listing' = [listing EXCEPT ![q] = rows]
      /\ steady' = [steady EXCEPT ![q] = steady[q] \cap ToSet(rows)]
      /\ changes' = [changes EXCEPT ![q] = c]
      /\ UNCHANGED <<cache, sweep, queue, child, switches>>
  BY <1>0, <1>1, <1>4 DEF Relist, SweepTypeOK
<1>7. SweepTypeOK'
  <2>1. listing' \in [Queries -> Seq(Ids)] /\ changes' \in [Queries -> 0..2]
    BY <1>0, <1>5, <1>6 DEF SweepTypeOK
  <2>2. steady' \in [Queries -> SUBSET Ids]
    BY <1>0, <1>6 DEF SweepTypeOK
  <2> QED BY <1>0, <1>3, <1>6, <2>1, <2>2 DEF SweepTypeOK, cache, queue, switches
<1>8. /\ listing'[q] = rows /\ changes'[q] = c
      /\ \A p \in Queries : p # q => /\ listing'[p] = listing[p] /\ steady'[p] = steady[p]
                                     /\ changes'[p] = changes[p]
  BY <1>0, <1>6 DEF SweepTypeOK
<1>9. /\ added \in Nat /\ added' = added /\ added <= added' /\ staged' = staged /\ child' = child
      /\ UNCHANGED <<pages, complete, sweep>>
  BY <1>0, <1>6 DEF SweepTypeOK, queue, cache
<1>10. ASSUME NEW p \in Queries, p # q PROVE QueryOK(p)'
  <2>1. QueryOK(p)
    BY DEF SweepInv
  <2>2. child' \in {"consuming", "ended"} => sweep[p].at = "over"
    BY <1>9, <2>1 DEF QueryOK, ResultAgrees
  <2> QED BY <1>0, <1>8, <1>9, <1>10, <2>1, <2>2, QueryKept
<1>11. QueryOK(q)'
  <2>1. Captured(q)' = Captured(q)
    BY <1>9, CapturedIsJoined
  <2>2. ThreadAgrees(q)'
    BY <1>0, <1>9, <2>1 DEF QueryOK, ThreadAgrees, Working, OfferedSoFar
  <2>3. ResultAgrees(q)'
    BY <1>0, <1>9, <2>1 DEF QueryOK, ResultAgrees, Offered
  <2>4. PagesAgree(q)'
    <3>1. PagesAgree(q)
      BY <1>0 DEF QueryOK
    <3>2. changes'[q] # 0
      BY <1>5, <1>8
    <3>3. changes'[q] = 1 => /\ changes[q] = 0 /\ Len(listing'[q]) # Len(listing[q])
      BY <1>1, <1>5, <1>8
    <3>4. Session(q) /\ changes[q] = 0 => sweep[q].first.total = Len(listing[q])
      BY <1>0, <3>1, FirstPageIsPage DEF PagesAgree
    <3> QED BY <1>9, <3>1, <3>2, <3>3, <3>4 DEF PagesAgree, Session, Total
  <2>5. PassAgrees(q)'
    BY <1>2, <1>9 DEF PassAgrees
  <2> QED BY <2>2, <2>3, <2>4, <2>5 DEF QueryOK
<1> QED BY <1>3, <1>7, <1>10, <1>11 DEF SweepInv

\* A new attempt,
LEMMA StartKeeps ==
    ASSUME SweepInv, Start, asked \in BOOLEAN
    PROVE  SweepInv'
<1>0. SweepTypeOK
  BY DEF SweepInv
<1>1. /\ sweep' = [q \in Queries |-> Unstarted] /\ child' = "sweeping"
      /\ added' = 0 /\ stop' = asked /\ egress' = FALSE
      /\ UNCHANGED <<source, cache, block, left>>
  BY DEF Start
<1>2. StagedGrows
  BY <1>0 DEF Start, Recover, StagedGrows, SweepTypeOK
<1>3. SweepTypeOK'
  BY <1>0, <1>1, <1>2, UnstartedIsThread DEF SweepTypeOK, source, cache, StagedGrows
<1>4. ASSUME NEW q \in Queries PROVE QueryOK(q)'
  <2>0. QueryOK(q) /\ sweep'[q] = Unstarted
    BY <1>1 DEF SweepInv
  <2>1. Captured(q)' = Captured(q)
    BY <1>1, CapturedIsJoined DEF cache
  <2>2. ThreadAgrees(q)'
    BY <2>0, UnstartedIsThread DEF ThreadAgrees, Working
  <2>3. ResultAgrees(q)'
    <3>1. Offered(q) => Offered(q)'
      BY <1>0, <1>2, <2>1, CapturedAreIds DEF Offered, StagedGrows
    <3>2. q \in complete' => Offered(q)'
      BY <1>1, <2>0, <3>1 DEF cache, QueryOK, ResultAgrees
    <3> QED BY <1>1, <2>0, <3>2, UnstartedIsThread DEF ResultAgrees
  <2>4. PagesAgree(q)'
    <3>1. FirstPage(q)' = FirstPage(q) /\ \A m : RowsOn(q, m)' = RowsOn(q, m)
      BY <1>1 DEF FirstPage, RowsOn, source
    <3> QED BY <1>1, <2>0, <3>1, UnstartedIsThread DEF QueryOK, PagesAgree, Session, Total, source, cache
  <2>5. PassAgrees(q)'
    BY <1>1, <2>0, <2>1 DEF QueryOK, PassAgrees, source, cache
  <2> QED BY <2>2, <2>3, <2>4, <2>5 DEF QueryOK
<1> QED BY <1>3, <1>4 DEF SweepInv

\* ... and a new cycle.
LEMMA NewEpochKeeps ==
    ASSUME SweepInv, NewEpoch, child' = "off", left' \in [{"cycles"} \cup Cost -> Nat]
    PROVE  SweepInv'
<1>0. SweepTypeOK
  BY DEF SweepInv
<1>1. /\ pages' = [q \in Queries |-> <<>>] /\ complete' = {}
      /\ sweep' = [q \in Queries |-> Unstarted]
      /\ staged' = [id \in Ids |-> "none"] /\ added' = 0
      /\ steady' = [q \in Queries |-> {}] /\ changes' = [q \in Queries |-> 0]
      /\ UNCHANGED <<listing, switches>>
  BY DEF NewEpoch
<1>2. SweepTypeOK'
  BY <1>0, <1>1, UnstartedIsThread, JoinedNone DEF SweepTypeOK, switches
<1>3. ASSUME NEW q \in Queries PROVE QueryOK(q)'
  <2>1. sweep'[q] = Unstarted /\ pages'[q] = <<>> /\ q \notin complete'
    BY <1>1
  <2>2. ThreadAgrees(q)'
    BY <2>1, UnstartedIsThread DEF ThreadAgrees, Working
  <2>3. ResultAgrees(q)'
    BY <2>1, UnstartedIsThread DEF ResultAgrees
  <2>4. PagesAgree(q)'
    BY <2>1, UnstartedIsThread DEF PagesAgree, Session
  <2>5. PassAgrees(q)'
    BY <2>1 DEF PassAgrees
  <2> QED BY <2>2, <2>3, <2>4, <2>5 DEF QueryOK
<1> QED BY <1>2, <1>3 DEF SweepInv

LEMMA RecoverGrows ==
    ASSUME SweepTypeOK, Recover
    PROVE  StagedGrows
<1>1. \A id \in Ids : staged'[id] = IF staged[id] = "pending" THEN "queued" ELSE staged[id]
  BY DEF Recover
<1>2. \A id \in Ids : staged[id] \in {"none", "queued", "pending", "done"}
  BY DEF SweepTypeOK
<1>3. staged' \in [Ids -> {"none", "queued", "pending", "done"}]
  BY <1>2 DEF Recover
<1> QED BY <1>1, <1>3 DEF StagedGrows

\* The steps of the consumers,
Works(c) ==
    \/ Take(c) \/ Leave(c) \/ LeaveReserved(c) \/ Finish(c)
    \/ DoubtPayment(c) \/ Refused(c) \/ ProxyFails(c)

LEMMA WorksKeepSweeps ==
    ASSUME SweepInv, ServiceInv, NEW c \in Consumers, Works(c)
    PROVE  SweepInv' /\ left'.cycles = left.cycles
<1>0. SweepTypeOK /\ hand[c] \in Ids \cup {"ready", "gone"}
  BY DEF SweepInv, ServiceInv, ServiceTypeOK
<1>1. /\ UNCHANGED <<source, cache, sweep, added, child>> /\ Spends
      /\ stop' \in BOOLEAN /\ egress' \in BOOLEAN /\ block' \in BOOLEAN
  <2>1. CASE Take(c)
    BY <1>0, <2>1 DEF Take, sweeps, switches, Spends, SweepTypeOK
  <2>2. CASE Leave(c)
    BY <1>0, <2>2 DEF Leave, sweeps, queue, switches, Spends, SweepTypeOK
  <2>3. CASE LeaveReserved(c)
    BY <1>0, <2>3 DEF LeaveReserved, sweeps, queue, switches, Spends, SweepTypeOK
  <2>4. CASE Finish(c)
    BY <1>0, <2>4 DEF Finish, sweeps, switches, Spends, SweepTypeOK
  <2>5. CASE DoubtPayment(c)
    BY <1>0, <2>5 DEF DoubtPayment, sweeps, Spends, Cost, SweepTypeOK
  <2>6. CASE Refused(c)
    BY <1>0, <2>6 DEF Refused, sweeps, Spends, Cost, SweepTypeOK
  <2>7. CASE ProxyFails(c)
    BY <1>0, <2>7 DEF ProxyFails, sweeps, queue, Spends, Cost, SweepTypeOK
  <2> QED BY <2>1, <2>2, <2>3, <2>4, <2>5, <2>6, <2>7 DEF Works
<1>2. \/ staged' = staged
      \/ \E id \in Ids : staged' = [staged EXCEPT ![id] = "pending"] /\ staged[id] = "queued"
      \/ hand[c] \in Ids /\ staged' = [staged EXCEPT ![hand[c]] = "done"]
  BY DEF Works, Take, Leave, LeaveReserved, Finish, DoubtPayment, Refused, ProxyFails, Acknowledge,
         Holding, queue
<1>3. StagedGrows
  BY <1>0, <1>2 DEF StagedGrows, SweepTypeOK
<1>4. left' \in [{"cycles"} \cup Cost -> Nat] /\ left'.cycles = left.cycles
  BY <1>0, <1>1, SpendsKeep
<1>5. /\ child' \in {"off", "sweeping", "consuming", "ended", "died"}
      /\ child' = child
  BY <1>0, <1>1 DEF SweepTypeOK
<1>6. SweepInv'
  BY <1>1, <1>3, <1>4, <1>5, SweepsKept
<1> QED BY <1>4, <1>6

\* ... of the child and its end,
LEMMA PhasesKeepSweeps ==
    ASSUME SweepInv, ServiceInv, BeginConsuming \/ Report \/ ChildDies
    PROVE  SweepInv' /\ left'.cycles = left.cycles
<1>0. SweepTypeOK
  BY DEF SweepInv
<1>1. /\ UNCHANGED <<source, cache, sweep, added, switches>> /\ Spends
      /\ child' \in {"consuming", "ended", "died"}
      /\ child' \in {"consuming", "ended"} =>
             child \in {"consuming", "ended"} \/ \A q \in Queries : sweep[q].at = "over"
  BY DEF BeginConsuming, Report, ChildDies, sweeps, queue, Spends, Cost
<1>2. StagedGrows
  <2>1. staged' = staged \/ Recover
    BY DEF BeginConsuming, Report, ChildDies, queue
  <2>2. CASE Recover
    BY <1>0, <2>2, RecoverGrows
  <2>3. CASE staged' = staged
    BY <1>0, <2>3 DEF StagedGrows, SweepTypeOK
  <2> QED BY <2>1, <2>2, <2>3
<1>3. left' \in [{"cycles"} \cup Cost -> Nat] /\ left'.cycles = left.cycles
  BY <1>0, <1>1, SpendsKeep
<1>4. stop' \in BOOLEAN /\ egress' \in BOOLEAN /\ block' \in BOOLEAN
  BY <1>0, <1>1 DEF SweepTypeOK, switches
<1>5. SweepInv'
  BY <1>1, <1>2, <1>3, <1>4, SweepsKept
<1> QED BY <1>3, <1>5

\* ... and of the portal and the service.
Manages ==
    \/ (BlockOpens \/ BlockEnds) /\ UNCHANGED <<consumption, service, truth>>
    \/ Boot \/ Wake \/ NoEgress \/ SourcePaused \/ MakeFolder
    \/ EgressExit \/ RetryCycle \/ GiveUp \/ Sigterm \/ ServiceDies

LEMMA ManagesKeepSweeps ==
    ASSUME SweepInv, Manages
    PROVE  SweepInv' /\ left'.cycles = left.cycles
<1>0. SweepTypeOK
  BY DEF SweepInv
<1>1. /\ UNCHANGED <<source, cache, sweep, staged, added>>
      /\ child' \in {child, "off"}
  BY DEF Manages, BlockOpens, BlockEnds, Boot, Wake, NoEgress, SourcePaused, MakeFolder, EgressExit,
         RetryCycle, GiveUp, Sigterm, ServiceDies, Rest, Stays, sweeps, queue
<1>2. Spends
  BY DEF Manages, BlockOpens, BlockEnds, Boot, Wake, NoEgress, SourcePaused, MakeFolder, EgressExit,
         RetryCycle, GiveUp, Sigterm, ServiceDies, Spends, Cost
<1>3. stop' \in BOOLEAN /\ egress' \in BOOLEAN /\ block' \in BOOLEAN
  <2>1. CASE BlockOpens \/ BlockEnds
    BY <1>0, <2>1 DEF BlockOpens, BlockEnds, SweepTypeOK
  <2>2. CASE Sigterm
    BY <1>0, <2>2 DEF Sigterm, SweepTypeOK
  <2>3. CASE ~(BlockOpens \/ BlockEnds \/ Sigterm)
    <3>1. UNCHANGED switches
      BY <2>3 DEF Manages, Boot, Wake, NoEgress, SourcePaused, MakeFolder, EgressExit,
                  RetryCycle, GiveUp, ServiceDies, Rest, Stays
    <3> QED BY <1>0, <3>1 DEF SweepTypeOK, switches
  <2> QED BY <2>1, <2>2, <2>3
<1>4. left' \in [{"cycles"} \cup Cost -> Nat] /\ left'.cycles = left.cycles
  BY <1>0, <1>2, SpendsKeep
<1>5. StagedGrows
  BY <1>0, <1>1 DEF StagedGrows, SweepTypeOK
<1>6. child' \in {"off", "sweeping", "consuming", "ended", "died"}
  BY <1>0, <1>1 DEF SweepTypeOK
<1>7. SweepInv'
  BY <1>1, <1>3, <1>4, <1>5, <1>6, SweepsKept
<1> QED BY <1>4, <1>7

\* A finished cycle is taken off.
LEMMA CompleteKeepsSweeps ==
    ASSUME SweepInv, ServiceInv, Complete
    PROVE  /\ SweepInv' /\ left'.cycles = left.cycles - 1
           /\ left.cycles \in Nat \ {0}
<1>0. SweepTypeOK /\ pc = "child" /\ left.cycles > 0
  BY DEF SweepInv, Complete, Validating, ServiceInv, PhasesAgree
<1>1. left.cycles \in Nat \ {0}
  BY <1>0 DEF SweepTypeOK
<1>2. left' = [left EXCEPT !.cycles = left.cycles - 1]
  BY DEF Complete
<1>3. left' \in [{"cycles"} \cup Cost -> Nat] /\ left'.cycles = left.cycles - 1
  BY <1>0, <1>1, <1>2 DEF SweepTypeOK
<1>4. SweepInv'
  BY <1>3, NewEpochKeeps DEF Complete
<1> QED BY <1>1, <1>3, <1>4

-----------------------------------------------------------------------------
(* The other steps and the service                                         *)

Busy == hand \in [Consumers -> Ids \cup {"ready", "gone"}] /\ accepted \in SUBSET Ids /\ IsFiniteSet(accepted)

\* The cap of the accepted candidates is not left again.
LEMMA CapStays ==
    ASSUME IsFiniteSet(accepted'), accepted \subseteq accepted'
    PROVE  Capped => Capped'
<1>1. IsFiniteSet(accepted) /\ Cardinality(accepted) <= Cardinality(accepted')
  BY FS_Subset
<1>2. Cardinality(accepted) \in Nat /\ Cardinality(accepted') \in Nat
  BY <1>1, FS_CardinalityType
<1> QED BY <1>1, <1>2, ServiceAssumption DEF Capped

\* What a consumer leaves to the service.
LEMMA ServiceByConsumer ==
    ASSUME ServiceInv, child = "consuming", UNCHANGED <<sweep, child, service, past>>,
           left'.cycles = left.cycles, Busy', doubt' \in BOOLEAN,
           grave' \in SUBSET {"doubt", "refused", "death", "stop"}, grave \subseteq grave',
           doubt' => doubt \/ grave' # {},
           egress => egress', stop' => stop \/ egress' \/ grave' # {},
           QueueIsServed'
    PROVE  ServiceInv'
<1>0. pc = "child" /\ status = "running"
  BY DEF ServiceInv, PhasesAgree
<1>1. UNCHANGED <<status, pc, asleep, due, folder, retries, asked>>
  BY DEF service
<1>2. ServiceTypeOK'
  BY <1>1 DEF ServiceInv, ServiceTypeOK, Busy
<1>3. PhasesAgree'
  BY <1>0, <1>1 DEF ServiceInv, PhasesAgree
<1>4. GraveIsNoted'
  BY <1>0, <1>1 DEF ServiceInv, GraveIsNoted
<1>5. PastAgrees'
  BY <1>0, <1>1 DEF ServiceInv, PastAgrees, Limits, Clean
<1>6. StopIsKnown'
  BY DEF ServiceInv, StopIsKnown, Denials
<1>7. AttentionIsEarned'
  BY <1>0, <1>1 DEF AttentionIsEarned
<1> QED BY <1>2, <1>3, <1>4, <1>5, <1>6, <1>7 DEF ServiceInv

\* The case in hand is acknowledged,
LEMMA AcknowledgeServes ==
    ASSUME SweepTypeOK, ServiceInv, NEW c \in Consumers, Acknowledge(c), child' = child,
           stop => stop'
    PROVE  child = "consuming" /\ Busy' /\ QueueIsServed'
<1>0. /\ child = "consuming" /\ Busy /\ hand[c] \in Ids
      /\ staged' = [staged EXCEPT ![hand[c]] = "done"]
      /\ hand' = [hand EXCEPT ![c] = "ready"]
      /\ accepted' \in {accepted, accepted \cup {hand[c]}}
  BY DEF ServiceInv, ServiceTypeOK, Busy, Acknowledge, Holding, Judge
<1>1. IsFiniteSet(accepted') /\ accepted \subseteq accepted' /\ accepted' \in SUBSET Ids
  <2>1. IsFiniteSet(accepted \cup {hand[c]})
    BY <1>0, FS_AddElement DEF Busy
  <2> QED BY <1>0, <2>1 DEF Busy
<1>2. Capped => Capped'
  BY <1>1, CapStays
<1>3. hand' \in [Consumers -> Ids \cup {"ready", "gone"}]
  BY <1>0 DEF Busy
<1>4. /\ \A id \in Ids : staged'[id] = IF id = hand[c] THEN "done" ELSE staged[id]
      /\ \A d \in Consumers : hand'[d] = IF d = c THEN "ready" ELSE hand[d]
  BY <1>0 DEF SweepTypeOK, Busy
<1>5. QueueIsServed'
  BY <1>0, <1>2, <1>4 DEF ServiceInv, QueueIsServed
<1> QED BY <1>0, <1>1, <1>3, <1>5 DEF Busy

\* ... it is left, or the consumer ends,
LEMMA LeavingServes ==
    ASSUME SweepTypeOK, ServiceInv, NEW c \in Consumers, child = "consuming", child' = child,
           hand' = [hand EXCEPT ![c] = "gone"], staged' = staged,
           accepted' \in SUBSET Ids, IsFiniteSet(accepted'), accepted \subseteq accepted',
           stop => stop',
           stop' \/ Capped' \/ (hand[c] = "ready" /\ \A id \in Ids : staged[id] # "queued")
    PROVE  Busy' /\ QueueIsServed'
<1>0. Busy
  BY DEF ServiceInv, ServiceTypeOK, Busy
<1>1. Capped => Capped'
  BY CapStays
<1>2. /\ hand' \in [Consumers -> Ids \cup {"ready", "gone"}]
      /\ \A d \in Consumers : hand'[d] = IF d = c THEN "gone" ELSE hand[d]
  BY <1>0 DEF Busy
<1>3. QueueIsServed'
  BY <1>0, <1>1, <1>2, ServiceAssumption DEF ServiceInv, QueueIsServed
<1> QED BY <1>2, <1>3 DEF Busy

\* ... or the next one is taken.
LEMMA TakingServes ==
    ASSUME SweepTypeOK, ServiceInv, NEW c \in Consumers, Take(c)
    PROVE  Busy' /\ QueueIsServed'
<1>0. /\ Busy /\ child = "consuming" /\ child' = child /\ hand[c] = "ready" /\ stop' = stop
      /\ accepted' = accepted
  BY DEF ServiceInv, ServiceTypeOK, Busy, Take, switches
<1>1. PICK id \in Ids : /\ staged[id] = "queued" /\ staged' = [staged EXCEPT ![id] = "pending"]
                        /\ hand' = [hand EXCEPT ![c] = id]
  BY DEF Take
<1>2. /\ hand' \in [Consumers -> Ids \cup {"ready", "gone"}]
      /\ \A d \in Consumers : hand'[d] = IF d = c THEN id ELSE hand[d]
      /\ \A i \in Ids : staged'[i] = IF i = id THEN "pending" ELSE staged[i]
  BY <1>0, <1>1 DEF Busy, SweepTypeOK
<1>3. Capped' = Capped
  BY <1>0 DEF Capped
<1>4. id # "gone" /\ hand[c] \notin Ids
  BY <1>0, ServiceAssumption
<1>5. ASSUME NEW i \in Ids, staged'[i] = "pending"
      PROVE  stop' \/ Capped' \/ \E d \in Consumers : hand'[d] = i
  BY <1>0, <1>2, <1>3, <1>4, <1>5 DEF ServiceInv, QueueIsServed
<1>6. ASSUME NEW d \in Consumers, hand'[d] = "gone"
      PROVE  stop' \/ Capped' \/ \A i \in Ids : staged'[i] # "queued"
  BY <1>0, <1>2, <1>3, <1>4, <1>6 DEF ServiceInv, QueueIsServed
<1>7. QueueIsServed'
  BY <1>0, <1>5, <1>6 DEF QueueIsServed
<1> QED BY <1>0, <1>2, <1>7 DEF Busy

LEMMA WorksKeepService ==
    ASSUME SweepInv, ServiceInv, NEW c \in Consumers, Works(c)
    PROVE  ServiceInv'
<1>0. /\ SweepTypeOK /\ left'.cycles = left.cycles /\ Busy
      /\ doubt \in BOOLEAN /\ grave \in SUBSET {"doubt", "refused", "death", "stop"}
      /\ stop \in BOOLEAN /\ egress \in BOOLEAN
  BY WorksKeepSweeps DEF SweepInv, SweepTypeOK, ServiceInv, ServiceTypeOK, Busy
<1>1. CASE Take(c)
  <2>1. Busy' /\ QueueIsServed'
    BY <1>0, <1>1, TakingServes
  <2>2. /\ child = "consuming" /\ UNCHANGED <<sweep, child, service, past, grave, doubt, stop, egress>>
    BY <1>1 DEF Take, sweeps, switches, truth
  <2> QED BY <1>0, <2>1, <2>2, ServiceByConsumer
<1>2. CASE Leave(c)
  <2>1. /\ child = "consuming" /\ hand[c] = "ready" /\ hand' = [hand EXCEPT ![c] = "gone"]
        /\ stop \/ \A id \in Ids : staged[id] # "queued"
        /\ UNCHANGED <<sweep, child, service, past, grave, doubt, stop, egress, staged, accepted>>
    BY <1>2 DEF Leave, sweeps, queue, switches, truth
  <2>2. Busy' /\ QueueIsServed'
    BY <1>0, <2>1, LeavingServes DEF Busy
  <2> QED BY <1>0, <2>1, <2>2, ServiceByConsumer
<1>3. CASE LeaveReserved(c)
  <2>1. /\ child = "consuming" /\ hand' = [hand EXCEPT ![c] = "gone"]
        /\ stop \/ ~MayAccept(hand[c])
        /\ UNCHANGED <<sweep, child, service, past, grave, doubt, stop, egress, staged, accepted>>
    BY <1>3 DEF LeaveReserved, Holding, sweeps, queue, switches, truth
  <2>2. ~MayAccept(hand[c]) => Capped
    <3>1. Cardinality(accepted) \in Nat
      BY <1>0, FS_CardinalityType DEF Busy
    <3> QED BY <3>1, ServiceAssumption DEF MayAccept, Capped
  <2>3. stop' \/ Capped'
    BY <2>1, <2>2 DEF Capped
  <2>4. Busy' /\ QueueIsServed'
    BY <1>0, <2>1, <2>3, LeavingServes DEF Busy
  <2>5. (grave \subseteq grave') /\ (doubt' => doubt) /\ (egress => egress') /\ (stop' => stop)
    BY <2>1
  <2> QED BY <1>0, <2>1, <2>4, <2>5, ServiceByConsumer
<1>4. CASE Finish(c)
  <2>1. /\ Acknowledge(c) /\ UNCHANGED <<sweep, child, service, past, grave, doubt, stop, egress>>
    BY <1>4 DEF Finish, sweeps, switches, truth
  <2>2. child = "consuming" /\ Busy' /\ QueueIsServed'
    BY <1>0, <2>1, AcknowledgeServes
  <2> QED BY <1>0, <2>1, <2>2, ServiceByConsumer
<1>5. CASE DoubtPayment(c)
  <2>1. /\ Acknowledge(c) /\ UNCHANGED <<sweep, child, service, past, egress>>
        /\ doubt' = TRUE /\ stop' \in {stop, TRUE} /\ grave' = grave \cup {"doubt"}
    BY <1>5 DEF DoubtPayment, sweeps
  <2>2. child = "consuming" /\ Busy' /\ QueueIsServed'
    <3>1. stop' = stop \/ stop' = TRUE
      BY <2>1
    <3>2. stop => stop'
      BY <3>1
    <3> QED BY <1>0, <2>1, <3>2, AcknowledgeServes
  <2>3. grave' # {} /\ grave \subseteq grave' /\ grave' \in SUBSET {"doubt", "refused", "death", "stop"}
    BY <1>0, <2>1
  <2> QED BY <1>0, <2>1, <2>2, <2>3, ServiceByConsumer
<1>6. CASE Refused(c)
  <2>1. /\ Acknowledge(c) /\ UNCHANGED <<sweep, child, service, past, egress, doubt>>
        /\ stop' = TRUE /\ grave' = grave \cup {"refused"}
    BY <1>6 DEF Refused, sweeps
  <2>2. child = "consuming" /\ Busy' /\ QueueIsServed'
    <3> QED BY <1>0, <2>1, AcknowledgeServes
  <2>3. grave' # {} /\ grave \subseteq grave' /\ grave' \in SUBSET {"doubt", "refused", "death", "stop"}
    BY <1>0, <2>1
  <2> QED BY <1>0, <2>1, <2>2, <2>3, ServiceByConsumer
<1>7. CASE ProxyFails(c)
  <2>1. /\ child = "consuming" /\ hand' = [hand EXCEPT ![c] = "gone"] /\ hand[c] \in Ids
        /\ accepted' \in {accepted, accepted \cup {hand[c]}}
        /\ stop' = TRUE /\ egress' = TRUE
        /\ UNCHANGED <<sweep, child, service, past, grave, doubt, staged>>
    BY <1>7 DEF ProxyFails, Holding, Judge, sweeps, queue, truth
  <2>2. accepted' \in SUBSET Ids /\ IsFiniteSet(accepted') /\ accepted \subseteq accepted'
    <3>1. IsFiniteSet(accepted \cup {hand[c]})
      BY <1>0, FS_AddElement DEF Busy
    <3> QED BY <1>0, <2>1, <3>1 DEF Busy
  <2>3. Busy' /\ QueueIsServed'
    BY <1>0, <2>1, <2>2, LeavingServes
  <2> QED BY <1>0, <2>1, <2>3, ServiceByConsumer
<1> QED BY <1>1, <1>2, <1>3, <1>4, <1>5, <1>6, <1>7 DEF Works

\* What the portal does is not the service's concern.
LEMMA PortalKeepsService ==
    ASSUME ServiceInv, UNCHANGED <<sweep, staged, child, stop, egress, consumption, service, truth>>,
           left'.cycles = left.cycles
    PROVE  ServiceInv'
<1>1. UNCHANGED <<hand, accepted, doubt, status, pc, asleep, due, folder, retries, asked, past, grave>>
  BY DEF consumption, service, truth
<1>2. ServiceTypeOK'
  BY <1>1 DEF ServiceInv, ServiceTypeOK
<1>3. PhasesAgree'
  BY <1>1 DEF ServiceInv, PhasesAgree
<1>4. GraveIsNoted'
  BY <1>1 DEF ServiceInv, GraveIsNoted
<1>5. Outcome' = Outcome
  BY <1>1 DEF Outcome, Denials, Missing, QueueIsEmpty
<1>6. PastAgrees'
  BY <1>1, <1>5 DEF ServiceInv, PastAgrees, Limits, Clean, One
<1>7. StopIsKnown'
  BY <1>1 DEF ServiceInv, StopIsKnown, Denials
<1>8. QueueIsServed'
  BY <1>1 DEF ServiceInv, QueueIsServed, Capped, QueueIsEmpty
<1>9. AttentionIsEarned'
  BY <1>1 DEF ServiceInv, AttentionIsEarned, Seen
<1> QED BY <1>2, <1>3, <1>4, <1>6, <1>7, <1>8, <1>9 DEF ServiceInv

\* The consumers begin,
LEMMA BeginConsumingKeeps ==
    ASSUME ServiceInv, BeginConsuming
    PROVE  ServiceInv'
<1>1. /\ child = "sweeping" /\ child' = "consuming" /\ hand' = [c \in Consumers |-> "ready"]
      /\ UNCHANGED <<sweep, staged, stop, egress, accepted, doubt, past, grave, left>>
      /\ UNCHANGED <<status, pc, asleep, due, folder, retries, asked>>
  BY DEF BeginConsuming, sweeps, queue, switches, service, truth
<1>2. pc = "child" /\ status = "running"
  BY <1>1 DEF ServiceInv, PhasesAgree
<1>3. ServiceTypeOK'
  BY <1>1 DEF ServiceInv, ServiceTypeOK
<1>4. PhasesAgree'
  BY <1>1, <1>2 DEF ServiceInv, PhasesAgree
<1>5. GraveIsNoted'
  BY <1>1, <1>2 DEF ServiceInv, GraveIsNoted
<1>6. PastAgrees'
  BY <1>1, <1>2 DEF ServiceInv, PastAgrees, Limits, Clean
<1>7. StopIsKnown'
  BY <1>1 DEF ServiceInv, StopIsKnown, Denials
<1>8. QueueIsServed'
  BY <1>1 DEF ServiceInv, QueueIsServed
<1>9. AttentionIsEarned'
  BY <1>1, <1>2 DEF AttentionIsEarned
<1> QED BY <1>3, <1>4, <1>5, <1>6, <1>7, <1>8, <1>9 DEF ServiceInv

\* ... the child dies,
LEMMA ChildDiesKeeps ==
    ASSUME ServiceInv, ChildDies, left'.cycles = left.cycles
    PROVE  ServiceInv'
<1>1. /\ child \in {"sweeping", "consuming"} /\ child' = "died" /\ grave' = grave \cup {"death"}
      /\ UNCHANGED <<hand, accepted, doubt, past>>
      /\ UNCHANGED <<status, pc, asleep, due, folder, retries, asked>>
  BY DEF ChildDies, consumption, service
<1>2. pc = "child" /\ status = "running"
  BY <1>1 DEF ServiceInv, PhasesAgree
<1>3. ServiceTypeOK'
  BY <1>1 DEF ServiceInv, ServiceTypeOK
<1>4. PhasesAgree'
  BY <1>1, <1>2 DEF ServiceInv, PhasesAgree
<1>5. GraveIsNoted'
  BY <1>1, <1>2 DEF GraveIsNoted
<1>6. PastAgrees'
  BY <1>1, <1>2 DEF PastAgrees
<1>7. StopIsKnown' /\ QueueIsServed'
  BY <1>1 DEF StopIsKnown, QueueIsServed
<1>8. AttentionIsEarned'
  BY <1>1, <1>2 DEF AttentionIsEarned
<1> QED BY <1>3, <1>4, <1>5, <1>6, <1>7, <1>8 DEF ServiceInv

\* ... or it reports how the attempt ended.
LEMMA Outcomes == Outcome \in {"blocked", "incomplete", "review", "complete"}
BY DEF Outcome

LEMMA CountsTwo ==
    ASSUME NEW S, NEW f \in [S -> Nat], NEW k \in S, NEW u \in S, k # u, NEW v \in Nat,
           NEW g, g = [f EXCEPT ![k] = @ + 1, ![u] = v]
    PROVE  g \in [S -> Nat] /\ \A x \in S : g[x] = IF x = u THEN v
                                                   ELSE IF x = k THEN f[x] + 1 ELSE f[x]
OBVIOUS

LEMMA ReportKeeps ==
    ASSUME SweepTypeOK, ServiceInv, Report
    PROVE  ServiceInv'
<1>1. /\ child = "consuming" /\ child' = "ended" /\ (\A c \in Consumers : hand[c] = "gone")
      /\ hand' = [c \in Consumers |-> "ready"] /\ Recover
      /\ UNCHANGED <<sweep, stop, egress, accepted, doubt, grave, left>>
      /\ UNCHANGED <<status, pc, asleep, due, folder, retries, asked>>
  BY DEF Report, sweeps, switches, service
<1>2. pc = "child" /\ status = "running"
  BY <1>1 DEF ServiceInv, PhasesAgree
<1>3. PICK kind : /\ kind = IF egress THEN "outage" ELSE Outcome
                  /\ past' = [past EXCEPT ![kind] = @ + 1,
                                          !.unclean = IF doubt /\ ~egress THEN @ + 1 ELSE @]
  BY DEF Report
<1>4. past \in [{"complete", "blocked", "incomplete", "review", "outage", "unclean"} -> Nat]
  BY DEF ServiceInv, ServiceTypeOK
<1>5. kind \in {"outage", "blocked", "incomplete", "review", "complete"}
  BY <1>3, Outcomes
<1> DEFINE Endings == {"complete", "blocked", "incomplete", "review", "outage", "unclean"}
           v == IF doubt /\ ~egress THEN past.unclean + 1 ELSE past.unclean
<1>6. /\ past' \in [Endings -> Nat]
      /\ past'.complete = IF kind = "complete" THEN past.complete + 1 ELSE past.complete
      /\ past'.blocked = IF kind = "blocked" THEN past.blocked + 1 ELSE past.blocked
      /\ past'.incomplete = IF kind = "incomplete" THEN past.incomplete + 1 ELSE past.incomplete
      /\ past'.review = IF kind = "review" THEN past.review + 1 ELSE past.review
      /\ past'.unclean = IF doubt /\ ~egress THEN past.unclean + 1 ELSE past.unclean
  <2>1. /\ kind \in Endings /\ kind # "unclean" /\ "unclean" \in Endings /\ v \in Nat
        /\ past["unclean"] \in Nat
    BY <1>4, <1>5
  <2>2. past' = [past EXCEPT ![kind] = @ + 1, !["unclean"] = v]
    BY <1>3, <1>4, <2>1
  <2> HIDE DEF v, Endings
  <2>3. /\ past' \in [Endings -> Nat]
        /\ \A x \in Endings : past'[x] = IF x = "unclean" THEN v
                                         ELSE IF x = kind THEN past[x] + 1 ELSE past[x]
    BY <1>4, <2>1, <2>2, CountsTwo DEF Endings
  <2> QED BY <2>3 DEF Endings, v
<1>7. Outcome' = Outcome
  <2>1. \A id \in Ids : staged'[id] = IF staged[id] = "pending" THEN "queued" ELSE staged[id]
    BY <1>1 DEF Recover
  <2>2. QueueIsEmpty' <=> QueueIsEmpty
    BY <2>1 DEF QueueIsEmpty
  <2> QED BY <1>1, <2>2 DEF Outcome, Denials, Missing
<1>8. ServiceTypeOK'
  BY <1>1, <1>6 DEF ServiceInv, ServiceTypeOK
<1>9. PhasesAgree'
  BY <1>1, <1>2 DEF ServiceInv, PhasesAgree
<1>10. GraveIsNoted'
  BY <1>1, <1>2 DEF ServiceInv, GraveIsNoted
<1>11. PastAgrees'
  <2>1. Limits /\ Clean
    BY <1>1 DEF ServiceInv, PastAgrees
  <2>2. retries \in [{"blocked", "incomplete"} -> Nat]
    BY DEF ServiceInv, ServiceTypeOK
  <2>3. CASE egress
    BY <1>1, <1>2, <1>3, <1>6, <2>1, <2>3 DEF PastAgrees, Limits, Clean
  <2>4. CASE ~egress
    <3>1. kind = Outcome' /\ Outcome' \in {"blocked", "incomplete", "review", "complete"}
      BY <1>3, <1>7, <2>4, Outcomes
    <3> QED BY <1>1, <1>2, <1>6, <2>1, <2>2, <2>4, <3>1 DEF PastAgrees, Limits, Clean, One
  <2> QED BY <2>3, <2>4
<1>12. StopIsKnown'
  BY <1>1 DEF ServiceInv, StopIsKnown, Denials
<1>13. QueueIsServed'
  <2>1. PICK c \in Consumers : TRUE
    BY ServiceAssumption
  <2>2. stop \/ Capped \/ \A id \in Ids : staged[id] # "queued"
    BY <1>1, <2>1 DEF ServiceInv, QueueIsServed
  <2>3. stop \/ Capped \/ \A id \in Ids : staged[id] # "pending"
    BY <1>1, ServiceAssumption DEF ServiceInv, QueueIsServed
  <2>4. \A id \in Ids : staged'[id] = IF staged[id] = "pending" THEN "queued" ELSE staged[id]
    BY <1>1 DEF Recover
  <2>5. QueueIsEmpty' \/ stop' \/ Capped'
    BY <1>1, <2>2, <2>3, <2>4 DEF QueueIsEmpty, Capped
  <2> QED BY <1>1, <2>5 DEF QueueIsServed
<1>14. AttentionIsEarned'
  BY <1>1, <1>2 DEF AttentionIsEarned
<1> QED BY <1>8, <1>9, <1>10, <1>11, <1>12, <1>13, <1>14 DEF ServiceInv

LEMMA FreshCounts ==
    /\ NoRetries \in [{"blocked", "incomplete"} -> Nat]
    /\ NoPast \in [{"complete", "blocked", "incomplete", "review", "outage", "unclean"} -> Nat]
BY DEF NoRetries, NoPast

\* Between two attempts the service has nothing but its state file.
LEMMA Between ==
    ASSUME ServiceInv, pc' \in {"down", "top", "made", "returned"}, child' = "off",
           status' \in {"none", "running", "attention_required", "complete"} \cup Resumable,
           asleep' \in BOOLEAN, due' \in BOOLEAN, folder' \in BOOLEAN, asked' \in BOOLEAN,
           UNCHANGED <<consumption, past>>,
           grave' \in SUBSET {"doubt", "refused", "death", "stop"}, grave \subseteq grave',
           retries' \in [{"blocked", "incomplete"} -> Nat],
           PhasesAgree', asked' => asked,
           (pc' = "top" /\ folder') \/ (pc' = "down" /\ (folder' \/ status' = "running")) => grave' # {},
           pc' \in {"top", "made"} \/ (pc' = "down" /\ status' # "running") => Limits' /\ Clean',
           AttentionIsEarned'
    PROVE  ServiceInv'
<1>1. ServiceTypeOK'
  BY DEF ServiceInv, ServiceTypeOK, consumption
<1>2. GraveIsNoted'
  BY DEF ServiceInv, GraveIsNoted, consumption
<1>3. PastAgrees'
  BY DEF PastAgrees
<1>4. StopIsKnown' /\ QueueIsServed'
  BY DEF StopIsKnown, QueueIsServed
<1> QED BY <1>1, <1>2, <1>3, <1>4 DEF ServiceInv

LEMMA RestsKeep ==
    ASSUME ServiceInv, Wake \/ NoEgress \/ SourcePaused \/ MakeFolder \/ Boot,
           left'.cycles = left.cycles
    PROVE  ServiceInv'
<1>1. ServiceTypeOK /\ child = "off"
  BY DEF ServiceInv, PhasesAgree, Wake, NoEgress, SourcePaused, MakeFolder, Boot, AtTop
<1>2. UNCHANGED <<consumption, past, grave, retries, asked, child>> /\ left'.cycles > 0 /\ left.cycles > 0
  BY DEF Wake, NoEgress, SourcePaused, MakeFolder, Boot, AtTop, Attention, Rest, Stays, truth,
         ServiceInv, PhasesAgree
<1>3. Limits' = Limits /\ Clean' = Clean
  BY <1>2 DEF Limits, Clean
<1>4. CASE Wake \/ NoEgress \/ SourcePaused
  <2>1. /\ pc = "top" /\ pc' = "top" /\ status' \in {"egress_unavailable", "source_paused", status}
        /\ asleep' \in BOOLEAN /\ due' \in BOOLEAN /\ folder' = folder
    BY <1>1, <1>4 DEF Wake, NoEgress, SourcePaused, AtTop, Rest, ServiceTypeOK
  <2>2. PhasesAgree' /\ AttentionIsEarned'
    BY <1>1, <1>2, <2>1 DEF ServiceInv, PhasesAgree, AttentionIsEarned, Resumable
  <2> QED BY <1>1, <1>2, <1>3, <2>1, <2>2, Between
          DEF ServiceInv, ServiceTypeOK, GraveIsNoted, PastAgrees, Resumable
<1>5. CASE MakeFolder /\ folder
  <2>1. /\ pc = "top" /\ pc' = "returned" /\ status' = "attention_required" /\ grave # {}
        /\ asleep' = FALSE /\ due' = due /\ folder' = folder
    BY <1>5 DEF MakeFolder, AtTop, Attention, ServiceInv, GraveIsNoted
  <2>2. PhasesAgree' /\ AttentionIsEarned'
    BY <1>1, <1>2, <2>1 DEF PhasesAgree, AttentionIsEarned
  <2> QED BY <1>1, <1>2, <1>3, <2>1, <2>2, Between DEF ServiceTypeOK
<1>6. CASE MakeFolder /\ ~folder
  <2>1. /\ pc = "top" /\ pc' = "made" /\ status' = status /\ asleep' = asleep /\ due' = due
        /\ folder' = TRUE
    BY <1>6 DEF MakeFolder, AtTop
  <2>2. PhasesAgree' /\ AttentionIsEarned'
    BY <1>1, <1>2, <2>1 DEF ServiceInv, PhasesAgree, AttentionIsEarned, Resumable
  <2> QED BY <1>1, <1>2, <1>3, <2>1, <2>2, Between DEF ServiceInv, ServiceTypeOK, PastAgrees
<1>7. CASE Boot /\ status \in {"none"} \cup Resumable
  <2>1. /\ pc = "down" /\ pc' = "top" /\ status' = status /\ asleep' \in BOOLEAN /\ due' = due
        /\ folder' = folder
    BY <1>7 DEF Boot
  <2>2. PhasesAgree' /\ AttentionIsEarned'
    BY <1>1, <1>2, <1>7, <2>1 DEF ServiceInv, PhasesAgree, AttentionIsEarned, Resumable
  <2>3. status # "running"
    BY <1>7 DEF Resumable
  <2> QED BY <1>1, <1>2, <1>3, <2>1, <2>2, <2>3, Between
          DEF ServiceInv, ServiceTypeOK, GraveIsNoted, PastAgrees
<1>8. CASE Boot /\ status \notin {"none"} \cup Resumable
  <2>1. /\ pc = "down" /\ pc' = "returned" /\ status' = "attention_required" /\ status = "running"
        /\ asleep' = FALSE /\ due' = due /\ folder' = folder
    BY <1>8 DEF Boot, Attention, ServiceInv, PhasesAgree
  <2>2. grave # {}
    BY <2>1 DEF ServiceInv, GraveIsNoted
  <2>3. PhasesAgree' /\ AttentionIsEarned'
    BY <1>1, <1>2, <2>1, <2>2 DEF PhasesAgree, AttentionIsEarned
  <2> QED BY <1>1, <1>2, <1>3, <2>1, <2>3, Between DEF ServiceTypeOK
<1> QED BY <1>4, <1>5, <1>6, <1>7, <1>8

\* An attempt begins,
LEMMA StartKeepsService ==
    ASSUME SweepTypeOK, ServiceInv, Start
    PROVE  ServiceInv'
<1>1. /\ pc = "made" /\ pc' = "child" /\ child' = "sweeping" /\ status' = "running" /\ Recover
      /\ stop' = asked /\ egress' = FALSE /\ doubt' = FALSE
      /\ UNCHANGED <<hand, accepted, asleep, due, folder, retries, asked, past, grave, left>>
  BY DEF Start, truth
<1>2. ServiceTypeOK'
  BY <1>1 DEF ServiceInv, ServiceTypeOK
<1>3. PhasesAgree'
  BY <1>1 DEF ServiceInv, PhasesAgree
<1>4. GraveIsNoted'
  BY <1>1 DEF ServiceInv, GraveIsNoted
<1>5. Limits' /\ Clean'
  BY <1>1 DEF ServiceInv, PastAgrees, Limits, Clean
<1>6. PastAgrees'
  BY <1>1, <1>5 DEF PastAgrees
<1>7. StopIsKnown'
  BY <1>1 DEF ServiceInv, GraveIsNoted, StopIsKnown
<1>8. QueueIsServed'
  <2>1. \A id \in Ids : staged'[id] = IF staged[id] = "pending" THEN "queued" ELSE staged[id]
    BY <1>1 DEF Recover
  <2> QED BY <1>1, <2>1 DEF QueueIsServed
<1>9. AttentionIsEarned'
  BY <1>1 DEF AttentionIsEarned
<1> QED BY <1>2, <1>3, <1>4, <1>6, <1>7, <1>8, <1>9 DEF ServiceInv

\* ... its folder is put aside,
LEMMA EgressExitKeeps ==
    ASSUME ServiceInv, EgressExit
    PROVE  ServiceInv'
<1>1. /\ ServiceTypeOK /\ pc = "child" /\ child = "ended" /\ egress /\ left'.cycles > 0
      /\ pc' = "top" /\ child' = "off" /\ status' = "egress_unavailable" /\ folder' = FALSE
      /\ asleep' = TRUE
      /\ UNCHANGED <<consumption, past, grave, retries, asked, due>>
  BY DEF EgressExit, ServiceInv, PhasesAgree, truth
<1>2. Limits' /\ Clean'
  BY <1>1 DEF ServiceInv, PastAgrees, Limits, Clean
<1>3. PhasesAgree' /\ AttentionIsEarned'
  BY <1>1 DEF PhasesAgree, AttentionIsEarned, Resumable
<1> QED BY <1>1, <1>2, <1>3, Between DEF ServiceTypeOK, Resumable

\* ... it may be tried again,
LEMMA RetryCycleKeeps ==
    ASSUME ServiceInv, RetryCycle
    PROVE  ServiceInv'
<1>1. /\ ServiceTypeOK /\ pc = "child" /\ child = "ended" /\ ~egress /\ left'.cycles > 0
      /\ pc' = "top" /\ child' = "off" /\ status' = "retry_wait" /\ folder' = FALSE
      /\ asleep' \in BOOLEAN /\ MayRetry
      /\ UNCHANGED <<consumption, past, grave, asked, due>>
  BY DEF RetryCycle, Validating, ServiceInv, PhasesAgree, truth
<1>2. PICK kind : kind = RetryKind /\ retries' = [retries EXCEPT ![kind] = @ + 1]
  BY DEF RetryCycle
<1>3. /\ kind \in {"blocked", "incomplete"} /\ kind = Outcome /\ ~doubt
      /\ retries[kind] < Limit(kind)
  BY <1>1, <1>2 DEF MayRetry, RetryKind
<1>4. /\ retries' \in [{"blocked", "incomplete"} -> Nat]
      /\ retries'.blocked = retries.blocked + One("blocked")
      /\ retries'.incomplete = retries.incomplete + One("incomplete")
      /\ One("complete") = 0 /\ One("review") = 0
  BY <1>1, <1>2, <1>3 DEF ServiceTypeOK, One
<1>5. /\ Limits /\ past.complete = 0 /\ past.review = 0 /\ past.unclean = 0
      /\ past.blocked = retries'.blocked /\ past.incomplete = retries'.incomplete
  BY <1>1, <1>3, <1>4 DEF ServiceInv, PastAgrees
<1>6. Limits' /\ Clean'
  <2>1. retries.blocked \in Nat /\ retries.incomplete \in Nat /\ BlockedRetries \in Nat /\ Retries \in Nat
    BY <1>1, ServiceAssumption DEF ServiceTypeOK
  <2>2. Limits'
    BY <1>3, <1>4, <1>5, <2>1 DEF Limits, Limit, One
  <2> QED BY <1>1, <1>5, <2>2 DEF Clean
<1>7. PhasesAgree' /\ AttentionIsEarned'
  BY <1>1 DEF PhasesAgree, AttentionIsEarned, Resumable
<1> QED BY <1>1, <1>4, <1>6, <1>7, Between DEF ServiceTypeOK, Resumable

\* ... or a person must look: none of the failures that pass by themselves
\* is the reason.
LEMMA GiveUpEarned ==
    ASSUME ServiceInv, GiveUp
    PROVE  \/ grave # {}
           \/ Seen >= MaxCandidates \/ Capped
           \/ past.blocked > BlockedRetries \/ past.incomplete > Retries
<1>1. CASE child = "died" \/ asked
  BY <1>1 DEF ServiceInv, GraveIsNoted
<1>2. CASE ~(child = "died" \/ asked)
  <2>1. child = "ended" /\ ~egress /\ Outcome # "complete" /\ ~MayRetry
    BY <1>2 DEF GiveUp, Validating
  <2>2. CASE doubt
    BY <2>2 DEF ServiceInv, GraveIsNoted
  <2>3. CASE ~doubt /\ Outcome = "blocked"
    <3>1. RetryKind = "blocked"
      BY <2>3 DEF RetryKind
    <3>2. past.blocked = retries.blocked + 1
      BY <2>1, <2>3 DEF ServiceInv, PastAgrees, One
    <3>3. retries.blocked \in Nat /\ BlockedRetries \in Nat
      BY ServiceAssumption DEF ServiceInv, ServiceTypeOK
    <3>4. ~(retries.blocked < BlockedRetries)
      BY <2>1, <3>1 DEF MayRetry, Limit
    <3> QED BY <3>2, <3>3, <3>4
  <2>4. CASE ~doubt /\ Outcome = "incomplete" /\ ~(Seen >= MaxCandidates)
    <3>1. RetryKind = "incomplete"
      BY <2>4 DEF RetryKind
    <3>2. past.incomplete = retries.incomplete + 1
      BY <2>1, <2>4 DEF ServiceInv, PastAgrees, One
    <3>3. retries.incomplete \in Nat /\ Retries \in Nat
      BY ServiceAssumption DEF ServiceInv, ServiceTypeOK
    <3>4. ~(retries.incomplete < Retries)
      BY <2>1, <3>1 DEF MayRetry, Limit
    <3> QED BY <3>2, <3>3, <3>4
  <2>5. CASE ~doubt /\ Outcome = "review"
    <3>1. ~QueueIsEmpty /\ Denials = {}
      BY <2>5 DEF Outcome
    <3>2. stop \/ Capped
      BY <2>1, <3>1 DEF ServiceInv, QueueIsServed
    <3>3. stop => grave # {}
      BY <2>1, <3>1 DEF ServiceInv, StopIsKnown
    <3> QED BY <3>2, <3>3
  <2> QED BY <2>1, <2>2, <2>3, <2>4, <2>5, Outcomes
<1> QED BY <1>1, <1>2

LEMMA GiveUpKeeps ==
    ASSUME ServiceInv, GiveUp
    PROVE  ServiceInv'
<1>1. /\ ServiceTypeOK /\ pc' = "returned" /\ child' = "off" /\ status' = "attention_required"
      /\ asleep' = FALSE
      /\ UNCHANGED <<consumption, past, grave, retries, asked, due, folder>>
      /\ UNCHANGED <<staged, accepted>>
  BY DEF GiveUp, Attention, ServiceInv, truth, queue, consumption
<1>2. PhasesAgree'
  BY <1>1 DEF PhasesAgree
<1>3. AttentionIsEarned'
  <2>1. Seen' = Seen /\ Capped' = Capped
    BY <1>1 DEF Seen, Capped
  <2> QED BY <1>1, <2>1, GiveUpEarned DEF AttentionIsEarned, Capped
<1> QED BY <1>1, <1>2, <1>3, Between DEF ServiceTypeOK

\* A stop of the operator, or a death.
LEMMA SigtermKeeps ==
    ASSUME SweepTypeOK, ServiceInv, Sigterm, left'.cycles = left.cycles
    PROVE  ServiceInv'
<1>1. /\ ServiceTypeOK /\ pc \in {"top", "made", "child"} /\ grave' = grave \cup {"stop"} /\ grave' # {}
      /\ grave' \in SUBSET {"doubt", "refused", "death", "stop"} /\ grave \subseteq grave'
      /\ UNCHANGED <<sweep, staged, child, egress, consumption, past>>
  BY DEF Sigterm, ServiceInv, ServiceTypeOK, sweeps, queue
<1>2. CASE pc = "top"
  <2>1. /\ pc' = "returned" /\ status' = "attention_required" /\ asleep' = FALSE
        /\ UNCHANGED <<due, folder, retries, asked>> /\ child = "off"
    BY <1>2 DEF Sigterm, Attention, ServiceInv, PhasesAgree
  <2>2. PhasesAgree' /\ AttentionIsEarned'
    BY <1>1, <2>1 DEF PhasesAgree, AttentionIsEarned
  <2> QED BY <1>1, <2>1, <2>2, Between DEF ServiceTypeOK
<1>3. CASE pc # "top"
  <2>1. /\ UNCHANGED <<status, pc, asleep, due, folder, retries>> /\ asked' = TRUE
        /\ (stop => stop')
    BY <1>3 DEF Sigterm
  <2>2. UNCHANGED <<hand, accepted, doubt>>
    BY <1>1 DEF consumption
  <2>3. ServiceTypeOK'
    BY <1>1, <2>1, <2>2 DEF ServiceTypeOK
  <2>4. PhasesAgree'
    BY <1>1, <2>1 DEF ServiceInv, PhasesAgree
  <2>5. GraveIsNoted' /\ StopIsKnown'
    BY <1>1 DEF GraveIsNoted, StopIsKnown
  <2>6. Outcome' = Outcome
    BY <1>1, <2>2 DEF Outcome, Denials, Missing, QueueIsEmpty
  <2>7. PastAgrees'
    BY <1>1, <2>1, <2>2, <2>6 DEF ServiceInv, PastAgrees, Limits, Clean, One
  <2>8. QueueIsServed'
    BY <1>1, <2>1, <2>2 DEF ServiceInv, QueueIsServed, Capped, QueueIsEmpty
  <2>9. AttentionIsEarned'
    BY <1>1 DEF AttentionIsEarned
  <2> QED BY <2>3, <2>4, <2>5, <2>7, <2>8, <2>9 DEF ServiceInv
<1> QED BY <1>2, <1>3

LEMMA ServiceDiesKeeps ==
    ASSUME ServiceInv, ServiceDies, left'.cycles = left.cycles
    PROVE  ServiceInv'
<1>1. /\ ServiceTypeOK /\ pc \in {"top", "made", "child"} /\ pc' = "down" /\ child' = "off"
      /\ asleep' = FALSE /\ asked' = FALSE
      /\ grave' = IF pc = "top" THEN grave ELSE grave \cup {"death"}
      /\ UNCHANGED <<consumption, past, retries, due, folder, status>>
  BY DEF ServiceDies, ServiceInv
<1>2. /\ grave' \in SUBSET {"doubt", "refused", "death", "stop"} /\ grave \subseteq grave'
      /\ (pc # "top" => grave' # {})
  BY <1>1 DEF ServiceTypeOK
<1>3. PhasesAgree'
  BY <1>1 DEF ServiceInv, PhasesAgree
<1>4. status' # "attention_required"
  BY <1>1 DEF ServiceInv, PhasesAgree, Resumable
<1>5. folder' \/ status' = "running" => grave' # {}
  <2>1. pc = "top" => status # "running"
    BY DEF ServiceInv, PhasesAgree, Resumable
  <2> QED BY <1>1, <1>2, <2>1 DEF ServiceInv, GraveIsNoted
<1>6. status' # "running" => Limits' /\ Clean'
  <2>1. status # "running" => pc # "child"
    BY DEF ServiceInv, PhasesAgree
  <2>2. status # "running" => Limits /\ Clean
    BY <1>1, <2>1 DEF ServiceInv, PastAgrees
  <2> QED BY <1>1, <2>2 DEF Limits, Clean
<1>7. AttentionIsEarned'
  BY <1>4 DEF AttentionIsEarned
<1> QED BY <1>1, <1>2, <1>3, <1>5, <1>6, <1>7, Between DEF ServiceTypeOK

\* A cycle is completed.
LEMMA CompleteKeepsService ==
    ASSUME SweepTypeOK, ServiceInv, Complete
    PROVE  ServiceInv'
<1>1. /\ ServiceTypeOK /\ ~asked /\ left.cycles > 0 /\ left.cycles \in Nat
      /\ left' = [left EXCEPT !.cycles = left.cycles - 1]
      /\ child' = "off" /\ due' = FALSE /\ retries' = NoRetries /\ asked' = asked
      /\ accepted' = {} /\ doubt' = FALSE /\ past' = NoPast /\ grave' = {} /\ folder' = FALSE
      /\ hand' = hand
  BY DEF Complete, Validating, NewEpoch, ServiceInv, PhasesAgree, SweepTypeOK
<1>2. left'.cycles = left.cycles - 1
  BY <1>1 DEF SweepTypeOK
<1>3. IF left.cycles = 1
      THEN status' = "complete" /\ pc' = "returned" /\ asleep' = asleep
      ELSE status' = "waiting" /\ pc' = "top" /\ asleep' = TRUE
  BY DEF Complete
<1>4. PhasesAgree'
  BY <1>1, <1>2, <1>3 DEF PhasesAgree, Resumable
<1>5. ServiceTypeOK'
  <2>1. IsFiniteSet({})
    BY FS_EmptySet
  <2> QED BY <1>1, <1>3, <2>1, FreshCounts DEF ServiceTypeOK, Resumable
<1>6. GraveIsNoted' /\ StopIsKnown' /\ QueueIsServed'
  BY <1>1, <1>3 DEF GraveIsNoted, StopIsKnown, QueueIsServed
<1>7. PastAgrees'
  BY <1>1, ServiceAssumption DEF PastAgrees, Limits, Clean, NoRetries, NoPast
<1>8. AttentionIsEarned'
  BY <1>3 DEF AttentionIsEarned
<1> QED BY <1>4, <1>5, <1>6, <1>7, <1>8 DEF ServiceInv

-----------------------------------------------------------------------------
(* The theorems                                                            *)

\* Every step is one of these.
Steps ==
    \/ UNCHANGED vars
    \/ (\E q \in Queries : ThreadStep(q) \/ Change(q)) /\ UNCHANGED <<consumption, service, truth>>
    \/ \E c \in Consumers : Works(c)
    \/ BeginConsuming \/ Report \/ ChildDies \/ Manages \/ Start \/ Complete

LEMMA StepsOfService ==
    ASSUME SweepTypeOK, [Next]_vars
    PROVE  Steps
<1>1. CASE ChildStep
  <2>1. CASE SweepStep /\ UNCHANGED <<consumption, service, truth>>
    BY <2>1, StepsOfThreads DEF Steps
  <2>2. CASE BeginConsuming \/ ConsumerStep \/ Report
    BY <2>2 DEF ConsumerStep, Works, Steps
  <2> QED BY <1>1, <2>1, <2>2 DEF ChildStep
<1>2. CASE ServiceStep \/ PauseEnds
  BY <1>2 DEF ServiceStep, PauseEnds, Manages, Steps
<1>3. CASE World
  <2>1. CASE (SweepTrouble \/ BlockOpens \/ \E q \in Queries : Change(q))
             /\ UNCHANGED <<consumption, service, truth>>
    <3>1. CASE SweepTrouble
      BY <2>1, <3>1, StepsOfThreads DEF Steps
    <3>2. CASE BlockOpens \/ \E q \in Queries : Change(q)
      BY <2>1, <3>2 DEF Manages, Steps
    <3> QED BY <2>1, <3>1, <3>2
  <2>2. CASE \E c \in Consumers : DoubtPayment(c) \/ Refused(c) \/ ProxyFails(c)
    BY <2>2 DEF Works, Steps
  <2>3. CASE ChildDies \/ NoEgress \/ Sigterm \/ ServiceDies
    BY <2>3 DEF Manages, Steps
  <2> QED BY <1>3, <2>1, <2>2, <2>3 DEF World
<1>4. CASE UNCHANGED vars
  BY <1>4 DEF Steps
<1> QED BY <1>1, <1>2, <1>3, <1>4 DEF Next

LEMMA InitHolds ==
    ASSUME Init
    PROVE  SweepInv /\ ServiceInv
<1>1. /\ listing \in [Queries -> Seq(Ids)]
      /\ left \in [{"cycles"} \cup Cost -> Nat] /\ left.cycles > 0
  <2>1. listing \in [Queries -> Seq(Ids)]
    BY ServiceAssumption DEF Init
  <2>2. left \in [cycles : Nat \ {0}, edits : Nat, denials : Nat, outages : Nat, errors : Nat,
                  pauses : Nat, doubts : Nat, deaths : Nat, stops : Nat]
    BY ServiceAssumption DEF Init
  <2>3. /\ left.cycles \in Nat \ {0} /\ left.edits \in Nat /\ left.denials \in Nat
        /\ left.outages \in Nat /\ left.errors \in Nat /\ left.pauses \in Nat
        /\ left.doubts \in Nat /\ left.deaths \in Nat /\ left.stops \in Nat
    BY <2>2
  <2>4. left = [what \in {"cycles"} \cup Cost |-> left[what]]
    BY <2>2 DEF Cost
  <2>5. \A what \in {"cycles"} \cup Cost : left[what] \in Nat
    BY <2>3 DEF Cost
  <2>6. left \in [{"cycles"} \cup Cost -> Nat]
    BY <2>4, <2>5
  <2> QED BY <2>1, <2>3, <2>6
<1>2. SweepTypeOK
  <2>1. /\ pages = [q \in Queries |-> <<>>] /\ complete = {}
        /\ sweep = [q \in Queries |-> Unstarted]
        /\ staged = [id \in Ids |-> "none"] /\ added = 0
        /\ child = "off" /\ stop = FALSE /\ egress = FALSE /\ block = FALSE
        /\ steady = [q \in Queries |-> {}] /\ changes = [q \in Queries |-> 0]
    BY DEF Init
  <2>2. <<>> \in Seq(Page) /\ Unstarted \in Thread
    BY UnstartedIsThread, JoinedNone
  <2>3. /\ pages \in [Queries -> Seq(Page)] /\ sweep \in [Queries -> Thread]
        /\ staged \in [Ids -> {"none", "queued", "pending", "done"}]
        /\ steady \in [Queries -> SUBSET Ids] /\ changes \in [Queries -> 0..2]
    BY <2>1, <2>2
  <2> QED BY <1>1, <2>1, <2>3 DEF SweepTypeOK
<1>3. ASSUME NEW q \in Queries PROVE QueryOK(q)
  <2>1. sweep[q] = Unstarted /\ pages[q] = <<>> /\ q \notin complete /\ child = "off"
    BY DEF Init
  <2> QED BY <2>1, UnstartedIsThread
          DEF QueryOK, ThreadAgrees, Working, ResultAgrees, PagesAgree, Session, PassAgrees
<1>4. ServiceTypeOK
  <2>1. IsFiniteSet({})
    BY FS_EmptySet
  <2> QED BY <2>1, FreshCounts DEF Init, ServiceTypeOK
<1>5. PhasesAgree /\ GraveIsNoted /\ StopIsKnown /\ QueueIsServed /\ AttentionIsEarned
  BY <1>1 DEF Init, PhasesAgree, GraveIsNoted, StopIsKnown, QueueIsServed, AttentionIsEarned
<1>6. PastAgrees
  BY ServiceAssumption DEF Init, PastAgrees, Limits, Clean, NoRetries, NoPast
<1> QED BY <1>2, <1>3, <1>4, <1>5, <1>6 DEF SweepInv, ServiceInv

LEMMA StepsKeep ==
    ASSUME SweepInv, ServiceInv, [Next]_vars
    PROVE  SweepInv' /\ ServiceInv'
<1>0. SweepTypeOK /\ ServiceTypeOK
  BY DEF SweepInv, ServiceInv
<1>1. Steps
  BY <1>0, StepsOfService
<1>2. CASE UNCHANGED vars
  <2>1. UNCHANGED <<source, cache, sweep, staged, added, child, switches, left, consumption, service, truth>>
    BY <1>2 DEF vars, sweeps, queue
  <2>2. UNCHANGED <<stop, egress, block>>
    BY <2>1 DEF switches
  <2>3. SweepInv'
    <3>1. StagedGrows
      BY <1>0, <2>1 DEF StagedGrows, SweepTypeOK
    <3> QED BY <1>0, <2>1, <2>2, <3>1, SweepsKept DEF SweepTypeOK
  <2> QED BY <2>1, <2>2, <2>3, PortalKeepsService
<1>3. ASSUME NEW q \in Queries, ThreadStep(q), UNCHANGED <<consumption, service, truth>>
      PROVE  SweepInv' /\ ServiceInv'
  BY <1>3, ThreadStepKeeps, ServiceBySweep
<1>4. ASSUME NEW q \in Queries, Change(q), UNCHANGED <<consumption, service, truth>>
      PROVE  SweepInv' /\ ServiceInv'
  <2>1. SweepInv' /\ left'.cycles = left.cycles
    BY <1>4, ChangeKeeps
  <2>2. UNCHANGED <<sweep, staged, child, stop, egress>>
    BY <1>4 DEF Change, Relist, queue, switches
  <2> QED BY <1>4, <2>1, <2>2, PortalKeepsService
<1>5. ASSUME NEW c \in Consumers, Works(c)
      PROVE  SweepInv' /\ ServiceInv'
  BY <1>5, WorksKeepSweeps, WorksKeepService
<1>6. CASE BeginConsuming \/ Report \/ ChildDies
  <2>1. SweepInv' /\ left'.cycles = left.cycles
    BY <1>6, PhasesKeepSweeps
  <2> QED BY <1>0, <1>6, <2>1, BeginConsumingKeeps, ReportKeeps, ChildDiesKeeps
<1>7. CASE Manages
  <2>1. SweepInv' /\ left'.cycles = left.cycles
    BY <1>7, ManagesKeepSweeps
  <2>2. ASSUME BlockOpens \/ BlockEnds, UNCHANGED <<consumption, service, truth>>
        PROVE  ServiceInv'
    <3>1. UNCHANGED <<sweep, staged, child, stop, egress>>
      BY <2>2 DEF BlockOpens, BlockEnds, queue
    <3> QED BY <2>1, <2>2, <3>1, PortalKeepsService
  <2> QED BY <1>0, <1>7, <2>1, <2>2, RestsKeep, EgressExitKeeps, RetryCycleKeeps, GiveUpKeeps,
             SigtermKeeps, ServiceDiesKeeps
      DEF Manages
<1>8. CASE Start
  BY <1>0, <1>8, StartKeeps, StartKeepsService DEF ServiceTypeOK
<1>9. CASE Complete
  BY <1>0, <1>9, CompleteKeepsSweeps, CompleteKeepsService
<1> QED BY <1>1, <1>2, <1>3, <1>4, <1>5, <1>6, <1>7, <1>8, <1>9 DEF Steps

\* The invariant of the sweeps (KeywordSweep.tla: what the cache, the queue
\* and the threads know of the source) and that of the service hold together.
THEOREM Invariance == Spec => [](SweepInv /\ ServiceInv)
<1>1. Init => SweepInv /\ ServiceInv
  BY InitHolds
<1>2. SweepInv /\ ServiceInv /\ [Next]_vars => SweepInv' /\ ServiceInv'
  BY StepsKeep
<1> QED BY <1>1, <1>2, PTL DEF Spec

\* Every variable of the sweeps, the consumers and the service keeps its type.
THEOREM TypeCorrectness == Spec => [](SweepTypeOK /\ ServiceTypeOK)
<1>1. SweepInv /\ ServiceInv => SweepTypeOK /\ ServiceTypeOK
  BY DEF SweepInv, ServiceInv
<1> QED BY <1>1, Invariance, PTL

\* A completed query has seen every convocatoria that stayed listed during its
\* pass, also one that several attempts continued, unless the listing changed
\* twice (run_window and the confirmation of the first page, keyword_sweep.py).
THEOREM PassIsAlwaysWhole == Spec => []PassIsWhole
<1>1. SweepInv => PassIsWhole
  <2>1. ASSUME SweepInv, NEW q \in complete, changes[q] <= 1
        PROVE  steady[q] \subseteq ToSet(Captured(q))
    <3>1. q \in Queries
      BY <2>1 DEF SweepInv, SweepTypeOK
    <3> QED BY <2>1, <3>1 DEF SweepInv, QueryOK, PassAgrees
  <2> QED BY <2>1 DEF PassIsWhole
<1> QED BY <1>1, Invariance, PTL

\* The service asks for a person only for a reason that does not pass by
\* itself (the branches of service.py that set attention_required).
THEOREM AttentionIsAlwaysEarned == Spec => []AttentionIsEarned
<1>1. ServiceInv => AttentionIsEarned
  BY DEF ServiceInv
<1> QED BY <1>1, Invariance, PTL

\* An attempt is started only after attempts of its cycle that may be tried
\* again, and as often as the limits allow (_retry_kind and RETRY_LIMITS of
\* service.py), across all restarts.
THEOREM StartsAreAlwaysEarned == Spec => StartsAreEarned
<1>1. ASSUME SweepInv, ServiceInv, [Next]_vars, child = "off", child' # "off"
      PROVE  /\ past.complete = 0 /\ past.review = 0 /\ past.unclean = 0
             /\ past.blocked <= BlockedRetries /\ past.incomplete <= Retries
  <2>1. Steps
    BY <1>1, StepsOfService DEF SweepInv
  <2>2. Start
    <3>1. ASSUME NEW q \in Queries, ThreadStep(q) PROVE FALSE
      BY <1>1, <3>1 DEF ThreadStep, Replays, Skips, Checks, EmitRow, Search, Asking, Sweeping, Reads,
                        Completes, Ends, Settles
    <3>2. ASSUME NEW q \in Queries, Change(q) PROVE FALSE
      BY <1>1, <3>2 DEF Change, Relist
    <3>3. ASSUME NEW c \in Consumers, Works(c) PROVE FALSE
      BY <1>1, <3>3 DEF Works, Take, Leave, LeaveReserved, Finish, DoubtPayment, Refused, ProxyFails,
                        Acknowledge, Holding
    <3>4. ~(BeginConsuming \/ Report \/ ChildDies \/ Complete)
      BY <1>1 DEF BeginConsuming, Report, ChildDies, Complete, Validating
    <3>5. ~Manages
      BY <1>1 DEF Manages, BlockOpens, BlockEnds, Boot, Wake, NoEgress, SourcePaused, MakeFolder,
                  EgressExit, RetryCycle, GiveUp, Sigterm, ServiceDies, Rest, Stays
    <3>6. ~UNCHANGED vars
      BY <1>1 DEF vars
    <3> QED BY <2>1, <3>1, <3>2, <3>3, <3>4, <3>5, <3>6 DEF Steps
  <2>3. pc = "made"
    BY <2>2 DEF Start
  <2>4. Limits /\ Clean
    BY <1>1, <2>3 DEF ServiceInv, PastAgrees
  <2> QED BY <2>4 DEF Limits, Clean
<1>2. SweepInv /\ ServiceInv /\ [Next]_vars =>
        (child = "off" /\ child' # "off" =>
            /\ past.complete = 0 /\ past.review = 0 /\ past.unclean = 0
            /\ past.blocked <= BlockedRetries /\ past.incomplete <= Retries)
  BY <1>1
<1> QED BY <1>2, Invariance, PTL DEF Spec, StartsAreEarned

\* A cycle counts as completed only when the pass over each query is complete,
\* or tolerated for the current day, and every convocatoria on its pages has
\* an outcome (assess_final_report, and the completion of the epoch).
THEOREM CyclesAreAlwaysWhole == Spec => CycleIsWhole
<1>1. ASSUME SweepInv, ServiceInv, Complete, NEW q \in Queries
      PROVE  /\ q \in complete \/ (q \in Today /\ sweep[q].result = "tolerated")
             /\ \A id \in ToSet(Captured(q)) : staged[id] = "done"
  <2>1. child = "ended" /\ Missing = {} /\ QueueIsEmpty
    BY <1>1 DEF Complete, Validating, Outcome
  <2>2. sweep[q].at = "over" /\ sweep[q].result \in {"complete", "tolerated"}
    BY <1>1, <2>1 DEF SweepInv, QueryOK, ResultAgrees, Missing
  <2>3. (q \in complete \/ (q \in Today /\ sweep[q].result = "tolerated")) /\ Offered(q)
    BY <1>1, <2>2 DEF SweepInv, QueryOK, ResultAgrees
  <2>4. ASSUME NEW id \in ToSet(Captured(q)) PROVE staged[id] = "done"
    <3>1. id \in Ids /\ staged[id] \in {"none", "queued", "pending", "done"}
      BY <1>1, <2>4, CapturedAreIds DEF SweepInv, SweepTypeOK
    <3> QED BY <2>1, <2>3, <2>4, <3>1 DEF Offered, QueueIsEmpty
  <2> QED BY <2>3, <2>4
<1>2. ASSUME SweepInv, ServiceInv, [Next]_vars, left'.cycles < left.cycles
      PROVE  Complete
  <2>1. Steps /\ left.cycles \in Nat
    BY <1>2, StepsOfService DEF SweepInv, SweepTypeOK
  <2>2. left'.cycles # left.cycles
    BY <1>2, <2>1
  <2>3. ASSUME NEW q \in Queries, ThreadStep(q) PROVE left'.cycles = left.cycles
    <3>1. child = "sweeping"
      BY <2>3 DEF ThreadStep, Replays, Skips, Checks, EmitRow, Search, Asking, Sweeping, Reads,
                  Completes, Ends, Settles
    <3>2. \A id \in Ids : staged[id] # "pending"
      BY <1>2, <3>1 DEF ServiceInv, QueueIsServed
    <3> QED BY <1>2, <2>3, <3>2, ThreadServes DEF Serves
  <2>4. ASSUME NEW q \in Queries, Change(q) PROVE left'.cycles = left.cycles
    BY <1>2, <2>4, ChangeKeeps
  <2>5. ASSUME NEW c \in Consumers, Works(c) PROVE left'.cycles = left.cycles
    BY <1>2, <2>5, WorksKeepSweeps
  <2>6. BeginConsuming \/ Report \/ ChildDies => left'.cycles = left.cycles
    BY <1>2, PhasesKeepSweeps
  <2>7. Manages => left'.cycles = left.cycles
    BY <1>2, ManagesKeepSweeps
  <2>8. Start \/ UNCHANGED vars => left' = left
    BY DEF Start, vars
  <2> QED BY <2>1, <2>2, <2>3, <2>4, <2>5, <2>6, <2>7, <2>8 DEF Steps
<1>3. SweepInv /\ ServiceInv /\ [Next]_vars =>
        (left'.cycles < left.cycles =>
            \A q \in Queries :
                /\ q \in complete \/ (q \in Today /\ sweep[q].result = "tolerated")
                /\ \A id \in ToSet(Captured(q)) : staged[id] = "done")
  BY <1>1, <1>2
<1> QED BY <1>3, Invariance, PTL DEF Spec, CycleIsWhole

=============================================================================
