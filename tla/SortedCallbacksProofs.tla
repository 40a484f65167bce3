----------------------- MODULE SortedCallbacksProofs ------------------------
(***************************************************************************)
(* SortedCallbacks: the array stays ordered and the others stay as they    *)
(* are, for every set of callbacks, every int width and every number of    *)
(* adds and removes, as long as differences of priorities are ints.        *)
(*                                                                         *)
(* Between two calls the array is ordered by priority and hash code, so    *)
(* that the initial run of the array with one more at its end leaves out   *)
(* that one at most, and binary insertion puts it where it belongs.  The   *)
(* recursive functions of the sort are unfolded by giving one that         *)
(* satisfies their equation.                                               *)
(***************************************************************************)
EXTENDS SortedCallbacks, SequenceTheorems, WellFoundedInduction, TLAPS

\* Two priorities differ by an int, as any two between XCallback.PRIORITY_LOWEST
\* and PRIORITY_HIGHEST do (-10000 and 10000).
NearPriorities ==
  \A p, q \in Priorities : q - p \in (-HalfRange)..(HalfRange - 1)

\* c runs before d, as far as compareTo decides that.
Before(c, d) == \/ priority[c] > priority[d]
                \/ priority[c] = priority[d] /\ hash[c] < hash[d]

\* The fields of callbacks have their types.
Fields == priority \in [Callbacks -> Priorities] /\ hash \in [Callbacks -> HashCodes]

\* No element comes before one to its left.
Ordered(s) == \A i, j \in 1..Len(s) : i < j => ~Before(s[j], s[i])

\* Nothing is there twice.
Distinct(s) == \A i, j \in 1..Len(s) : s[i] = s[j] => i = j

\* What holds between two calls.
IInv == Fields /\ elements \in Seq(Callbacks) /\ Ordered(elements) /\ Distinct(elements)

\* Fields are integers.
LEMMA FieldTypes ==
  ASSUME Fields, NEW c \in Callbacks
  PROVE  priority[c] \in Priorities /\ priority[c] \in Int /\ hash[c] \in Int
<1>1. priority[c] \in Priorities /\ hash[c] \in HashCodes
  BY DEF Fields
<1>2. HalfRange \in Int
  BY RangeAssumption
<1>3. priority[c] \in (-HalfRange)..(HalfRange - 1) /\ hash[c] \in Nat
  BY <1>1, PrioritiesAssumption, HashAssumption
<1> QED
  BY <1>1, <1>2, <1>3

\* As long as differences of priorities are ints, compareTo agrees with Before.
LEMMA Comparison ==
  ASSUME NearPriorities, Fields, NEW c \in Callbacks, NEW d \in Callbacks
  PROVE  CompareTo(c, d) \in Int /\ (CompareTo(c, d) < 0 <=> Before(c, d))
<1>1. /\ HalfRange \in Nat /\ priority[c] \in Priorities /\ priority[d] \in Priorities
      /\ priority[c] \in Int /\ priority[d] \in Int
      /\ hash[c] \in Int /\ hash[d] \in Int
  BY RangeAssumption, FieldTypes
<1>2. ComparePriority(priority[c], priority[d]) = priority[d] - priority[c]
  <2>1. priority[d] - priority[c] \in (-HalfRange)..(HalfRange - 1)
    BY <1>1 DEF NearPriorities
  <2> QED
    BY <1>1, <2>1 DEF ComparePriority, Wrap
<1> QED
  BY <1>1, <1>2 DEF CompareTo, Before

\* Before is a strict weak order.
LEMMA Weak ==
  ASSUME Fields, NEW c \in Callbacks, NEW d \in Callbacks, NEW e \in Callbacks
  PROVE  /\ ~Before(c, c)
         /\ Before(c, d) => ~Before(d, c)
         /\ ~Before(c, d) /\ ~Before(d, e) => ~Before(c, e)
<1>1. /\ priority[c] \in Int /\ priority[d] \in Int /\ priority[e] \in Int
      /\ hash[c] \in Int /\ hash[d] \in Int /\ hash[e] \in Int
  BY FieldTypes
<1> QED
  BY <1>1 DEF Before

-----------------------------------------------------------------------------
(* binarySort *)

\* A set of numbers has a least one.
LEMMA Least ==
  ASSUME NEW T \in SUBSET Nat, T # {}
  PROVE  \E x \in T : \A y \in T : x <= y
<1> DEFINE R == {ss \in Nat \X Nat : ss[1] < ss[2]}
<1>1. IsWellFoundedOn(R, Nat)
  BY NatLessThanWellFounded DEF OpToRel
<1>2. \A x, y \in Nat : x <= y \/ <<y, x>> \in R
  OBVIOUS
<1> HIDE DEF R
<1>3. PICK x \in T : \A y \in T : ~(<<y, x>> \in R)
  BY <1>1, WFMin, Zenon
<1> QED
  BY <1>2, <1>3

\* Where x belongs in s: behind those it does not come before.
Place(s, x, b) ==
  /\ b \in 0..Len(s)
  /\ \A i \in 1..Len(s) : Before(x, s[i]) <=> i > b

\* An ordered array has a place for each callback.
LEMMA PlaceExists ==
  ASSUME Fields, NEW s \in Seq(Callbacks), Ordered(s), NEW x \in Callbacks
  PROVE  \E b : Place(s, x, b)
<1> DEFINE T == {b \in 0..Len(s) : \A i \in 1..Len(s) : i > b => Before(x, s[i])}
<1>0. Len(s) \in Nat
  OBVIOUS
<1>1. T \in SUBSET Nat /\ Len(s) \in T
  BY <1>0
<1>2. PICK b \in T : \A y \in T : b <= y
  <2> HIDE DEF T
  <2> QED
    BY <1>1, Least, Zenon
<1>3. ASSUME NEW i \in 1..Len(s), i <= b PROVE ~Before(x, s[i])
  <2>1. b \in 1..Len(s) /\ b - 1 \in 0..Len(s)
    BY <1>0, <1>3
  <2>4. b - 1 \notin T
    <3>1. b - 1 \in T => b <= b - 1
      BY <1>2
    <3> QED
      BY <2>1, <3>1
  <2>2. ~Before(x, s[b])
    BY <1>0, <1>2, <2>1, <2>4
  <2>3. ~Before(s[b], s[i])
    <3>1. CASE i = b
      BY <1>3, <2>1, <3>1, Weak
    <3>2. CASE i < b
      BY <1>3, <2>1, <3>2 DEF Ordered
    <3> QED
      BY <1>0, <1>3, <2>1, <3>1, <3>2
  <2> QED
    BY <1>3, <2>1, <2>2, <2>3, Weak
<1> QED
  BY <1>0, <1>2, <1>3 DEF Place

\* The binary search finds the place.
LEMMA SearchFinds ==
  ASSUME NearPriorities, Fields, NEW s \in Seq(Callbacks), Ordered(s), NEW x \in Callbacks,
         NEW b, Place(s, x, b)
  PROVE  Position(s, x) = b
<1> DEFINE n == Len(s)
           Ranges == (0..n) \X (0..n)
           f == Search(s, x)
           Half(r) == (r[1] + r[2]) \div 2
           Turn(g, r) == IF r[1] >= r[2] THEN r[1]
                         ELSE IF CompareTo(x, s[Half(r) + 1]) < 0 THEN g[<<r[1], Half(r)>>]
                                                                  ELSE g[<<Half(r) + 1, r[2]>>]
           found(r) == IF r[1] >= r[2] \/ b < r[1] THEN r[1] ELSE IF b > r[2] THEN r[2] ELSE b
           g == [r \in Ranges |-> found(r)]
<1>0. n \in Nat /\ b \in 0..n
  BY DEF Place
<1>1. ASSUME NEW r \in Ranges, r[1] < r[2]
      PROVE  /\ Half(r) \in r[1]..(r[2] - 1)
             /\ <<r[1], Half(r)>> \in Ranges /\ <<Half(r) + 1, r[2]>> \in Ranges
             /\ CompareTo(x, s[Half(r) + 1]) < 0 <=> b <= Half(r)
  <2>0. r[1] \in 0..n /\ r[2] \in 0..n
    BY <1>1
  <2>1. Half(r) \in r[1]..(r[2] - 1)
    BY <1>0, <1>1, <2>0
  <2> HIDE DEF Half
  <2>2. Half(r) + 1 \in 1..n /\ Half(r) \in 0..n
    BY <1>0, <2>0, <2>1
  <2>3. s[Half(r) + 1] \in Callbacks
    BY <2>2
  <2>4. CompareTo(x, s[Half(r) + 1]) < 0 <=> b <= Half(r)
    <3>1. Before(x, s[Half(r) + 1]) <=> Half(r) + 1 > b
      BY <2>2 DEF Place
    <3>2. CompareTo(x, s[Half(r) + 1]) < 0 <=> Before(x, s[Half(r) + 1])
      BY <2>3, Comparison
    <3> QED
      BY <1>0, <2>2, <3>1, <3>2
  <2> QED
    BY <1>0, <2>0, <2>1, <2>2, <2>4
<1> HIDE DEF Half
<1>2. g = [r \in Ranges |-> Turn(g, r)]
  <2>1. ASSUME NEW r \in Ranges PROVE found(r) = Turn(g, r)
    <3>1. CASE r[1] >= r[2]
      BY <3>1
    <3>2. CASE r[1] < r[2]
      <4>1. /\ g[<<r[1], Half(r)>>] = found(<<r[1], Half(r)>>)
            /\ g[<<Half(r) + 1, r[2]>>] = found(<<Half(r) + 1, r[2]>>)
        BY <1>1, <3>2
      <4>2. /\ found(<<r[1], Half(r)>>) = IF r[1] >= Half(r) \/ b < r[1] THEN r[1]
                                           ELSE IF b > Half(r) THEN Half(r) ELSE b
            /\ found(<<Half(r) + 1, r[2]>>) = IF Half(r) + 1 >= r[2] \/ b < Half(r) + 1 THEN Half(r) + 1
                                               ELSE IF b > r[2] THEN r[2] ELSE b
        OBVIOUS
      <4> HIDE DEF g
      <4> QED
        BY <1>0, <1>1, <3>2, <4>1, <4>2
    <3>3. r[1] \in Int /\ r[2] \in Int
      BY <1>0
    <3> QED
      BY <3>1, <3>2, <3>3
  <2> HIDE DEF found, Turn
  <2> QED
    BY <2>1
<1>3. f = [r \in Ranges |-> Turn(f, r)]
  <2> HIDE DEF g
  <2> QED
    BY <1>2 DEF Search, Half

<1>4. \A r \in Ranges : f[r] = Turn(f, r)
  <2> HIDE DEF f, Turn
  <2> QED
    BY <1>3
<1> DEFINE T == {k \in Nat : \E r \in Ranges : r[1] <= r[2] /\ k = r[2] - r[1] /\ f[r] # found(r)}
<1>5. T = {}
  <2>1. ASSUME T # {} PROVE FALSE
    <3>1. PICK k \in T : \A j \in T : k <= j
      <4>1. T \in SUBSET Nat
        OBVIOUS
      <4> HIDE DEF T
      <4> QED
        BY <2>1, <4>1, Least, Zenon
    <3>2. PICK r \in Ranges : r[1] <= r[2] /\ k = r[2] - r[1] /\ f[r] # found(r)
      BY <3>1
    <3>3. r[1] \in 0..n /\ r[2] \in 0..n
      BY <3>2
    <3> HIDE DEF T
    <3>4. CASE r[1] = r[2]
      <4> HIDE DEF f
      <4>1. f[r] = Turn(f, r)
        <5> HIDE DEF Turn
        <5> QED
          BY <1>4
      <4>2. Turn(f, r) = r[1] /\ found(r) = r[1]
        BY <3>3, <3>4
      <4> HIDE DEF Turn, found
      <4> QED
        BY <3>2, <4>1, <4>2
    <3>5. CASE r[1] < r[2]
      <4> DEFINE lower == <<r[1], Half(r)>>
                 upper == <<Half(r) + 1, r[2]>>
      <4>1. lower \in Ranges /\ upper \in Ranges /\ Half(r) \in r[1]..(r[2] - 1)
        BY <1>1, <3>5
      <4>2. \A q \in Ranges : q[1] <= q[2] /\ q[2] - q[1] < r[2] - r[1] => f[q] = found(q)
        <5> SUFFICES ASSUME NEW q \in Ranges, q[1] <= q[2], q[2] - q[1] < r[2] - r[1], f[q] # found(q)
                     PROVE  FALSE
          OBVIOUS
        <5>1. q[2] - q[1] \in T
          <6> HIDE DEF f, found
          <6> QED
            BY <1>0 DEF T
        <5> QED
          BY <1>0, <3>1, <3>2, <5>1
      <4>3. f[lower] = found(lower) /\ f[upper] = found(upper)
        <5>1. lower[1] = r[1] /\ lower[2] = Half(r) /\ upper[1] = Half(r) + 1 /\ upper[2] = r[2]
          OBVIOUS
        <5>2. /\ lower[1] <= lower[2] /\ lower[2] - lower[1] < r[2] - r[1]
              /\ upper[1] <= upper[2] /\ upper[2] - upper[1] < r[2] - r[1]
          BY <1>0, <3>3, <3>5, <4>1, <5>1
        <5> HIDE DEF lower, upper, f, found
        <5> QED
          BY <4>1, <4>2, <5>2
      <4>4. f[r] = IF b <= Half(r) THEN f[lower] ELSE f[upper]
        BY <1>1, <1>4, <3>3, <3>5
      <4>5. found(r) = IF b <= Half(r) THEN found(lower) ELSE found(upper)
        <5>1. lower[1] = r[1] /\ lower[2] = Half(r) /\ upper[1] = Half(r) + 1 /\ upper[2] = r[2]
          OBVIOUS
        <5> HIDE DEF lower, upper
        <5> QED
          BY <1>0, <3>3, <3>5, <4>1, <5>1
      <4> HIDE DEF f, found
      <4> QED
        BY <3>2, <4>3, <4>4, <4>5
    <3> QED
      BY <1>0, <3>2, <3>3, <3>4, <3>5
  <2> QED
    BY <2>1
<1>6. f[<<0, n>>] = found(<<0, n>>)
  <2>1. <<0, n>> \in Ranges /\ n - 0 \in Nat
    BY <1>0
  <2> HIDE DEF f, found
  <2> QED
    BY <1>0, <1>5, <2>1
<1> QED
  BY <1>0, <1>6 DEF Position

-----------------------------------------------------------------------------
(* Arrays.sort *)

\* What InsertAfter gives.
LEMMA Inserted ==
  ASSUME NEW s \in Seq(Callbacks), NEW b \in 0..Len(s), NEW x \in Callbacks
  PROVE  /\ InsertAfter(s, b, x) \in Seq(Callbacks) /\ Len(InsertAfter(s, b, x)) = Len(s) + 1
         /\ \A i \in 1..Len(s) + 1 : InsertAfter(s, b, x)[i] =
              IF i <= b THEN s[i] ELSE IF i = b + 1 THEN x ELSE s[i - 1]
<1> DEFINE u == SubSeq(s, 1, b)
           v == SubSeq(s, b + 1, Len(s))
<1>0. Len(s) \in Nat
  OBVIOUS
<1>1. u \in Seq(Callbacks) /\ Len(u) = b /\ \A i \in 1..b : u[i] = s[i]
  BY <1>0
<1>2. v \in Seq(Callbacks) /\ Len(v) = Len(s) - b /\ \A i \in 1..Len(s) - b : v[i] = s[b + i]
  BY <1>0
<1> HIDE DEF u, v
<1>3. /\ u \o <<x>> \in Seq(Callbacks) /\ Len(u \o <<x>>) = b + 1
      /\ \A i \in 1..b + 1 : (u \o <<x>>)[i] = IF i <= b THEN s[i] ELSE x
  BY <1>0, <1>1
<1> DEFINE w == u \o <<x>>
<1> HIDE DEF w
<1>4. /\ w \o v \in Seq(Callbacks) /\ Len(w \o v) = Len(s) + 1
      /\ \A i \in 1..Len(s) + 1 : (w \o v)[i] = IF i <= b + 1 THEN w[i] ELSE v[i - (b + 1)]
  BY <1>0, <1>2, <1>3 DEF w
<1>5. InsertAfter(s, b, x) = w \o v
  BY DEF InsertAfter, u, v, w
<1> DEFINE z == w \o v
<1> HIDE DEF z
<1>6. \A i \in 1..Len(s) + 1 : z[i] = IF i <= b + 1 THEN w[i] ELSE v[i - (b + 1)]
  BY <1>4 DEF z
<1>7. ASSUME NEW i \in 1..Len(s) + 1
      PROVE  z[i] = IF i <= b THEN s[i] ELSE IF i = b + 1 THEN x ELSE s[i - 1]
  <2>1. CASE i <= b + 1
    BY <1>0, <1>3, <1>6, <2>1 DEF w
  <2>2. CASE i > b + 1
    <3>1. i - (b + 1) \in 1..Len(s) - b /\ b + (i - (b + 1)) = i - 1
      BY <1>0, <2>2
    <3> QED
      BY <1>0, <1>2, <1>6, <2>2, <3>1
  <2> QED
    BY <1>0, <2>1, <2>2
<1> QED
  BY <1>4, <1>5, <1>7 DEF z

\* The insertion sort of an array whose first elements, all but one at most, are
\* a run.
LEMMA Unfolded ==
  ASSUME NEW a \in Seq(Callbacks), NEW run \in Nat, Len(a) \in {run, run + 1}
  PROVE  /\ Len(a) = run => SortedUpTo(a, run)[Len(a)] = AscendingRun(a, run)
         /\ Len(a) = run + 1 =>
              SortedUpTo(a, run)[Len(a)] =
                InsertAfter(AscendingRun(a, run), Position(AscendingRun(a, run), a[run + 1]), a[run + 1])
<1> DEFINE f == SortedUpTo(a, run)
           Turn(g, k) == IF k = run THEN AscendingRun(a, run)
                         ELSE InsertAfter(g[k - 1], Position(g[k - 1], a[k]), a[k])
           first == AscendingRun(a, run)
           g == [k \in run..Len(a) |-> IF k = run THEN first
                                       ELSE InsertAfter(first, Position(first, a[k]), a[k])]
<1>1. g = [k \in run..Len(a) |-> Turn(g, k)]
  <2>1. ASSUME NEW k \in run..Len(a)
        PROVE  (IF k = run THEN first ELSE InsertAfter(first, Position(first, a[k]), a[k])) = Turn(g, k)
    <3>1. k # run => g[k - 1] = first
      OBVIOUS
    <3> HIDE DEF g
    <3> QED
      BY <3>1
  <2> HIDE DEF Turn
  <2> QED
    BY <2>1
<1> HIDE DEF g
<1>2. f = [k \in run..Len(a) |-> Turn(f, k)]
  BY <1>1 DEF SortedUpTo
<1> HIDE DEF f
<1>3. \A k \in run..Len(a) : f[k] = Turn(f, k)
  <2> HIDE DEF Turn
  <2> QED
    BY <1>2
<1>4. f[run] = first
  BY <1>3
<1>5. Len(a) = run + 1 => f[run + 1] = InsertAfter(first, Position(first, a[run + 1]), a[run + 1])
  <2> SUFFICES ASSUME Len(a) = run + 1
               PROVE  f[run + 1] = InsertAfter(first, Position(first, a[run + 1]), a[run + 1])
    OBVIOUS
  <2>1. f[run + 1] = Turn(f, run + 1) /\ run + 1 # run /\ (run + 1) - 1 = run
    BY <1>3
  <2> QED
    BY <1>4, <2>1
<1> QED
  BY <1>4, <1>5 DEF f

\* One element after an ordered array: sorting puts it to its place, and leaves
\* the others as they are.
LEMMA SortInserts ==
  ASSUME NearPriorities, Fields, NEW s \in Seq(Callbacks), Ordered(s), NEW c \in Callbacks
  PROVE  \E b : Place(s, c, b) /\ Sort(Append(s, c)) = InsertAfter(s, b, c)
<1> DEFINE n == Len(s)
           a == Append(s, c)
<1>0. /\ n \in Nat /\ a \in Seq(Callbacks) /\ Len(a) = n + 1 /\ a[n + 1] = c
      /\ \A i \in 1..n : a[i] = s[i] /\ s[i] \in Callbacks
  OBVIOUS
<1> HIDE DEF a
<1>1. PICK b : Place(s, c, b)
  BY PlaceExists
<1> DEFINE y == InsertAfter(s, b, c)
<1>4. /\ y \in Seq(Callbacks) /\ Len(y) = n + 1
      /\ \A i \in 1..n + 1 : y[i] = IF i <= b THEN s[i] ELSE IF i = b + 1 THEN c ELSE s[i - 1]
  <2>1. b \in 0..Len(s)
    BY <1>1 DEF Place
  <2> QED
    BY <2>1, Inserted
<1> HIDE DEF y
<1>2. CASE n = 0
  <2>1. b = 0 /\ s = <<>> /\ a = <<c>>
    BY <1>0, <1>1, <1>2 DEF Place, a
  <2>2. Sort(a) = a
    BY <1>0, <1>2 DEF Sort
  <2>3. InsertAfter(s, b, c) = <<c>>
    BY <1>2, <1>4, <2>1 DEF y
  <2> QED
    BY <1>1, <2>1, <2>2, <2>3 DEF a
<1>3. CASE n > 0
  <2> DEFINE lengths == {k \in 1..Len(a) : Descending(a, k) \/ Ascending(a, k)}
             run == RunLength(a)
  <2>1. n \in lengths
    <3>1. ASSUME NEW i \in 1..(n - 1) PROVE CompareTo(a[i + 1], a[i]) >= 0
      <4>1. /\ i \in 1..n /\ i + 1 \in 1..n /\ i < i + 1 /\ a[i] = s[i] /\ a[i + 1] = s[i + 1]
            /\ s[i] \in Callbacks /\ s[i + 1] \in Callbacks
        BY <1>0
      <4>2. ~Before(s[i + 1], s[i])
        BY <4>1 DEF Ordered
      <4>3. CompareTo(s[i + 1], s[i]) >= 0
        <5>1. CompareTo(s[i + 1], s[i]) \in Int /\ (CompareTo(s[i + 1], s[i]) < 0 <=> Before(s[i + 1], s[i]))
          BY <4>1, Comparison
        <5> QED
          BY <4>2, <5>1
      <4> QED
        BY <4>1, <4>3
    <3> QED
      BY <1>0, <1>3, <3>1 DEF Ascending
  <2>2. run \in {n, n + 1} /\ run \in lengths
    <3>1. \E k \in lengths : \A j \in lengths : j <= k
      <4>1. lengths \subseteq 1..(n + 1)
        BY <1>0
      <4> HIDE DEF lengths
      <4>2. CASE n + 1 \in lengths
        BY <1>0, <4>1, <4>2
      <4>3. CASE n + 1 \notin lengths
        BY <1>0, <2>1, <4>1, <4>3
      <4> QED
        BY <4>2, <4>3
    <3>2. run \in lengths /\ \A j \in lengths : j <= run
      BY <3>1 DEF RunLength
    <3>3. lengths \subseteq 1..(n + 1)
      BY <1>0
    <3> HIDE DEF lengths, run
    <3> QED
      BY <1>0, <2>1, <3>2, <3>3

  <2>7. Descending(a, run) \/ Ascending(a, run)
    BY <2>2
  <2>8. run \in {n, n + 1}
    BY <2>2
  <2>4. Sort(a) = SortedUpTo(a, run)[Len(a)]
    BY <1>0, <1>3 DEF Sort
  <2> HIDE DEF lengths, run
  <2>3. ASSUME Descending(a, run) PROVE run > 1 => n = 1 /\ Before(c, s[1])
    <3> HAVE run > 1
    <3>1. CompareTo(a[2], a[1]) < 0 /\ a[1] \in Callbacks /\ a[2] \in Callbacks
      BY <1>0, <1>3, <2>8, <2>3 DEF Descending
    <3>2. Before(a[2], a[1])
      BY <3>1, Comparison
    <3>3. CASE n = 1
      BY <1>0, <3>2, <3>3
    <3>4. CASE n > 1
      BY <1>0, <3>2, <3>4 DEF Ordered
    <3>5. n = 1 \/ n > 1
      <4>1. n \in Nat
        OBVIOUS
      <4> HIDE DEF n
      <4> QED
        BY <1>3, <4>1
    <3> QED
      BY <3>3, <3>4, <3>5, Zenon
  <2>5. CASE run = n
    <3>1. AscendingRun(a, run) = s
      <4>1. AscendingRun(a, run) = SubSeq(a, 1, n)
        <5>1. ASSUME n > 1, Descending(a, n) PROVE FALSE
          BY <1>0, <2>3, <2>5, <5>1
        <5> QED
          BY <2>5, <5>1 DEF AscendingRun
      <4>2. SubSeq(a, 1, n) = s
        BY <1>0
      <4> QED
        BY <4>1, <4>2
    <3>2. Sort(a) = InsertAfter(s, Position(s, c), c)
      BY <1>0, <2>4, <2>5, <3>1, Unfolded
    <3> QED
      BY <1>1, <3>2, SearchFinds DEF a
  <2>6. CASE run = n + 1
    <3>1. Sort(a) = AscendingRun(a, n + 1)
      BY <1>0, <2>4, <2>6, Unfolded
    <3>2. CASE Descending(a, n + 1)
      <4>1. n = 1 /\ Before(c, s[1]) /\ b = 0
        BY <1>0, <1>1, <1>3, <2>3, <2>6, <3>2 DEF Place
      <4>2. Sort(a) = Reversed(SubSeq(a, 1, 2))
        BY <3>1, <3>2, <4>1 DEF AscendingRun
      <4>3. SubSeq(a, 1, 2) = <<s[1], c>>
        <5> DEFINE u == SubSeq(a, 1, 2)
        <5>1. u \in Seq(Callbacks) /\ Len(u) = 2 /\ u[1] = s[1] /\ u[2] = c
          BY <1>0, <4>1
        <5> HIDE DEF u
        <5>2. u = <<s[1], c>>
          BY <5>1
        <5> QED
          BY <5>2 DEF u
      <4>4. Reversed(<<s[1], c>>) = <<c, s[1]>>
        BY DEF Reversed
      <4>5. InsertAfter(s, b, c) = <<c, s[1]>>
        <5>1. y \in Seq(Callbacks) /\ Len(y) = 2 /\ y[1] = c /\ y[2] = s[1]
          BY <1>0, <1>4, <4>1
        <5> QED
          BY <5>1 DEF y
      <4> QED
        BY <1>1, <4>2, <4>3, <4>4, <4>5 DEF a
    <3>3. CASE ~Descending(a, n + 1)
      <4>1. Sort(a) = a
        BY <1>0, <3>1, <3>3 DEF AscendingRun
      <4>2. CompareTo(a[n + 1], a[n]) >= 0
        BY <1>0, <1>3, <2>7, <2>6, <3>3 DEF Ascending
      <4>3. ~Before(c, s[n])
        <5>1. n \in 1..n
          BY <1>0, <1>3
        <5>2. a[n] = s[n] /\ s[n] \in Callbacks /\ a[n + 1] = c
          BY <1>0, <5>1
        <5>3. CompareTo(c, s[n]) \in Int /\ (CompareTo(c, s[n]) < 0 <=> Before(c, s[n]))
          BY <5>2, Comparison
        <5>4. CompareTo(c, s[n]) >= 0
          BY <4>2, <5>2
        <5> QED
          BY <5>3, <5>4
      <4>4. b = n
        BY <1>0, <1>1, <1>3, <4>3 DEF Place
      <4>5. InsertAfter(s, b, c) = a
        <5>1. \A i \in 1..n + 1 : y[i] = a[i]
          BY <1>0, <1>4, <4>4
        <5> QED
          BY <1>0, <1>4, <5>1 DEF y
      <4> QED
        BY <1>1, <4>1, <4>5 DEF a
    <3> QED
      BY <3>2, <3>3
  <2> QED
    BY <2>8, <2>5, <2>6
<1> QED
  BY <1>0, <1>2, <1>3

-----------------------------------------------------------------------------
(* add and remove *)

\* An array with c and the one without: the others are the same, in the same order.
LEMMA WithAndWithout ==
  ASSUME NEW s \in Seq(Callbacks), NEW b \in 0..Len(s), NEW c \in Callbacks
  PROVE  LET t == InsertAfter(s, b, c) IN
         /\ Members(t) \ {c} = Members(s) \ {c}
         /\ \A d, e \in Callbacks \ {c} : Precedes(t, d, e) <=> Precedes(s, d, e)
         /\ Distinct(t) => Distinct(s)
         /\ Ordered(t) => Ordered(s)
         /\ Distinct(s) /\ c \notin Members(s) => Distinct(t)
<1> DEFINE t == InsertAfter(s, b, c)
           n == Len(s)
           to(i) == IF i <= b THEN i ELSE i + 1
           from(i) == IF i <= b THEN i ELSE i - 1
<1>0. n \in Nat
  OBVIOUS
<1>1. /\ t \in Seq(Callbacks) /\ Len(t) = n + 1
      /\ \A i \in 1..n + 1 : t[i] = IF i <= b THEN s[i] ELSE IF i = b + 1 THEN c ELSE s[i - 1]
  BY Inserted, ZenonT(60)
<1> HIDE DEF t, n
<1>2. n = Len(s) /\ b \in 0..n
  BY DEF n
<1>3. \A i \in 1..n : to(i) \in 1..n + 1 /\ t[to(i)] = s[i]
  BY <1>0, <1>1, <1>2
<1>4. \A i, j \in 1..n : (i < j <=> to(i) < to(j)) /\ (i = j <=> to(i) = to(j))
  BY <1>0, <1>2
<1>5. \A i \in 1..n + 1 : i # b + 1 => from(i) \in 1..n /\ t[i] = s[from(i)] /\ to(from(i)) = i
  BY <1>0, <1>1, <1>2
<1>6. t[b + 1] = c /\ b + 1 \in 1..n + 1
  BY <1>0, <1>1, <1>2
<1> HIDE DEF to, from
<1>7. Members(t) \ {c} = Members(s) \ {c}
  <2>1. \A x : x \in Members(t) <=> \E i \in 1..n + 1 : t[i] = x
    BY <1>1 DEF Members
  <2>2. \A x : x \in Members(s) <=> \E i \in 1..n : s[i] = x
    BY <1>2 DEF Members
  <2> QED
    BY <2>1, <2>2, <1>3, <1>5, <1>6
<1>8. ASSUME NEW d \in Callbacks \ {c}, NEW e \in Callbacks \ {c}
      PROVE  Precedes(t, d, e) <=> Precedes(s, d, e)
  <2>1. Precedes(s, d, e) => Precedes(t, d, e)
    BY <1>1, <1>2, <1>3, <1>4 DEF Precedes
  <2>2. Precedes(t, d, e) => Precedes(s, d, e)
    <3> SUFFICES ASSUME NEW i \in 1..n + 1, NEW j \in 1..n + 1, i < j, t[i] = d, t[j] = e
                 PROVE  Precedes(s, d, e)
      BY <1>1 DEF Precedes
    <3>1. i # b + 1 /\ j # b + 1
      BY <1>6
    <3> QED
      BY <1>2, <1>4, <1>5, <3>1 DEF Precedes
  <2> QED
    BY <2>1, <2>2
<1>9. Distinct(t) => Distinct(s)
  BY <1>1, <1>2, <1>3, <1>4 DEF Distinct
<1>10. Ordered(t) => Ordered(s)
  BY <1>1, <1>2, <1>3, <1>4 DEF Ordered
<1>11. ASSUME Distinct(s), c \notin Members(s) PROVE Distinct(t)
  <2>1. \A i \in 1..n : s[i] # c
    BY <1>2, <1>11 DEF Members
  <2> SUFFICES ASSUME NEW i \in 1..n + 1, NEW j \in 1..n + 1, t[i] = t[j] PROVE i = j
    BY <1>1 DEF Distinct
  <2>2. CASE i = b + 1 \/ j = b + 1
    BY <1>5, <1>6, <2>1, <2>2
  <2>3. CASE i # b + 1 /\ j # b + 1
    <3>1. from(i) = from(j)
      BY <1>2, <1>5, <1>11, <2>3 DEF Distinct
    <3> QED
      BY <1>5, <2>3, <3>1
  <2> QED
    BY <2>2, <2>3
<1> QED
  BY <1>7, <1>8, <1>9, <1>10, <1>11 DEF t

\* An element at its place leaves the array ordered.
LEMMA PlacedOrdered ==
  ASSUME Fields, NEW s \in Seq(Callbacks), Ordered(s), NEW c \in Callbacks, NEW b, Place(s, c, b)
  PROVE  Ordered(InsertAfter(s, b, c))
<1> DEFINE t == InsertAfter(s, b, c)
           n == Len(s)
<1>0. n \in Nat /\ b \in 0..n
  BY DEF Place
<1>1. /\ Len(t) = n + 1
      /\ \A i \in 1..n + 1 : t[i] = IF i <= b THEN s[i] ELSE IF i = b + 1 THEN c ELSE s[i - 1]
  BY <1>0, Inserted
<1> HIDE DEF t
<1>2. \A i \in 1..n : s[i] \in Callbacks /\ (Before(c, s[i]) <=> i > b)
  BY DEF Place
<1>3. \A i \in 1..n : i > b => ~Before(s[i], c)
  BY <1>2, Weak
<1> SUFFICES ASSUME NEW i \in 1..n + 1, NEW j \in 1..n + 1, i < j PROVE ~Before(t[j], t[i])
  BY <1>1 DEF Ordered, t
<1>4. CASE j = b + 1
  <2>1. i \in 1..n /\ i <= b /\ t[i] = s[i] /\ t[j] = c
    BY <1>0, <1>1, <1>4
  <2>2. ~Before(c, s[i])
    BY <1>0, <1>2, <2>1
  <2> QED
    BY <2>1, <2>2
<1>5. CASE i = b + 1
  <2>1. j - 1 \in 1..n /\ j - 1 > b /\ t[i] = c /\ t[j] = s[j - 1]
    BY <1>0, <1>1, <1>5
  <2> QED
    BY <1>3, <2>1
<1>6. CASE i # b + 1 /\ j # b + 1
  <2>1. PICK k \in 1..n, l \in 1..n : k < l /\ t[i] = s[k] /\ t[j] = s[l]
    <3>1. CASE j <= b
      BY <1>0, <1>1, <3>1
    <3>2. CASE i <= b /\ j > b + 1
      <4>1. i \in 1..n /\ j - 1 \in 1..n /\ i < j - 1 /\ t[i] = s[i] /\ t[j] = s[j - 1]
        BY <1>0, <1>1, <3>2
      <4> QED
        BY <4>1
    <3>3. CASE i > b + 1
      <4>1. i - 1 \in 1..n /\ j - 1 \in 1..n /\ i - 1 < j - 1 /\ t[i] = s[i - 1] /\ t[j] = s[j - 1]
        BY <1>0, <1>1, <3>3
      <4> QED
        BY <4>1
    <3> QED
      BY <1>0, <1>6, <3>1, <3>2, <3>3
  <2> QED
    BY <2>1 DEF Ordered
<1> QED
  BY <1>4, <1>5, <1>6

\* add: the invariant, and the others.
LEMMA AddStep ==
  ASSUME NearPriorities, IInv, NEW c \in Callbacks, add(c)
  PROVE  /\ IInv'
         /\ Members(elements') \ {c} = Members(elements) \ {c}
         /\ \A d, e \in Callbacks \ {c} : Precedes(elements', d, e) <=> Precedes(elements, d, e)
<1>1. CASE c \in Members(elements)
  BY <1>1 DEF add, IInv, Fields, Ordered, Distinct, Before
<1>2. CASE c \notin Members(elements)
  <2>1. PICK b : Place(elements, c, b) /\ Sort(Append(elements, c)) = InsertAfter(elements, b, c)
    BY SortInserts DEF IInv
  <2>2. elements' = InsertAfter(elements, b, c) /\ UNCHANGED <<priority, hash>> /\ b \in 0..Len(elements)
    BY <1>2, <2>1 DEF add, Place
  <2> DEFINE t == InsertAfter(elements, b, c)
  <2>3. t \in Seq(Callbacks)
    BY <2>2, Inserted DEF IInv
  <2>4. Ordered(t)
    BY <2>1, PlacedOrdered DEF IInv
  <2>5. /\ Distinct(t)
        /\ Members(t) \ {c} = Members(elements) \ {c}
        /\ \A d, e \in Callbacks \ {c} : Precedes(t, d, e) <=> Precedes(elements, d, e)
    BY <1>2, <2>2, WithAndWithout DEF IInv
  <2> HIDE DEF t
  <2>6. elements' = t
    BY <2>2 DEF t
  <2> QED
    BY <2>2, <2>3, <2>4, <2>5, <2>6 DEF IInv, Fields, Ordered, Distinct, Before
<1> QED
  BY <1>1, <1>2

\* remove: the same, for all priorities.
LEMMA RemoveStep ==
  ASSUME IInv, NEW c \in Callbacks, remove(c)
  PROVE  /\ IInv'
         /\ Members(elements') \ {c} = Members(elements) \ {c}
         /\ \A d, e \in Callbacks \ {c} : Precedes(elements', d, e) <=> Precedes(elements, d, e)
<1>1. CASE c \notin Members(elements)
  BY <1>1 DEF remove, IInv, Fields, Ordered, Distinct, Before
<1>2. CASE c \in Members(elements)
  <2> DEFINE i == IndexOf(c)
             n == Len(elements)
             u == SubSeq(elements, 1, i - 1)
             v == SubSeq(elements, i + 1, n)
             s == u \o v
  <2>0. n \in Nat /\ elements \in Seq(Callbacks)
    BY DEF IInv
  <2>1. i \in 1..n /\ elements[i] = c
    BY <1>2 DEF IndexOf, Members
  <2>2. elements' = s /\ UNCHANGED <<priority, hash>>
    BY <1>2 DEF remove
  <2> HIDE DEF i
  <2>3. u \in Seq(Callbacks) /\ Len(u) = i - 1 /\ \A k \in 1..i - 1 : u[k] = elements[k]
    BY <2>0, <2>1
  <2>4. v \in Seq(Callbacks) /\ Len(v) = n - i /\ \A k \in 1..n - i : v[k] = elements[i + k]
    BY <2>0, <2>1
  <2> HIDE DEF u, v
  <2>5. /\ s \in Seq(Callbacks) /\ Len(s) = n - 1
        /\ \A k \in 1..n - 1 : s[k] = IF k <= i - 1 THEN u[k] ELSE v[k - (i - 1)]
    <3>1. /\ s \in Seq(Callbacks) /\ Len(s) = Len(u) + Len(v)
          /\ \A k \in 1..Len(u) + Len(v) : s[k] = IF k <= Len(u) THEN u[k] ELSE v[k - Len(u)]
      BY <2>3, <2>4, ConcatProperties
    <3>2. Len(u) + Len(v) = n - 1
      BY <2>0, <2>1, <2>3, <2>4
    <3> HIDE DEF s
    <3> QED
      BY <2>3, <3>1, <3>2
  <2> HIDE DEF s
  <2>6. \A k \in 1..n - 1 : s[k] = IF k < i THEN elements[k] ELSE elements[k + 1]
    <3> TAKE k \in 1..n - 1
    <3>1. CASE k < i
      BY <2>0, <2>1, <2>3, <2>5, <3>1
    <3>2. CASE k >= i
      <4>1. k - (i - 1) \in 1..n - i /\ i + (k - (i - 1)) = k + 1
        BY <2>0, <2>1, <3>2
      <4> QED
        BY <2>0, <2>1, <2>4, <2>5, <3>2, <4>1
    <3> QED
      BY <2>0, <2>1, <3>1, <3>2
  <2> DEFINE t == InsertAfter(s, i - 1, c)
  <2>7. i - 1 \in 0..Len(s)
    BY <2>0, <2>1, <2>5
  <2>8. /\ t \in Seq(Callbacks) /\ Len(t) = n
        /\ \A k \in 1..n : t[k] = IF k <= i - 1 THEN s[k] ELSE IF k = i THEN c ELSE s[k - 1]
    <3>1. /\ t \in Seq(Callbacks) /\ Len(t) = Len(s) + 1
          /\ \A k \in 1..Len(s) + 1 :
               t[k] = IF k <= i - 1 THEN s[k] ELSE IF k = (i - 1) + 1 THEN c ELSE s[k - 1]
      <4>1. s \in Seq(Callbacks)
        BY <2>5
      <4> QED
        BY <2>7, <4>1, Inserted, ZenonT(60)
    <3>2. Len(s) + 1 = n /\ (i - 1) + 1 = i
      BY <2>0, <2>1, <2>5
    <3> HIDE DEF t
    <3> QED
      BY <3>1, <3>2
  <2>9. /\ Members(t) \ {c} = Members(s) \ {c}
        /\ \A d, e \in Callbacks \ {c} : Precedes(t, d, e) <=> Precedes(s, d, e)
        /\ Distinct(t) => Distinct(s)
        /\ Ordered(t) => Ordered(s)
    BY <2>5, <2>7, WithAndWithout
  <2> HIDE DEF t
  <2>10. t = elements
    <3>1. \A k \in 1..n : t[k] = elements[k]
      BY <2>0, <2>1, <2>6, <2>8
    <3> QED
      BY <2>0, <2>8, <3>1
  <2> QED
    BY <2>2, <2>5, <2>9, <2>10 DEF IInv, Fields, Ordered, Distinct, Before
<1> QED
  BY <1>1, <1>2

-----------------------------------------------------------------------------
(* Theorems *)

\* At first there are no callbacks.
LEMMA InitIInv == SetInit => IInv
BY DEF SetInit, IInv, Fields, Ordered, Distinct

\* Every step keeps the invariant.
LEMMA StepIInv == NearPriorities /\ IInv /\ [SetNext]_setVars => IInv'
<1> SUFFICES ASSUME NearPriorities, IInv, [SetNext]_setVars PROVE IInv'
  OBVIOUS
<1>1. CASE UNCHANGED setVars
  BY <1>1 DEF setVars, IInv, Fields, Ordered, Distinct, Before
<1> QED
  BY <1>1, AddStep, RemoveStep DEF SetNext

\* As long as differences of priorities are ints, the array stays ordered, without
\* duplicates.
THEOREM Invariance == ASSUME NearPriorities PROVE SetSpec => []IInv
<1>1. SetInit => IInv
  BY InitIInv
<1>2. IInv /\ [SetNext]_setVars => IInv'
  BY StepIInv
<1> QED
  BY <1>1, <1>2, PTL DEF SetSpec

\* Callbacks of higher priority come first, whatever was added and removed before.
THEOREM Descends == ASSUME NearPriorities PROVE SetSpec => []PriorityOrder
<1>1. IInv => PriorityOrder
  <2> SUFFICES ASSUME IInv, NEW i \in 1..Len(elements), NEW j \in 1..Len(elements), i < j
               PROVE  priority[elements[i]] >= priority[elements[j]]
    BY DEF PriorityOrder
  <2>1. elements[i] \in Callbacks /\ elements[j] \in Callbacks /\ ~Before(elements[j], elements[i])
    BY DEF IInv, Ordered
  <2> QED
    BY <2>1, FieldTypes DEF IInv, Before
<1> QED
  BY <1>1, Invariance, PTL

\* An add or remove of one callback leaves the others in the order they had.
THEOREM OthersStay == ASSUME NearPriorities PROVE SetSpec => NeverReordered
<1> DEFINE Kept(c) ==
      /\ Members(elements') \ {c} = Members(elements) \ {c}
      /\ \A d, e \in Callbacks \ {c} : Precedes(elements', d, e) <=> Precedes(elements, d, e)
      /\ \A i, j \in 1..Len(elements') : elements'[i] = elements'[j] => i = j
<1>1. IInv /\ [SetNext]_setVars => [\E c \in Callbacks : Kept(c)]_setVars
  <2> SUFFICES ASSUME IInv, SetNext PROVE \E c \in Callbacks : Kept(c)
    OBVIOUS
  <2>1. PICK c \in Callbacks : add(c) \/ remove(c)
    BY DEF SetNext
  <2>2. Kept(c)
    BY <2>1, AddStep, RemoveStep DEF IInv, Distinct
  <2> QED
    BY <2>2
<1> QED
  BY <1>1, Invariance, PTL DEF SetSpec, NeverReordered
====
