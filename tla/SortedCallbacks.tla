-------------------------- MODULE SortedCallbacks ---------------------------
(***************************************************************************)
(* CopyOnWriteSortedSet: the array of a HookInfo's callbacks, kept in the  *)
(* order of XCallback.compareTo by Arrays.sort on every add.  add and      *)
(* remove are synchronized, so each is one step, and replace the volatile  *)
(* array that getSnapshot hands out.                                       *)
(*                                                                         *)
(* compareTo subtracts priorities in the int type, scaled here from 2^32   *)
(* values to 2 * HalfRange, and breaks ties by identity hash code.         *)
(***************************************************************************)
EXTENDS Integers, Sequences

CONSTANTS Callbacks,
          HalfRange,   \* int holds -HalfRange .. HalfRange-1
          Priorities,  \* the priorities modules choose
          HashCodes    \* the identity hash codes objects get

ASSUME RangeAssumption == HalfRange \in Nat \ {0}
ASSUME PrioritiesAssumption == Priorities \subseteq (-HalfRange)..(HalfRange - 1)
ASSUME HashAssumption == HashCodes \subseteq Nat

VARIABLES priority, hash,  \* final fields of the callbacks
          elements         \* CopyOnWriteSortedSet.elements

setVars == <<priority, hash, elements>>

Members(s) == {s[i] : i \in 1..Len(s)}

\* The difference of two ints, which wraps around at most once.
Wrap(x) == IF x >= HalfRange THEN x - 2 * HalfRange
           ELSE IF x < -HalfRange THEN x + 2 * HalfRange
           ELSE x

CompareAscending(p, q) == Wrap(p - q)
ComparePriority(p, q) == Wrap(q - p)

\* this.compareTo(other)
CompareTo(c, d) ==
  IF c = d THEN 0
  ELSE IF priority[d] # priority[c] THEN ComparePriority(priority[c], priority[d])
  ELSE IF hash[c] < hash[d] THEN -1
  ELSE 1

-----------------------------------------------------------------------------
(* Arrays.sort on fewer than 32 objects: ComparableTimSort sorts them by   *)
(* finding the run the array starts with and inserting the rest one by one *)

\* s with x between its first i and its other elements.
InsertAfter(s, i, x) == SubSeq(s, 1, i) \o <<x>> \o SubSeq(s, i + 1, Len(s))
Reversed(s) == [i \in 1..Len(s) |-> s[Len(s) + 1 - i]]
Descending(s, n) == \A i \in 1..(n - 1) : CompareTo(s[i + 1], s[i]) < 0
Ascending(s, n) == \A i \in 1..(n - 1) : CompareTo(s[i + 1], s[i]) >= 0

\* countRunAndMakeAscending
RunLength(s) ==
  LET lengths == {n \in 1..Len(s) : Descending(s, n) \/ Ascending(s, n)}
  IN  CHOOSE n \in lengths : \A k \in lengths : k <= n
AscendingRun(s, n) == IF n > 1 /\ Descending(s, n) THEN Reversed(SubSeq(s, 1, n))
                                                   ELSE SubSeq(s, 1, n)

\* Where binarySort puts x among sorted[r[1] + 1 .. r[2]], r being <<left, right>>.
Search(sorted, x) ==
  LET Ends == 0..Len(sorted)
      find[r \in Ends \X Ends] ==
        IF r[1] >= r[2] THEN r[1]
        ELSE LET mid == (r[1] + r[2]) \div 2 IN
             IF CompareTo(x, sorted[mid + 1]) < 0 THEN find[<<r[1], mid>>]
                                                  ELSE find[<<mid + 1, r[2]>>]
  IN  find
Position(sorted, x) == Search(sorted, x)[<<0, Len(sorted)>>]

\* s with its first n elements sorted, where the first `run` are one run.
SortedUpTo(s, run) ==
  LET sorted[n \in run..Len(s)] ==
        IF n = run THEN AscendingRun(s, run)
        ELSE LET before == sorted[n - 1]
             IN  InsertAfter(before, Position(before, s[n]), s[n])
  IN  sorted
Sort(s) == IF Len(s) < 2 THEN s ELSE SortedUpTo(s, RunLength(s))[Len(s)]

-----------------------------------------------------------------------------
SetInit ==
  /\ priority \in [Callbacks -> Priorities]
  /\ hash \in [Callbacks -> HashCodes]
  /\ elements = <<>>

\* The index of c in elements.
IndexOf(c) == CHOOSE i \in 1..Len(elements) : elements[i] = c

\* At the end, then sorted; nothing for a callback already there.
add(c) ==
  /\ elements' = IF c \in Members(elements) THEN elements ELSE Sort(Append(elements, c))
  /\ UNCHANGED <<priority, hash>>

RemoveBySwap(c) ==
  /\ elements' = IF c \notin Members(elements) THEN elements
                 ELSE SubSeq([elements EXCEPT ![IndexOf(c)] = elements[Len(elements)]],
                             1, Len(elements) - 1)
  /\ UNCHANGED <<priority, hash>>

\* The elements before and after c; nothing for a callback that is not there.
remove(c) ==
  /\ elements' = IF c \notin Members(elements) THEN elements
                 ELSE SubSeq(elements, 1, IndexOf(c) - 1)
                        \o SubSeq(elements, IndexOf(c) + 1, Len(elements))
  /\ UNCHANGED <<priority, hash>>

SetNext == \E c \in Callbacks : add(c) \/ remove(c)

SetSpec == SetInit /\ [][SetNext]_setVars

-----------------------------------------------------------------------------
(* Properties *)

\* "Callback priority, higher number means earlier execution": every callback
\* comes before those of lower priority, whatever the order of the calls and
\* however hash codes collide.
PriorityOrder == \A i, j \in 1..Len(elements) :
  i < j => priority[elements[i]] >= priority[elements[j]]

Precedes(s, d, e) == \E i, j \in 1..Len(s) : i < j /\ s[i] = d /\ s[j] = e

\* Adding or removing one callback leaves the others, once each, in the order
\* they had, even where equal hash codes make compareTo answer 1 in both
\* directions; and it is there once itself, or not at all.
NeverReordered == [][\E c \in Callbacks :
  /\ Members(elements') \ {c} = Members(elements) \ {c}
  /\ \A d, e \in Callbacks \ {c} : Precedes(elements', d, e) <=> Precedes(elements, d, e)
  /\ \A i, j \in 1..Len(elements') : elements'[i] = elements'[j] => i = j]_setVars
=============================================================================
