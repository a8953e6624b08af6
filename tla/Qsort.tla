------------------------------- MODULE Qsort -------------------------------
(***************************************************************************)
(* qsort of c/qsort.c: partitions around the median of three, with the     *)
(* larger part on a stack of its own, until the parts are small, and an    *)
(* insertion sort over the whole array.  Pointers are positions            *)
(* 0 .. items - 1 in the array; the distance of two of them is in bytes.   *)
(*                                                                         *)
(* The insertion sort has no test for the start of the array: it relies on *)
(* the least item being there.  Where it is not, the search runs off the   *)
(* front, and the behaviour ends in the step "lost".                       *)
(***************************************************************************)
EXTENDS Integers, Sequences, FiniteSets

CONSTANTS Inputs,   \* the arrays to sort, as sequences of keys
          Sizes     \* the sizes of an item, in bytes

ASSUME QsortAssumption ==
    /\ Inputs \subseteq Seq(Int)
    /\ Sizes \subseteq Nat \ {0}

VARIABLES given,   \* the array as it was passed
          size,    \* the size of an item
          item,    \* the array, from 0
          step,    \* where qsort is
          low, high, \* the part being sorted
          pivot,   \* mid
          lptr, rptr, \* the pointers that approach each other
          stk,     \* the parts put off, each with its bounds
          run      \* of the insertion sort

sortvars == <<given, size, item, step, low, high, pivot, lptr, rptr, stk, run>>
partvars == <<low, high, pivot, lptr, rptr, stk>>

items == Len(given)
maxthres == 4 * size
Positions == 0 .. items - 1
Bottom == [low |-> -1, high |-> -1]     \* the NULL pointers below the stack

\* A distance as size_t: one below zero is beyond every threshold.
Within(distance) == distance >= 0 /\ distance * size <= maxthres

SortInit ==
    /\ given \in Inputs /\ size \in Sizes
    /\ item = [i \in 0 .. Len(given) - 1 |-> given[i + 1]]
    /\ step = "start"
    /\ low = 0 /\ high = 0 /\ pivot = 0 /\ lptr = 0 /\ rptr = 0
    /\ stk = <<>> /\ run = 0

\* The number of items is compared with the threshold in bytes.
Begin ==
    /\ step = "start"
    /\ step' = IF items <= 1 THEN "sorted" ELSE IF items > maxthres THEN "median" ELSE "least"
    /\ stk' = IF items <= 1 THEN <<>> ELSE <<Bottom>>
    /\ low' = 0 /\ high' = IF items = 0 THEN 0 ELSE items - 1
    /\ UNCHANGED <<given, size, item, pivot, lptr, rptr, run>>

Swapped(f, i, j) == [f EXCEPT ![i] = f[j], ![j] = f[i]]
PutInOrder(f, i, j) == IF f[j] < f[i] THEN Swapped(f, i, j) ELSE f

\* The median of the first, the middle and the last item goes to the middle.
Median ==
    /\ step = "median"
    /\ pivot' = low + ((high - low) \div 2)
    /\ LET one == PutInOrder(item, low, pivot')
       IN  item' = IF one[high] < one[pivot']
                   THEN PutInOrder(Swapped(one, pivot', high), low, pivot')
                   ELSE one
    /\ lptr' = low + 1 /\ rptr' = high - 1
    /\ step' = "approach"
    /\ UNCHANGED <<given, size, low, high, stk, run>>

\* The next item from the left that is not below the pivot, and from the
\* right that is not above it.
FromLeft == CHOOSE i \in Positions : i >= lptr /\ item[i] >= item[pivot]
                /\ \A j \in lptr .. i - 1 : item[j] < item[pivot]
FromRight == CHOOSE i \in Positions : i <= rptr /\ item[i] <= item[pivot]
                /\ \A j \in i + 1 .. rptr : item[j] > item[pivot]

\* Mutant: the pivot is not followed when it is swapped.
ApproachFixed ==
    /\ step = "approach"
    /\ LET l == FromLeft
           r == FromRight
       IN  /\ item' = IF l < r THEN Swapped(item, l, r) ELSE item
           /\ pivot' = pivot
           /\ lptr' = IF l <= r THEN l + 1 ELSE l
           /\ rptr' = IF l <= r THEN r - 1 ELSE r
           /\ step' = IF l < r /\ l + 1 <= r - 1 THEN "approach" ELSE "divide"
    /\ UNCHANGED <<given, size, low, high, stk, run>>

\* One round of the inner loop: two items on the wrong sides are swapped.
Approach ==
    /\ step = "approach"
    /\ LET l == FromLeft
           r == FromRight
       IN  /\ item' = IF l < r THEN Swapped(item, l, r) ELSE item
           /\ pivot' = IF l < r /\ pivot = l THEN r ELSE IF l < r /\ pivot = r THEN l ELSE pivot
           /\ lptr' = IF l <= r THEN l + 1 ELSE l
           /\ rptr' = IF l <= r THEN r - 1 ELSE r
           /\ step' = IF l < r /\ l + 1 <= r - 1 THEN "approach" ELSE "divide"
    /\ UNCHANGED <<given, size, low, high, stk, run>>

\* Both parts are small: the next part comes from the stack, and with the
\* last one the loop ends.
DividePop ==
    /\ step = "divide" /\ Within(rptr - low) /\ Within(high - lptr)
    /\ stk' = SubSeq(stk, 1, Len(stk) - 1)
    /\ low' = stk[Len(stk)].low /\ high' = stk[Len(stk)].high
    /\ step' = IF Len(stk) = 1 THEN "least" ELSE "median"
    /\ UNCHANGED <<given, size, item, pivot, lptr, rptr, run>>

\* One part is small: the other is next.
DivideOne ==
    /\ step = "divide" /\ Within(rptr - low) # Within(high - lptr)
    /\ low' = IF Within(rptr - low) THEN lptr ELSE low
    /\ high' = IF Within(rptr - low) THEN high ELSE rptr
    /\ step' = "median"
    /\ UNCHANGED <<given, size, item, pivot, lptr, rptr, stk, run>>

\* Neither is: the larger is put off.
DividePush ==
    /\ step = "divide" /\ ~Within(rptr - low) /\ ~Within(high - lptr)
    /\ IF rptr - low > high - lptr
       THEN stk' = Append(stk, [low |-> low, high |-> rptr]) /\ low' = lptr /\ high' = high
       ELSE stk' = Append(stk, [low |-> lptr, high |-> high]) /\ low' = low /\ high' = rptr
    /\ step' = "median"
    /\ UNCHANGED <<given, size, item, pivot, lptr, rptr, run>>

\* The least of the first items, one more than the threshold has, is swapped
\* to the front.
Least ==
    /\ step = "least"
    /\ LET last == IF items - 1 < 4 THEN items - 1 ELSE 4
           least == CHOOSE i \in 0 .. last :
                        \A j \in 0 .. last : item[i] < item[j] \/ (item[i] = item[j] /\ i <= j)
       IN  item' = Swapped(item, 0, least)
    /\ run' = 2
    /\ step' = IF items > 2 THEN "insert" ELSE "sorted"
    /\ UNCHANGED <<given, size, partvars>>

\* The item at run is inserted behind the last item that is not above it.
Insert ==
    /\ step = "insert"
    /\ LET not == {i \in 0 .. run - 1 : item[i] <= item[run]}
           at == (CHOOSE i \in not : \A j \in not : j <= i) + 1
       IN  IF not = {} THEN step' = "lost" /\ UNCHANGED <<item, run>>
           ELSE /\ item' = [i \in Positions |->
                                IF i = at THEN item[run]
                                ELSE IF i \in at + 1 .. run THEN item[i - 1] ELSE item[i]]
                /\ run' = run + 1
                /\ step' = IF run + 1 <= items - 1 THEN "insert" ELSE "sorted"
    /\ UNCHANGED <<given, size, partvars>>

SortNext ==
    Begin \/ Median \/ Approach \/ DividePop \/ DivideOne \/ DividePush \/ Least \/ Insert

SortSpec == SortInit /\ [][SortNext]_sortvars
---------------------------------------------------------------------------
\* The parts that are still to be divided.
Parts == {stk[k] : k \in 2 .. Len(stk)} \cup
         (IF step = "median" THEN {[low |-> low, high |-> high]} ELSE {})

\* The array ends up sorted, with the items it was given; nothing before a
\* part that is still to be divided is above anything in it, and nothing
\* behind it below, so that what is left for the insertion sort is local;
\* and that sort runs off the front only where the partitions were skipped
\* because the number of items was compared with a threshold in bytes (qsort).
SortHolds ==
    /\ step = "sorted" =>
        /\ \A i \in 0 .. items - 2 : item[i] <= item[i + 1]
        /\ \A k \in {given[i] : i \in 1 .. items} :
               Cardinality({i \in Positions : item[i] = k})
                   = Cardinality({i \in 1 .. items : given[i] = k})
    /\ \A p \in Parts : \A i \in 0 .. p.high, j \in p.low .. items - 1 :
           i < p.low \/ j > p.high => item[i] <= item[j]
    /\ step = "lost" => size > 1 /\ items \in 6 .. maxthres
===========================================================================
