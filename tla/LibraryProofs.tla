--------------------------- MODULE LibraryProofs ---------------------------
(***************************************************************************)
(* What TLAPS proves of the sequential parts, for every value of their     *)
(* constants: the divisions of trix.h, the places of the scheduler's       *)
(* tasks, the display of Zeus, the slab allocator's queues and areas, and  *)
(* what the assembler of the Core War game loads; that qsort sorts; that   *)
(* mjolnir's rooms are apart and in the level; and that the frames of a    *)
(* fade come in order.                                                     *)
(***************************************************************************)
EXTENDS Trix, Ule, Zeus, Slab, Redcode, Qsort, Rooms, Fades,
        FiniteSetTheorems, SequenceTheorems, WellFoundedInduction, TLAPS

---------------------------------------------------------------------------
(* The divisions are exact for every 32-bit word.                          *)

\* divu7 is the quotient by 7.
LEMMA Div7 == ASSUME NEW x \in U32 PROVE divu7(x) = x \div 7
BY SMTT(60) DEF divu7, U32

\* divu9 is the quotient by 9.
LEMMA Div9 == ASSUME NEW x \in U32 PROVE divu9(x) = x \div 9
BY SMTT(60) DEF divu9, U32

\* divu10 is the quotient by 10.
LEMMA Div10 == ASSUME NEW x \in U32 PROVE divu10(x) = x \div 10
BY SMTT(60) DEF divu10, U32

\* divu100 is the quotient by 100.
LEMMA Div100 == ASSUME NEW x \in U32 PROVE divu100(x) = x \div 100
BY SMTT(120) DEF divu100, U32

\* divu1000 is the quotient by 1000.
LEMMA Div1000 == ASSUME NEW x \in U32 PROVE divu1000(x) = x \div 1000
BY SMTT(60) DEF divu1000, U32

\* The multiplication of divu1000000 is the quotient by a million.
THEOREM MillionExact == ASSUME NEW x \in U32 PROVE divu1000000(x) = x \div 1000000
BY SMTT(60) DEF divu1000000, U32

\* divs10 truncates: minus one tenth of the magnitude for a negative word.
LEMMA Signed10 ==
    ASSUME NEW x \in Nat, x <= 2147483647
    PROVE  divs10(x) = x \div 10 /\ divs10(-x) = -(x \div 10)
BY SMTT(60) DEF divs10, divu10, Biased

\* divs100 truncates.
LEMMA Signed100 ==
    ASSUME NEW x \in Nat, x <= 2147483647
    PROVE  divs100(x) = x \div 100 /\ divs100(-x) = -(x \div 100)
<1>1. divs100(x) = x \div 100
  BY Div100, SMTT(30) DEF divs100, Biased, U32
<1>2. ASSUME x # 0 PROVE divs100(-x) = -(x \div 100)
  BY <1>2, SMTT(120) DEF divs100, divu100, Biased
<1> QED
  BY <1>1, <1>2

\* divs1000 truncates.
LEMMA Signed1000 ==
    ASSUME NEW x \in Nat, x <= 2147483647
    PROVE  divs1000(x) = x \div 1000 /\ divs1000(-x) = -(x \div 1000)
<1>1. divs1000(x) = x \div 1000
  BY SMTT(90) DEF divs1000, Biased
<1>2. ASSUME x # 0 PROVE divs1000(-x) = -(x \div 1000)
  BY <1>2, SMTT(90) DEF divs1000, Biased
<1> QED
  BY <1>1, <1>2

\* 65536 leaves the remainder 1 by 65535, and two subtractions suffice.
LEMMA Sum65535 == ASSUME NEW x \in U32 PROVE mod65535u32(x) = x % 65535
BY SMTT(60) DEF mod65535u32, DigitSum, LessTwice, U32

\* Adding the digits of base 256 to each other keeps the remainder by 255.
LEMMA Sum255 == ASSUME NEW x \in U32 PROVE mod255u32(x) % 255 = x % 255
BY SMTT(60) DEF mod255u32, DigitSum, LessTwice, U32

\* And by 15, with base 16 after that.
LEMMA Sum15 == ASSUME NEW x \in U32 PROVE mod15u32(x) % 15 = x % 15
BY SMTT(60) DEF mod15u32, DigitSum, LessTwice, U32

\* The remainders, from the exact quotients.
LEMMA Remainders ==
    ASSUME NEW x \in U32
    PROVE  /\ modu7(x) = x % 7 /\ modu9(x) = x % 9 /\ modu10(x) = x % 10
           /\ modu100(x) = x % 100 /\ modu400(x) = x % 400
<1>1. x \in Nat
  BY DEF U32
<1>2. modu7(x) = x % 7
  BY <1>1, Div7, SMTT(30) DEF modu7
<1>3. modu9(x) = x % 9
  BY <1>1, Div9, SMTT(30) DEF modu9
<1>4. modu10(x) = x % 10
  BY <1>1, Div10, SMTT(30) DEF modu10
<1>5. modu100(x) = x % 100
  BY <1>1, Div100, SMTT(30) DEF modu100
<1>6. modu400(x) = x % 400
  BY <1>1, Div100, SMTT(30) DEF modu400
<1> QED
  BY <1>2, <1>3, <1>4, <1>5, <1>6

\* The Gregorian rule.
LEMMA Leap ==
    ASSUME NEW x \in U32
    PROVE  leapyear(x) = (x % 4 = 0 /\ (x % 100 # 0 \/ x % 400 = 0))
BY Remainders DEF leapyear

-----------------------------------------------------------------------------
\* A 31-bit word is a 32-bit word.
LEMMA SmallWord == ASSUME NEW x \in Nat, x <= 2147483647 PROVE x \in U32
BY SMT DEF U32

\* What the questions about quotients and remainders carry.
LEMMA OperandsIn ==
    ASSUME NEW q \in Questions
    PROVE  /\ q.op = "divu" => q.a \in U32 /\ q.b \in DivU
           /\ q.op = "divs" => q.b \in DivS /\ \E x \in U32 : x <= 2147483647 /\ q.a \in {x, -x}
           /\ q.op = "modu" => q.a \in U32 /\ q.b \in ModU
           /\ q.op = "modsum" => q.a \in U32 /\ q.b \in ModSum
           /\ q.op = "leap" => q.a \in U32
<1>1. Words \subseteq U32
  BY TrixAssumption
<1>2. \A s \in Small \cup Minus(Small) : \E x \in U32 : x <= 2147483647 /\ s \in {x, -x}
  BY <1>1 DEF Small, Minus
<1> QED
  BY <1>1, <1>2 DEF Questions

\* Every answer about a quotient or a remainder is the exact one.
LEMMA ReturnsExact == ASSUME NEW q \in Questions PROVE Exact(q, Returns(q))
<1>1. CASE q.op = "divu"
  <2>1. q.a \in U32 /\ q.b \in {7, 9, 10, 100, 1000}
    BY <1>1, OperandsIn DEF DivU
  <2>2. Returns(q) = q.a \div q.b
    BY <1>1, <2>1, Div7, Div9, Div10, Div100, Div1000 DEF Returns
  <2> QED
    BY <1>1, <2>2 DEF Exact
<1>2. CASE q.op = "divs"
  <2>1. PICK x \in U32 : x <= 2147483647 /\ q.a \in {x, -x}
    BY <1>2, OperandsIn
  <2>2. q.b \in {10, 100, 1000}
    BY <1>2, OperandsIn DEF DivS
  <2>3. x \in Nat
    BY <2>1 DEF U32
  <2>4. q.a \in Int /\ Truncated(x, q.b) = x \div q.b /\ Truncated(-x, q.b) = -(x \div q.b)
    BY <2>1, <2>2, <2>3, SMT DEF Truncated
  <2>5. Returns(q) = Truncated(q.a, q.b)
    <3>1. CASE q.b = 10
      BY <1>2, <2>1, <2>3, <2>4, <3>1, Signed10 DEF Returns
    <3>2. CASE q.b = 100
      BY <1>2, <2>1, <2>3, <2>4, <3>2, Signed100 DEF Returns
    <3>3. CASE q.b = 1000
      BY <1>2, <2>1, <2>3, <2>4, <3>3, Signed1000 DEF Returns
    <3> QED
      BY <2>2, <3>1, <3>2, <3>3
  <2> QED
    BY <1>2, <2>5 DEF Exact
<1>3. CASE q.op = "modu"
  <2>1. q.a \in U32 /\ q.b \in {7, 9, 10, 100, 400}
    BY <1>3, OperandsIn DEF ModU
  <2>2. modu7(q.a) = q.a % 7 /\ modu9(q.a) = q.a % 9 /\ modu10(q.a) = q.a % 10
    BY <2>1, Remainders
  <2>3. modu100(q.a) = q.a % 100 /\ modu400(q.a) = q.a % 400
    BY <2>1, Remainders
  <2>4. Returns(q) = q.a % q.b
    BY <1>3, <2>1, <2>2, <2>3 DEF Returns
  <2> QED
    BY <1>3, <2>4 DEF Exact
<1>4. CASE q.op = "modsum"
  <2>1. q.a \in U32 /\ q.b \in {15, 255, 65535}
    BY <1>4, OperandsIn DEF ModSum
  <2>2. CASE q.b = 65535
    BY <1>4, <2>1, <2>2, Sum65535 DEF Returns, Exact
  <2>3. CASE q.b = 255
    BY <1>4, <2>1, <2>3, Sum255 DEF Returns, Exact
  <2>4. CASE q.b = 15
    BY <1>4, <2>1, <2>4, Sum15 DEF Returns, Exact
  <2> QED
    BY <2>1, <2>2, <2>3, <2>4
<1>5. CASE q.op = "leap"
  BY <1>5, OperandsIn, Leap DEF Returns, Exact
<1>6. CASE q.op \notin {"divu", "divs", "modu", "modsum", "leap"}
  BY <1>6 DEF Exact
<1> QED
  BY <1>1, <1>2, <1>3, <1>4, <1>5, <1>6

\* QuotientsExact for every choice of 32-bit words: no caller of the divisions
\* and remainders of trix.h ever gets another number than the exact one.
THEOREM QuotientsAlways == TrixSpec => []QuotientsExact
<1> DEFINE Inv == asked \in Questions /\ QuotientsExact
<1>1. TrixInit => Inv
  BY DEF TrixInit, QuotientsExact
<1>2. Inv /\ [Return]_trixvars => Inv'
  <2> SUFFICES ASSUME Inv, [Return]_trixvars PROVE Inv'
    OBVIOUS
  <2>1. CASE Return
    BY <2>1, ReturnsExact DEF Return, QuotientsExact
  <2>2. CASE UNCHANGED trixvars
    BY <2>2 DEF trixvars, QuotientsExact
  <2> QED
    BY <2>1, <2>2
<1>3. Inv => QuotientsExact
  OBVIOUS
<1> QED
  BY <1>1, <1>2, <1>3, PTL DEF TrixSpec

---------------------------------------------------------------------------
(* The scheduler: each task in one place, and the lowest queue first.      *)

\* Whole words are no more bits than there are.
LEMMA WholeParts == ASSUME NEW n \in Nat, NEW m \in Nat \ {0} PROVE (n \div m) * m <= n /\ (n \div m) * m \in Nat
BY SMTT(30)

\* A scan looks at no queue that is not there.
LEMMA WholeWithin == ASSUME NEW table \in Tables PROVE WholeWords(table) \subseteq QueuesOf(table) /\ WholeWords(table) \subseteq Nat
<1> DEFINE n == IF table = "idle" THEN SCHEDNIDLE ELSE SCHEDNQUEUE
<1>1. n \in Nat /\ QueuesOf(table) = 0 .. n - 1 /\ LongBits \in Nat \ {0}
  BY UleAssumption DEF QueuesOf
<1>2. Cardinality(QueuesOf(table)) = n
  BY <1>1, FS_Interval
<1>3. WholeWords(table) = 0 .. (n \div LongBits) * LongBits - 1
  BY <1>2 DEF WholeWords
<1> HIDE DEF n
<1>4. (n \div LongBits) * LongBits <= n /\ (n \div LongBits) * LongBits \in Nat
  BY <1>1, WholeParts
<1> QED BY <1>1, <1>3, <1>4

\* A task that is not queued is put at the end of a queue.
LEMMA Appended ==
    ASSUME NEW S, NEW s \in Seq(S), NEW t \in S, t \notin Range(s), IsInjective(s)
    PROVE  /\ Append(s, t) \in Seq(S) /\ Append(s, t) # <<>>
           /\ Range(Append(s, t)) = Range(s) \cup {t}
           /\ IsInjective(Append(s, t))
<1> DEFINE a == Append(s, t)
<1>7. (\A i \in DOMAIN s : s[i] # t) /\ (\A i, j \in DOMAIN s : s[i] = s[j] => i = j)
  BY DEF Range, IsInjective
<1>1. /\ a \in Seq(S) /\ a # <<>> /\ Len(a) = Len(s) + 1 /\ Len(s) \in Nat
      /\ \A i \in 1 .. Len(s) : a[i] = s[i]
      /\ a[Len(s) + 1] = t
  BY AppendProperties, LenProperties
<1>2. DOMAIN a = 1 .. Len(s) + 1 /\ DOMAIN s = 1 .. Len(s)
  BY <1>1, LenProperties
<1> HIDE DEF a
<1>3. \A i \in DOMAIN a : (i \in DOMAIN s /\ a[i] = s[i]) \/ (i = Len(s) + 1 /\ a[i] = t /\ i \notin DOMAIN s)
  BY <1>1, <1>2
<1>4. {a[i] : i \in DOMAIN a} = {s[i] : i \in DOMAIN s} \cup {t}
  <2>1. \A i \in DOMAIN s : i \in DOMAIN a /\ a[i] = s[i]
    BY <1>1, <1>2
  <2>2. Len(s) + 1 \in DOMAIN a /\ a[Len(s) + 1] = t
    BY <1>1, <1>2
  <2> QED BY <1>3, <2>1, <2>2, Zenon
<1>5. ASSUME NEW i \in DOMAIN a, NEW j \in DOMAIN a, a[i] = a[j] PROVE i = j
  BY <1>3, <1>5, <1>7
<1> QED BY <1>1, <1>4, <1>5 DEF a, Range, IsInjective

\* A task that is not queued is put at the front.
LEMMA Fronted ==
    ASSUME NEW S, NEW s \in Seq(S), NEW t \in S, t \notin Range(s), IsInjective(s)
    PROVE  /\ <<t>> \o s \in Seq(S) /\ <<t>> \o s # <<>>
           /\ Range(<<t>> \o s) = Range(s) \cup {t}
           /\ IsInjective(<<t>> \o s)
<1> DEFINE a == <<t>> \o s
<1>7. (\A i \in DOMAIN s : s[i] # t) /\ (\A i, j \in DOMAIN s : s[i] = s[j] => i = j)
  BY DEF Range, IsInjective
<1>0. <<t>> \in Seq(S) /\ Len(<<t>>) = 1 /\ <<t>>[1] = t
  OBVIOUS
<1>1. /\ a \in Seq(S) /\ Len(a) = 1 + Len(s) /\ Len(s) \in Nat
      /\ \A i \in 1 .. Len(a) : a[i] = IF i <= 1 THEN <<t>>[i] ELSE s[i - 1]
  BY <1>0, ConcatProperties, LenProperties
<1>2. DOMAIN a = 1 .. Len(s) + 1 /\ DOMAIN s = 1 .. Len(s)
  BY <1>1, LenProperties
<1>6. a # <<>>
  BY <1>1
<1> HIDE DEF a
<1>3. \A i \in DOMAIN a : (i - 1 \in DOMAIN s /\ a[i] = s[i - 1]) \/ (i = 1 /\ a[i] = t)
  BY <1>0, <1>1, <1>2
<1>4. {a[i] : i \in DOMAIN a} = {s[i] : i \in DOMAIN s} \cup {t}
  <2>1. \A i \in DOMAIN s : i + 1 \in DOMAIN a /\ a[i + 1] = s[i]
    BY <1>1, <1>2
  <2>2. 1 \in DOMAIN a /\ a[1] = t
    BY <1>0, <1>1, <1>2
  <2>3. {a[i] : i \in DOMAIN a} \subseteq {s[i] : i \in DOMAIN s} \cup {t}
    BY <1>3
  <2>4. ASSUME NEW i \in DOMAIN s PROVE s[i] \in {a[j] : j \in DOMAIN a}
    BY <2>1
  <2> QED BY <2>2, <2>3, <2>4
<1>5. ASSUME NEW i \in DOMAIN a, NEW j \in DOMAIN a, a[i] = a[j] PROVE i = j
  <2>1. CASE i = 1
    BY <2>1, <1>3, <1>5, <1>2, <1>7
  <2>2. CASE j = 1
    BY <2>2, <1>3, <1>5, <1>2, <1>7
  <2>3. CASE i # 1 /\ j # 1
    BY <2>3, <1>3, <1>5, <1>2, <1>7
  <2> QED BY <2>1, <2>2, <2>3
<1> QED BY <1>1, <1>4, <1>5, <1>6 DEF a, Range, IsInjective

\* The first task leaves a queue.
LEMMA Tailed ==
    ASSUME NEW S, NEW s \in Seq(S), s # <<>>, IsInjective(s)
    PROVE  /\ Tail(s) \in Seq(S) /\ Head(s) \in S /\ Head(s) \in Range(s)
           /\ Range(Tail(s)) = Range(s) \ {Head(s)}
           /\ IsInjective(Tail(s))
<1> DEFINE a == Tail(s)
<1>7. \A i, j \in DOMAIN s : s[i] = s[j] => i = j
  BY DEF IsInjective
<1>1. /\ a \in Seq(S) /\ Head(s) = s[1] /\ Head(s) \in S /\ Len(a) = Len(s) - 1 /\ Len(s) \in Nat \ {0}
      /\ \A i \in 1 .. Len(a) : a[i] = s[i + 1]
  BY HeadTailProperties, LenProperties, EmptySeq
<1>2. DOMAIN a = 1 .. Len(s) - 1 /\ DOMAIN s = 1 .. Len(s)
  BY <1>1, LenProperties
<1> HIDE DEF a
<1>3. \A i \in DOMAIN a : i + 1 \in DOMAIN s /\ a[i] = s[i + 1] /\ i + 1 # 1
  BY <1>1, <1>2
<1>4. {a[i] : i \in DOMAIN a} = {s[i] : i \in DOMAIN s} \ {Head(s)}
  <2>1. \A i \in DOMAIN s : i # 1 => i - 1 \in DOMAIN a /\ a[i - 1] = s[i]
    BY <1>1, <1>2
  <2>2. 1 \in DOMAIN s /\ s[1] = Head(s)
    BY <1>1, <1>2
  <2>3. \A i \in DOMAIN a : s[i + 1] # s[1]
    BY <1>3, <2>2, <1>7
  <2>4. {a[i] : i \in DOMAIN a} \subseteq {s[i] : i \in DOMAIN s} \ {Head(s)}
    BY <1>3, <2>2, <2>3
  <2>5. ASSUME NEW i \in DOMAIN s, s[i] # Head(s) PROVE s[i] \in {a[j] : j \in DOMAIN a}
    BY <2>1, <2>2, <2>5
  <2> QED BY <2>4, <2>5
<1>5. ASSUME NEW i \in DOMAIN a, NEW j \in DOMAIN a, a[i] = a[j] PROVE i = j
  BY <1>3, <1>5, <1>7, <1>2
<1>6. Head(s) \in {s[i] : i \in DOMAIN s}
  BY <1>1, <1>2
<1> QED BY <1>1, <1>4, <1>5, <1>6 DEF a, Range, IsInjective

\* The types of the queues, their bits and the lists of deadlines.
QueueTypes ==
    /\ DOMAIN queue = Tables
    /\ \A table \in Tables : queue[table] \in [QueuesOf(table) -> Seq(Tasks)]
    /\ map \in [Tables -> SUBSET Nat]
    /\ DOMAIN level = Keys
    /\ listed \in [Keys \X Keys -> [Keys -> Seq(Tasks)]]

\* The types of all variables; a core runs a task when it is said to run.
UleTypes ==
    /\ QueueTypes
    /\ running \in [Cores -> Tasks \cup {NoTask}]
    /\ at \in [Cores -> {"run", "first", "second", "idle", "wait"}]
    /\ \A c \in Cores : running[c] \in Tasks <=> at[c] = "run"
    /\ away \in [slept : SUBSET Tasks, gone : SUBSET Tasks]
    /\ halted \in BOOLEAN

\* No queue and no list holds a task twice.
OnceEach ==
    /\ \A table \in Tables : \A q \in QueuesOf(table) : IsInjective(queue[table][q])
    /\ \A k \in Keys \X Keys, j \in Keys : IsInjective(listed[k][j])
\* Every queue that holds a task has its bit.
Marked == \A table \in Tables : \A q \in QueuesOf(table) : queue[table][q] # <<>> => q \in map[table]
\* Every list that holds a task is where its keys lead.
Reached ==
    \A k0, k1, j \in Keys : listed[<<k0, k1>>][j] # <<>> => level[k0] # NoLevel /\ level[k0][k1] = <<k0, k1>>
\* Every task is somewhere, and in no other place.
SomewhereOnly ==
    /\ \A t \in Tasks : \E p \in Spots : t \in Held(p)
    /\ \A t \in Tasks : \A p, q \in Spots : t \in Held(p) /\ t \in Held(q) => p = q

\* The inductive invariant: before it halts, the scheduler keeps all of them.
UleInv == UleTypes /\ (~halted => OnceEach /\ Marked /\ Reached /\ SomewhereOnly)

\* What a place holds.
CoreSpot(c) == <<"core", c>>
QueueSpot(table, q) == <<"queue", <<table, q>>>>
ListSpot(k, j) == <<"list", <<k, j>>>>
AwaySpot(f) == <<"away", f>>

\* Queues are numbered.
LEMMA QueuesRight ==
    ASSUME NEW table \in Tables
    PROVE  QueuesOf(table) \subseteq 0 .. SCHEDNQUEUE + SCHEDNIDLE
BY UleAssumption DEF QueuesOf

\* These are the places,
LEMMA SpotsAre ==
    /\ \A c \in Cores : CoreSpot(c) \in Spots
    /\ \A table \in Tables : \A q \in QueuesOf(table) : QueueSpot(table, q) \in Spots
    /\ \A k \in Keys \X Keys, j \in Keys : ListSpot(k, j) \in Spots
    /\ AwaySpot("slept") \in Spots /\ AwaySpot("gone") \in Spots
BY QueuesRight DEF Spots, QueueSlots, CoreSpot, QueueSpot, ListSpot, AwaySpot

\* and there are no others.
LEMMA SpotCases ==
    ASSUME NEW p \in Spots
    PROVE  \/ \E c \in Cores : p = CoreSpot(c)
           \/ \E table \in Tables : \E q \in QueuesOf(table) : p = QueueSpot(table, q)
           \/ \E k \in Keys \X Keys, j \in Keys : p = ListSpot(k, j)
           \/ p = AwaySpot("slept") \/ p = AwaySpot("gone")
<1>1. CASE p \in {"core"} \X Cores
  BY <1>1 DEF CoreSpot
<1>2. CASE p \in {"queue"} \X QueueSlots
  <2>1. PICK s \in QueueSlots : p = <<"queue", s>>
    BY <1>2
  <2>2. s[1] \in Tables /\ s[2] \in QueuesOf(s[1]) /\ s = <<s[1], s[2]>>
    BY DEF QueueSlots
  <2>3. p = QueueSpot(s[1], s[2])
    BY <2>1, <2>2 DEF QueueSpot
  <2> QED BY <2>2, <2>3
<1>3. CASE p \in {"list"} \X ((Keys \X Keys) \X Keys)
  <2>1. PICK s \in (Keys \X Keys) \X Keys : p = <<"list", s>>
    BY <1>3
  <2>2. s[1] \in Keys \X Keys /\ s[2] \in Keys /\ s = <<s[1], s[2]>>
    OBVIOUS
  <2>3. p = ListSpot(s[1], s[2])
    BY <2>1, <2>2 DEF ListSpot
  <2> QED BY <2>2, <2>3
<1>4. CASE p \in {"away"} \X {"slept", "gone"}
  BY <1>4 DEF AwaySpot
<1> QED BY <1>1, <1>2, <1>3, <1>4 DEF Spots

\* What each of them holds,
LEMMA HeldIn ==
    /\ \A c : Held(CoreSpot(c)) = {running[c]}
    /\ \A table, q : Held(QueueSpot(table, q)) = Range(queue[table][q])
    /\ \A k, j : Held(ListSpot(k, j)) = Range(listed[k][j])
    /\ \A f : Held(AwaySpot(f)) = away[f]
BY DEF Held, Queue, CoreSpot, QueueSpot, ListSpot, AwaySpot

\* and will hold.
LEMMA HeldNext ==
    /\ \A c : Held(CoreSpot(c))' = {running'[c]}
    /\ \A table, q : Held(QueueSpot(table, q))' = Range(queue'[table][q])
    /\ \A k, j : Held(ListSpot(k, j))' = Range(listed'[k][j])
    /\ \A f : Held(AwaySpot(f))' = away'[f]
BY DEF Held, Queue, CoreSpot, QueueSpot, ListSpot, AwaySpot

\* No two of them are the same.
LEMMA SpotsDiffer ==
    /\ \A c, d : CoreSpot(c) = CoreSpot(d) => c = d
    /\ \A a, q, b, r : QueueSpot(a, q) = QueueSpot(b, r) => a = b /\ q = r
    /\ \A k, j, l, i : ListSpot(k, j) = ListSpot(l, i) => k = l /\ j = i
    /\ \A f, g : AwaySpot(f) = AwaySpot(g) => f = g
    /\ \A c, a, q : CoreSpot(c) # QueueSpot(a, q)
    /\ \A c, k, j : CoreSpot(c) # ListSpot(k, j)
    /\ \A c, f : CoreSpot(c) # AwaySpot(f)
    /\ \A a, q, k, j : QueueSpot(a, q) # ListSpot(k, j)
    /\ \A a, q, f : QueueSpot(a, q) # AwaySpot(f)
    /\ \A k, j, f : ListSpot(k, j) # AwaySpot(f)
BY DEF CoreSpot, QueueSpot, ListSpot, AwaySpot

\* The task t goes from p to q, and nothing else moves.
Moves(t, p, q) ==
    /\ t \in Tasks /\ p \in Spots /\ q \in Spots /\ p # q /\ t \in Held(p)
    /\ \A u \in Tasks : u \in Held(p)' <=> (u \in Held(p) /\ u # t)
    /\ \A u \in Tasks : u \in Held(q)' <=> (u \in Held(q) \/ u = t)
    /\ \A r \in Spots \ {p, q} : \A u \in Tasks : u \in Held(r)' <=> u \in Held(r)

\* A task that moves is somewhere, and in no other place.
LEMMA Moved ==
    ASSUME SomewhereOnly, NEW t, NEW p, NEW q, Moves(t, p, q)
    PROVE  SomewhereOnly'
<1>0. Spots' = Spots
  BY DEF Spots, QueueSlots
<1>1. ASSUME NEW u \in Tasks PROVE \E r \in Spots : u \in Held(r)'
  <2>1. CASE u = t
    BY <2>1 DEF Moves
  <2>2. CASE u # t
    <3>1. PICK r \in Spots : u \in Held(r)
      BY DEF SomewhereOnly
    <3> QED BY <3>1, <2>2 DEF Moves
  <2> QED BY <2>1, <2>2
<1>2. ASSUME NEW u \in Tasks, NEW r \in Spots, NEW s \in Spots, u \in Held(r)', u \in Held(s)'
      PROVE  r = s
  <2>1. CASE u = t
    <3>1. \A a \in Spots : t \in Held(a)' => a = q
      BY DEF Moves, SomewhereOnly
    <3> QED BY <3>1, <2>1, <1>2
  <2>2. CASE u # t
    <3>1. u \in Held(r) /\ u \in Held(s)
      BY <2>2, <1>2 DEF Moves
    <3> QED BY <3>1 DEF SomewhereOnly
  <2> QED BY <2>1, <2>2
<1> QED BY <1>0, <1>1, <1>2 DEF SomewhereOnly

\* The task enters the queue q of the table; all other queues stay.
Entered(t, table, q) ==
    /\ QueueTypes' /\ OnceEach' /\ Marked' /\ Reached' /\ halted' = halted
    /\ Range(queue'[table][q]) = Range(queue[table][q]) \cup {t}
    /\ \A b \in Tables : \A r \in QueuesOf(b) : b # table \/ r # q => queue'[b][r] = queue[b][r]
    /\ listed' = listed

\* schedsetready puts a task into one queue and sets its bit.
LEMMA ReadyStep ==
    ASSUME QueueTypes, OnceEach, Marked, Reached, NEW t \in Tasks,
           \A b \in Tables : \A r \in QueuesOf(b) : t \notin Range(queue[b][r]),
           schedsetready(t)
    PROVE  \E table \in Tables : \E q \in QueuesOf(table) : Entered(t, table, q)
<1>0. /\ DOMAIN queue = Tables
      /\ \A b \in Tables : queue[b] \in [QueuesOf(b) -> Seq(Tasks)]
      /\ map \in [Tables -> SUBSET Nat]
  BY DEF QueueTypes
<1>1. PICK table \in TablesFor(Class[t]) : \E q \in QueuesOf(table) :
          /\ Mark(table, q)
          /\ queue' = [queue EXCEPT ![table][q] =
                          IF Class[t] = "realtimerr" THEN <<t>> \o @ ELSE Append(@, t)]
  BY DEF schedsetready
<1>2. PICK q \in QueuesOf(table) :
          /\ Mark(table, q)
          /\ queue' = [queue EXCEPT ![table][q] =
                          IF Class[t] = "realtimerr" THEN <<t>> \o @ ELSE Append(@, t)]
  BY <1>1
<1>3. table \in Tables
  BY DEF TablesFor, Tables
<1> DEFINE old == queue[table][q]
           new == IF Class[t] = "realtimerr" THEN <<t>> \o old ELSE Append(old, t)
<1>4. old \in Seq(Tasks) /\ IsInjective(old) /\ t \notin Range(old)
  BY <1>0, <1>3 DEF OnceEach
<1>5. new \in Seq(Tasks) /\ new # <<>> /\ Range(new) = Range(old) \cup {t} /\ IsInjective(new)
  <2> HIDE DEF old
  <2>1. /\ Append(old, t) \in Seq(Tasks) /\ Append(old, t) # <<>>
        /\ Range(Append(old, t)) = Range(old) \cup {t} /\ IsInjective(Append(old, t))
    BY <1>4, Appended
  <2>2. /\ <<t>> \o old \in Seq(Tasks) /\ <<t>> \o old # <<>>
        /\ Range(<<t>> \o old) = Range(old) \cup {t} /\ IsInjective(<<t>> \o old)
    BY <1>4, Fronted
  <2> QED BY <2>1, <2>2
<1>6. queue' = [queue EXCEPT ![table][q] = new]
  BY <1>2
<1>7. UNCHANGED <<level, listed, halted>>
  BY DEF schedsetready
<1> HIDE DEF old, new
<1>8. /\ DOMAIN queue' = Tables /\ queue'[table][q] = new
      /\ \A b \in Tables : queue'[b] \in [QueuesOf(b) -> Seq(Tasks)]
      /\ \A b \in Tables : \A r \in QueuesOf(b) : b # table \/ r # q => queue'[b][r] = queue[b][r]
  BY <1>0, <1>2, <1>3, <1>5, <1>6
<1>9. map' \in [Tables -> SUBSET Nat] /\ q \in map'[table] /\ \A b \in Tables : map[b] \subseteq map'[b]
  <2>1. q \in Nat
    BY <1>3, UleAssumption DEF QueuesOf
  <2>2. map' = [map EXCEPT ![table] = @ \cup {q}]
    BY <1>2 DEF Mark
  <2> QED BY <1>0, <1>3, <2>1, <2>2
<1>10. QueueTypes'
  BY <1>7, <1>8, <1>9 DEF QueueTypes, QueuesOf, Tables
<1>11. OnceEach'
  <2>1. ASSUME NEW b \in Tables, NEW r \in QueuesOf(b) PROVE IsInjective(queue'[b][r])
    BY <1>5, <1>8 DEF OnceEach
  <2>2. \A k \in Keys \X Keys, j \in Keys : IsInjective(listed'[k][j])
    BY <1>7 DEF OnceEach
  <2> QED BY <2>1, <2>2 DEF OnceEach, IsInjective, QueuesOf, Tables
<1>12. Marked'
  <2>1. ASSUME NEW b \in Tables, NEW r \in QueuesOf(b), queue'[b][r] # <<>> PROVE r \in map'[b]
    <3>1. CASE b = table /\ r = q
      BY <3>1, <1>9
    <3>2. CASE b # table \/ r # q
      <4>1. queue[b][r] # <<>>
        BY <3>2, <2>1, <1>8
      <4> QED BY <4>1, <1>9 DEF Marked
    <3> QED BY <3>1, <3>2
  <2> QED BY <2>1 DEF Marked, QueuesOf, Tables
<1>13. Reached'
  BY <1>7 DEF Reached
<1>14. Range(queue'[table][q]) = Range(queue[table][q]) \cup {t}
  BY <1>5, <1>8 DEF old
<1> QED
  BY <1>3, <1>7, <1>8, <1>10, <1>11, <1>12, <1>13, <1>14 DEF Entered

\* A task that is on a core or away is queued.
LEMMA QueuedMoves ==
    ASSUME QueueTypes, SomewhereOnly, NEW t \in Tasks, NEW p \in Spots, t \in Held(p),
           (\E c \in Cores : p = CoreSpot(c)) \/ p = AwaySpot("slept"),
           NEW table \in Tables, NEW q \in QueuesOf(table), Entered(t, table, q),
           \A u \in Tasks : u \in Held(p)' <=> (u \in Held(p) /\ u # t),
           \A c \in Cores : CoreSpot(c) # p => running'[c] = running[c],
           \A f \in {"slept", "gone"} : AwaySpot(f) # p => away'[f] = away[f]
    PROVE  SomewhereOnly'
<1> DEFINE r == QueueSpot(table, q)
<1>1. r \in Spots /\ p # r
  BY SpotsAre, SpotsDiffer
<1>2. \A u \in Tasks : u \in Held(r)' <=> (u \in Held(r) \/ u = t)
  BY HeldIn, HeldNext DEF Entered
<1>3. ASSUME NEW s \in Spots \ {p, r}, NEW u \in Tasks PROVE u \in Held(s)' <=> u \in Held(s)
  <2>1. CASE \E c \in Cores : s = CoreSpot(c)
    BY <2>1, HeldIn, HeldNext
  <2>2. CASE \E b \in Tables : \E i \in QueuesOf(b) : s = QueueSpot(b, i)
    <3>1. PICK b \in Tables : \E i \in QueuesOf(b) : s = QueueSpot(b, i)
      BY <2>2
    <3>2. PICK i \in QueuesOf(b) : s = QueueSpot(b, i)
      BY <3>1
    <3>3. b # table \/ i # q
      BY <3>2
    <3>4. queue'[b][i] = queue[b][i]
      BY <3>3 DEF Entered
    <3> QED BY <3>2, <3>4, HeldIn, HeldNext
  <2>3. CASE \E k \in Keys \X Keys, j \in Keys : s = ListSpot(k, j)
    BY <2>3, HeldIn, HeldNext DEF Entered
  <2>4. CASE s = AwaySpot("slept") \/ s = AwaySpot("gone")
    BY <2>4, HeldIn, HeldNext
  <2> QED BY <2>1, <2>2, <2>3, <2>4, SpotCases
<1> HIDE DEF r
<1>4. Moves(t, p, r)
  BY <1>1, <1>2, <1>3 DEF Moves
<1> QED BY <1>4, Moved

\* What is kept until it halts.
Sound == OnceEach /\ Marked /\ Reached /\ SomewhereOnly

\* The core c gives its task up.
Left0(c) == c \in Cores /\ at[c] = "run" /\ at' = [at EXCEPT ![c] = "first"]
            /\ running' = [running EXCEPT ![c] = NoTask]

\* The task that a core gives up is in no queue.
LEMMA LeavesCore ==
    ASSUME UleTypes, SomewhereOnly, NEW c \in Cores, Left0(c)
    PROVE  /\ running[c] \in Tasks /\ running[c] \in Held(CoreSpot(c)) /\ CoreSpot(c) \in Spots
           /\ \A u \in Tasks : u \in Held(CoreSpot(c))' <=> (u \in Held(CoreSpot(c)) /\ u # running[c])
           /\ \A d \in Cores : d # c => running'[d] = running[d]
           /\ running' \in [Cores -> Tasks \cup {NoTask}]
           /\ at' \in [Cores -> {"run", "first", "second", "idle", "wait"}]
           /\ \A d \in Cores : running'[d] \in Tasks <=> at'[d] = "run"
           /\ \A b \in Tables : \A r \in QueuesOf(b) : running[c] \notin Range(queue[b][r])
           /\ \A k \in Keys \X Keys, j \in Keys : running[c] \notin Range(listed[k][j])
           /\ running[c] \notin away.slept /\ running[c] \notin away.gone
<1>0. /\ running \in [Cores -> Tasks \cup {NoTask}] /\ at[c] = "run" /\ NoTask \notin Tasks
      /\ at \in [Cores -> {"run", "first", "second", "idle", "wait"}]
      /\ at' = [at EXCEPT ![c] = "first"] /\ running' = [running EXCEPT ![c] = NoTask]
      /\ \A d \in Cores : running[d] \in Tasks <=> at[d] = "run"
  BY UleAssumption DEF UleTypes, Left0
<1>1. running[c] \in Tasks /\ running[c] \in Held(CoreSpot(c)) /\ CoreSpot(c) \in Spots
  BY <1>0, HeldIn, SpotsAre
<1>2. \A u \in Tasks : u \in Held(CoreSpot(c))' <=> (u \in Held(CoreSpot(c)) /\ u # running[c])
  BY <1>0, HeldIn, HeldNext
<1>3. \A p \in Spots : p # CoreSpot(c) => running[c] \notin Held(p)
  BY <1>1 DEF SomewhereOnly
<1>4. \A b \in Tables : \A r \in QueuesOf(b) : running[c] \notin Range(queue[b][r])
  BY <1>3, SpotsAre, SpotsDiffer, HeldIn
<1>5. \A k \in Keys \X Keys, j \in Keys : running[c] \notin Range(listed[k][j])
  BY <1>3, SpotsAre, SpotsDiffer, HeldIn
<1>6. running[c] \notin away.slept /\ running[c] \notin away.gone
  BY <1>3, SpotsAre, SpotsDiffer, HeldIn
<1>7. \A d \in Cores : d # c => running'[d] = running[d]
  BY <1>0
<1>8. /\ running' \in [Cores -> Tasks \cup {NoTask}]
      /\ at' \in [Cores -> {"run", "first", "second", "idle", "wait"}]
  BY <1>0
<1>9. \A d \in Cores : running'[d] \in Tasks <=> at'[d] = "run"
  BY <1>0
<1> QED BY <1>1, <1>2, <1>4, <1>5, <1>6, <1>7, <1>8, <1>9

\* A task given up is put into a queue.
LEMMA SwitchReadyQueues ==
    ASSUME UleTypes, Sound, ~halted, NEW c \in Cores, Left0(c), schedsetready(running[c]), UNCHANGED away
    PROVE  UleInv'
<1> DEFINE t == running[c]
<1>1. SomewhereOnly /\ QueueTypes
  BY DEF Sound, UleTypes
<1>2. PICK table \in Tables : \E q \in QueuesOf(table) : Entered(t, table, q)
  BY <1>1, LeavesCore, ReadyStep DEF Sound
<1>3. PICK q \in QueuesOf(table) : Entered(t, table, q)
  BY <1>2
<1>4. SomewhereOnly'
  <2>1. \A d \in Cores : CoreSpot(d) # CoreSpot(c) => running'[d] = running[d]
    BY <1>1, LeavesCore
  <2>2. t \in Tasks /\ CoreSpot(c) \in Spots /\ t \in Held(CoreSpot(c))
        /\ \A u \in Tasks : u \in Held(CoreSpot(c))' <=> (u \in Held(CoreSpot(c)) /\ u # t)
    BY <1>1, LeavesCore
  <2> HIDE DEF t
  <2> QED BY <1>1, <1>3, <2>1, <2>2, QueuedMoves
<1>5. UleTypes'
  BY <1>1, <1>3, LeavesCore DEF UleTypes, Entered
<1> QED BY <1>3, <1>4, <1>5 DEF Entered, UleInv

\* A task that leaves a core for the sleepers or for good.
LEMMA GoesAway ==
    ASSUME UleTypes, Sound, ~halted, NEW c \in Cores, Left0(c),
           UNCHANGED <<queue, map, level, listed, halted>>, NEW f \in {"slept", "gone"},
           away' = [away EXCEPT ![f] = @ \cup {running[c]}]
    PROVE  UleInv'
<1> DEFINE t == running[c]
           p == CoreSpot(c)
           r == AwaySpot(f)
<1>1. SomewhereOnly /\ QueueTypes /\ away \in [slept : SUBSET Tasks, gone : SUBSET Tasks]
  BY DEF Sound, UleTypes
<1>2. t \in Tasks /\ p \in Spots /\ t \in Held(p)
      /\ \A u \in Tasks : u \in Held(p)' <=> (u \in Held(p) /\ u # t)
  BY <1>1, LeavesCore
<1>3. r \in Spots /\ p # r
  BY SpotsAre, SpotsDiffer
<1>4. /\ away' \in [slept : SUBSET Tasks, gone : SUBSET Tasks] /\ away'[f] = away[f] \cup {t}
      /\ \A g \in {"slept", "gone"} : g # f => away'[g] = away[g]
  BY <1>1, <1>2
<1>5. \A u \in Tasks : u \in Held(r)' <=> (u \in Held(r) \/ u = t)
  BY <1>4, HeldIn, HeldNext
<1>6. ASSUME NEW s \in Spots \ {p, r}, NEW u \in Tasks PROVE u \in Held(s)' <=> u \in Held(s)
  <2>1. CASE \E d \in Cores : s = CoreSpot(d)
    BY <1>1, <2>1, LeavesCore, HeldIn, HeldNext
  <2>2. CASE \E b \in Tables : \E i \in QueuesOf(b) : s = QueueSpot(b, i)
    BY <2>2, HeldIn, HeldNext
  <2>3. CASE \E k \in Keys \X Keys, j \in Keys : s = ListSpot(k, j)
    BY <2>3, HeldIn, HeldNext
  <2>4. CASE s = AwaySpot("slept") \/ s = AwaySpot("gone")
    BY <2>4, <1>4, HeldIn, HeldNext
  <2> QED BY <2>1, <2>2, <2>3, <2>4, SpotCases
<1>7. SomewhereOnly'
  <2> HIDE DEF t, p, r
  <2>1. Moves(t, p, r)
    BY <1>2, <1>3, <1>5, <1>6 DEF Moves
  <2> QED BY <1>1, <2>1, Moved
<1>8. UleTypes'
  <2>1. QueueTypes'
    BY <1>1 DEF QueueTypes, QueuesOf, Tables
  <2> QED BY <2>1, <1>1, <1>4, LeavesCore DEF UleTypes
<1>9. OnceEach' /\ Marked' /\ Reached'
  BY DEF Sound, OnceEach, Marked, Reached, QueuesOf, Tables, IsInjective
<1> QED BY <1>7, <1>8, <1>9 DEF UleInv

\* A task given up sleeps, or is gone.
LEMMA SwitchAwayStep ==
    ASSUME UleTypes, Sound, ~halted, NEW c \in Cores, SwitchAway(c)
    PROVE  UleInv'
<1>1. Left0(c) /\ UNCHANGED <<queue, map, level, listed, halted>>
  BY DEF SwitchAway, Left0
<1>2. CASE away' = [away EXCEPT !.slept = @ \cup {running[c]}]
  BY <1>1, <1>2, GoesAway
<1>3. CASE away' = [away EXCEPT !.gone = @ \cup {running[c]}]
  BY <1>1, <1>3, GoesAway
<1> QED BY <1>2, <1>3 DEF SwitchAway

\* A task that sleeps is put into a queue.
LEMMA WakeStep ==
    ASSUME UleTypes, Sound, ~halted, NEW c \in Cores, NEW t \in Tasks, Wake(c, t)
    PROVE  UleInv'
<1> DEFINE p == AwaySpot("slept")
<1>1. SomewhereOnly /\ QueueTypes /\ away \in [slept : SUBSET Tasks, gone : SUBSET Tasks]
  BY DEF Sound, UleTypes
<1>2. t \in Held(p) /\ p \in Spots
  BY HeldIn, SpotsAre DEF Wake
<1>3. \A b \in Tables : \A r \in QueuesOf(b) : t \notin Range(queue[b][r])
  BY <1>1, <1>2, SpotsAre, SpotsDiffer, HeldIn DEF SomewhereOnly
<1>4. away' = [away EXCEPT !.slept = @ \ {t}] /\ running' = running /\ at' = at /\ schedsetready(t)
  BY DEF Wake
<1>5. away' \in [slept : SUBSET Tasks, gone : SUBSET Tasks] /\ away'.gone = away.gone
      /\ away'.slept = away.slept \ {t}
  BY <1>1, <1>4
<1>6. PICK table \in Tables : \E q \in QueuesOf(table) : Entered(t, table, q)
  BY <1>1, <1>3, <1>4, ReadyStep DEF Sound
<1>7. PICK q \in QueuesOf(table) : Entered(t, table, q)
  BY <1>6
<1>8. SomewhereOnly'
  <2>1. \A u \in Tasks : u \in Held(p)' <=> (u \in Held(p) /\ u # t)
    BY <1>5, HeldIn, HeldNext
  <2>2. \A f \in {"slept", "gone"} : AwaySpot(f) # p => away'[f] = away[f]
    BY <1>5
  <2> QED BY <1>1, <1>2, <1>4, <1>7, <2>1, <2>2, QueuedMoves
<1>9. UleTypes'
  BY <1>4, <1>5, <1>7 DEF UleTypes, Entered
<1> QED BY <1>7, <1>8, <1>9 DEF Entered, UleInv

\* A task given up is put into a list of deadlines, or lost.
LEMMA DeadlineStep ==
    ASSUME UleTypes, Sound, ~halted, NEW c \in Cores, Left0(c), schedsetdeadline(running[c])
    PROVE  UleInv'
<1> DEFINE t == running[c]
           Tab(k0) == IF level[k0] = NoLevel THEN [k \in Keys |-> NoList] ELSE level[k0]
<1>1. SomewhereOnly /\ QueueTypes
  BY DEF Sound, UleTypes
<1>2. UNCHANGED <<queue, map>>
  BY DEF schedsetdeadline
<1>3. PICK k0 \in Keys : \E k1, k2 \in Keys :
          \/ away' = [away EXCEPT !.gone = @ \cup {t}] /\ UNCHANGED <<level, listed, halted>>
          \/ halted' = TRUE /\ UNCHANGED <<away, level, listed>>
          \/ /\ level[k0] = NoLevel
             /\ level' = [level EXCEPT ![k0] = [[k \in Keys |-> NoList] EXCEPT ![k1] = <<k0, k1>>, ![0] = <<k0, k1>>]]
             /\ listed' = [listed EXCEPT ![<<k0, k1>>][k2] = Append(@, t)]
             /\ UNCHANGED <<away, halted>>
  BY DEF schedsetdeadline
<1>4. PICK k1 \in Keys, k2 \in Keys :
          \/ away' = [away EXCEPT !.gone = @ \cup {t}] /\ UNCHANGED <<level, listed, halted>>
          \/ halted' = TRUE /\ UNCHANGED <<away, level, listed>>
          \/ /\ level[k0] = NoLevel
             /\ level' = [level EXCEPT ![k0] = [[k \in Keys |-> NoList] EXCEPT ![k1] = <<k0, k1>>, ![0] = <<k0, k1>>]]
             /\ listed' = [listed EXCEPT ![<<k0, k1>>][k2] = Append(@, t)]
             /\ UNCHANGED <<away, halted>>
  BY <1>3
<1>5. CASE away' = [away EXCEPT !.gone = @ \cup {t}] /\ UNCHANGED <<level, listed, halted>>
  BY <1>2, <1>5, GoesAway
<1>6. CASE halted' = TRUE /\ UNCHANGED <<away, level, listed>>
  <2>1. UleTypes'
    BY <1>1, <1>2, <1>6, LeavesCore DEF UleTypes, QueueTypes, QueuesOf, Tables
  <2> QED BY <1>6, <2>1 DEF UleInv
<1>7. CASE /\ level[k0] = NoLevel
           /\ level' = [level EXCEPT ![k0] = [[k \in Keys |-> NoList] EXCEPT ![k1] = <<k0, k1>>, ![0] = <<k0, k1>>]]
           /\ listed' = [listed EXCEPT ![<<k0, k1>>][k2] = Append(@, t)]
           /\ UNCHANGED <<away, halted>>
  <2> DEFINE old == listed[<<k0, k1>>][k2]
             new == Append(old, t)
             p == CoreSpot(c)
             r == ListSpot(<<k0, k1>>, k2)
  <2>1. <<k0, k1>> \in Keys \X Keys /\ listed \in [Keys \X Keys -> [Keys -> Seq(Tasks)]]
        /\ DOMAIN level = Keys /\ 0 \in Keys
    BY <1>1, UleAssumption DEF QueueTypes
  <2>2. t \in Tasks /\ p \in Spots /\ t \in Held(p)
        /\ \A u \in Tasks : u \in Held(p)' <=> (u \in Held(p) /\ u # t)
    BY <1>1, LeavesCore
  <2>3. old \in Seq(Tasks) /\ IsInjective(old) /\ t \notin Range(old)
    BY <1>1, <2>1, LeavesCore DEF Sound, OnceEach
  <2>4. new \in Seq(Tasks) /\ Range(new) = Range(old) \cup {t} /\ IsInjective(new)
    <3> HIDE DEF old
    <3> QED BY <2>2, <2>3, Appended
  <2>5. /\ listed' \in [Keys \X Keys -> [Keys -> Seq(Tasks)]] /\ listed'[<<k0, k1>>][k2] = new
        /\ \A k \in Keys \X Keys, j \in Keys : k # <<k0, k1>> \/ j # k2 => listed'[k][j] = listed[k][j]
    <3>1. listed' = [listed EXCEPT ![<<k0, k1>>][k2] = new]
      BY <1>7
    <3> HIDE DEF new
    <3> QED BY <2>1, <2>4, <3>1
  <2>6. QueueTypes'
    <3>1. DOMAIN level' = Keys
      BY <1>7, <2>1
    <3> QED BY <1>1, <1>2, <2>5, <3>1 DEF QueueTypes, QueuesOf, Tables
  <2>7. UleTypes'
    BY <1>1, <1>7, <2>6, LeavesCore DEF UleTypes
  <2>8. OnceEach'
    <3>1. \A table \in Tables : \A q \in QueuesOf(table) : IsInjective(queue'[table][q])
      BY <1>2 DEF Sound, OnceEach
    <3>2. ASSUME NEW k \in Keys \X Keys, NEW j \in Keys PROVE IsInjective(listed'[k][j])
      BY <2>4, <2>5 DEF Sound, OnceEach
    <3> QED BY <3>1, <3>2 DEF OnceEach, QueuesOf, Tables, IsInjective
  <2>9. Marked'
    BY <1>2 DEF Sound, Marked, QueuesOf, Tables
  <2>10. Reached'
    <3>1. \A a, b, j \in Keys : a = k0 => listed[<<a, b>>][j] = <<>>
      BY <1>7 DEF Sound, Reached
    <3>2. ASSUME NEW a \in Keys, NEW b \in Keys, NEW j \in Keys, listed'[<<a, b>>][j] # <<>>
          PROVE  level'[a] # NoLevel /\ level'[a][b] = <<a, b>>
      <4>1. CASE a = k0 /\ b = k1
        <5>1. level'[k0] = [[k \in Keys |-> NoList] EXCEPT ![k1] = <<k0, k1>>, ![0] = <<k0, k1>>]
          BY <1>7, <2>1
        <5>2. level'[k0][k1] = <<k0, k1>> /\ DOMAIN level'[k0] = Keys
          BY <5>1, <2>1
        <5>3. 0 \notin DOMAIN NoLevel
          BY DEF NoLevel
        <5> QED BY <5>2, <5>3, <4>1, <2>1
      <4>2. CASE ~(a = k0 /\ b = k1)
        <5>1. listed[<<a, b>>][j] # <<>>
          BY <4>2, <3>2, <2>5
        <5>2. a # k0
          BY <5>1, <3>1
        <5>3. level'[a] = level[a]
          BY <5>2, <1>7, <2>1
        <5> QED BY <5>1, <5>3 DEF Sound, Reached
      <4> QED BY <4>1, <4>2
    <3> QED BY <3>2 DEF Reached
  <2>11. SomewhereOnly'
    <3>1. r \in Spots /\ p # r
      BY <2>1, SpotsAre, SpotsDiffer
    <3>2. \A u \in Tasks : u \in Held(r)' <=> (u \in Held(r) \/ u = t)
      <4>1. Held(r) = Range(old)
        BY HeldIn
      <4>2. Held(r)' = Range(listed'[<<k0, k1>>][k2])
        BY HeldNext
      <4> HIDE DEF r, old, new, t
      <4> QED BY <4>1, <4>2, <2>4, <2>5
    <3>3. ASSUME NEW s \in Spots \ {p, r}, NEW u \in Tasks PROVE u \in Held(s)' <=> u \in Held(s)
      <4>1. CASE \E d \in Cores : s = CoreSpot(d)
        BY <1>1, <4>1, LeavesCore, HeldIn, HeldNext
      <4>2. CASE \E b \in Tables : \E i \in QueuesOf(b) : s = QueueSpot(b, i)
        BY <1>2, <4>2, HeldIn, HeldNext
      <4>3. CASE \E k \in Keys \X Keys, j \in Keys : s = ListSpot(k, j)
        <5>1. PICK k \in Keys \X Keys, j \in Keys : s = ListSpot(k, j)
          BY <4>3
        <5>2. k # <<k0, k1>> \/ j # k2
          BY <5>1
        <5> QED BY <2>5, <5>1, <5>2, HeldIn, HeldNext, SMTT(30)
      <4>4. CASE s = AwaySpot("slept") \/ s = AwaySpot("gone")
        BY <4>4, <1>7, HeldIn, HeldNext
      <4> QED BY <4>1, <4>2, <4>3, <4>4, SpotCases
    <3> HIDE DEF p, r, t
    <3>4. Moves(t, p, r)
      BY <2>2, <3>1, <3>2, <3>3 DEF Moves
    <3> QED BY <1>1, <3>4, Moved
  <2> QED BY <2>7, <2>8, <2>9, <2>10, <2>11 DEF UleInv
<1> QED BY <1>4, <1>5, <1>6, <1>7

\* A task given up that is ready.
LEMMA SwitchReadyStep ==
    ASSUME UleTypes, Sound, ~halted, NEW c \in Cores, SwitchReady(c)
    PROVE  UleInv'
<1>1. Left0(c)
  BY DEF SwitchReady, Left0
<1>2. CASE Class[running[c]] = "deadline"
  BY <1>1, <1>2, DeadlineStep DEF SwitchReady
<1>3. CASE Class[running[c]] # "deadline"
  BY <1>1, <1>3, SwitchReadyQueues DEF SwitchReady
<1> QED BY <1>2, <1>3

\* A core takes the first task of a queue.
LEMMA TakeStep ==
    ASSUME UleTypes, Sound, ~halted, NEW c \in Cores, NEW table \in Tables, at[c] # "run",
           TakeFrom(c, table)
    PROVE  UleInv'
<1>1. PICK q \in SeenBits(table) :
        /\ IF queue[table][q] = <<>>
           THEN halted' = TRUE /\ UNCHANGED <<queue, running, at>>
           ELSE /\ queue' = [queue EXCEPT ![table][q] = Tail(@)]
                /\ running' = [running EXCEPT ![c] = Head(queue[table][q])]
                /\ at' = [at EXCEPT ![c] = "run"]
                /\ UNCHANGED halted
        /\ UNCHANGED <<map, away, level, listed>>
  BY DEF TakeFrom
<1>2. q \in QueuesOf(table) /\ q \in map[table]
  BY <1>1, WholeWithin DEF SeenBits
<1>3. CASE queue[table][q] = <<>>
  <2>1. UleTypes'
    BY <1>1, <1>3 DEF UleTypes, QueueTypes, QueuesOf, Tables
  <2> QED BY <1>1, <1>3, <2>1 DEF UleInv
<1>4. CASE queue[table][q] # <<>>
  <2> DEFINE old == queue[table][q]
             new == Tail(old)
             t == Head(old)
             p == QueueSpot(table, q)
             r == CoreSpot(c)
  <2>0. /\ DOMAIN queue = Tables
        /\ \A b \in Tables : queue[b] \in [QueuesOf(b) -> Seq(Tasks)]
        /\ running \in [Cores -> Tasks \cup {NoTask}] /\ running[c] \notin Tasks
        /\ at \in [Cores -> {"run", "first", "second", "idle", "wait"}]
        /\ \A d \in Cores : running[d] \in Tasks <=> at[d] = "run"
        /\ SomewhereOnly
    BY DEF UleTypes, QueueTypes, Sound
  <2>1. old \in Seq(Tasks) /\ IsInjective(old) /\ old # <<>>
    BY <1>2, <1>4, <2>0 DEF Sound, OnceEach
  <2>2. new \in Seq(Tasks) /\ IsInjective(new) /\ t \in Tasks /\ t \in Range(old) /\ Range(new) = Range(old) \ {t}
    <3> HIDE DEF old
    <3> QED BY <2>1, Tailed
  <2>3. /\ queue' = [queue EXCEPT ![table][q] = new] /\ running' = [running EXCEPT ![c] = t]
        /\ at' = [at EXCEPT ![c] = "run"] /\ UNCHANGED <<halted, map, away, level, listed>>
    BY <1>1, <1>4
  <2>4. t \in Held(p) /\ p \in Spots /\ r \in Spots /\ p # r
    BY <1>2, <2>2, HeldIn, SpotsAre, SpotsDiffer
  <2> HIDE DEF old, new, t
  <2>5. /\ DOMAIN queue' = Tables /\ queue'[table][q] = new
        /\ \A b \in Tables : queue'[b] \in [QueuesOf(b) -> Seq(Tasks)]
        /\ \A b \in Tables : \A i \in QueuesOf(b) : b # table \/ i # q => queue'[b][i] = queue[b][i]
    BY <1>2, <2>0, <2>2, <2>3
  <2>6. UleTypes'
    <3>1. QueueTypes'
      BY <2>3, <2>5 DEF UleTypes, QueueTypes, QueuesOf, Tables
    <3>2. /\ running' \in [Cores -> Tasks \cup {NoTask}]
          /\ at' \in [Cores -> {"run", "first", "second", "idle", "wait"}]
      BY <2>0, <2>2, <2>3
    <3>3. \A d \in Cores : running'[d] \in Tasks <=> at'[d] = "run"
      BY <2>0, <2>2, <2>3
    <3> QED BY <2>3, <3>1, <3>2, <3>3 DEF UleTypes
  <2>7. OnceEach'
    <3>1. ASSUME NEW b \in Tables, NEW i \in QueuesOf(b) PROVE IsInjective(queue'[b][i])
      BY <2>2, <2>5 DEF Sound, OnceEach
    <3>2. \A k \in Keys \X Keys, j \in Keys : IsInjective(listed'[k][j])
      BY <2>3 DEF Sound, OnceEach
    <3> QED BY <3>1, <3>2 DEF OnceEach, QueuesOf, Tables, IsInjective
  <2>8. Marked'
    <3>1. ASSUME NEW b \in Tables, NEW i \in QueuesOf(b), queue'[b][i] # <<>> PROVE i \in map'[b]
      <4>1. CASE b = table /\ i = q
        BY <4>1, <1>2, <2>3
      <4>2. CASE b # table \/ i # q
        <5>1. queue[b][i] # <<>>
          BY <4>2, <3>1, <2>5
        <5> QED BY <5>1, <2>3 DEF Sound, Marked
      <4> QED BY <4>1, <4>2
    <3> QED BY <3>1 DEF Marked, QueuesOf, Tables
  <2>9. Reached'
    BY <2>3 DEF Sound, Reached
  <2>10. SomewhereOnly'
    <3>1. \A u \in Tasks : u \in Held(r)' <=> (u \in Held(r) \/ u = t)
      BY <2>0, <2>3, HeldIn, HeldNext
    <3>2. \A u \in Tasks : u \in Held(p)' <=> (u \in Held(p) /\ u # t)
      BY <2>2, <2>5, HeldIn, HeldNext DEF old
    <3>3. ASSUME NEW s \in Spots \ {p, r}, NEW u \in Tasks PROVE u \in Held(s)' <=> u \in Held(s)
      <4>1. CASE \E d \in Cores : s = CoreSpot(d)
        BY <4>1, <2>0, <2>3, HeldIn, HeldNext
      <4>2. CASE \E b \in Tables : \E i \in QueuesOf(b) : s = QueueSpot(b, i)
        <5>1. PICK b \in Tables : \E i \in QueuesOf(b) : s = QueueSpot(b, i)
          BY <4>2
        <5>2. PICK i \in QueuesOf(b) : s = QueueSpot(b, i)
          BY <5>1
        <5>3. b # table \/ i # q
          BY <5>2
        <5>4. queue'[b][i] = queue[b][i]
          BY <5>3, <2>5
        <5> QED BY <5>2, <5>4, HeldIn, HeldNext
      <4>3. CASE \E k \in Keys \X Keys, j \in Keys : s = ListSpot(k, j)
        BY <2>3, <4>3, HeldIn, HeldNext
      <4>4. CASE s = AwaySpot("slept") \/ s = AwaySpot("gone")
        BY <4>4, <2>3, HeldIn, HeldNext
      <4> QED BY <4>1, <4>2, <4>3, <4>4, SpotCases
    <3> HIDE DEF p, r
    <3>4. Moves(t, p, r)
      BY <2>2, <2>4, <3>1, <3>2, <3>3 DEF Moves
    <3> QED BY <2>0, <3>4, Moved
  <2> QED BY <2>6, <2>7, <2>8, <2>9, <2>10 DEF UleInv
<1> QED BY <1>3, <1>4

\* The place in the other table, when the current and the next are exchanged.
Other(table) == IF table = "cur" THEN "next" ELSE IF table = "next" THEN "cur" ELSE table

\* When the current and the next queues are exchanged, places change their names.
LEMMA SwapStep ==
    ASSUME UleTypes, Sound, ~halted, NEW c \in Cores, Swap(c)
    PROVE  UleInv'
<1> DEFINE Image(p) == IF p[1] = "queue" THEN QueueSpot(Other(p[2][1]), p[2][2]) ELSE p
<1>1. /\ queue' = [queue EXCEPT !["cur"] = queue["next"], !["next"] = queue["cur"]]
      /\ map' = [map EXCEPT !["cur"] = map["next"], !["next"] = map["cur"]]
      /\ at' = [at EXCEPT ![c] = "second"] /\ at[c] = "first"
      /\ UNCHANGED <<running, away, level, listed, halted>>
  BY DEF Swap
<1>2. /\ DOMAIN queue = Tables /\ map \in [Tables -> SUBSET Nat]
      /\ \A b \in Tables : queue[b] \in [QueuesOf(b) -> Seq(Tasks)]
      /\ at \in [Cores -> {"run", "first", "second", "idle", "wait"}]
      /\ \A d \in Cores : running[d] \in Tasks <=> at[d] = "run"
      /\ QueueTypes /\ SomewhereOnly
  BY DEF UleTypes, QueueTypes, Sound
<1>3. \A b \in Tables : Other(b) \in Tables /\ Other(Other(b)) = b /\ QueuesOf(Other(b)) = QueuesOf(b)
  BY DEF Other, Tables, QueuesOf
<1>4. \A b \in Tables : queue'[b] = queue[Other(b)] /\ map'[b] = map[Other(b)]
  BY <1>1, <1>2 DEF Other, Tables
<1>5. DOMAIN queue' = Tables /\ map' \in [Tables -> SUBSET Nat]
  BY <1>1, <1>2 DEF Tables
<1>6. QueueTypes'
  <2>1. \A b \in Tables : queue'[b] \in [QueuesOf(b) -> Seq(Tasks)]
    BY <1>2, <1>3, <1>4
  <2> QED BY <1>1, <1>2, <1>5, <2>1 DEF QueueTypes, QueuesOf, Tables
<1>7. UleTypes'
  BY <1>1, <1>2, <1>6 DEF UleTypes
<1>8. OnceEach'
  <2>1. ASSUME NEW b \in Tables, NEW i \in QueuesOf(b) PROVE IsInjective(queue'[b][i])
    BY <1>3, <1>4 DEF Sound, OnceEach
  <2>2. \A k \in Keys \X Keys, j \in Keys : IsInjective(listed'[k][j])
    BY <1>1 DEF Sound, OnceEach
  <2> QED BY <2>1, <2>2 DEF OnceEach, QueuesOf, Tables, IsInjective
<1>9. Marked'
  <2>1. ASSUME NEW b \in Tables, NEW i \in QueuesOf(b), queue'[b][i] # <<>> PROVE i \in map'[b]
    BY <2>1, <1>3, <1>4 DEF Sound, Marked
  <2> QED BY <2>1 DEF Marked, QueuesOf, Tables
<1>10. Reached'
  BY <1>1 DEF Sound, Reached
<1>11. ASSUME NEW p \in Spots
       PROVE  Image(p) \in Spots /\ Image(Image(p)) = p /\ \A t \in Tasks : t \in Held(p)' <=> t \in Held(Image(p))
  <2>1. CASE \E d \in Cores : p = CoreSpot(d)
    <3>1. p[1] # "queue"
      BY <2>1 DEF CoreSpot
    <3> QED BY <3>1, <2>1, <1>1, HeldIn, HeldNext
  <2>2. CASE \E b \in Tables : \E i \in QueuesOf(b) : p = QueueSpot(b, i)
    <3>1. PICK b \in Tables : \E i \in QueuesOf(b) : p = QueueSpot(b, i)
      BY <2>2
    <3>2. PICK i \in QueuesOf(b) : p = QueueSpot(b, i)
      BY <3>1
    <3>3. Image(p) = QueueSpot(Other(b), i) /\ Image(QueueSpot(Other(b), i)) = QueueSpot(Other(Other(b)), i)
      BY <3>2 DEF QueueSpot
    <3>4. Image(p) \in Spots
      BY <3>3, <1>3, SpotsAre
    <3>5. Held(p)' = Held(Image(p))
      BY <3>2, <3>3, <1>4, HeldIn, HeldNext
    <3> QED BY <3>2, <3>3, <3>4, <3>5, <1>3
  <2>3. CASE \E k \in Keys \X Keys, j \in Keys : p = ListSpot(k, j)
    <3>1. p[1] # "queue"
      BY <2>3 DEF ListSpot
    <3> QED BY <3>1, <2>3, <1>1, HeldIn, HeldNext
  <2>4. CASE p = AwaySpot("slept") \/ p = AwaySpot("gone")
    <3>1. p[1] # "queue"
      BY <2>4 DEF AwaySpot
    <3> QED BY <3>1, <2>4, <1>1, HeldIn, HeldNext
  <2> QED BY <2>1, <2>2, <2>3, <2>4, SpotCases
<1> HIDE DEF Image
<1>12. SomewhereOnly'
  <2>1. Spots' = Spots
    BY DEF Spots, QueueSlots
  <2>2. ASSUME NEW t \in Tasks PROVE \E p \in Spots : t \in Held(p)'
    <3>1. PICK p \in Spots : t \in Held(p)
      BY <1>2 DEF SomewhereOnly
    <3> QED BY <3>1, <1>11
  <2>3. ASSUME NEW t \in Tasks, NEW p \in Spots, NEW q \in Spots, t \in Held(p)', t \in Held(q)'
        PROVE  p = q
    <3>1. Image(p) = Image(q)
      BY <2>3, <1>2, <1>11 DEF SomewhereOnly
    <3> QED BY <3>1, <1>11
  <2> QED BY <2>1, <2>2, <2>3 DEF SomewhereOnly
<1> QED BY <1>7, <1>8, <1>9, <1>10, <1>12 DEF UleInv

\* Steps of a core that moves no task.
LEMMA StillStep ==
    ASSUME UleTypes, Sound, ~halted, UNCHANGED <<queue, running, away, level, listed, halted>>,
           map' \in [Tables -> SUBSET Nat], \A b \in Tables : map[b] \subseteq map'[b],
           at' \in [Cores -> {"run", "first", "second", "idle", "wait"}],
           \A d \in Cores : at'[d] = "run" <=> at[d] = "run"
    PROVE  UleInv'
<1>1. UleTypes'
  <2>1. QueueTypes'
    BY DEF UleTypes, QueueTypes, QueuesOf, Tables
  <2> QED BY <2>1 DEF UleTypes
<1>2. OnceEach' /\ Reached'
  BY DEF Sound, OnceEach, Reached, QueuesOf, Tables, IsInjective
<1>3. Marked'
  BY DEF Sound, Marked, QueuesOf, Tables
<1>4. SomewhereOnly'
  BY SMTT(30) DEF Sound, SomewhereOnly, Spots, QueueSlots, Held, Queue, Range
<1> QED BY <1>1, <1>2, <1>3, <1>4 DEF UleInv

\* A core that finds no task, and an interrupt.
LEMMA IdleSteps ==
    ASSUME UleTypes, Sound, ~halted, NEW c \in Cores, GoIdle(c) \/ MarkIdle(c) \/ Interrupt(c)
    PROVE  UleInv'
<1>1. /\ map \in [Tables -> SUBSET Nat] /\ "idle" \in Tables /\ c \in Nat
      /\ at \in [Cores -> {"run", "first", "second", "idle", "wait"}]
  BY UleAssumption DEF UleTypes, QueueTypes, Tables
<1>2. CASE GoIdle(c)
  BY <1>1, <1>2, StillStep DEF GoIdle
<1>3. CASE MarkIdle(c)
  <2>1. /\ UNCHANGED <<queue, running, away, level, listed, halted>>
        /\ at[c] = "idle" /\ at' = [at EXCEPT ![c] = "wait"]
        /\ map' = [map EXCEPT !["idle"] = @ \cup {c}]
    BY <1>3 DEF MarkIdle
  <2>2. map' \in [Tables -> SUBSET Nat] /\ \A b \in Tables : map[b] \subseteq map'[b]
    BY <1>1, <2>1
  <2>3. /\ at' \in [Cores -> {"run", "first", "second", "idle", "wait"}]
        /\ \A d \in Cores : at'[d] = "run" <=> at[d] = "run"
    BY <1>1, <2>1
  <2> QED BY <2>1, <2>2, <2>3, StillStep
<1>4. CASE Interrupt(c)
  BY <1>1, <1>4, StillStep DEF Interrupt
<1> QED BY <1>2, <1>3, <1>4

\* Every step of the scheduler keeps the invariant,
LEMMA UleStep ==
    ASSUME UleInv, UleNext
    PROVE  UleInv'
<1>1. PICK c \in Cores :
        \/ SwitchReady(c) \/ SwitchAway(c) \/ \E t \in Tasks : Wake(c, t)
        \/ Scan(c) \/ Swap(c) \/ GoIdle(c) \/ ScanIdle(c) \/ MarkIdle(c) \/ Interrupt(c)
  BY DEF UleNext
<1>2. ~halted
  BY <1>1 DEF SwitchReady, SwitchAway, Wake, Scan, Swap, GoIdle, ScanIdle, MarkIdle, Interrupt
<1>3. UleTypes /\ Sound
  BY <1>2 DEF UleInv, Sound
<1>4. "cur" \in Tables /\ "idle" \in Tables
  BY DEF Tables
<1>5. CASE SwitchReady(c)
  BY <1>2, <1>3, <1>5, SwitchReadyStep
<1>6. CASE SwitchAway(c)
  BY <1>2, <1>3, <1>6, SwitchAwayStep
<1>7. CASE \E t \in Tasks : Wake(c, t)
  BY <1>2, <1>3, <1>7, WakeStep
<1>8. CASE Scan(c)
  BY <1>2, <1>3, <1>4, <1>8, TakeStep DEF Scan
<1>9. CASE Swap(c)
  BY <1>2, <1>3, <1>9, SwapStep
<1>10. CASE ScanIdle(c)
  BY <1>2, <1>3, <1>4, <1>10, TakeStep DEF ScanIdle
<1>11. CASE GoIdle(c) \/ MarkIdle(c) \/ Interrupt(c)
  BY <1>2, <1>3, <1>11, IdleSteps
<1> QED BY <1>1, <1>5, <1>6, <1>7, <1>8, <1>9, <1>10, <1>11

\* its start has it,
LEMMA UleStart ==
    ASSUME UleInit
    PROVE  UleInv
<1>1. /\ queue = [table \in Tables |-> [q \in QueuesOf(table) |-> <<>>]]
      /\ listed = [k \in Keys \X Keys |-> [j \in Keys |-> <<>>]]
      /\ map = [table \in Tables |-> {}] /\ level = [k \in Keys |-> NoLevel]
      /\ running \in [Cores -> Tasks] /\ at = [c \in Cores |-> "run"]
      /\ \A c, d \in Cores : running[c] = running[d] => c = d
      /\ away = [slept |-> Tasks \ {running[c] : c \in Cores}, gone |-> {}]
  BY DEF UleInit
<1>2. QueueTypes
  BY <1>1 DEF QueueTypes
<1>3. /\ \A table \in Tables : \A q \in QueuesOf(table) : queue[table][q] = <<>>
      /\ \A k \in Keys \X Keys, j \in Keys : listed[k][j] = <<>>
  BY <1>1
<1>4. Range(<<>>) = {} /\ IsInjective(<<>>)
  BY DEF Range, IsInjective
<1>5. UleTypes
  <2>1. running \in [Cores -> Tasks \cup {NoTask}]
    BY <1>1
  <2>2. at \in [Cores -> {"run", "first", "second", "idle", "wait"}]
    BY <1>1
  <2>3. \A c \in Cores : running[c] \in Tasks <=> at[c] = "run"
    BY <1>1
  <2>4. away \in [slept : SUBSET Tasks, gone : SUBSET Tasks]
    BY <1>1
  <2>5. halted \in BOOLEAN
    BY DEF UleInit
  <2> QED BY <1>2, <2>1, <2>2, <2>3, <2>4, <2>5 DEF UleTypes
<1>6. OnceEach /\ Marked /\ Reached
  BY <1>3, <1>4 DEF OnceEach, Marked, Reached
<1>7. SomewhereOnly
  <2>1. ASSUME NEW t \in Tasks PROVE \E p \in Spots : t \in Held(p)
    <3>1. CASE \E c \in Cores : running[c] = t
      BY <3>1, HeldIn, SpotsAre
    <3>2. CASE \A c \in Cores : running[c] # t
      <4>1. t \in away.slept
        BY <1>1, <3>2
      <4> QED BY <4>1, HeldIn, SpotsAre
    <3> QED BY <3>1, <3>2
  <2>2. ASSUME NEW t \in Tasks, NEW p \in Spots, t \in Held(p)
        PROVE  \/ \E c \in Cores : p = CoreSpot(c) /\ running[c] = t
               \/ p = AwaySpot("slept") /\ \A c \in Cores : running[c] # t
    <3>1. CASE \E b \in Tables : \E i \in QueuesOf(b) : p = QueueSpot(b, i)
      BY <2>2, <3>1, <1>3, <1>4, HeldIn
    <3>2. CASE \E k \in Keys \X Keys, j \in Keys : p = ListSpot(k, j)
      BY <2>2, <3>2, <1>3, <1>4, HeldIn
    <3>3. CASE p = AwaySpot("slept") \/ p = AwaySpot("gone")
      BY <2>2, <3>3, <1>1, HeldIn
    <3>4. CASE \E c \in Cores : p = CoreSpot(c)
      BY <2>2, <3>4, HeldIn
    <3> QED BY <3>1, <3>2, <3>3, <3>4, SpotCases
  <2>3. ASSUME NEW t \in Tasks, NEW p \in Spots, NEW q \in Spots, t \in Held(p), t \in Held(q)
        PROVE  p = q
    BY <2>2, <2>3, <1>1
  <2> QED BY <2>1, <2>3 DEF SomewhereOnly
<1> QED BY <1>5, <1>6, <1>7 DEF UleInv

\* and so does every state.
LEMMA UleAlways == UleSpec => []UleInv
<1>1. ASSUME UleInv, UNCHANGED ulevars PROVE UleInv'
  <2>1. UNCHANGED <<queue, map, running, at, away, level, listed, halted>>
    BY <1>1 DEF ulevars
  <2>2. UleTypes'
    BY <1>1, <2>1 DEF UleInv, UleTypes, QueueTypes, QueuesOf, Tables
  <2>3. CASE halted
    BY <2>1, <2>2, <2>3 DEF UleInv
  <2>4. CASE ~halted
    <3>1. Sound /\ UleTypes
      BY <1>1, <2>4 DEF UleInv, Sound
    <3> QED BY <2>1, <2>4, <3>1, StillStep DEF UleTypes, QueueTypes
  <2> QED BY <2>3, <2>4
<1> QED BY <1>1, UleStart, UleStep, PTL DEF UleSpec

\* Every task is in one place and there once, every queue that holds a task is
\* marked, and every list of deadlines is where its keys lead (schedsetready,
\* schedswitchtask, schedsetdeadline).
THEOREM TasksInPlace == UleSpec => []TasksKept
<1>1. ASSUME UleInv, ~halted, NEW t \in Tasks PROVE Cardinality({p \in Spots : t \in Held(p)}) = 1
  <2>1. PICK p \in Spots : t \in Held(p)
    BY <1>1 DEF UleInv, SomewhereOnly
  <2>2. {q \in Spots : t \in Held(q)} = {p}
    BY <1>1, <2>1 DEF UleInv, SomewhereOnly
  <2> QED BY <2>2, FS_Singleton
<1>2. ASSUME UleInv, ~halted, NEW p \in Spots, p[1] \in {"queue", "list"} PROVE IsInjective(Queue(p))
  <2>1. CASE \E b \in Tables : \E i \in QueuesOf(b) : p = QueueSpot(b, i)
    BY <1>2, <2>1 DEF UleInv, OnceEach, Queue, QueueSpot
  <2>2. CASE \E k \in Keys \X Keys, j \in Keys : p = ListSpot(k, j)
    BY <1>2, <2>2 DEF UleInv, OnceEach, Queue, ListSpot
  <2>3. CASE p = AwaySpot("slept") \/ p = AwaySpot("gone") \/ \E c \in Cores : p = CoreSpot(c)
    BY <1>2, <2>3 DEF AwaySpot, CoreSpot
  <2> QED BY <2>1, <2>2, <2>3, SpotCases
<1>3. ASSUME UleInv, ~halted, NEW s \in QueueSlots, queue[s[1]][s[2]] # <<>> PROVE s[2] \in map[s[1]]
  BY <1>3 DEF UleInv, Marked, QueueSlots
<1>4. ASSUME UleInv, ~halted
      PROVE  \A k0, k1 \in Keys : (\E j \in Keys : listed[<<k0, k1>>][j] # <<>>) =>
                level[k0] # NoLevel /\ level[k0][k1] = <<k0, k1>>
  BY <1>4 DEF UleInv, Reached
<1>5. UleInv => TasksKept
  BY <1>1, <1>2, <1>3, <1>4 DEF TasksKept
<1> QED BY <1>5, UleAlways, PTL

\* A queue with a task is seen by the scan.
LEMMA WaitingSeen ==
    ASSUME UleInv, ~halted, NEW q, Waiting(q)
    PROVE  q \in SeenBits("cur")
BY WholeWithin DEF UleInv, Marked, Waiting, SeenBits, Tables

\* How a core comes to run a task, and to look a second time.
LEMMA CoreSteps ==
    ASSUME UleInv, UleNext, NEW c \in Cores
    PROVE  /\ at[c] \in {"first", "second"} /\ at'[c] = "run" => Scan(c)
           /\ at[c] = "first" /\ at'[c] = "second" => Swap(c)
<1>1. at \in [Cores -> {"run", "first", "second", "idle", "wait"}]
  BY DEF UleInv, UleTypes
<1>2. PICK d \in Cores :
        \/ SwitchReady(d) \/ SwitchAway(d) \/ \E t \in Tasks : Wake(d, t)
        \/ Scan(d) \/ Swap(d) \/ GoIdle(d) \/ ScanIdle(d) \/ MarkIdle(d) \/ Interrupt(d)
  BY DEF UleNext
<1>3. CASE SwitchReady(d)
  BY <1>1, <1>3 DEF SwitchReady
<1>4. CASE SwitchAway(d)
  BY <1>1, <1>4 DEF SwitchAway
<1>5. CASE \E t \in Tasks : Wake(d, t)
  BY <1>1, <1>5 DEF Wake
<1>6. CASE Scan(d)
  <2>1. at[d] \in {"first", "second"} /\ (at' = at \/ at' = [at EXCEPT ![d] = "run"])
    BY <1>6 DEF Scan, TakeFrom
  <2> QED BY <1>1, <1>6, <2>1
<1>7. CASE Swap(d)
  <2>1. at[d] = "first" /\ at' = [at EXCEPT ![d] = "second"]
    BY <1>7 DEF Swap
  <2> QED BY <1>1, <1>7, <2>1
<1>8. CASE ScanIdle(d)
  <2>1. at[d] = "idle" /\ (at' = at \/ at' = [at EXCEPT ![d] = "run"])
    BY <1>8 DEF ScanIdle, TakeFrom
  <2> QED BY <1>1, <2>1
<1>9. CASE GoIdle(d) \/ MarkIdle(d) \/ Interrupt(d)
  BY <1>1, <1>9 DEF GoIdle, MarkIdle, Interrupt
<1> QED BY <1>2, <1>3, <1>4, <1>5, <1>6, <1>7, <1>8, <1>9

\* A core takes the first task of the lowest scanned queue that has one, and the
\* sets are exchanged only when no scanned queue of the current one has a task
\* (schedswitchtask).
THEOREM LowestServed == UleSpec => BestFirst
<1> DEFINE Best ==
        /\ \A c \in Cores : at[c] \in {"first", "second"} /\ at'[c] = "run" =>
                \E q \in WholeWords("cur") :
                    /\ queue["cur"][q] # <<>> /\ running'[c] = Head(queue["cur"][q])
                    /\ \A r \in 0 .. q - 1 : ~Waiting(r)
        /\ (\E c \in Cores : at[c] = "first" /\ at'[c] = "second") =>
                \A q \in WholeWords("cur") : ~Waiting(q)
<1>1. ASSUME UleInv, UleNext, NEW c \in Cores, at[c] \in {"first", "second"}, at'[c] = "run"
      PROVE  \E q \in WholeWords("cur") :
                    /\ queue["cur"][q] # <<>> /\ running'[c] = Head(queue["cur"][q])
                    /\ \A r \in 0 .. q - 1 : ~Waiting(r)
  <2>1. Scan(c) /\ ~halted
    BY <1>1, CoreSteps DEF Scan
  <2>2. PICK q \in SeenBits("cur") :
        /\ \A r \in SeenBits("cur") : q <= r
        /\ IF queue["cur"][q] = <<>>
           THEN halted' = TRUE /\ UNCHANGED <<queue, running, at>>
           ELSE /\ queue' = [queue EXCEPT !["cur"][q] = Tail(@)]
                /\ running' = [running EXCEPT ![c] = Head(queue["cur"][q])]
                /\ at' = [at EXCEPT ![c] = "run"]
                /\ UNCHANGED halted
    BY <2>1 DEF Scan, TakeFrom
  <2>3. q \in WholeWords("cur") /\ q \in Nat
    BY <2>2, WholeWithin DEF SeenBits, Tables
  <2>4. queue["cur"][q] # <<>>
    BY <2>2, <1>1
  <2>5. running'[c] = Head(queue["cur"][q])
    BY <2>2, <2>4, <1>1 DEF UleInv, UleTypes
  <2>6. ASSUME NEW r \in 0 .. q - 1, Waiting(r) PROVE FALSE
    <3>1. r \in SeenBits("cur")
      BY <1>1, <2>1, <2>6, WaitingSeen
    <3> QED BY <2>2, <2>3, <2>6, <3>1
  <2> QED BY <2>3, <2>4, <2>5, <2>6
<1>2. ASSUME UleInv, UleNext, NEW c \in Cores, at[c] = "first", at'[c] = "second"
      PROVE  \A q \in WholeWords("cur") : ~Waiting(q)
  <2>1. ~halted /\ SeenBits("cur") = {}
    BY <1>2, CoreSteps DEF Swap
  <2> QED BY <2>1, <1>2, WaitingSeen
<1>3. UleInv /\ [UleNext]_ulevars => [Best]_ulevars
  BY <1>1, <1>2
<1> QED BY <1>3, UleAlways, PTL DEF UleSpec, BestFirst

---------------------------------------------------------------------------
(* Products and quotients.                                                 *)

\* What a division leaves.
LEMMA Divided ==
    ASSUME NEW a \in Nat, NEW d \in Nat \ {0}
    PROVE  a \div d \in Nat /\ (a \div d) * d <= a /\ a < (a \div d) * d + d
BY SMT

\* A product by one is a product by another too when it is not larger.
LEMMA Times ==
    ASSUME NEW a \in Nat, NEW b \in Nat, NEW d \in Nat
    PROVE  a * d \in Nat /\ (a <= b => a * d <= b * d) /\ a * d = d * a /\ (a + 1) * d = a * d + d
<1>1. a * d \in Nat /\ a * d = d * a /\ (a + 1) * d = a * d + d
  BY SMT
<1>2. ASSUME a <= b PROVE a * d <= b * d
  <2>1. b - a \in Nat
    BY <1>2
  <2>2. (b - a) * d \in Nat /\ (b - a) * d = b * d - a * d
    BY <2>1, SMT
  <2> QED
    BY <2>2, SMT
<1> QED
  BY <1>1, <1>2

\* A multiple rounds to itself, and what lies above it by less divides to it.
LEMMA Multiple ==
    ASSUME NEW k \in Nat, NEW u \in Nat \ {0}, NEW r \in 0 .. u - 1
    PROVE  (u * k + r) \div u = k /\ (u * k) % u = 0
<1> DEFINE e == (u * k + r) \div u
<1>1. u * k \in Nat
  BY Times
<1>2. e \in Nat /\ e * u <= u * k + r /\ u * k + r < e * u + u
  BY <1>1, Divided
<1> HIDE DEF e
<1>3. ~(e < k)
  <2>1. ASSUME e < k PROVE FALSE
    <3>1. (e + 1) * u <= k * u
      BY <2>1, <1>2, Times
    <3>2. (e + 1) * u = e * u + u /\ k * u = u * k /\ e * u \in Nat
      BY <1>2, Times
    <3> QED
      BY <3>1, <3>2, <1>1, <1>2
  <2> QED
    BY <2>1
<1>4. ~(k < e)
  <2>1. ASSUME k < e PROVE FALSE
    <3>1. (k + 1) * u <= e * u
      BY <2>1, <1>2, Times
    <3>2. (k + 1) * u = k * u + u /\ k * u = u * k /\ e * u \in Nat
      BY <1>2, Times
    <3> QED
      BY <3>1, <3>2, <1>1, <1>2
  <2> QED
    BY <2>1
<1>5. e = k
  BY <1>2, <1>3, <1>4
<1>6. (u * k) % u = 0
  BY SMT
<1> QED
  BY <1>5, <1>6 DEF e

---------------------------------------------------------------------------
(* The display: the turns paid, the picture, the buttons and the listing.  *)

\* The handlers of STEP at work: each has paid for a move that is still to be made.
Stepping(s) == Cardinality({i \in DOMAIN s : s[i].fn = "STEP"})
\* The frames of the handlers.
FrameSet == [fn : {"RUN", "STEP"}, pid : {0, 1}]

\* A game that plays is in the hands of the innermost handler, which is one of RUN.
PlayingRuns == playing /\ ended = "no" => calls # <<>> /\ Innermost.fn = "RUN"
\* Every turn paid for is a move, a tie or a handler of STEP at work.
TurnsPaid ==
    /\ 2 * SimTurns - (turns[1] + turns[2]) = history.moves + history.ties + Stepping(calls)
    /\ history.mover >= 0 => mover = 1 - history.mover
\* The types of the history,
HistoryTypes == history \in [moves : Nat, ties : Nat, mover : {-1, 0, 1}]

\* and the inductive invariant of the display.
ZeusInv ==
    ZeusTypeOK /\ HistoryTypes /\ PlayingRuns /\ PictureTrue /\ TurnsPaid
    /\ StopLooksPressed /\ ListingLegible

\* A sequence of handlers that grows or shrinks at its end.
LEMMA Deeper ==
    ASSUME NEW s \in Seq(FrameSet), NEW f \in FrameSet
    PROVE  /\ Append(s, f) \in Seq(FrameSet) /\ Append(s, f) # <<>>
           /\ Append(s, f)[Len(Append(s, f))] = f
           /\ Stepping(Append(s, f)) = Stepping(s) + (IF f.fn = "STEP" THEN 1 ELSE 0)
<1> DEFINE a == Append(s, f)
           n == Len(s) + 1
           T == {i \in DOMAIN s : s[i].fn = "STEP"}
<1>1. /\ a \in Seq(FrameSet) /\ a # <<>> /\ Len(a) = n /\ Len(s) \in Nat
      /\ \A i \in 1 .. Len(s) : a[i] = s[i]
      /\ a[n] = f
  BY AppendProperties, LenProperties
<1>2. DOMAIN a = 1 .. n /\ DOMAIN s = 1 .. Len(s)
  BY <1>1, LenProperties
<1>3. IsFiniteSet(T) /\ n \notin T
  <2>1. IsFiniteSet(1 .. Len(s)) /\ T \subseteq 1 .. Len(s)
    BY <1>1, <1>2, FS_Interval
  <2> QED BY <2>1, <1>1, FS_Subset
<1> HIDE DEF a
<1> DEFINE A == {i \in DOMAIN a : a[i].fn = "STEP"}
<1>4. A = IF f.fn = "STEP" THEN T \cup {n} ELSE T
  BY <1>1, <1>2
<1>5. Cardinality(T \cup {n}) = Cardinality(T) + 1 /\ Cardinality(T) \in Nat
  BY <1>3, FS_AddElement, FS_CardinalityType
<1>6. Stepping(s) = Cardinality(T) /\ Stepping(a) = Cardinality(A)
  BY DEF Stepping
<1> HIDE DEF A, T, n
<1>7. Stepping(a) = Stepping(s) + (IF f.fn = "STEP" THEN 1 ELSE 0)
  BY <1>4, <1>5, <1>6
<1> QED BY <1>1, <1>7 DEF a

\* A sequence is the one without its last handler and that handler.
LEMMA Back ==
    ASSUME NEW s \in Seq(FrameSet), s # <<>>
    PROVE  /\ SubSeq(s, 1, Len(s) - 1) \in Seq(FrameSet) /\ s[Len(s)] \in FrameSet
           /\ s = Append(SubSeq(s, 1, Len(s) - 1), s[Len(s)])
<1> DEFINE o == SubSeq(s, 1, Len(s) - 1)
<1>1. Len(s) \in Nat \ {0} /\ s \in [1 .. Len(s) -> FrameSet]
  BY LenProperties, EmptySeq
<1>2. o \in Seq(FrameSet) /\ Len(o) = Len(s) - 1 /\ Len(o) \in Nat /\ Len(s) = Len(o) + 1 /\ \A i \in 1 .. Len(o) : o[i] = s[i]
  BY <1>1, SubSeqProperties
<1>3. s[Len(s)] \in FrameSet
  BY <1>1
<1> HIDE DEF o
<1> DEFINE e == s[Len(s)]
<1> HIDE DEF e
<1>4. /\ Append(o, e) \in Seq(FrameSet) /\ Len(Append(o, e)) = Len(o) + 1
      /\ \A i \in 1 .. Len(o) : Append(o, e)[i] = o[i]
      /\ Append(o, e)[Len(o) + 1] = e
  BY <1>2, <1>3, AppendProperties DEF e
<1>5. \A i \in 1 .. Len(s) : Append(o, e)[i] = s[i]
  <2>1. \A i \in 1 .. Len(s) : i \in 1 .. Len(o) \/ (i = Len(o) + 1 /\ i = Len(s))
    <3> DEFINE n == Len(s)
               m == Len(o)
    <3>1. n \in Nat /\ m \in Nat /\ n = m + 1
      BY <1>1, <1>2
    <3> HIDE DEF n, m
    <3>2. \A i \in 1 .. n : i \in 1 .. m \/ (i = m + 1 /\ i = n)
      BY <3>1
    <3> QED BY <3>2 DEF n, m
  <2>2. s[Len(s)] = e
    BY DEF e
  <2> QED BY <1>2, <1>4, <2>1, <2>2
<1>6. s = Append(o, e)
  <2>1. s \in Seq(FrameSet) /\ Append(o, e) \in Seq(FrameSet) /\ Len(s) = Len(Append(o, e))
    BY <1>2, <1>4
  <2>2. \A i \in 1 .. Len(s) : s[i] = Append(o, e)[i]
    BY <1>5
  <2> QED BY <2>1, <2>2, SeqEqual
<1> QED BY <1>2, <1>3, <1>6 DEF o, e

\* A handler returns.
LEMMA Returned ==
    ASSUME NEW s \in Seq(FrameSet), s # <<>>
    PROVE  /\ SubSeq(s, 1, Len(s) - 1) \in Seq(FrameSet) /\ s[Len(s)] \in FrameSet
           /\ Stepping(s) = Stepping(SubSeq(s, 1, Len(s) - 1)) + (IF s[Len(s)].fn = "STEP" THEN 1 ELSE 0)
<1> DEFINE o == SubSeq(s, 1, Len(s) - 1)
           e == s[Len(s)]
<1>1. o \in Seq(FrameSet) /\ e \in FrameSet /\ s = Append(o, e)
  BY Back
<1> HIDE DEF o, e
<1>2. Stepping(s) = Stepping(o) + (IF e.fn = "STEP" THEN 1 ELSE 0)
  BY <1>1, Deeper
<1> QED BY <1>1, <1>2 DEF o, e

\* No handler, none of STEP.
LEMMA NoSteps == Stepping(<<>>) = 0 /\ \A s \in Seq(FrameSet) : Stepping(s) \in Nat
<1>1. {i \in DOMAIN <<>> : <<>>[i].fn = "STEP"} = {}
  OBVIOUS
<1>2. ASSUME NEW s \in Seq(FrameSet) PROVE Stepping(s) \in Nat
  <2>1. IsFiniteSet(DOMAIN s)
    BY LenProperties, FS_Interval
  <2> QED BY <2>1, FS_Subset, FS_CardinalityType DEF Stepping
<1> QED BY <1>1, <1>2, FS_EmptySet DEF Stepping

\* What is listed after a press.
LEMMA Listed ==
    ASSUME NEW pc \in SimPcs, zeusprintdb(pc), \A w \in 1 .. 2 : listing[w] \subseteq (0 .. Rows - 1) \X SimPcs
    PROVE  /\ \A w \in 1 .. 2 : listing'[w] \subseteq (0 .. Rows - 1) \X SimPcs
           /\ pointed' = pc
           /\ ListingLegible'
<1> DEFINE window(c) == IF c \in Second THEN 2 ELSE 1
           cell(i) == (pc + i) % SimCells
           rows(w) == {i \in 0 .. Rows - 1 : window(cell(i)) = w}
           new(w) == {<<i, cell(i)>> : i \in rows(w)}
<1>1. /\ listing' = [w \in 1 .. 2 |-> (IF w = window(pc) THEN {} ELSE listing[w]) \cup new(w)]
      /\ pointed' = pc
  BY DEF zeusprintdb
<1>2. \A i \in 0 .. Rows - 1 : cell(i) \in SimPcs
  BY ZeusAssumption DEF SimPcs
<1>3. cell(0) = pc /\ 0 \in 0 .. Rows - 1
  BY ZeusAssumption DEF SimPcs
<1>4. \A w : new(w) \subseteq (0 .. Rows - 1) \X SimPcs
  BY <1>2
<1>5. window(pc) \in 1 .. 2
  OBVIOUS
<1>6. <<0, pc>> \in new(window(pc))
  <2>1. 0 \in rows(window(pc))
    BY <1>3
  <2>2. <<0, cell(0)>> \in new(window(pc))
    BY <2>1
  <2> QED BY <2>2, <1>3
<1>7. \A w : \A p, q \in new(w) : p[1] = q[1] => p = q
  OBVIOUS
<1> HIDE DEF new
<1>8. listing'[window(pc)] = new(window(pc))
  BY <1>1, <1>5
<1>9. ListingLegible'
  BY <1>1, <1>6, <1>7, <1>8 DEF ListingLegible
<1>10. \A w \in 1 .. 2 : listing'[w] \subseteq (0 .. Rows - 1) \X SimPcs
  BY <1>1, <1>4
<1> QED BY <1>1, <1>9, <1>10

\* The widths of the picture in cells.
LEMMA Columns == SimWidth \div 5 = SimCols /\ SimWidth = SimCols * 5 /\ SimHeight = SimRows * 5
<1>1. SimCols \in Nat
  BY ZeusAssumption
<1>2. (SimCols * 5) \div 5 = SimCols
  BY <1>1
<1> QED
  BY <1>2 DEF SimWidth, SimHeight

\* A cell lies in the row and column that its number divides to.
LEMMA CellPlace ==
    ASSUME NEW pc \in SimPcs
    PROVE  /\ pc \div SimCols \in 0 .. SimRows - 1
           /\ pc - (pc \div SimCols) * SimCols \in 0 .. SimCols - 1
<1> DEFINE row == pc \div SimCols
<1>1. pc \in Nat /\ SimCols \in Nat \ {0} /\ SimRows \in Nat \ {0} /\ pc < SimRows * SimCols
  BY ZeusAssumption, Times DEF SimPcs
<1>2. row \in Nat /\ row * SimCols <= pc /\ pc < row * SimCols + SimCols /\ row * SimCols \in Nat
  BY <1>1, Divided, Times
<1> HIDE DEF row
<1>3. ~(SimRows <= row)
  BY <1>1, <1>2, Times
<1> QED
  BY <1>1, <1>2, <1>3 DEF row

\* The cell at a row and a column is in the core.
LEMMA CellInCore ==
    ASSUME NEW row \in 0 .. SimRows - 1, NEW col \in 0 .. SimCols - 1
    PROVE  row * SimCols + col \in SimPcs
<1>1. SimCols \in Nat \ {0} /\ SimRows \in Nat \ {0} /\ SimCells = SimRows * SimCols
  BY ZeusAssumption
<1>2. row \in Nat /\ row + 1 \in Nat /\ row + 1 <= SimRows
  BY <1>1
<1>3. row * SimCols \in Nat /\ (row + 1) * SimCols = row * SimCols + SimCols
  BY <1>1, <1>2, Times
<1>4. (row + 1) * SimCols <= SimCells
  BY <1>1, <1>2, Times
<1> QED
  BY <1>1, <1>3, <1>4, Times DEF SimPcs

\* The pixels of a cell are those of its square.
LEMMA PixelOfCell ==
    ASSUME NEW row \in 0 .. SimRows - 1, NEW col \in 0 .. SimCols - 1, NEW i \in 0 .. 3, NEW j \in 0 .. 3
    PROVE  CellUnder(col * 5 + i, row * 5 + j) = row * SimCols + col
<1>1. row \in Nat /\ col \in Nat
  BY ZeusAssumption
<1>2. (col * 5 + i) \div 5 = col /\ (row * 5 + j) \div 5 = row
  BY <1>1
<1> QED
  BY <1>2, Columns DEF CellUnder

\* A press is of a cell of the core, of that whose square the pointer is at.
LEMMA PointerInCore == PressedAsDrawn
<1>1. ASSUME NEW p \in Pixels0 PROVE CellUnder(p[1], p[2]) \in SimPcs
  <2>1. p[1] \in 0 .. SimCols * 5 - 1 /\ p[2] \in 0 .. SimRows * 5 - 1
    BY <1>1, Columns DEF Pixels0
  <2>2. SimCols \in Nat /\ SimRows \in Nat
    BY ZeusAssumption
  <2>3. p[1] \div 5 \in 0 .. SimCols - 1 /\ p[2] \div 5 \in 0 .. SimRows - 1
    BY <2>1, <2>2
  <2>4. (p[2] \div 5) * SimCols + p[1] \div 5 \in SimPcs
    BY <2>3, CellInCore
  <2> QED
    BY <2>4, Columns DEF CellUnder
<1>2. ASSUME NEW pc \in SimPcs
      PROVE  /\ LiesIn(CellArea(pc), zeusinitx11win.sim)
             /\ \A i, j \in 0 .. 3 : CellUnder(CellArea(pc).x + i, CellArea(pc).y + j) = pc
             /\ <<CellArea(pc).x, CellArea(pc).y>> \in Pixels0
             /\ CellUnder(CellArea(pc).x, CellArea(pc).y) = pc
  <2> DEFINE row == pc \div SimCols
             col == pc - row * SimCols
  <2>1. row \in 0 .. SimRows - 1 /\ col \in 0 .. SimCols - 1
    BY CellPlace
  <2>2. CellArea(pc) = Win(col * 5, row * 5, 4, 4)
    BY DEF CellArea
  <2>3. pc \in Nat /\ SimCols \in Nat /\ SimRows \in Nat /\ row * SimCols \in Nat
    BY <2>1, ZeusAssumption, Times DEF SimPcs
  <2>4. row * SimCols + col = pc
    BY <2>1, <2>3
  <2> HIDE DEF row, col
  <2>5. CellArea(pc).x = col * 5 /\ CellArea(pc).y = row * 5 /\ CellArea(pc).w = 4 /\ CellArea(pc).h = 4
    BY <2>2 DEF Win
  <2>6. \A i, j \in 0 .. 3 : CellUnder(CellArea(pc).x + i, CellArea(pc).y + j) = pc
    BY <2>1, <2>4, <2>5, PixelOfCell
  <2>7. zeusinitx11win.sim = Win(0, 0, SimCols * 5, SimRows * 5)
    BY Columns DEF zeusinitx11win
  <2>8. LiesIn(CellArea(pc), zeusinitx11win.sim)
    BY <2>1, <2>3, <2>5, <2>7 DEF LiesIn, Win
  <2>9. <<CellArea(pc).x, CellArea(pc).y>> \in Pixels0
    BY <2>1, <2>3, <2>5, Columns DEF Pixels0
  <2>10. CellUnder(CellArea(pc).x, CellArea(pc).y) = pc
    <3>1. CellUnder(col * 5 + 0, row * 5 + 0) = pc
      BY <2>1, <2>4, PixelOfCell
    <3>2. col * 5 + 0 = col * 5 /\ row * 5 + 0 = row * 5
      BY <2>1, <2>3
    <3> QED
      BY <3>1, <3>2, <2>5
  <2> QED
    BY <2>6, <2>8, <2>9, <2>10
<1>3. UnderPointer = SimPcs
  <2>1. UnderPointer \subseteq SimPcs
    BY <1>1 DEF UnderPointer
  <2>2. ASSUME NEW pc \in SimPcs PROVE pc \in UnderPointer
    <3> DEFINE p == <<CellArea(pc).x, CellArea(pc).y>>
    <3>1. p \in Pixels0 /\ CellUnder(p[1], p[2]) = pc
      BY <1>2
    <3> QED
      BY <3>1 DEF UnderPointer
  <2> QED
    BY <2>1, <2>2
<1> QED
  BY <1>2, <1>3 DEF PressedAsDrawn

\* The windows lie in the main one, and apart.
LEMMA WindowsLie == WindowsApart
<1> DEFINE dbw == DbCols * FontW
           dbh == Rows * FontH
           wide == SimCols * 5
           tall == SimRows * 5
           six == 6 * ButtonH
<1>1. /\ wide \in Nat /\ tall \in Nat /\ dbw \in Nat /\ dbh \in Nat /\ six \in Nat /\ ButtonW \in Nat
      /\ 2 * dbw <= wide /\ six <= tall + dbh
  BY ZeusAssumption, FontAssumption, Times
<1>2. /\ MainWin = Win(0, 0, wide + ButtonW, tall + dbh)
      /\ zeusinitx11win = [sim |-> Win(0, 0, wide, tall), button |-> Win(wide, 0, ButtonW, six),
                           db1 |-> Win(0, tall, dbw, dbh), db2 |-> Win(dbw, tall, dbw, dbh)]
  BY Columns DEF MainWin, zeusinitx11win
<1>3. Pixbuf = Win(0, 0, wide + ButtonW, tall + dbh)
  BY <1>2 DEF Pixbuf, Win
<1> HIDE DEF dbw, dbh, wide, tall, six
<1>4. DOMAIN zeusinitx11win = {"sim", "button", "db1", "db2"}
  BY <1>2
<1>5. /\ zeusinitx11win["sim"] = Win(0, 0, wide, tall) /\ zeusinitx11win["button"] = Win(wide, 0, ButtonW, six)
      /\ zeusinitx11win["db1"] = Win(0, tall, dbw, dbh) /\ zeusinitx11win["db2"] = Win(dbw, tall, dbw, dbh)
  BY <1>2
<1>6. \A v \in DOMAIN zeusinitx11win : LiesIn(zeusinitx11win[v], MainWin)
  BY <1>1, <1>2, <1>4, <1>5 DEF LiesIn, Win
<1>7. \A v, w \in DOMAIN zeusinitx11win : v = w \/ Apart0(zeusinitx11win[v], zeusinitx11win[w])
  BY <1>1, <1>4, <1>5 DEF Apart0, Win
<1>8. LiesIn(zeusinitx11win.sim, Pixbuf)
  BY <1>1, <1>3, <1>5 DEF LiesIn, Win
<1> QED
  BY <1>6, <1>7, <1>8 DEF WindowsApart

\* Colours tell what a cell holds.
LEMMA ColoursApart == ColoursTell
<1> SUFFICES ASSUME NEW a \in CellKinds, NEW b \in CellKinds, NEW s \in BOOLEAN, NEW t \in BOOLEAN,
                    CellInk(a, s) = CellInk(b, t)
             PROVE  s = t /\ (s \/ a = b)
  BY DEF ColoursTell
<1>1. /\ a \in [data : BOOLEAN, zero : BOOLEAN, pid : {0, 1}] /\ b \in [data : BOOLEAN, zero : BOOLEAN, pid : {0, 1}]
      /\ a.zero => a.data /\ a.pid = 0
      /\ b.zero => b.data /\ b.pid = 0
  BY DEF CellKinds
<1>2. ASSUME NEW op \in CellKinds
      PROVE  CellInk(op, TRUE) = "white" /\ CellInk(op, FALSE) # "white"
  <2>1. CellInk(op, TRUE) = "white"
    BY DEF CellInk, Inks
  <2>2. CellInk(op, FALSE) \in {"blue", "gold", "darkgreen", "orange", "green"}
    BY DEF CellInk, Inks
  <2> QED
    BY <2>1, <2>2
<1>3. s = t
  <2>1. ASSUME s, ~t PROVE FALSE
    BY <1>2, <2>1
  <2>2. ASSUME ~s, t PROVE FALSE
    BY <1>2, <2>2
  <2> QED
    BY <2>1, <2>2
<1>4. ASSUME ~s, ~t
      PROVE  a.data = b.data /\ a.zero = b.zero /\ a.pid = b.pid
  BY <1>1, <1>4 DEF CellInk, Inks
<1>5. ASSUME ~s, ~t
      PROVE  a = b
  BY <1>1, <1>4, <1>5
<1> QED
  BY <1>3, <1>5

\* Only presses list cells.
LEMMA ListedOnly ==
    ASSUME ZeusNext
    PROVE  UNCHANGED <<listing, pointed>> \/ \E pc \in SimPcs : zeusprintdb(pc)
<1>1. ClickRun \/ ClickStop \/ ClickStep \/ Release \/ Damage \/ ExposeSim \/ Won
       => UNCHANGED <<listing, pointed>>
  BY DEF ClickRun, ClickStop, ClickStep, Release, Damage, ExposeSim, Won, screen
<1>2. \A b \in Buttons : Cross(b) \/ ExposeButton(b) => UNCHANGED <<listing, pointed>>
  BY DEF Cross, ExposeButton, screen
<1>3. \A pc \in SimPcs : Press(pc) \/ Toggle(pc) \/ AddSel(pc) => zeusprintdb(pc)
  BY DEF Press, Toggle, AddSel
<1>4. \A changed \in SUBSET SimPcs : RunTurn(changed) \/ StepTurn(changed) => UNCHANGED <<listing, pointed>>
  BY DEF RunTurn, StepTurn, screen
<1> QED BY <1>1, <1>2, <1>3, <1>4, PointerInCore DEF ZeusNext, ZeusEvent, PressedAsDrawn

\* Every step leaves a legible listing.
LEMMA ListingStep ==
    ASSUME ZeusTypeOK, ListingLegible, ZeusNext
    PROVE  /\ ListingLegible'
           /\ \A w \in 1 .. 2 : listing'[w] \subseteq (0 .. Rows - 1) \X SimPcs
           /\ pointed' \in SimPcs \cup {-1}
<1>1. \A w \in 1 .. 2 : listing[w] \subseteq (0 .. Rows - 1) \X SimPcs
  BY DEF ZeusTypeOK
<1>2. CASE UNCHANGED <<listing, pointed>>
  BY <1>1, <1>2 DEF ListingLegible, ZeusTypeOK
<1>3. CASE \E pc \in SimPcs : zeusprintdb(pc)
  BY <1>1, <1>3, Listed
<1> QED BY <1>2, <1>3, ListedOnly

\* Every step leaves STOP as it should look.
LEMMA LooksStep ==
    ASSUME ZeusTypeOK, StopLooksPressed, ZeusNext
    PROVE  /\ StopLooksPressed'
           /\ look' \in [Buttons -> {"none", "norm", "hover", "click"}]
           /\ pressed' \in Buttons \cup {"none"}
<1> DEFINE Good == /\ StopLooksPressed'
                   /\ look' \in [Buttons -> {"none", "norm", "hover", "click"}]
                   /\ pressed' \in Buttons \cup {"none"}
<1>0. /\ look \in [Buttons -> {"none", "norm", "hover", "click"}] /\ pressed \in Buttons \cup {"none"}
      /\ look["STOP"] = "click" => pressed = "STOP"
      /\ Buttons = {"RUN", "STOP", "STEP"}
  BY DEF ZeusTypeOK, StopLooksPressed, Buttons
<1>1. ASSUME UNCHANGED <<look, pressed>> PROVE Good
  BY <1>0, <1>1 DEF StopLooksPressed
<1>2. ClickRun => Good
  BY <1>0 DEF ClickRun, StopLooksPressed
<1>3. ClickStop => Good
  BY <1>0 DEF ClickStop, Clicked, StopLooksPressed
<1>4. ClickStep => Good
  BY <1>0 DEF ClickStep, Clicked, StopLooksPressed
<1>5. Release => Good
  BY <1>0 DEF Release, StopLooksPressed
<1>6. \A b \in Buttons : Cross(b) => Good
  BY <1>0 DEF Cross, StopLooksPressed
<1>7. \A b \in Buttons : ExposeButton(b) => Good
  BY <1>0 DEF ExposeButton, StopLooksPressed
<1>8. Damage \/ ExposeSim \/ Won => Good
  BY <1>1 DEF Damage, ExposeSim, Won
<1>9. \A pc \in SimPcs : Press(pc) \/ Toggle(pc) \/ AddSel(pc) => Good
  BY <1>1 DEF Press, Toggle, AddSel
<1>10. \A changed \in SUBSET SimPcs : RunTurn(changed) => Good
  BY <1>0 DEF RunTurn, Clicked, StopLooksPressed
<1>11. \A changed \in SUBSET SimPcs : StepTurn(changed) => Good
  BY <1>0 DEF StepTurn, Clicked, StopLooksPressed
<1> HIDE DEF Good
<1>12. Good
  BY <1>2, <1>3, <1>4, <1>5, <1>6, <1>7, <1>8, <1>9, <1>10, <1>11, PointerInCore
      DEF ZeusNext, ZeusEvent, PressedAsDrawn
<1> QED BY <1>12 DEF Good

\* The types of what the handlers use.
CallTypes == calls \in Seq(FrameSet) /\ playing \in BOOLEAN /\ mover \in {0, 1} /\ turns \in [1 .. 2 -> Int]

\* The innermost handler and those around it.
LEMMA Innermost0 ==
    ASSUME CallTypes, calls # <<>>
    PROVE  /\ Innermost \in FrameSet /\ Outer \in Seq(FrameSet)
           /\ Stepping(calls) = Stepping(Outer) + (IF Innermost.fn = "STEP" THEN 1 ELSE 0)
           /\ Innermost.pid \in {0, 1} /\ Innermost.fn \in {"RUN", "STEP"}
           /\ Stepping(calls) \in Nat /\ Stepping(Outer) \in Nat
<1>1. /\ Innermost \in FrameSet /\ Outer \in Seq(FrameSet)
      /\ Stepping(calls) = Stepping(Outer) + (IF Innermost.fn = "STEP" THEN 1 ELSE 0)
  BY Returned DEF CallTypes, Innermost, Outer
<1>2. Stepping(calls) \in Nat /\ Stepping(Outer) \in Nat
  BY <1>1, NoSteps DEF CallTypes
<1>3. Innermost.pid \in {0, 1} /\ Innermost.fn \in {"RUN", "STEP"}
  BY <1>1 DEF FrameSet
<1> QED BY <1>1, <1>2, <1>3

\* A handler that starts or goes on with another program.
LEMMA Entering ==
    ASSUME NEW s \in Seq(FrameSet), NEW fn \in {"RUN", "STEP"}, NEW pid \in {0, 1},
           calls' = Append(s, [fn |-> fn, pid |-> pid])
    PROVE  /\ calls' \in Seq(FrameSet) /\ calls' # <<>> /\ Innermost'.fn = fn
           /\ Stepping(calls)' = Stepping(s) + (IF fn = "STEP" THEN 1 ELSE 0)
<1> DEFINE f == [fn |-> fn, pid |-> pid]
<1>1. f \in FrameSet /\ f.fn = fn
  BY DEF FrameSet
<1> HIDE DEF f
<1>2. /\ Append(s, f) \in Seq(FrameSet) /\ Append(s, f) # <<>>
      /\ Append(s, f)[Len(Append(s, f))] = f
      /\ Stepping(Append(s, f)) = Stepping(s) + (IF f.fn = "STEP" THEN 1 ELSE 0)
  BY <1>1, Deeper
<1>3. calls' = Append(s, f)
  BY DEF f
<1>4. Innermost' = f
  BY <1>2, <1>3 DEF Innermost
<1>5. Stepping(calls)' = Stepping(Append(s, f))
  BY <1>3 DEF Stepping
<1> QED BY <1>1, <1>2, <1>3, <1>4, <1>5

\* The turns of a program.
LEMMA Spent ==
    ASSUME CallTypes, NEW p \in {0, 1}
    PROVE  /\ Spend(turns, p) \in [1 .. 2 -> Int]
           /\ Spend(turns, p)[1] + Spend(turns, p)[2] = turns[1] + turns[2] - 1
           /\ turns[1] \in Int /\ turns[2] \in Int
           /\ Spend(turns, p)[1] \in Int /\ Spend(turns, p)[2] \in Int
<1>1. turns \in [1 .. 2 -> Int]
  BY DEF CallTypes
<1>2. CASE p = 0
  BY <1>1, <1>2 DEF Spend
<1>3. CASE p = 1
  BY <1>1, <1>3 DEF Spend
<1> QED BY <1>2, <1>3

\* The calls, the turns and their history: what a step does to them.
Game0 == CallTypes /\ HistoryTypes /\ PlayingRuns /\ TurnsPaid

\* Every step keeps the account of the turns.
LEMMA GameStep ==
    ASSUME Game0, ZeusNext
    PROVE  Game0'
<1>0. CallTypes /\ HistoryTypes /\ PlayingRuns /\ TurnsPaid
  BY DEF Game0
<1>1. ASSUME UNCHANGED <<calls, playing, mover, turns, history>>, ended' # "no" \/ ended' = ended
      PROVE  Game0'
  BY <1>0, <1>1 DEF Game0, CallTypes, HistoryTypes, PlayingRuns, TurnsPaid, Innermost, Stepping
<1>2. ClickRun => Game0'
  <2> SUFFICES ASSUME ClickRun PROVE Game0'
    OBVIOUS
  <2>1. playing' = TRUE /\ UNCHANGED <<mover, turns, history>>
    BY DEF ClickRun
  <2>2. CASE calls' = Append(calls, [fn |-> "RUN", pid |-> mover])
    <3>1. calls' \in Seq(FrameSet) /\ calls' # <<>> /\ Innermost'.fn = "RUN" /\ Stepping(calls)' = Stepping(calls) + 0
      BY <1>0, <2>2, Entering DEF CallTypes
    <3>2. Stepping(calls) \in Nat
      BY <1>0, NoSteps DEF CallTypes
    <3> QED BY <1>0, <2>1, <3>1, <3>2 DEF Game0, CallTypes, HistoryTypes, PlayingRuns, TurnsPaid
  <2>3. CASE ended' = "tie" /\ UNCHANGED calls
    BY <1>0, <2>1, <2>3 DEF Game0, CallTypes, HistoryTypes, PlayingRuns, TurnsPaid, Stepping
  <2> QED BY <2>2, <2>3 DEF ClickRun
<1>3. ClickStop => Game0'
  BY <1>0 DEF ClickStop, game, Game0, CallTypes, HistoryTypes, PlayingRuns, TurnsPaid, Stepping
<1>4. ClickStep => Game0'
  <2> SUFFICES ASSUME ClickStep PROVE Game0'
    OBVIOUS
  <2>1. playing' = FALSE /\ turns' = Spend(turns, mover) /\ mover' = mover
    BY DEF ClickStep
  <2>2. turns' \in [1 .. 2 -> Int] /\ turns'[1] + turns'[2] = turns[1] + turns[2] - 1
        /\ turns[1] \in Int /\ turns[2] \in Int /\ turns'[1] \in Int /\ turns'[2] \in Int
    BY <1>0, <2>1, Spent DEF CallTypes
  <2>3. Stepping(calls) \in Nat /\ SimTurns \in Nat
    BY <1>0, NoSteps, ZeusAssumption DEF CallTypes
  <2>6. history.moves \in Nat /\ history.ties \in Nat /\ history.mover \in {-1, 0, 1} /\ mover \in {0, 1}
    BY <1>0 DEF HistoryTypes, CallTypes
  <2>4. CASE calls' = Append(calls, [fn |-> "STEP", pid |-> mover]) /\ UNCHANGED history
    <3>1. calls' \in Seq(FrameSet) /\ Stepping(calls)' = Stepping(calls) + 1
      BY <1>0, <2>4, Entering DEF CallTypes
    <3>2. CallTypes' /\ HistoryTypes' /\ PlayingRuns'
      BY <1>0, <2>1, <2>2, <2>4, <3>1 DEF CallTypes, HistoryTypes, PlayingRuns
    <3>3. TurnsPaid'
      <4>1. 2 * SimTurns - (turns[1] + turns[2]) = history.moves + history.ties + Stepping(calls)
        BY <1>0 DEF TurnsPaid
      <4>2. Stepping(calls)' \in Nat /\ history'.moves \in Nat /\ history'.ties \in Nat
            /\ history'.moves + history'.ties + Stepping(calls)' = history.moves + history.ties + Stepping(calls) + 1
        <5>1. history' = history
          BY <2>4
        <5> QED BY <2>3, <2>6, <3>1, <5>1
      <4>3. 2 * SimTurns - (turns'[1] + turns'[2]) = history'.moves + history'.ties + Stepping(calls)'
        BY <2>2, <2>3, <2>6, <4>1, <4>2
      <4> QED BY <1>0, <2>1, <2>4, <4>3 DEF TurnsPaid
    <3> QED BY <3>2, <3>3 DEF Game0
  <2>5. CASE history' = [history EXCEPT !.ties = @ + 1] /\ UNCHANGED calls
    <3>1. Stepping(calls)' = Stepping(calls)
      BY <2>5 DEF Stepping
    <3>2. HistoryTypes' /\ history'.moves = history.moves /\ history'.ties = history.ties + 1 /\ history'.mover = history.mover
      BY <1>0, <2>5 DEF HistoryTypes
    <3>3. CallTypes' /\ PlayingRuns'
      BY <1>0, <2>1, <2>2, <2>5 DEF CallTypes, PlayingRuns
    <3>4. TurnsPaid'
      <4>1. 2 * SimTurns - (turns[1] + turns[2]) = history.moves + history.ties + Stepping(calls)
        BY <1>0 DEF TurnsPaid
      <4>2. /\ Stepping(calls)' \in Nat /\ history'.moves \in Nat /\ history'.ties \in Nat
            /\ history'.moves + history'.ties + Stepping(calls)' = history.moves + history.ties + Stepping(calls) + 1
        BY <2>3, <2>6, <3>1, <3>2
      <4>3. 2 * SimTurns - (turns'[1] + turns'[2]) = history'.moves + history'.ties + Stepping(calls)'
        BY <2>2, <2>3, <2>6, <4>1, <4>2
      <4> QED BY <1>0, <2>1, <3>2, <4>3 DEF TurnsPaid
    <3> QED BY <3>2, <3>3, <3>4 DEF Game0
  <2> QED BY <2>4, <2>5 DEF ClickStep
<1>5. Release \/ Damage \/ ExposeSim \/ Won => Game0'
  BY <1>1 DEF Release, Damage, ExposeSim, Won, game, Event
<1>6. \A b \in Buttons : Cross(b) \/ ExposeButton(b) => Game0'
  BY <1>1 DEF Cross, ExposeButton, game, Event
<1>7. \A pc \in SimPcs : Press(pc) \/ Toggle(pc) \/ AddSel(pc) => Game0'
  BY <1>1 DEF Press, Toggle, AddSel, game, Event
<1>8. ASSUME NEW changed \in SUBSET SimPcs, calls # <<>>, Execute(changed), mover' = 1 - Innermost.pid
      PROVE  /\ mover' \in {0, 1} /\ HistoryTypes'
             /\ history'.moves = history.moves + 1 /\ history'.ties = history.ties
             /\ history'.mover >= 0 => mover' = 1 - history'.mover
  <2>1. Innermost.pid \in {0, 1}
    BY <1>0, <1>8, Innermost0
  <2>2. history' = [history EXCEPT !.moves = @ + 1, !.mover = Innermost.pid]
    BY <1>8 DEF Execute
  <2>3. history \in [moves : Nat, ties : Nat, mover : {-1, 0, 1}]
    BY <1>0 DEF HistoryTypes
  <2>4. /\ history'.moves = history.moves + 1 /\ history'.ties = history.ties /\ history'.mover = Innermost.pid
        /\ history' \in [moves : Nat, ties : Nat, mover : {-1, 0, 1}]
    <3> DEFINE pid == Innermost.pid
    <3>1. history' = [history EXCEPT !.moves = @ + 1, !.mover = pid] /\ pid \in {-1, 0, 1}
      BY <2>1, <2>2
    <3> HIDE DEF pid
    <3>2. history' = [moves |-> history.moves + 1, ties |-> history.ties, mover |-> pid]
      BY <2>3, <3>1
    <3>3. history.moves + 1 \in Nat /\ history.ties \in Nat
      BY <2>3
    <3> QED BY <3>1, <3>2, <3>3 DEF pid
  <2> QED BY <1>8, <2>1, <2>4 DEF HistoryTypes
<1>9. \A changed \in SUBSET SimPcs : StepTurn(changed) => Game0'
  <2> SUFFICES ASSUME NEW changed \in SUBSET SimPcs, StepTurn(changed) PROVE Game0'
    OBVIOUS
  <2>1. /\ ended = "no" /\ calls # <<>> /\ Innermost.fn = "STEP" /\ Execute(changed)
        /\ mover' = 1 - Innermost.pid /\ calls' = Outer /\ UNCHANGED <<playing, turns, ended>>
    BY DEF StepTurn
  <2>2. ~playing
    BY <1>0, <2>1 DEF PlayingRuns, CallTypes
  <2>3. /\ calls' \in Seq(FrameSet) /\ Stepping(calls) = Stepping(calls)' + 1 /\ Stepping(calls)' \in Nat
    <3>1. Stepping(calls)' = Stepping(Outer)
      BY <2>1 DEF Stepping
    <3> QED BY <1>0, <2>1, <3>1, Innermost0
  <2>4. turns[1] \in Int /\ turns[2] \in Int
    BY <1>0, Spent DEF CallTypes
  <2> QED BY <1>0, <1>8, <2>1, <2>2, <2>3, <2>4, ZeusAssumption
          DEF Game0, CallTypes, HistoryTypes, PlayingRuns, TurnsPaid
<1>10. \A changed \in SUBSET SimPcs : RunTurn(changed) => Game0'
  <2> SUFFICES ASSUME NEW changed \in SUBSET SimPcs, RunTurn(changed) PROVE Game0'
    OBVIOUS
  <2> DEFINE other == 1 - Innermost.pid
  <2>1. /\ ended = "no" /\ calls # <<>> /\ Innermost.fn = "RUN" /\ Execute(changed)
        /\ mover' = other /\ turns' = Spend(turns, other) /\ UNCHANGED playing
        /\ \/ ended' = "tie" /\ UNCHANGED calls
           \/ playing /\ calls' = Append(Outer, [fn |-> "RUN", pid |-> other])
           \/ ~playing /\ calls' = Outer
    BY DEF RunTurn
  <2>2. other \in {0, 1} /\ Outer \in Seq(FrameSet) /\ Stepping(calls) = Stepping(Outer) + 0 /\ Stepping(calls) \in Nat
        /\ Stepping(Outer) \in Nat
    BY <1>0, <2>1, Innermost0
  <2>3. turns' \in [1 .. 2 -> Int] /\ turns'[1] + turns'[2] = turns[1] + turns[2] - 1
        /\ turns[1] \in Int /\ turns[2] \in Int /\ turns'[1] \in Int /\ turns'[2] \in Int
    BY <1>0, <2>1, <2>2, Spent
  <2>4. /\ mover' \in {0, 1} /\ HistoryTypes'
        /\ history'.moves = history.moves + 1 /\ history'.ties = history.ties
        /\ history'.mover >= 0 => mover' = 1 - history'.mover
    BY <1>8, <2>1
  <2>5. history.moves \in Nat /\ history.ties \in Nat /\ SimTurns \in Nat
    BY <1>0, ZeusAssumption DEF HistoryTypes
  <2>6. calls' \in Seq(FrameSet) /\ Stepping(calls)' = Stepping(calls) /\ PlayingRuns'
    <3>1. CASE ended' = "tie" /\ UNCHANGED calls
      BY <1>0, <3>1 DEF CallTypes, PlayingRuns, Stepping
    <3>2. CASE playing /\ calls' = Append(Outer, [fn |-> "RUN", pid |-> other])
      <4>1. calls' \in Seq(FrameSet) /\ calls' # <<>> /\ Innermost'.fn = "RUN" /\ Stepping(calls)' = Stepping(Outer) + 0
        BY <2>2, <3>2, Entering
      <4> QED BY <2>2, <4>1 DEF PlayingRuns
    <3>3. CASE ~playing /\ calls' = Outer
      <4>1. Stepping(calls)' = Stepping(Outer)
        BY <3>3 DEF Stepping
      <4> QED BY <2>1, <2>2, <3>3, <4>1 DEF PlayingRuns
    <3> QED BY <2>1, <3>1, <3>2, <3>3
  <2>7. CallTypes'
    BY <1>0, <2>1, <2>3, <2>4, <2>6 DEF CallTypes
  <2>8. TurnsPaid'
    <3>1. 2 * SimTurns - (turns[1] + turns[2]) = history.moves + history.ties + Stepping(calls)
      BY <1>0 DEF TurnsPaid
    <3>2. 2 * SimTurns - (turns'[1] + turns'[2]) = history'.moves + history'.ties + Stepping(calls)'
      <4>1. /\ Stepping(calls)' \in Nat /\ history'.moves \in Nat /\ history'.ties \in Nat
            /\ history'.moves + history'.ties + Stepping(calls)' = history.moves + history.ties + Stepping(calls) + 1
        BY <2>2, <2>4, <2>5, <2>6
      <4>2. Stepping(calls) \in Nat
        BY <2>2
      <4> QED BY <2>3, <2>5, <3>1, <4>1, <4>2
    <3> QED BY <3>2, <2>4 DEF TurnsPaid
  <2> QED BY <2>4, <2>6, <2>7, <2>8 DEF Game0
<1> QED BY <1>2, <1>3, <1>4, <1>5, <1>6, <1>7, <1>9, <1>10, PointerInCore
       DEF ZeusNext, ZeusEvent, PressedAsDrawn

\* The types of what is drawn.
DrawTypes ==
    /\ ref \in 0 .. DrawEvery - 1
    /\ stale \subseteq SimPcs /\ marked \subseteq SimPcs /\ lost \subseteq SimPcs
    /\ exposures \in 0 .. 2 /\ sel \subseteq SimPcs /\ last \in Int
    /\ ended \in {"no", "tie", "won", "outside"} /\ events \in 0 .. MaxEvents

\* What an instruction does to the picture: a stopped game is drawn.
LEMMA Executed ==
    ASSUME DrawTypes, PictureTrue, NEW changed \in SUBSET SimPcs, Execute(changed), ended = "no", UNCHANGED screen
    PROVE  /\ ref' \in 0 .. DrawEvery - 1
           /\ stale' \subseteq SimPcs /\ marked' \subseteq SimPcs /\ lost' \subseteq SimPcs
           /\ marked' = sel' /\ last' <= SimCells
           /\ exposures' = 0 => lost' = {}
           /\ ~playing => stale' = {}
<1>1. ref \in 0 .. DrawEvery - 1 /\ DrawEvery \in Nat \ {0}
  BY ZeusAssumption DEF DrawTypes
<1>2. ref' \in 0 .. DrawEvery - 1
  BY <1>1 DEF Execute, Due
<1>3. marked = sel /\ last <= SimCells /\ (exposures = 0 => lost = {})
  BY DEF PictureTrue
<1> QED BY <1>2, <1>3 DEF Execute, Due, DrawTypes, screen

\* The picture and its types.
Picture0 == DrawTypes /\ PictureTrue

\* Every step leaves a true picture.
LEMMA PictureStep ==
    ASSUME Picture0, Game0, ZeusNext
    PROVE  Picture0'
<1>0. DrawTypes /\ PictureTrue /\ CallTypes /\ PlayingRuns
  BY DEF Picture0, Game0
<1>1. ASSUME UNCHANGED <<ref, stale, marked, exposures, lost, sel, last>>, events' \in 0 .. MaxEvents,
             ended' \in {"no", "tie", "won"}, ended = "no", calls' = <<>> => calls = <<>>
      PROVE  Picture0'
  BY <1>0, <1>1 DEF Picture0, DrawTypes, PictureTrue, Idle
<1>2. ASSUME Event PROVE events' \in 0 .. MaxEvents /\ ended = "no"
  BY <1>0, <1>2, ZeusAssumption DEF Event, DrawTypes
<1>3. Append(calls, [fn |-> "RUN", pid |-> mover]) # <<>> /\ Append(calls, [fn |-> "STEP", pid |-> mover]) # <<>>
  <2>1. [fn |-> "RUN", pid |-> mover] \in FrameSet /\ [fn |-> "STEP", pid |-> mover] \in FrameSet
    BY <1>0 DEF FrameSet, CallTypes
  <2> QED BY <1>0, <2>1, AppendProperties DEF CallTypes
<1>4. ClickRun => Picture0'
  BY <1>0, <1>1, <1>2, <1>3 DEF ClickRun, game, picture, screen, DrawTypes
<1>5. ClickStop => Picture0'
  BY <1>0, <1>1, <1>2 DEF ClickStop, game, picture, screen, DrawTypes
<1>6. ClickStep => Picture0'
  BY <1>0, <1>1, <1>2, <1>3 DEF ClickStep, game, picture, screen, DrawTypes
<1>7. Release => Picture0'
  BY <1>0, <1>1 DEF Release, game, picture, screen, DrawTypes
<1>8. \A b \in Buttons : Cross(b) \/ ExposeButton(b) => Picture0'
  BY <1>0, <1>1, <1>2 DEF Cross, ExposeButton, game, picture, screen, DrawTypes
<1>9. \A pc \in SimPcs : Press(pc) => Picture0'
  BY <1>0, <1>1, <1>2 DEF Press, game, picture, screen, DrawTypes
<1>10. \A pc \in SimPcs : Toggle(pc) => Picture0'
  <2> SUFFICES ASSUME NEW pc \in SimPcs, Toggle(pc) PROVE Picture0'
    OBVIOUS
  <2>1. /\ events' \in 0 .. MaxEvents /\ ended = "no" /\ ended' = ended
        /\ UNCHANGED <<calls, ref, exposures>> /\ last' = pc
        /\ sel' = IF pc \in sel THEN sel \ {pc} ELSE sel \cup {pc}
        /\ stale' = stale \ {pc} /\ lost' = lost \ {pc}
        /\ marked' = (marked \ {pc}) \cup ({pc} \cap sel')
    BY <1>2 DEF Toggle, zeusdrawsimop, game
  <2>2. marked = sel /\ sel \subseteq SimPcs
    BY <1>0, <2>1 DEF PictureTrue, DrawTypes
  <2>3. sel' \subseteq SimPcs /\ marked' = sel'
    BY <2>1, <2>2
  <2>4. last' \in Int /\ last' <= SimCells
    BY <2>1, ZeusAssumption DEF SimPcs
  <2> QED BY <1>0, <2>1, <2>3, <2>4 DEF Picture0, DrawTypes, PictureTrue, Idle
<1>11. \A pc \in SimPcs : AddSel(pc) => Picture0'
  <2> SUFFICES ASSUME NEW pc \in SimPcs, AddSel(pc) PROVE Picture0'
    OBVIOUS
  <2> DEFINE from == IF pc < last THEN pc ELSE last + 1
             lim == IF pc < last THEN last + 1 ELSE pc
             cells == from .. lim - 1
  <2>1. /\ events' \in 0 .. MaxEvents /\ ended = "no" /\ last >= 0
        /\ UNCHANGED <<calls, ref, exposures>> /\ last' = IF from < lim THEN lim ELSE from
        /\ IF lim > SimCells THEN ended' = "outside" /\ UNCHANGED <<sel, stale, marked, lost>>
           ELSE /\ sel' = sel \cup cells /\ stale' = stale \ cells /\ lost' = lost \ cells
                /\ marked' = (marked \ cells) \cup (cells \cap sel') /\ ended' = ended
    BY <1>2 DEF AddSel, zeusdrawsimop, game, picture
  <2>2. marked = sel /\ sel \subseteq SimPcs /\ last \in Int /\ last <= SimCells /\ SimCells \in Nat
        /\ pc \in 0 .. SimCells - 1
    BY <1>0, <2>1, ZeusAssumption DEF PictureTrue, DrawTypes, SimPcs
  <2>3. last' \in Int /\ from \in Nat /\ lim \in Int
    BY <2>1, <2>2
  <2>4. CASE lim > SimCells
    BY <1>0, <2>1, <2>3, <2>4 DEF Picture0, DrawTypes, PictureTrue, Idle
  <2>5. CASE ~(lim > SimCells)
    <3>1. cells \subseteq SimPcs
      BY <2>2, <2>3, <2>5 DEF SimPcs
    <3>2. last' <= SimCells
      BY <2>1, <2>2, <2>5
    <3> HIDE DEF cells, from, lim
    <3>3. sel' \subseteq SimPcs /\ marked' = sel'
      BY <2>1, <2>2, <2>5, <3>1
    <3> QED BY <1>0, <2>1, <2>3, <2>5, <3>2, <3>3 DEF Picture0, DrawTypes, PictureTrue, Idle
  <2> QED BY <2>4, <2>5
<1>12. Damage => Picture0'
  BY <1>0, <1>2 DEF Damage, game, Picture0, DrawTypes, PictureTrue, Idle
<1>13. ExposeSim => Picture0'
  BY <1>0 DEF ExposeSim, game, Picture0, DrawTypes, PictureTrue, Idle
<1>14. Won => Picture0'
  BY <1>0 DEF Won, game, screen, Picture0, DrawTypes, PictureTrue, Idle
<1>15. \A changed \in SUBSET SimPcs : StepTurn(changed) => Picture0'
  <2> SUFFICES ASSUME NEW changed \in SUBSET SimPcs, StepTurn(changed) PROVE Picture0'
    OBVIOUS
  <2>1. /\ ended = "no" /\ calls # <<>> /\ Innermost.fn = "STEP" /\ Execute(changed)
        /\ UNCHANGED <<events, ended, screen>>
    BY DEF StepTurn
  <2>2. ~playing
    BY <1>0, <2>1 DEF PlayingRuns
  <2>3. /\ ref' \in 0 .. DrawEvery - 1
        /\ stale' = {} /\ marked' \subseteq SimPcs /\ lost' \subseteq SimPcs
        /\ marked' = sel' /\ last' <= SimCells
        /\ exposures' = 0 => lost' = {}
    BY <1>0, <2>1, <2>2, Executed
  <2> QED BY <1>0, <2>1, <2>3 DEF screen, Picture0, DrawTypes, PictureTrue, Idle
<1>16. \A changed \in SUBSET SimPcs : RunTurn(changed) => Picture0'
  <2> SUFFICES ASSUME NEW changed \in SUBSET SimPcs, RunTurn(changed) PROVE Picture0'
    OBVIOUS
  <2> DEFINE other == 1 - Innermost.pid
  <2>1. /\ ended = "no" /\ calls # <<>> /\ Innermost.fn = "RUN" /\ Execute(changed)
        /\ UNCHANGED <<events, screen>>
        /\ \/ ended' = "tie"
           \/ playing /\ ended' = ended /\ calls' = Append(Outer, [fn |-> "RUN", pid |-> other])
           \/ ~playing /\ ended' = ended
    BY DEF RunTurn
  <2>2. /\ ref' \in 0 .. DrawEvery - 1
        /\ stale' \subseteq SimPcs /\ marked' \subseteq SimPcs /\ lost' \subseteq SimPcs
        /\ marked' = sel' /\ last' <= SimCells
        /\ exposures' = 0 => lost' = {}
        /\ ~playing => stale' = {}
    BY <1>0, <2>1, Executed
  <2>3. Idle' => stale' = {}
    <3>1. CASE playing /\ calls' = Append(Outer, [fn |-> "RUN", pid |-> other])
      <4>1. Outer \in Seq(FrameSet) /\ other \in {0, 1}
        BY <1>0, <2>1, Innermost0
      <4>2. calls' # <<>>
        BY <3>1, <4>1, Entering
      <4> QED BY <4>2 DEF Idle
    <3> QED BY <2>1, <2>2, <3>1 DEF Idle
  <2>4. ended' \in {"no", "tie"}
    BY <2>1
  <2> QED BY <1>0, <2>1, <2>2, <2>3, <2>4 DEF screen, Picture0, DrawTypes, PictureTrue
<1> QED BY <1>4, <1>5, <1>6, <1>7, <1>8, <1>9, <1>10, <1>11, <1>12, <1>13, <1>14, <1>15, <1>16, PointerInCore
        DEF ZeusNext, ZeusEvent, PressedAsDrawn

\* The display starts with the invariant,
LEMMA ZeusStart ==
    ASSUME ZeusInit
    PROVE  ZeusInv
<1>1. Game0
  <2>1. calls = <<>> /\ turns = <<SimTurns, SimTurns>> /\ mover \in {0, 1} /\ playing = FALSE
        /\ history = [moves |-> 0, ties |-> 0, mover |-> -1] /\ SimTurns \in Nat
    BY ZeusAssumption DEF ZeusInit
  <2>2. calls \in Seq(FrameSet) /\ Stepping(calls) = 0
    BY <2>1, NoSteps
  <2>3. turns \in [1 .. 2 -> Int] /\ turns[1] = SimTurns /\ turns[2] = SimTurns
    BY <2>1
  <2>4. PlayingRuns
    BY <2>1 DEF PlayingRuns
  <2>5. playing \in BOOLEAN
    BY <2>1
  <2>6. HistoryTypes
    BY <2>1 DEF HistoryTypes
  <2>7. TurnsPaid
    BY <2>1, <2>2, <2>3 DEF TurnsPaid
  <2> QED BY <2>1, <2>2, <2>3, <2>4, <2>5, <2>6, <2>7 DEF Game0, CallTypes
<1>2. Picture0
  <2>1. ref \in 0 .. DrawEvery - 1 /\ events \in 0 .. MaxEvents
    BY ZeusAssumption DEF ZeusInit
  <2>2. stale = {} /\ marked = {} /\ lost = {} /\ sel = {} /\ exposures = 0 /\ last = -1 /\ ended = "no"
    BY DEF ZeusInit
  <2>3. last <= SimCells
    BY <2>2, ZeusAssumption
  <2> QED BY <2>1, <2>2, <2>3 DEF Picture0, DrawTypes, PictureTrue
<1>3. look = [b \in Buttons |-> "none"] /\ pressed = "none" /\ listing = <<{}, {}>> /\ pointed = -1
  BY DEF ZeusInit
<1>4. look \in [Buttons -> {"none", "norm", "hover", "click"}] /\ StopLooksPressed /\ ListingLegible
      /\ \A w \in 1 .. 2 : listing[w] \subseteq (0 .. Rows - 1) \X SimPcs
  BY <1>3 DEF StopLooksPressed, ListingLegible, Buttons
<1> QED BY <1>1, <1>2, <1>3, <1>4
        DEF ZeusInv, Game0, Picture0, CallTypes, DrawTypes, ZeusTypeOK, FrameSet

\* and keeps it.
LEMMA ZeusAlways == ZeusSpec => []ZeusInv
<1>1. ASSUME ZeusInv, ZeusNext PROVE ZeusInv'
  <2>1. Game0 /\ Picture0 /\ ZeusTypeOK /\ StopLooksPressed /\ ListingLegible
    BY <1>1 DEF ZeusInv, Game0, Picture0, CallTypes, DrawTypes, ZeusTypeOK, FrameSet
  <2>2. Game0' /\ Picture0'
    BY <1>1, <2>1, GameStep, PictureStep
  <2>3. /\ StopLooksPressed'
        /\ look' \in [Buttons -> {"none", "norm", "hover", "click"}]
        /\ pressed' \in Buttons \cup {"none"}
    BY <1>1, <2>1, LooksStep
  <2>4. /\ ListingLegible'
        /\ \A w \in 1 .. 2 : listing'[w] \subseteq (0 .. Rows - 1) \X SimPcs
        /\ pointed' \in SimPcs \cup {-1}
    BY <1>1, <2>1, ListingStep
  <2> QED BY <2>2, <2>3, <2>4
          DEF ZeusInv, Game0, Picture0, CallTypes, DrawTypes, ZeusTypeOK, FrameSet, SimPcs, Buttons
<1>2. ASSUME ZeusInv, UNCHANGED zeusvars PROVE ZeusInv'
  BY <1>2, SMTT(30) DEF zeusvars, ZeusInv, ZeusTypeOK, HistoryTypes, PlayingRuns, PictureTrue, TurnsPaid, Stepping,
              StopLooksPressed, ListingLegible, Idle, Innermost, SimPcs, Buttons
<1> QED BY <1>1, <1>2, ZeusStart, PTL DEF ZeusSpec

\* Whatever is clicked, pressed, crossed and exposed while handlers call handlers,
\* the picture is true, turns are kept, STOP looks pressed only while it is, and
\* the listing is legible; a press is of the cell that is drawn there (zeusprocev,
\* zeusprintdb, zeusdrawsim).
THEOREM DisplayTrue == ZeusSpec => []DisplaySound
<1>1. ASSUME ZeusInv PROVE TurnsKept
  <2>1. CASE Idle
    <3>1. Stepping(calls) = 0
      BY <2>1, NoSteps DEF Idle
    <3>2. TurnsPaid /\ HistoryTypes
      BY <1>1 DEF ZeusInv
    <3>3. history.moves \in Nat /\ history.ties \in Nat
      BY <3>2 DEF HistoryTypes
    <3>4. 2 * SimTurns - (turns[1] + turns[2]) = history.moves + history.ties
      BY <3>1, <3>2, <3>3 DEF TurnsPaid
    <3> QED BY <3>2, <3>4 DEF TurnsKept, TurnsPaid
  <2> QED BY <2>1 DEF TurnsKept
<1>2. ZeusInv => DisplaySound
  BY <1>1, PointerInCore, WindowsLie, ColoursApart DEF ZeusInv, DisplaySound
<1> QED BY <1>2, ZeusAlways, PTL

---------------------------------------------------------------------------
(* The slab allocator: linked buffers, and areas that lie apart.           *)

\* The queue's buffers are of QBufs, each once, and linked.
QueueInv ==
    /\ bufq \in [head : QBufs \cup {NoBuf}, tail : QBufs \cup {NoBuf}, nbuf : 0 .. MaxQueued]
    /\ links \in [QBufs -> [prev : QBufs \cup {NoBuf}, next : QBufs \cup {NoBuf}]]
    /\ inq \in Seq(QBufs) /\ pops \in Nat
    /\ \A i, j \in 1 .. Len(inq) : i # j => inq[i] # inq[j]
    /\ QueueLinked

LinksOf == [QBufs -> [prev : QBufs \cup {NoBuf}, next : QBufs \cup {NoBuf}]]

\* One link of a buffer, if there is one, is set, and the others stay.
LEMMA Linked ==
    ASSUME NEW l \in LinksOf, NEW p \in QBufs \cup {NoBuf}, NEW c \in QBufs \cup {NoBuf}
    PROVE  /\ SetPrev(l, p, c) \in LinksOf /\ SetNext(l, p, c) \in LinksOf
           /\ \A x \in QBufs : /\ SetPrev(l, p, c)[x].prev = (IF x = p THEN c ELSE l[x].prev)
                               /\ SetPrev(l, p, c)[x].next = l[x].next
           /\ \A x \in QBufs : /\ SetNext(l, p, c)[x].next = (IF x = p THEN c ELSE l[x].next)
                               /\ SetNext(l, p, c)[x].prev = l[x].prev
<1> USE DEF LinksOf
<1>1. CASE p = NoBuf
  <2>1. \A x \in QBufs : x # p
    BY <1>1, QBufsAssumption
  <2> QED
    BY <2>1, <1>1 DEF SetPrev, SetNext
<1>2. CASE p \in QBufs /\ p # NoBuf
  <2>1. /\ SetPrev(l, p, c) = [l EXCEPT ![p].prev = c]
        /\ SetNext(l, p, c) = [l EXCEPT ![p].next = c]
    BY <1>2 DEF SetPrev, SetNext
  <2>2. l[p] \in [prev : QBufs \cup {NoBuf}, next : QBufs \cup {NoBuf}]
    BY <1>2
  <2>3. /\ [l[p] EXCEPT !.prev = c] = [prev |-> c, next |-> l[p].next]
        /\ [l[p] EXCEPT !.next = c] = [prev |-> l[p].prev, next |-> c]
    BY <2>2
  <2> QED
    BY <2>1, <2>2, <2>3, <1>2
<1> QED
  BY <1>1, <1>2

\* What is pushed comes before all others.
LEMMA Pushed == ASSUME QueueInv, NEW b \in QBufs, bufq.nbuf < MaxQueued, Push(b) PROVE QueueInv'
<1> DEFINE n == Len(inq)
           s == <<b>> \o inq
           l == [links EXCEPT ![b] = [prev |-> NoBuf, next |-> bufq.head]]
<1>0. /\ n \in Nat /\ inq \in Seq(QBufs) /\ <<b>> \in Seq(QBufs) /\ MaxQueued \in Nat
      /\ \A i \in 1 .. n : inq[i] \in QBufs /\ inq[i] # b
  BY LenProperties, ElementOfSeq, SlabAssumption DEF QueueInv, Push, Queued0
<1>1. /\ s \in Seq(QBufs) /\ Len(s) = n + 1 /\ s[1] = b
      /\ \A i \in 1 .. n + 1 : i # 1 => s[i] = inq[i - 1]
  BY <1>0, ConcatProperties
<1>2. /\ bufq.head \in QBufs \cup {NoBuf} /\ bufq.head = (IF n = 0 THEN NoBuf ELSE inq[1])
      /\ bufq.tail \in QBufs \cup {NoBuf} /\ bufq.tail = (IF n = 0 THEN NoBuf ELSE inq[n])
      /\ bufq.nbuf \in 0 .. MaxQueued /\ bufq.nbuf = n + pops /\ pops \in Nat
      /\ links \in LinksOf
      /\ \A i \in 1 .. n : /\ links[inq[i]].prev = (IF i = 1 THEN NoBuf ELSE inq[i - 1])
                           /\ links[inq[i]].next = (IF i = n THEN NoBuf ELSE inq[i + 1])
  BY DEF QueueInv, QueueLinked, LinksOf
<1>3. /\ inq' = s /\ pops' = pops /\ links' = SetPrev(l, bufq.head, b)
      /\ bufq' = [head |-> b, tail |-> IF bufq.head = NoBuf THEN b ELSE bufq.tail, nbuf |-> bufq.nbuf + 1]
  BY DEF Push, mempushbuf
<1> HIDE DEF s, l, n
<1>4. /\ l \in LinksOf
      /\ \A x \in QBufs : /\ l[x].prev = (IF x = b THEN NoBuf ELSE links[x].prev)
                          /\ l[x].next = (IF x = b THEN bufq.head ELSE links[x].next)
  BY <1>2 DEF l, LinksOf
<1>5. /\ links' \in LinksOf
      /\ \A x \in QBufs : /\ links'[x].prev = (IF x = bufq.head THEN b ELSE l[x].prev)
                          /\ links'[x].next = l[x].next
  <2>1. bufq.head \in QBufs \cup {NoBuf} /\ b \in QBufs \cup {NoBuf} /\ l \in LinksOf
    BY <1>2, <1>4
  <2>2. /\ SetPrev(l, bufq.head, b) \in LinksOf
        /\ \A x \in QBufs : /\ SetPrev(l, bufq.head, b)[x].prev = (IF x = bufq.head THEN b ELSE l[x].prev)
                            /\ SetPrev(l, bufq.head, b)[x].next = l[x].next
    BY <2>1, Linked, ZenonT(40)
  <2> QED
    BY <2>2, <1>3
<1>6. bufq.head # b
  BY <1>2, <1>0, QBufsAssumption
<1>7. bufq' \in [head : QBufs \cup {NoBuf}, tail : QBufs \cup {NoBuf}, nbuf : 0 .. MaxQueued]
  BY <1>2, <1>3, <1>0
<1>8. \A i, j \in 1 .. n + 1 : i # j => s[i] # s[j]
  <2>1. \A i, j \in 1 .. n : i # j => inq[i] # inq[j]
    BY DEF QueueInv, n
  <2> SUFFICES ASSUME NEW i \in 1 .. n + 1, NEW j \in 1 .. n + 1, i # j PROVE s[i] # s[j]
    OBVIOUS
  <2>2. n \in Nat /\ (i # 1 => i - 1 \in 1 .. n) /\ (j # 1 => j - 1 \in 1 .. n)
    BY <1>0
  <2>3. CASE i = 1
    <3>1. s[i] = b /\ s[j] = inq[j - 1] /\ inq[j - 1] # b
      BY <1>0, <1>1, <2>2, <2>3
    <3> QED BY <3>1
  <2>4. CASE j = 1
    <3>1. s[j] = b /\ s[i] = inq[i - 1] /\ inq[i - 1] # b
      BY <1>0, <1>1, <2>2, <2>4
    <3> QED BY <3>1
  <2>5. CASE i # 1 /\ j # 1
    <3>1. s[i] = inq[i - 1] /\ s[j] = inq[j - 1] /\ i - 1 # j - 1
      BY <1>1, <2>5
    <3> QED BY <2>1, <2>2, <2>5, <3>1
  <2> QED BY <2>3, <2>4, <2>5
<1>9. ASSUME NEW i \in 1 .. n + 1
      PROVE /\ links'[s[i]].prev = (IF i = 1 THEN NoBuf ELSE s[i - 1])
            /\ links'[s[i]].next = (IF i = n + 1 THEN NoBuf ELSE s[i + 1])
  <2>1. CASE i = 1
    <3>1. links'[b].prev = NoBuf /\ links'[b].next = bufq.head
      BY <1>4, <1>5, <1>6
    <3>2. bufq.head = (IF n = 0 THEN NoBuf ELSE s[2])
      BY <1>0, <1>1, <1>2
    <3> QED
      BY <3>1, <3>2, <2>1, <1>1, <1>0
  <2>2. CASE i # 1
    <3>0. i - 1 \in 1 .. n /\ s[i] = inq[i - 1] /\ inq[i - 1] \in QBufs /\ inq[i - 1] # b
      BY <2>2, <1>0, <1>1
    <3>1. /\ links[inq[i - 1]].prev = (IF i - 1 = 1 THEN NoBuf ELSE inq[i - 2])
          /\ links[inq[i - 1]].next = (IF i - 1 = n THEN NoBuf ELSE inq[i])
      BY <3>0, <1>2
    <3>2. /\ links'[s[i]].prev = (IF inq[i - 1] = bufq.head THEN b ELSE links[inq[i - 1]].prev)
          /\ links'[s[i]].next = links[inq[i - 1]].next
      BY <3>0, <1>4, <1>5
    <3>3. inq[i - 1] = bufq.head <=> i - 1 = 1
      <4>1. \A k, j \in 1 .. n : k # j => inq[k] # inq[j]
        BY DEF QueueInv, n
      <4> QED
        BY <4>1, <3>0, <1>2, <1>0, SMTT(30)
    <3>4. /\ i # 2 => s[i - 1] = inq[i - 2]
          /\ i # n + 1 => s[i + 1] = inq[i]
          /\ i = 2 => s[i - 1] = b
      <4>1. \A k \in 2 .. n + 1 : s[k] = inq[k - 1]
        BY <1>1
      <4>2. i # 2 => i - 1 \in 2 .. n + 1 /\ (i - 1) - 1 = i - 2
        BY <2>2, <1>0
      <4>3. i # n + 1 => i + 1 \in 2 .. n + 1 /\ (i + 1) - 1 = i
        BY <2>2, <1>0
      <4>4. s[1] = b
        BY <1>1
      <4> QED
        BY <4>1, <4>2, <4>3, <4>4
    <3>5. links'[s[i]].next = (IF i = n + 1 THEN NoBuf ELSE s[i + 1])
      BY <3>1, <3>2, <3>4, <1>0
    <3>6. links'[s[i]].prev = s[i - 1]
      BY <3>1, <3>2, <3>3, <3>4
    <3> QED
      BY <3>5, <3>6, <2>2
  <2> QED
    BY <2>1, <2>2
<1>10. bufq'.head = s[1] /\ bufq'.tail = s[n + 1] /\ bufq'.nbuf = n + 1 + pops'
  <2>1. bufq.head = NoBuf <=> n = 0
    BY <1>0, <1>2, QBufsAssumption
  <2> QED
    BY <2>1, <1>0, <1>1, <1>2, <1>3
<1>11. QueueLinked'
  <2>1. Len(inq') = n + 1 /\ n + 1 # 0
    BY <1>0, <1>1, <1>3
  <2> QED
    BY <2>1, <1>9, <1>10, <1>3 DEF QueueLinked
<1> QED
  BY <1>1, <1>2, <1>3, <1>5, <1>7, <1>8, <1>11 DEF QueueInv, LinksOf

\* What is queued comes after all others.
LEMMA Enqueued == ASSUME QueueInv, NEW b \in QBufs, bufq.nbuf < MaxQueued, Enqueue(b) PROVE QueueInv'
<1> DEFINE n == Len(inq)
           s == Append(inq, b)
           l == [links EXCEPT ![b] = [prev |-> bufq.tail, next |-> NoBuf]]
<1>0. /\ n \in Nat /\ inq \in Seq(QBufs) /\ MaxQueued \in Nat
      /\ \A i \in 1 .. n : inq[i] \in QBufs /\ inq[i] # b
  BY LenProperties, ElementOfSeq, SlabAssumption DEF QueueInv, Enqueue, Queued0
<1>1. /\ s \in Seq(QBufs) /\ Len(s) = n + 1 /\ s[n + 1] = b
      /\ \A i \in 1 .. n : s[i] = inq[i]
  BY <1>0, AppendProperties
<1>2. /\ bufq.head \in QBufs \cup {NoBuf} /\ bufq.head = (IF n = 0 THEN NoBuf ELSE inq[1])
      /\ bufq.tail \in QBufs \cup {NoBuf} /\ bufq.tail = (IF n = 0 THEN NoBuf ELSE inq[n])
      /\ bufq.nbuf \in 0 .. MaxQueued /\ bufq.nbuf = n + pops /\ pops \in Nat
      /\ links \in LinksOf
      /\ \A i \in 1 .. n : /\ links[inq[i]].prev = (IF i = 1 THEN NoBuf ELSE inq[i - 1])
                           /\ links[inq[i]].next = (IF i = n THEN NoBuf ELSE inq[i + 1])
  BY DEF QueueInv, QueueLinked, LinksOf
<1>3. /\ inq' = s /\ pops' = pops /\ links' = SetNext(l, bufq.tail, b)
      /\ bufq' = [head |-> IF bufq.tail = NoBuf THEN b ELSE bufq.head, tail |-> b, nbuf |-> bufq.nbuf + 1]
  BY DEF Enqueue, memqueuebuf
<1> HIDE DEF s, l, n
<1>4. /\ l \in LinksOf
      /\ \A x \in QBufs : /\ l[x].prev = (IF x = b THEN bufq.tail ELSE links[x].prev)
                          /\ l[x].next = (IF x = b THEN NoBuf ELSE links[x].next)
  BY <1>2 DEF l, LinksOf
<1>5. /\ links' \in LinksOf
      /\ \A x \in QBufs : /\ links'[x].next = (IF x = bufq.tail THEN b ELSE l[x].next)
                          /\ links'[x].prev = l[x].prev
  <2>1. bufq.tail \in QBufs \cup {NoBuf} /\ b \in QBufs \cup {NoBuf} /\ l \in LinksOf
    BY <1>2, <1>4
  <2>2. /\ SetNext(l, bufq.tail, b) \in LinksOf
        /\ \A x \in QBufs : /\ SetNext(l, bufq.tail, b)[x].next = (IF x = bufq.tail THEN b ELSE l[x].next)
                            /\ SetNext(l, bufq.tail, b)[x].prev = l[x].prev
    BY <2>1, Linked, ZenonT(40)
  <2> QED
    BY <2>2, <1>3
<1>6. bufq.tail # b
  BY <1>2, <1>0, QBufsAssumption
<1>7. bufq' \in [head : QBufs \cup {NoBuf}, tail : QBufs \cup {NoBuf}, nbuf : 0 .. MaxQueued]
  BY <1>2, <1>3, <1>0
<1>80. \A i, j \in 1 .. n : i # j => inq[i] # inq[j]
  BY DEF QueueInv, n
<1>8. \A i, j \in 1 .. n + 1 : i # j => s[i] # s[j]
  BY <1>80, <1>0, <1>1
<1>9. ASSUME NEW i \in 1 .. n + 1
      PROVE /\ links'[s[i]].prev = (IF i = 1 THEN NoBuf ELSE s[i - 1])
            /\ links'[s[i]].next = (IF i = n + 1 THEN NoBuf ELSE s[i + 1])
  <2>1. CASE i = n + 1
    <3>1. links'[b].prev = bufq.tail /\ links'[b].next = NoBuf
      BY <1>4, <1>5, <1>6
    <3>2. bufq.tail = (IF n = 0 THEN NoBuf ELSE s[n])
      BY <1>0, <1>1, <1>2
    <3> QED
      BY <3>1, <3>2, <2>1, <1>1, <1>0
  <2>2. CASE i # n + 1
    <3>0. i \in 1 .. n /\ s[i] = inq[i] /\ inq[i] \in QBufs /\ inq[i] # b
      BY <2>2, <1>0, <1>1
    <3>1. /\ links[inq[i]].prev = (IF i = 1 THEN NoBuf ELSE inq[i - 1])
          /\ links[inq[i]].next = (IF i = n THEN NoBuf ELSE inq[i + 1])
      BY <3>0, <1>2
    <3>2. /\ links'[s[i]].next = (IF inq[i] = bufq.tail THEN b ELSE links[inq[i]].next)
          /\ links'[s[i]].prev = links[inq[i]].prev
      BY <3>0, <1>4, <1>5
    <3>3. inq[i] = bufq.tail <=> i = n
      BY <1>80, <3>0, <1>2, <1>0
    <3>4. /\ i # 1 => s[i - 1] = inq[i - 1]
          /\ i # n => s[i + 1] = inq[i + 1]
          /\ i = n => s[i + 1] = b
      BY <1>1, <3>0, <1>0
    <3>5. links'[s[i]].next = s[i + 1]
      BY <3>1, <3>2, <3>3, <3>4
    <3>6. links'[s[i]].prev = (IF i = 1 THEN NoBuf ELSE s[i - 1])
      BY <3>1, <3>2, <3>4
    <3> QED
      BY <3>5, <3>6, <2>2
  <2> QED
    BY <2>1, <2>2
<1>10. bufq'.head = s[1] /\ bufq'.tail = s[n + 1] /\ bufq'.nbuf = n + 1 + pops'
  <2>1. bufq.tail = NoBuf <=> n = 0
    BY <1>0, <1>2, QBufsAssumption, SMTT(30)
  <2> QED
    BY <2>1, <1>0, <1>1, <1>2, <1>3
<1>11. QueueLinked'
  <2>1. Len(inq') = n + 1 /\ n + 1 # 0
    BY <1>0, <1>1, <1>3
  <2> QED
    BY <2>1, <1>9, <1>10, <1>3 DEF QueueLinked
<1> QED
  BY <1>1, <1>2, <1>3, <1>5, <1>7, <1>8, <1>11 DEF QueueInv, LinksOf

\* The first buffer leaves, the count stays.
LEMMA Popped == ASSUME QueueInv, NEW b \in QBufs, Pop(b) PROVE QueueInv'
<1> DEFINE n == Len(inq)
           s == Tail(inq)
<1>0. /\ n \in Nat /\ n >= 1 /\ inq \in Seq(QBufs) /\ MaxQueued \in Nat
      /\ \A i \in 1 .. n : inq[i] \in QBufs
  BY LenProperties, ElementOfSeq, SlabAssumption, EmptySeq DEF QueueInv, Pop
<1>1. /\ s \in Seq(QBufs) /\ Len(s) = n - 1
      /\ \A i \in 1 .. n - 1 : s[i] = inq[i + 1]
  <2>1. inq # <<>>
    BY DEF Pop
  <2> QED
    BY <2>1, <1>0, HeadTailProperties
<1>2. /\ bufq.head \in QBufs \cup {NoBuf} /\ bufq.head = inq[1]
      /\ bufq.tail \in QBufs \cup {NoBuf} /\ bufq.tail = inq[n]
      /\ bufq.nbuf \in 0 .. MaxQueued /\ bufq.nbuf = n + pops /\ pops \in Nat
      /\ links \in LinksOf
      /\ \A i \in 1 .. n : /\ links[inq[i]].prev = (IF i = 1 THEN NoBuf ELSE inq[i - 1])
                           /\ links[inq[i]].next = (IF i = n THEN NoBuf ELSE inq[i + 1])
  BY <1>0 DEF QueueInv, QueueLinked, LinksOf
<1> HIDE DEF s, n
<1> DEFINE c == IF n = 1 THEN NoBuf ELSE inq[2]
<1>3. links[b].next = c /\ c \in QBufs \cup {NoBuf}
  <2>1. b = inq[1] /\ 1 \in 1 .. n
    BY <1>2, <1>0 DEF Pop
  <2>2. links[b].next = (IF 1 = n THEN NoBuf ELSE inq[1 + 1])
    BY <2>1, <1>2
  <2>3. n # 1 => 2 \in 1 .. n
    BY <1>0
  <2> QED
    BY <2>2, <2>3, <1>0
<1>4. /\ inq' = s /\ pops' = pops + 1 /\ links' = SetPrev(links, c, NoBuf)
      /\ bufq' = [bufq EXCEPT !.head = c, !.tail = IF c = NoBuf THEN NoBuf ELSE @]
  <2> HIDE DEF c, s
  <2>1. links[b].next = c /\ inq' = s
    BY <1>3 DEF Pop, s
  <2> QED
    BY <2>1 DEF Pop, mempopbuf
<1>40. c = NoBuf <=> n = 1
  <2>1. n # 1 => 2 \in 1 .. n
    BY <1>0
  <2> QED
    BY <2>1, <1>0, QBufsAssumption
<1>5. /\ links' \in LinksOf
      /\ \A x \in QBufs : /\ links'[x].prev = (IF x = c THEN NoBuf ELSE links[x].prev)
                          /\ links'[x].next = links[x].next
  <2> HIDE DEF c
  <2>0. NoBuf \in QBufs \cup {NoBuf} /\ links \in LinksOf /\ c \in QBufs \cup {NoBuf}
    BY <1>2, <1>3
  <2>1. /\ SetPrev(links, c, NoBuf) \in LinksOf
        /\ \A x \in QBufs : /\ SetPrev(links, c, NoBuf)[x].prev = (IF x = c THEN NoBuf ELSE links[x].prev)
                            /\ SetPrev(links, c, NoBuf)[x].next = links[x].next
    BY <2>0, Linked, ZenonT(40)
  <2> QED
    BY <2>1, <1>4
<1>6. /\ bufq' \in [head : QBufs \cup {NoBuf}, tail : QBufs \cup {NoBuf}, nbuf : 0 .. MaxQueued]
      /\ bufq'.head = c /\ bufq'.tail = (IF n = 1 THEN NoBuf ELSE inq[n]) /\ bufq'.nbuf = n + pops
  <2> HIDE DEF c
  <2>1. bufq \in [head : QBufs \cup {NoBuf}, tail : QBufs \cup {NoBuf}, nbuf : 0 .. MaxQueued]
    BY DEF QueueInv
  <2> QED
    BY <2>1, <1>2, <1>3, <1>4, <1>40
<1>80. \A i, j \in 1 .. n : i # j => inq[i] # inq[j]
  BY DEF QueueInv, n
<1>8. \A i, j \in 1 .. n - 1 : i # j => s[i] # s[j]
  <2> TAKE i, j \in 1 .. n - 1
  <2>1. i # j => inq[i + 1] # inq[j + 1]
    BY <1>80, <1>0
  <2> QED
    BY <2>1, <1>1
<1>9. ASSUME NEW i \in 1 .. n - 1
      PROVE /\ links'[s[i]].prev = (IF i = 1 THEN NoBuf ELSE s[i - 1])
            /\ links'[s[i]].next = (IF i = n - 1 THEN NoBuf ELSE s[i + 1])
  <2>0. i + 1 \in 1 .. n /\ s[i] = inq[i + 1] /\ inq[i + 1] \in QBufs
    BY <1>0, <1>1
  <2>1. /\ links[inq[i + 1]].prev = inq[i]
        /\ links[inq[i + 1]].next = (IF i + 1 = n THEN NoBuf ELSE inq[i + 2])
    <3>1. i + 1 # 1 /\ (i + 1) - 1 = i /\ (i + 1) + 1 = i + 2
      OBVIOUS
    <3>2. /\ links[inq[i + 1]].prev = (IF i + 1 = 1 THEN NoBuf ELSE inq[(i + 1) - 1])
          /\ links[inq[i + 1]].next = (IF i + 1 = n THEN NoBuf ELSE inq[(i + 1) + 1])
      BY <2>0, <1>2
    <3> QED
      BY <3>1, <3>2
  <2>2. inq[i + 1] = c <=> i = 1
    BY <1>80, <2>0, <1>0, QBufsAssumption
  <2>3. /\ i # 1 => s[i - 1] = inq[i]
        /\ i # n - 1 => s[i + 1] = inq[i + 2]
    BY <1>1, <1>0
  <2>4. /\ links'[s[i]].prev = (IF inq[i + 1] = c THEN NoBuf ELSE links[inq[i + 1]].prev)
        /\ links'[s[i]].next = links[inq[i + 1]].next
    BY <2>0, <1>5
  <2> HIDE DEF c
  <2>5. links'[s[i]].prev = (IF i = 1 THEN NoBuf ELSE s[i - 1])
    BY <2>1, <2>2, <2>3, <2>4
  <2>6. links'[s[i]].next = (IF i = n - 1 THEN NoBuf ELSE s[i + 1])
    BY <2>1, <2>3, <2>4, <1>0
  <2> QED
    BY <2>5, <2>6
<1>10. /\ bufq'.head = (IF n - 1 = 0 THEN NoBuf ELSE s[1])
       /\ bufq'.tail = (IF n - 1 = 0 THEN NoBuf ELSE s[n - 1])
       /\ bufq'.nbuf = n - 1 + pops'
  <2>1. n # 1 => s[1] = inq[2] /\ s[n - 1] = inq[n]
    BY <1>0, <1>1
  <2>2. bufq'.nbuf = n - 1 + pops'
    BY <1>6, <1>4, <1>0, <1>2
  <2> QED
    BY <2>1, <2>2, <1>6, <1>0
<1>11. QueueLinked'
  <2>1. Len(inq') = n - 1
    BY <1>1, <1>4
  <2> QED
    BY <2>1, <1>9, <1>10, <1>4 DEF QueueLinked
<1> QED
  BY <1>1, <1>2, <1>4, <1>5, <1>6, <1>8, <1>11 DEF QueueInv, LinksOf

\* A buffer leaves from wherever it is, and its neighbours are linked.
LEMMA Dequeued == ASSUME QueueInv, NEW b \in QBufs, Dequeue(b) PROVE QueueInv'
<1> DEFINE n == Len(inq)
<1>0. /\ n \in Nat /\ inq \in Seq(QBufs) /\ MaxQueued \in Nat /\ DOMAIN inq = 1 .. n
      /\ \A k \in 1 .. n : inq[k] \in QBufs
  BY LenProperties, ElementOfSeq, SlabAssumption DEF QueueInv
<1>00. PICK i \in 1 .. n : inq[i] = b /\ memdequebuf(b) /\ inq' = Shortened(inq, i) /\ UNCHANGED pops
  BY <1>0 DEF Dequeue
<1> DEFINE s == Shortened(inq, i)
           p == IF i = 1 THEN NoBuf ELSE inq[i - 1]
           c == IF i = n THEN NoBuf ELSE inq[i + 1]
           l == SetNext(links, p, c)
<1>80. \A k, j \in 1 .. n : k # j => inq[k] # inq[j]
  BY DEF QueueInv
<1>2. /\ bufq \in [head : QBufs \cup {NoBuf}, tail : QBufs \cup {NoBuf}, nbuf : 0 .. MaxQueued]
      /\ bufq.head = (IF n = 0 THEN NoBuf ELSE inq[1]) /\ bufq.tail = (IF n = 0 THEN NoBuf ELSE inq[n])
      /\ bufq.nbuf = n + pops /\ pops \in Nat
      /\ links \in LinksOf
      /\ \A k \in 1 .. n : /\ links[inq[k]].prev = (IF k = 1 THEN NoBuf ELSE inq[k - 1])
                           /\ links[inq[k]].next = (IF k = n THEN NoBuf ELSE inq[k + 1])
  BY DEF QueueInv, QueueLinked, LinksOf
<1> HIDE DEF n
<1>1. /\ s \in [1 .. n - 1 -> QBufs]
      /\ \A j \in 1 .. n - 1 : s[j] = (IF j < i THEN inq[j] ELSE inq[j + 1])
  <2>1. s = [j \in 1 .. n - 1 |-> IF j < i THEN inq[j] ELSE inq[j + 1]]
    BY DEF Shortened, n
  <2> QED
    BY <2>1, <1>0
<1> HIDE DEF s
<1>11. s \in Seq(QBufs) /\ Len(s) = n - 1
  <2>1. n - 1 \in Nat
    BY <1>0
  <2> QED
    BY <2>1, <1>1
<1>3. /\ p \in QBufs \cup {NoBuf} /\ c \in QBufs \cup {NoBuf}
      /\ links[b].prev = p /\ links[b].next = c
  BY <1>0, <1>00, <1>2
<1>40. p = NoBuf <=> i = 1
  BY <1>0, QBufsAssumption
<1>41. c = NoBuf <=> i = n
  BY <1>0, QBufsAssumption
<1>42. \A k \in 1 .. n : (inq[k] = p <=> k = i - 1) /\ (inq[k] = c <=> k = i + 1)
  BY <1>0, <1>80, QBufsAssumption
<1>43. i # 1 => p = inq[i - 1]
  OBVIOUS
<1>44. i # n => c = inq[i + 1]
  OBVIOUS
<1> HIDE DEF p, c
<1>4. /\ inq' = s /\ pops' = pops /\ links' = SetPrev(l, c, p)
      /\ bufq' = [head |-> IF p = NoBuf THEN c ELSE bufq.head,
                  tail |-> IF c = NoBuf THEN p ELSE bufq.tail, nbuf |-> bufq.nbuf - 1]
  BY <1>00, <1>3 DEF memdequebuf, s
<1>45. /\ l \in LinksOf
       /\ \A x \in QBufs : /\ l[x].next = (IF x = p THEN c ELSE links[x].next)
                           /\ l[x].prev = links[x].prev
  <2>1. links \in LinksOf /\ p \in QBufs \cup {NoBuf} /\ c \in QBufs \cup {NoBuf}
    BY <1>2, <1>3
  <2> QED
    BY <2>1, Linked, ZenonT(40)
<1> HIDE DEF l
<1>5. /\ links' \in LinksOf
      /\ \A x \in QBufs : /\ links'[x].prev = (IF x = c THEN p ELSE links[x].prev)
                          /\ links'[x].next = (IF x = p THEN c ELSE links[x].next)
  <2>1. p \in QBufs \cup {NoBuf} /\ c \in QBufs \cup {NoBuf}
    BY <1>3
  <2>2. /\ SetPrev(l, c, p) \in LinksOf
        /\ \A x \in QBufs : /\ SetPrev(l, c, p)[x].prev = (IF x = c THEN p ELSE l[x].prev)
                            /\ SetPrev(l, c, p)[x].next = l[x].next
    BY <2>1, <1>45, Linked, ZenonT(40)
  <2> QED
    BY <2>2, <1>4, <1>45
<1>6. bufq' \in [head : QBufs \cup {NoBuf}, tail : QBufs \cup {NoBuf}, nbuf : 0 .. MaxQueued]
  <2>1. n >= 1
    BY <1>0
  <2> QED
    BY <2>1, <1>0, <1>2, <1>3, <1>4
<1>8. \A k, j \in 1 .. n - 1 : k # j => s[k] # s[j]
  <2> TAKE k, j \in 1 .. n - 1
  <2>1. k \in 1 .. n /\ j \in 1 .. n /\ k + 1 \in 1 .. n /\ j + 1 \in 1 .. n
    BY <1>0
  <2>2. k # j => k + 1 # j + 1
    OBVIOUS
  <2>3. k < i /\ ~(j < i) => k # j + 1
    OBVIOUS
  <2>4. ~(k < i) /\ j < i => k + 1 # j
    OBVIOUS
  <2> QED
    BY <2>1, <2>2, <2>3, <2>4, <1>80, <1>1
<1>9. ASSUME NEW j \in 1 .. n - 1
      PROVE /\ links'[s[j]].prev = (IF j = 1 THEN NoBuf ELSE s[j - 1])
            /\ links'[s[j]].next = (IF j = n - 1 THEN NoBuf ELSE s[j + 1])
  <2>0. /\ j \in 1 .. n /\ j + 1 \in 1 .. n /\ j \in Int /\ i \in Int /\ n \in Int
        /\ inq[j] \in QBufs /\ inq[j + 1] \in QBufs
    BY <1>0
  <2>1. CASE j < i
    <3>1. s[j] = inq[j]
      BY <2>1, <1>1
    <3>2. links[inq[j]].prev = (IF j = 1 THEN NoBuf ELSE inq[j - 1]) /\ links[inq[j]].next = inq[j + 1]
      BY <2>0, <2>1, <1>2
    <3>3. inq[j] # c
      BY <2>0, <2>1, <1>42
    <3>4. j # 1 => s[j - 1] = inq[j - 1]
      BY <2>0, <2>1, <1>1
    <3>5. links'[s[j]].prev = (IF j = 1 THEN NoBuf ELSE s[j - 1])
      BY <3>1, <3>2, <3>3, <3>4, <2>0, <1>5
    <3>6. CASE j = i - 1
      <4>1. links'[s[j]].next = c
        BY <3>1, <3>6, <2>0, <1>5, <1>42
      <4>2. j = n - 1 <=> i = n
        BY <3>6, <2>0
      <4>3. j # n - 1 => s[j + 1] = inq[i + 1]
        BY <3>6, <2>0, <1>1
      <4> QED
        BY <4>1, <4>2, <4>3, <3>5, <1>41, <1>44
    <3>7. CASE j # i - 1
      <4>1. links'[s[j]].next = inq[j + 1]
        BY <3>1, <3>2, <3>7, <2>0, <1>5, <1>42
      <4>2. j # n - 1 /\ s[j + 1] = inq[j + 1]
        BY <3>7, <2>0, <2>1, <1>1
      <4> QED
        BY <4>1, <4>2, <3>5
    <3> QED
      BY <3>6, <3>7
  <2>2. CASE ~(j < i)
    <3>1. s[j] = inq[j + 1]
      BY <2>2, <1>1
    <3>2. links[inq[j + 1]].prev = inq[j]
      <4>1. j + 1 # 1 /\ (j + 1) - 1 = j
        BY <2>0
      <4> QED
        BY <4>1, <2>0, <1>2
    <3>3. links[inq[j + 1]].next = (IF j = n - 1 THEN NoBuf ELSE inq[j + 2])
      <4>1. (j + 1 = n <=> j = n - 1) /\ (j + 1) + 1 = j + 2
        BY <2>0
      <4> QED
        BY <4>1, <2>0, <1>2
    <3>4. inq[j + 1] # p
      BY <2>0, <2>2, <1>42
    <3>5. j # n - 1 => s[j + 1] = inq[j + 2]
      BY <2>0, <2>2, <1>1
    <3>6. links'[s[j]].next = (IF j = n - 1 THEN NoBuf ELSE s[j + 1])
      BY <3>1, <3>3, <3>4, <3>5, <2>0, <1>5
    <3>7. CASE j = i
      <4>1. links'[s[j]].prev = p
        BY <3>1, <3>7, <2>0, <1>5, <1>42
      <4>2. j # 1 => s[j - 1] = inq[i - 1]
        BY <3>7, <2>0, <1>1
      <4> QED
        BY <4>1, <4>2, <3>6, <3>7, <1>40, <1>43
    <3>8. CASE j # i
      <4>1. links'[s[j]].prev = inq[j]
        BY <3>1, <3>2, <3>8, <2>0, <1>5, <1>42
      <4>2. j # 1 /\ s[j - 1] = inq[j]
        <5>1. j # 1 /\ j - 1 \in 1 .. n - 1 /\ ~(j - 1 < i) /\ (j - 1) + 1 = j
          BY <3>8, <2>0, <2>2
        <5> QED
          BY <5>1, <1>1
      <4> QED
        BY <4>1, <4>2, <3>6
    <3> QED
      BY <3>7, <3>8
  <2> QED
    BY <2>1, <2>2
<1>10. /\ bufq'.head = (IF n - 1 = 0 THEN NoBuf ELSE s[1])
       /\ bufq'.tail = (IF n - 1 = 0 THEN NoBuf ELSE s[n - 1])
       /\ bufq'.nbuf = n - 1 + pops'
  <2>0. n \in Nat /\ n >= 1 /\ i \in 1 .. n
    BY <1>0
  <2>1. bufq'.nbuf = n - 1 + pops'
    BY <2>0, <1>2, <1>4
  <2>2. bufq'.head = (IF i = 1 THEN c ELSE inq[1])
    BY <2>0, <1>2, <1>4, <1>40
  <2>3. bufq'.tail = (IF i = n THEN p ELSE inq[n])
    BY <2>0, <1>2, <1>4, <1>41
  <2>4. CASE n = 1
    BY <2>0, <2>1, <2>2, <2>3, <2>4, <1>40, <1>41
  <2>5. CASE n # 1
    <3>1. s[1] = (IF i = 1 THEN inq[2] ELSE inq[1])
      BY <2>0, <2>5, <1>1
    <3>2. s[n - 1] = (IF i = n THEN inq[n - 1] ELSE inq[n])
      BY <2>0, <2>5, <1>1
    <3>3. (i = 1 => c = inq[2]) /\ (i = n => p = inq[n - 1])
      BY <2>0, <2>5, <1>43, <1>44
    <3> QED
      BY <3>1, <3>2, <3>3, <2>0, <2>1, <2>2, <2>3, <2>5
  <2> QED
    BY <2>4, <2>5
<1>12. QueueLinked'
  <2>1. Len(inq') = n - 1
    BY <1>11, <1>4
  <2> QED
    BY <2>1, <1>9, <1>10, <1>4 DEF QueueLinked
<1> QED
  BY <1>11, <1>2, <1>4, <1>5, <1>6, <1>8, <1>12 DEF QueueInv, LinksOf

\* Rounding up.
LEMMA Rounded ==
    ASSUME NEW n \in Nat, NEW u \in Nat \ {0}
    PROVE  /\ RoundUp(n, u) \in Nat /\ n <= RoundUp(n, u) /\ RoundUp(n, u) <= n + u - 1
           /\ RoundUp(n, u) % u = 0 /\ \E k \in Nat : RoundUp(n, u) = u * k
<1> DEFINE e == (n + u - 1) \div u
<1>1. e \in Nat /\ e * u <= n + u - 1 /\ n + u - 1 < e * u + u
  <2>1. n + u - 1 \in Nat
    OBVIOUS
  <2> QED
    BY <2>1, Divided
<1>2. RoundUp(n, u) = e * u
  BY DEF RoundUp
<1> HIDE DEF e
<1>3. e * u \in Nat /\ e * u = u * e
  BY <1>1, Times
<1>4. (u * e) % u = 0
  BY <1>1, Multiple, 0 \in 0 .. u - 1
<1>5. n <= e * u
  BY <1>1, <1>3
<1> QED
  BY <1>1, <1>2, <1>3, <1>4, <1>5

\* A multiple is not rounded.
LEMMA RoundedMultiple ==
    ASSUME NEW k \in Nat, NEW u \in Nat \ {0}
    PROVE  RoundUp(u * k, u) = u * k
<1>1. u - 1 \in 0 .. u - 1 /\ u * k \in Nat /\ u * k = k * u
  BY Times
<1>2. (u * k + (u - 1)) \div u = k
  BY <1>1, Multiple
<1>3. u * k + (u - 1) = u * k + u - 1
  BY <1>1
<1> QED
  BY <1>1, <1>2, <1>3 DEF RoundUp

\* The queues of a thread, one for each class of blocks.
BlkQueues == 0 .. MEM_BLK_QUEUES - 1

\* A page is some lines, at least four.
LEMMA Page ==
    /\ MEM_BLK_QUEUES \in Nat /\ MEM_BLK_QUEUES >= 4 /\ PAGESIZE = CLSIZE * MEM_BLK_QUEUES
    /\ CLSIZE \in Nat \ {0} /\ PAGESIZE \in Nat \ {0} /\ CLSIZE <= PAGESIZE
<1> DEFINE e == PAGESIZE \div CLSIZE
<1>0. /\ CLSIZE \in Nat \ {0} /\ PAGESIZE \in Nat /\ PAGESIZE % CLSIZE = 0 /\ 4 * CLSIZE <= PAGESIZE
  BY SlabAssumption
<1>1. e \in Nat /\ PAGESIZE = CLSIZE * e
  BY <1>0, SMT
<1> HIDE DEF e
<1>2. e >= 4
  <2>1. ASSUME e <= 3 PROVE FALSE
    <3>1. e * CLSIZE <= 3 * CLSIZE /\ e * CLSIZE = CLSIZE * e
      BY <2>1, <1>0, <1>1, Times
    <3> QED
      BY <3>1, <1>0, <1>1
  <2> QED
    BY <2>1, <1>1
<1>3. MEM_BLK_QUEUES = e
  BY DEF MEM_BLK_QUEUES, e
<1> QED
  BY <1>0, <1>1, <1>2, <1>3

\* The blocks of a class, as many as are counted, fit in its slab.
LEMMA Classes ==
    ASSUME NEW q \in BlkQueues
    PROVE  /\ memblksize(q) \in Nat /\ memblkslabsize(q) \in Nat
           /\ memnblk(q) \in Nat /\ memnblk(q) >= 2
           /\ memnblk(q) * memblksize(q) <= memblkslabsize(q)
<1> DEFINE m == IF q <= MEM_BLK_QUEUES \div 4 THEN 1 ELSE IF q <= MEM_BLK_QUEUES \div 2 THEN 4 ELSE 16
           k == m * MEM_BLK_QUEUES
           d == (q + 1) * CLSIZE
           e == memblkslabsize(q) \div d
<1>0. q \in Nat /\ q < MEM_BLK_QUEUES /\ MEM_BLK_QUEUES \in Nat /\ MEM_BLK_QUEUES >= 4 /\ CLSIZE \in Nat \ {0}
  BY Page DEF BlkQueues
<1>1. k \in Nat /\ k >= 2 * (q + 1)
  BY <1>0
<1>2. memblkslabsize(q) = k * CLSIZE
  <2>1. m \in {1, 4, 16} /\ memblkslabsize(q) = m * PAGESIZE
    BY Page DEF memblkslabsize
  <2> HIDE DEF m
  <2>2. m * (CLSIZE * MEM_BLK_QUEUES) = (m * MEM_BLK_QUEUES) * CLSIZE
    BY <2>1, <1>0, SMT
  <2> QED
    BY <2>1, <2>2, Page
<1> HIDE DEF k
<1>3. memblksize(q) = q * CLSIZE /\ q * CLSIZE \in Nat
  BY <1>0, Times DEF memblksize
<1>4. k * CLSIZE \in Nat /\ d \in Nat /\ 2 * d <= k * CLSIZE /\ d = q * CLSIZE + CLSIZE
  <2>1. (2 * (q + 1)) * CLSIZE <= k * CLSIZE
    BY <1>0, <1>1, Times
  <2>2. (2 * (q + 1)) * CLSIZE = 2 * ((q + 1) * CLSIZE)
    BY <1>0, SMT
  <2>3. (q + 1) * CLSIZE = q * CLSIZE + CLSIZE /\ k * CLSIZE \in Nat
    BY <1>0, <1>1, Times
  <2> QED
    BY <2>1, <2>2, <2>3, <1>3, <1>0
<1> HIDE DEF d
<1>5. d \in Nat \ {0}
  BY <1>4, <1>3, <1>0
<1>6. e \in Nat /\ e * d <= k * CLSIZE /\ k * CLSIZE < e * d + d
  BY <1>2, <1>4, <1>5, Divided
<1>7. memnblk(q) = e
  BY <1>0, Times DEF memnblk, d
<1> HIDE DEF e
<1>8. e >= 2
  <2>1. ASSUME e <= 1 PROVE FALSE
    <3>1. e * d <= 1 * d /\ e * d \in Nat
      BY <2>1, <1>5, <1>6, Times
    <3> QED
      BY <3>1, <1>4, <1>5, <1>6
  <2> QED
    BY <2>1, <1>6
<1>9. e * (q * CLSIZE) <= e * d
  <2>1. (q * CLSIZE) * e <= d * e /\ (q * CLSIZE) * e = e * (q * CLSIZE) /\ d * e = e * d
    BY <1>0, <1>3, <1>4, <1>5, <1>6, Times
  <2> QED
    BY <2>1
<1>10. e * (q * CLSIZE) \in Nat /\ e * d \in Nat
  BY <1>3, <1>5, <1>6, Times
<1> QED
  BY <1>2, <1>3, <1>4, <1>6, <1>7, <1>8, <1>9, <1>10

\* The queue's buffer as heads has it, with its class.
HeadOK(q) ==
    /\ heads[q].ofs \in 1 .. memnblk(q) - 1
    /\ \E k \in Nat : heads[q].adr = CLSIZE * k
    /\ heads[q].adr + memblkslabsize(q) <= mapped

HeadsOK == \A q \in BlkQueues : heads[q] # NoSlab => HeadOK(q)

SlabsApart ==
    \A q, r \in BlkQueues : heads[q] # NoSlab /\ heads[r] # NoSlab /\ q # r =>
        \/ heads[q].adr + memblkslabsize(q) <= heads[r].adr
        \/ heads[r].adr + memblkslabsize(r) <= heads[q].adr

\* What is said of an area of one's own below m.
AreaOK(a, m) ==
    /\ a.asked \in Nat /\ a.align \in Nat \ {0} /\ a.from \in Nat /\ a.len \in Nat
    /\ a.base \in Nat /\ a.end \in Nat
    /\ a.from % a.align = 0 /\ a.asked <= a.len
    /\ a.base <= a.from /\ a.from + a.len <= a.end /\ a.end <= m

\* It lies below what the queue's buffer still has to give, or above it.
ClearOf(a, q) ==
    \/ a.from + a.len <= heads[q].adr + heads[q].ofs * memblksize(q)
    \/ heads[q].adr + memblkslabsize(q) <= a.from

Own == {a \in areas : OwnRoom(a)}

AllClear == \A a \in Own, q \in BlkQueues : heads[q] # NoSlab => ClearOf(a, q)

Apart(a, b) == a.from + a.len <= b.from \/ b.from + b.len <= a.from

MemInv ==
    /\ mapped \in Nat
    /\ heads \in [BlkQueues -> [adr : Nat, ofs : Nat]]
    /\ trouble \in {"no", "waits for ever", "writes to NULL", "aborts"}
    /\ HeadsOK /\ SlabsApart /\ AllClear
    /\ \A a \in Own : AreaOK(a, mapped)
    /\ \A a, b \in Own : a # b => Apart(a, b)

\* The next mapping starts at a page above all others.
LEMMA Mapping ==
    ASSUME mapped \in Nat
    PROVE  /\ NewMapping \in Nat /\ mapped <= NewMapping /\ NewMapping > 0
           /\ \E k \in Nat : NewMapping = PAGESIZE * k
           /\ \E k \in Nat : NewMapping = CLSIZE * k
<1>1. PAGESIZE \in Nat \ {0}
  BY Page
<1>2. PICK k \in Nat : RoundUp(mapped, PAGESIZE) = PAGESIZE * k
  BY <1>1, Rounded
<1>3. RoundUp(mapped, PAGESIZE) \in Nat /\ mapped <= RoundUp(mapped, PAGESIZE)
  BY <1>1, Rounded
<1>4. NewMapping = PAGESIZE * (k + 1) /\ k + 1 \in Nat
  <2>1. (k + 1) * PAGESIZE = k * PAGESIZE + PAGESIZE /\ k * PAGESIZE = PAGESIZE * k
        /\ (k + 1) * PAGESIZE = PAGESIZE * (k + 1)
    BY <1>1, Times
  <2> QED
    BY <2>1, <1>2 DEF NewMapping
<1>5. NewMapping \in Nat /\ mapped <= NewMapping /\ NewMapping > 0
  BY <1>1, <1>3 DEF NewMapping
<1>6. NewMapping = CLSIZE * (MEM_BLK_QUEUES * (k + 1)) /\ MEM_BLK_QUEUES * (k + 1) \in Nat
  <2>1. (CLSIZE * MEM_BLK_QUEUES) * (k + 1) = CLSIZE * (MEM_BLK_QUEUES * (k + 1))
    BY Page, <1>4, SMT
  <2>2. MEM_BLK_QUEUES * (k + 1) \in Nat
    BY Page, <1>4, Times
  <2> QED
    BY <2>1, <2>2, <1>4, Page
<1> QED
  BY <1>4, <1>5, <1>6

\* Blocks from the thread's buffer, or the first one of a new buffer, keep the
\* areas apart: the buffer's offset moves past what it gives.
LEMMA FromSlab ==
    ASSUME MemInv, NEW qid \in BlkQueues, NEW want \in Nat, NEW align \in Nat \ {0},
           align <= CLSIZE \/ want > MEM_RUN_MAX => align = CLSIZE /\ want <= memblksize(qid),
           memgetblk(qid, want, align)
    PROVE  MemInv'
<1> DEFINE blk == memblksize(qid)
           whole == memblkslabsize(qid)
           adr == IF heads[qid] = NoSlab THEN NewMapping ELSE heads[qid].adr
           ofs == IF heads[qid] = NoSlab THEN 0 ELSE heads[qid].ofs
           from == RoundUp(adr + ofs * blk, align)
           new == Area(want, align, from, blk, adr, whole)
           first == adr + ofs * blk
<1>1. /\ blk \in Nat /\ whole \in Nat /\ memnblk(qid) \in Nat /\ memnblk(qid) >= 2
      /\ memnblk(qid) * blk <= whole
  BY Classes
<1>2. mapped \in Nat /\ heads \in [BlkQueues -> [adr : Nat, ofs : Nat]] /\ HeadsOK /\ SlabsApart /\ AllClear
  BY DEF MemInv
<1>3. /\ NewMapping \in Nat /\ mapped <= NewMapping /\ NewMapping > 0
      /\ \E k \in Nat : NewMapping = CLSIZE * k
  BY <1>2, Mapping
<1>4. heads[qid] # NoSlab => HeadOK(qid)
  BY <1>2 DEF HeadsOK
<1>5. /\ adr \in Nat /\ ofs \in Nat /\ ofs + 1 <= memnblk(qid)
      /\ \E k \in Nat : adr = CLSIZE * k
  BY <1>1, <1>2, <1>3, <1>4 DEF HeadOK
<1>6. /\ mapped' = IF heads[qid] = NoSlab THEN NewMapping + whole ELSE mapped
      /\ trouble' = trouble
  BY DEF memgetblk
<1>7. mapped' \in Nat /\ mapped <= mapped' /\ adr + whole <= mapped'
  BY <1>1, <1>2, <1>3, <1>4, <1>6 DEF HeadOK
<1>8. areas' = areas \cup {new}
  <2>1. CASE heads[qid] = NoSlab
    BY <2>1 DEF memgetblk
  <2>2. CASE heads[qid] # NoSlab
    BY <2>2 DEF memgetblk
  <2> QED
    BY <2>1, <2>2
<1>9. /\ heads' \in [BlkQueues -> [adr : Nat, ofs : Nat]]
      /\ \A q \in BlkQueues : q # qid => heads'[q] = heads[q]
      /\ heads'[qid] # NoSlab => /\ heads'[qid].adr = adr /\ heads'[qid].ofs = ofs + 1
                                 /\ ofs + 1 \in 1 .. memnblk(qid) - 1
  <2>1. CASE heads[qid] = NoSlab
    <3>1. heads' = [heads EXCEPT ![qid] = [adr |-> NewMapping, ofs |-> 1]]
      <4>1. [[adr |-> NewMapping, ofs |-> 0] EXCEPT !.ofs = @ + 1] = [adr |-> NewMapping, ofs |-> 1]
        OBVIOUS
      <4>2. heads' = [heads EXCEPT ![qid] = [[adr |-> NewMapping, ofs |-> 0] EXCEPT !.ofs = @ + 1]]
        BY <2>1 DEF memgetblk
      <4> QED
        BY <4>1, <4>2
    <3> QED
      BY <3>1, <2>1, <1>1, <1>2, <1>3
  <2>2. CASE heads[qid] # NoSlab /\ heads[qid].ofs + 1 = memnblk(qid)
    <3>1. heads' = [heads EXCEPT ![qid] = NoSlab]
      BY <2>2 DEF memgetblk
    <3>2. NoSlab \in [adr : Nat, ofs : Nat]
      BY DEF NoSlab
    <3> QED
      BY <3>1, <3>2, <1>2
  <2>3. CASE heads[qid] # NoSlab /\ heads[qid].ofs + 1 # memnblk(qid)
    <3>1. heads' = [heads EXCEPT ![qid] = [adr |-> heads[qid].adr, ofs |-> heads[qid].ofs + 1]]
      <4>1. heads[qid] \in [adr : Nat, ofs : Nat]
        BY <1>2
      <4>2. [heads[qid] EXCEPT !.ofs = @ + 1] = [adr |-> heads[qid].adr, ofs |-> heads[qid].ofs + 1]
        BY <4>1
      <4> QED
        BY <4>2, <2>3 DEF memgetblk
    <3>2. heads[qid].adr \in Nat /\ heads[qid].ofs + 1 \in Nat
      BY <1>2
    <3>3. heads'[qid] = [adr |-> heads[qid].adr, ofs |-> heads[qid].ofs + 1]
      BY <3>1, <1>2
    <3>4. heads' \in [BlkQueues -> [adr : Nat, ofs : Nat]] /\ \A q \in BlkQueues : q # qid => heads'[q] = heads[q]
      BY <3>1, <3>2, <1>2
    <3>5. heads'[qid].adr = adr /\ heads'[qid].ofs = ofs + 1
      BY <3>3, <2>3
    <3>6. ofs + 1 # memnblk(qid)
      BY <2>3
    <3> QED
      BY <3>4, <3>5, <3>6, <1>5, <1>1
  <2> QED
    BY <2>1, <2>2, <2>3
<1>10. /\ ofs * blk \in Nat /\ (ofs + 1) * blk = ofs * blk + blk
       /\ (ofs + 1) * blk <= whole /\ first \in Nat
  <2> HIDE DEF blk, ofs
  <2>0. ofs \in Nat /\ ofs + 1 \in Nat /\ ofs + 1 <= memnblk(qid)
    BY <1>5
  <2>1. (ofs + 1) * blk <= memnblk(qid) * blk /\ (ofs + 1) * blk = ofs * blk + blk /\ ofs * blk \in Nat
    BY <1>1, <2>0, Times
  <2>2. memnblk(qid) * blk \in Nat
    BY <1>1, Times
  <2> QED
    BY <2>1, <2>2, <1>1, <1>5
\* Of the other buffers and areas.
<1>11. \A q \in BlkQueues : q # qid /\ heads[q] # NoSlab =>
           \/ heads[q].adr + memblkslabsize(q) <= adr
           \/ adr + whole <= heads[q].adr
  <2> SUFFICES ASSUME NEW q \in BlkQueues, q # qid, heads[q] # NoSlab
               PROVE  \/ heads[q].adr + memblkslabsize(q) <= adr
                      \/ adr + whole <= heads[q].adr
    OBVIOUS
  <2>1. CASE heads[qid] = NoSlab
    <3>1. heads[q].adr + memblkslabsize(q) <= mapped
      BY <1>2 DEF HeadsOK, HeadOK
    <3>2. heads[q].adr \in Nat /\ memblkslabsize(q) \in Nat
      BY <1>2, Classes
    <3>3. adr = NewMapping
      BY <2>1
    <3> QED
      BY <3>1, <3>2, <3>3, <1>2, <1>3
  <2>2. CASE heads[qid] # NoSlab
    BY <2>2, <1>2 DEF SlabsApart
  <2> QED
    BY <2>1, <2>2
<1>12. \A a \in Own : a.from + a.len <= first \/ adr + whole <= a.from
  <2> SUFFICES ASSUME NEW a \in Own PROVE a.from + a.len <= first \/ adr + whole <= a.from
    OBVIOUS
  <2>1. CASE heads[qid] = NoSlab
    <3>1. AreaOK(a, mapped)
      BY DEF MemInv
    <3>2. /\ a.from + a.len <= a.end /\ a.end <= mapped /\ a.from \in Nat /\ a.len \in Nat /\ a.end \in Nat
      BY <3>1 DEF AreaOK
    <3>3. adr = NewMapping /\ adr <= first
      BY <2>1, <1>5, <1>10
    <3> QED
      BY <3>2, <3>3, <1>2, <1>3, <1>10
  <2>2. CASE heads[qid] # NoSlab
    BY <2>2, <1>2 DEF AllClear, ClearOf
  <2> QED
    BY <2>1, <2>2
\* The new area, when it is one of one's own.
<1>13. OwnRoom(new) => /\ align = CLSIZE /\ want <= blk /\ from = first
                       /\ new = [asked |-> want, align |-> align, from |-> from, len |-> blk,
                                 base |-> adr, end |-> adr + whole]
  <2>1. OwnRoom(new) => align <= CLSIZE \/ want > MEM_RUN_MAX
    BY DEF OwnRoom, Area
  <2>2. align <= CLSIZE \/ want > MEM_RUN_MAX => align = CLSIZE /\ want <= blk
    OBVIOUS
  <2>3. align = CLSIZE => from = first
    <3>1. PICK k \in Nat : adr = CLSIZE * k
      BY <1>5
    <3>2. CLSIZE \in Nat \ {0} /\ qid \in Nat
      BY Page DEF BlkQueues
    <3>3. blk = CLSIZE * qid
      BY DEF memblksize
    <3>4. first = CLSIZE * (k + ofs * qid) /\ k + ofs * qid \in Nat
      <4>1. ofs * (CLSIZE * qid) = CLSIZE * (ofs * qid) /\ ofs * qid \in Nat
        BY <1>5, <3>2, SMT
      <4>2. CLSIZE * k + CLSIZE * (ofs * qid) = CLSIZE * (k + ofs * qid)
        BY <4>1, <3>2, SMT
      <4> QED
        BY <4>1, <4>2, <3>1, <3>3
    <3>5. RoundUp(CLSIZE * (k + ofs * qid), CLSIZE) = CLSIZE * (k + ofs * qid)
      BY <3>2, <3>4, RoundedMultiple
    <3> QED
      BY <3>4, <3>5
  <2>4. new = [asked |-> want, align |-> align, from |-> from, len |-> blk, base |-> adr, end |-> adr + whole]
    BY DEF Area
  <2> QED
    BY <2>1, <2>2, <2>3, <2>4
<1> HIDE DEF blk, whole, adr, ofs, from, new, first
<1>14. OwnRoom(new) => /\ new.asked \in Nat /\ new.align \in Nat \ {0} /\ new.from = first /\ new.len = blk
                       /\ new.base \in Nat /\ new.end \in Nat /\ new.base = adr /\ new.end = adr + whole
                       /\ new.asked <= new.len /\ new.align = CLSIZE
  BY <1>13, <1>1, <1>5, <1>10
<1>15. /\ first + blk <= adr + whole /\ adr <= first
  BY <1>1, <1>5, <1>10 DEF first
<1>16. Own' \subseteq Own \cup {a \in {new} : OwnRoom(a)}
  BY <1>8 DEF Own
<1>17. ASSUME NEW a \in Own PROVE AreaOK(a, mapped')
  <2>1. AreaOK(a, mapped)
    BY DEF MemInv
  <2> QED
    BY <2>1, <1>2, <1>7 DEF AreaOK
<1>18. OwnRoom(new) => AreaOK(new, mapped')
  <2>1. ASSUME OwnRoom(new) PROVE AreaOK(new, mapped')
    <3>1. first % CLSIZE = 0
      <4>1. CLSIZE \in Nat \ {0}
        BY Page
      <4>2. from % CLSIZE = 0
        <5>1. RoundUp(first, CLSIZE) % CLSIZE = 0
          BY <1>10, <4>1, Rounded
        <5>2. from = RoundUp(first, align) /\ align = CLSIZE
          BY <2>1, <1>13 DEF from, first
        <5> QED
          BY <5>1, <5>2
      <4> QED
        BY <4>2, <2>1, <1>13
    <3>2. /\ new.asked \in Nat /\ new.align \in Nat \ {0} /\ new.from = first /\ new.len = blk
          /\ new.base \in Nat /\ new.end \in Nat /\ new.base = adr /\ new.end = adr + whole
          /\ new.asked <= new.len /\ new.align = CLSIZE
      BY <2>1, <1>14
    <3> QED
      BY <3>1, <3>2, <1>1, <1>7, <1>10, <1>15 DEF AreaOK
  <2> QED
    BY <2>1
<1>19. \A a \in Own' : AreaOK(a, mapped')
  BY <1>16, <1>17, <1>18
<1>20. ASSUME NEW a \in Own, OwnRoom(new) PROVE Apart(a, new) /\ Apart(new, a)
  <2>1. a.from \in Nat /\ a.len \in Nat
    BY DEF MemInv, AreaOK
  <2>2. a.from + a.len <= first \/ adr + whole <= a.from
    BY <1>12
  <2>3. new.from = first /\ new.len = blk
    BY <1>20, <1>14
  <2> QED
    BY <2>1, <2>2, <2>3, <1>1, <1>5, <1>10, <1>15 DEF Apart
<1>21. \A a, b \in Own' : a # b => Apart(a, b)
  <2>1. \A a, b \in Own : a # b => Apart(a, b)
    BY DEF MemInv
  <2> QED
    BY <2>1, <1>16, <1>20
<1>22. HeadsOK'
  <2> SUFFICES ASSUME NEW q \in BlkQueues, heads'[q] # NoSlab PROVE HeadOK(q)'
    BY DEF HeadsOK
  <2>1. CASE q = qid
    BY <2>1, <1>9, <1>5, <1>7 DEF HeadOK, whole
  <2>2. CASE q # qid
    <3>1. HeadOK(q) /\ heads'[q] = heads[q]
      BY <2>2, <1>2, <1>9 DEF HeadsOK
    <3>2. memblkslabsize(q) \in Nat /\ heads[q].adr \in Nat
      BY <1>2, Classes
    <3> QED
      BY <3>1, <3>2, <1>2, <1>7 DEF HeadOK
  <2> QED
    BY <2>1, <2>2
<1>23. SlabsApart'
  <2> SUFFICES ASSUME NEW q \in BlkQueues, NEW r \in BlkQueues, heads'[q] # NoSlab, heads'[r] # NoSlab, q # r
               PROVE  \/ heads'[q].adr + memblkslabsize(q) <= heads'[r].adr
                      \/ heads'[r].adr + memblkslabsize(r) <= heads'[q].adr
    BY DEF SlabsApart
  <2>1. CASE q = qid
    BY <2>1, <1>9, <1>11 DEF whole
  <2>2. CASE r = qid
    BY <2>2, <1>9, <1>11 DEF whole
  <2>3. CASE q # qid /\ r # qid
    BY <2>3, <1>2, <1>9 DEF SlabsApart
  <2> QED
    BY <2>1, <2>2, <2>3
<1>24. AllClear'
  <2> SUFFICES ASSUME NEW a \in Own', NEW q \in BlkQueues, heads'[q] # NoSlab PROVE ClearOf(a, q)'
    BY DEF AllClear
  <2>1. CASE a \in Own /\ q # qid
    <3>1. ClearOf(a, q) /\ heads'[q] = heads[q]
      BY <2>1, <1>2, <1>9 DEF AllClear
    <3> QED
      BY <3>1 DEF ClearOf
  <2>2. CASE a \in Own /\ q = qid
    <3>1. a.from \in Nat /\ a.len \in Nat
      BY <2>2 DEF MemInv, AreaOK
    <3>2. heads'[q].adr + heads'[q].ofs * memblksize(q) = first + blk
      <4>1. heads'[q].adr = adr /\ heads'[q].ofs = ofs + 1 /\ memblksize(q) = blk
        BY <2>2, <1>9 DEF blk
      <4> QED
        BY <4>1, <1>10, <1>5, <1>1 DEF first
    <3>3. heads'[q].adr + memblkslabsize(q) = adr + whole
      BY <2>2, <1>9 DEF whole
    <3>4. a.from + a.len <= first \/ adr + whole <= a.from
      BY <2>2, <1>12
    <3>5. a.from + a.len <= first + blk \/ adr + whole <= a.from
      BY <3>1, <3>4, <1>1, <1>5, <1>10
    <3> QED
      BY <3>2, <3>3, <3>5 DEF ClearOf
  <2>3. CASE a = new /\ OwnRoom(new) /\ q = qid
    <3>1. heads'[q].adr + heads'[q].ofs * memblksize(q) = first + blk
      <4>1. heads'[q].adr = adr /\ heads'[q].ofs = ofs + 1 /\ memblksize(q) = blk
        BY <2>3, <1>9 DEF blk
      <4> QED
        BY <4>1, <1>10, <1>5, <1>1 DEF first
    <3>2. a.from = first /\ a.len = blk
      BY <2>3, <1>14
    <3> QED
      BY <3>1, <3>2, <1>1, <1>10 DEF ClearOf
  <2>4. CASE a = new /\ OwnRoom(new) /\ q # qid
    <3>1. heads'[q] = heads[q] /\ heads[q] \in [adr : Nat, ofs : Nat]
      BY <2>4, <1>2, <1>9
    <3>2. \/ heads[q].adr + memblkslabsize(q) <= adr
          \/ adr + whole <= heads[q].adr
      BY <2>4, <3>1, <1>11
    <3>3. a.from = first /\ a.len = blk
      BY <2>4, <1>14
    <3>4. heads[q].ofs * memblksize(q) \in Nat /\ memblkslabsize(q) \in Nat
      BY <3>1, Classes, Times
    <3>5. CASE heads[q].adr + memblkslabsize(q) <= adr
      <4>1. heads[q].adr + memblkslabsize(q) <= a.from
        BY <3>1, <3>3, <3>4, <3>5, <1>5, <1>10, <1>15
      <4> QED
        BY <4>1, <3>1 DEF ClearOf
    <3>6. CASE adr + whole <= heads[q].adr
      <4>1. a.from + a.len <= heads[q].adr + heads[q].ofs * memblksize(q)
        BY <3>1, <3>3, <3>4, <3>6, <1>1, <1>5, <1>10, <1>15
      <4> QED
        BY <4>1, <3>1 DEF ClearOf
    <3> QED
      BY <3>2, <3>5, <3>6
  <2> QED
    BY <2>1, <2>2, <2>3, <2>4, <1>16
<1>25. trouble' \in {"no", "waits for ever", "writes to NULL", "aborts"}
  BY <1>6 DEF MemInv
<1> QED
  BY <1>7, <1>9, <1>19, <1>21, <1>22, <1>23, <1>24, <1>25 DEF MemInv

\* A mapping of its own lies above all others.
LEMMA FromSystem ==
    ASSUME MemInv, NEW blksz \in Nat, NEW want \in Nat, NEW align \in Nat \ {0},
           align <= CLSIZE \/ want > MEM_RUN_MAX =>
               want + (RoundUp(NewMapping, align) - NewMapping) <= blksz,
           memgetbig(blksz, want, align)
    PROVE  MemInv'
<1> DEFINE from == RoundUp(NewMapping, align)
           len == blksz - (from - NewMapping)
           new == Area(want, align, from, len, NewMapping, blksz)
<1>1. mapped \in Nat /\ heads \in [BlkQueues -> [adr : Nat, ofs : Nat]] /\ HeadsOK /\ SlabsApart /\ AllClear
  BY DEF MemInv
<1>2. NewMapping \in Nat /\ mapped <= NewMapping
  BY <1>1, Mapping
<1>3. from \in Nat /\ NewMapping <= from /\ from % align = 0
  BY <1>2, Rounded
<1>4. areas' = areas \cup {new} /\ mapped' = NewMapping + blksz /\ heads' = heads /\ trouble' = trouble
  BY DEF memgetbig
<1>5. OwnRoom(new) => want + (from - NewMapping) <= blksz
  BY DEF OwnRoom, Area
<1>6. /\ new.asked = want /\ new.align = align /\ new.from = from /\ new.len = len
      /\ new.base = NewMapping /\ new.end = NewMapping + blksz
  BY DEF Area
<1> HIDE DEF from, new
<1>7. OwnRoom(new) => AreaOK(new, mapped')
  BY <1>2, <1>3, <1>4, <1>5, <1>6 DEF AreaOK
<1>8. mapped' \in Nat /\ mapped <= mapped'
  BY <1>1, <1>2, <1>4
<1>9. Own' \subseteq Own \cup {a \in {new} : OwnRoom(a)}
  BY <1>4 DEF Own
<1>10. ASSUME NEW a \in Own PROVE AreaOK(a, mapped) /\ AreaOK(a, mapped')
  <2>1. AreaOK(a, mapped)
    BY DEF MemInv
  <2> QED
    BY <2>1, <1>1, <1>8 DEF AreaOK
<1>11. \A a \in Own' : AreaOK(a, mapped')
  BY <1>7, <1>9, <1>10
<1>12. ASSUME NEW a \in Own PROVE Apart(a, new) /\ Apart(new, a)
  <2>1. a.from + a.len <= a.end /\ a.end <= mapped /\ a.from \in Nat /\ a.len \in Nat /\ a.end \in Nat
    BY <1>10 DEF AreaOK
  <2>2. a.from + a.len <= new.from
    BY <2>1, <1>1, <1>2, <1>3, <1>6
  <2> QED
    BY <2>2 DEF Apart
<1>13. \A a, b \in Own' : a # b => Apart(a, b)
  <2>1. \A a, b \in Own : a # b => Apart(a, b)
    BY DEF MemInv
  <2> QED
    BY <2>1, <1>9, <1>12
<1>14. HeadsOK'
  <2> SUFFICES ASSUME NEW q \in BlkQueues, heads[q] # NoSlab PROVE HeadOK(q)'
    BY <1>4 DEF HeadsOK
  <2>1. HeadOK(q)
    BY <1>1 DEF HeadsOK
  <2>2. memblkslabsize(q) \in Nat /\ heads[q].adr \in Nat
    BY <1>1, Classes
  <2> QED
    BY <2>1, <2>2, <1>1, <1>4, <1>8 DEF HeadOK
<1>15. SlabsApart'
  BY <1>1, <1>4 DEF SlabsApart
<1>16. AllClear'
  <2> SUFFICES ASSUME NEW a \in Own', NEW q \in BlkQueues, heads[q] # NoSlab PROVE ClearOf(a, q)
    BY <1>4 DEF AllClear, ClearOf
  <2>1. CASE a \in Own
    BY <2>1, <1>1 DEF AllClear
  <2>2. CASE a = new
    <3>1. HeadOK(q)
      BY <1>1 DEF HeadsOK
    <3>2. heads[q].adr + memblkslabsize(q) <= mapped /\ memblkslabsize(q) \in Nat /\ heads[q].adr \in Nat
      BY <3>1, <1>1, Classes DEF HeadOK
    <3>3. heads[q].adr + memblkslabsize(q) <= a.from
      BY <3>2, <2>2, <1>1, <1>2, <1>3, <1>6
    <3> QED
      BY <3>3 DEF ClearOf
  <2> QED
    BY <2>1, <2>2, <1>9
<1>17. trouble' \in {"no", "waits for ever", "writes to NULL", "aborts"}
  BY <1>4 DEF MemInv
<1> QED
  BY <1>1, <1>4, <1>8, <1>11, <1>13, <1>14, <1>15, <1>16, <1>17 DEF MemInv

\* The program's end changes nothing else.
LEMMA AtEnd == ASSUME MemInv, NEW how \in {"waits for ever", "writes to NULL", "aborts"}, Ends(how) PROVE MemInv'
<1> USE DEF Ends
<1>1. mapped' = mapped /\ heads' = heads /\ Own' = Own
  BY DEF Own
<1>2. HeadsOK' /\ SlabsApart' /\ AllClear'
  BY <1>1 DEF MemInv, HeadsOK, HeadOK, SlabsApart, AllClear, ClearOf
<1>3. trouble' \in {"no", "waits for ever", "writes to NULL", "aborts"}
  OBVIOUS
<1> QED
  BY <1>1, <1>2, <1>3 DEF MemInv

\* Nothing changes.
LEMMA NoneGot == ASSUME MemInv, UNCHANGED memvars PROVE MemInv'
BY DEF memvars, MemInv, HeadsOK, HeadOK, SlabsApart, AllClear, ClearOf, Own

\* The size that an alignment makes of another: as large where it is a line or
\* has a mapping of its own, and enough for the first aligned place.
LEMMA Aligned ==
    ASSUME NEW want \in Nat, NEW align \in Nat \ {0}, align >= CLSIZE
    PROVE  /\ memalnsize(want, align) \in Nat
           /\ align = CLSIZE => memalnsize(want, align) = want
           /\ want > MEM_RUN_MAX =>
                 memalnsize(want, align) = IF align <= PAGESIZE THEN want ELSE want - 1 + align
<1>1. /\ CLSIZE \in Nat \ {0} /\ PAGESIZE \in Nat \ {0} /\ CLSIZE <= PAGESIZE
  BY Page
<1>2. MEM_BUF_MAP_BITS \in Nat /\ MEM_BUF_MAP_BITS >= 2
  BY SlabAssumption
<1>3. MEM_RUN_MAX \in Nat /\ MEM_RUN_MAX >= 2 * PAGESIZE
  BY <1>1, <1>2, Times DEF MEM_RUN_MAX
<1>4. CASE align = CLSIZE
  BY <1>4, <1>1 DEF memalnsize
<1>5. CASE align # CLSIZE
  <2>1. ~(align <= CLSIZE)
    BY <1>5, <1>1
  <2>2. want > MEM_RUN_MAX => ~(want - 1 - CLSIZE \in 0 .. MEM_BLK_MAX - 1)
    BY <1>1, <1>3 DEF MEM_BLK_MAX
  <2>3. memalnsize(want, align) \in Nat
    BY <2>1, <1>1 DEF memalnsize, MEM_BLK_MAX
  <2> QED
    BY <2>1, <2>2, <2>3, <1>5 DEF memalnsize
<1> QED
  BY <1>4, <1>5

\* memget keeps the areas apart.
LEMMA Got ==
    ASSUME MemInv, NEW want \in Nat, NEW align0 \in Nat \ {0}, align0 <= PAGESIZE => PAGESIZE % align0 = 0,
           memget(want, align0)
    PROVE  MemInv'
<1> DEFINE align == IF align0 < CLSIZE THEN CLSIZE ELSE align0
           alnsz == memalnsize(want, align)
           lines == RoundUp(alnsz, CLSIZE)
           qid == memblkqid(lines)
           pages == RoundUp(alnsz, PAGESIZE)
<1>1. /\ CLSIZE \in Nat \ {0} /\ PAGESIZE \in Nat \ {0} /\ CLSIZE <= PAGESIZE /\ MEM_BLK_QUEUES \in Nat
      /\ PAGESIZE = CLSIZE * MEM_BLK_QUEUES
  BY Page
<1>2. align \in Nat \ {0} /\ align >= CLSIZE /\ (align <= CLSIZE => align = CLSIZE)
  BY <1>1
<1>20. align <= PAGESIZE => \E k \in Nat : PAGESIZE = align * k
  <2>1. CASE align = CLSIZE
    BY <2>1, <1>1
  <2>2. CASE align = align0
    <3>1. ASSUME align0 <= PAGESIZE PROVE PAGESIZE = align0 * (PAGESIZE \div align0) /\ PAGESIZE \div align0 \in Nat
      BY <3>1, <1>1, SMT
    <3> QED
      BY <3>1, <2>2
  <2> QED
    BY <2>1, <2>2
<1>21. /\ membuftype(alnsz) = "blk" =>
              \/ qid < MEM_BLK_QUEUES /\ memgetblk(qid, want, align)
              \/ memgetblkFails(qid)
       /\ membuftype(alnsz) = "run" => memgetrun(pages \div PAGESIZE)
       /\ membuftype(alnsz) = "big" => memgetbig(pages, want, align) \/ memgetbigFails
  BY DEF memget
<1> HIDE DEF align
<1>3. /\ alnsz \in Nat /\ (align = CLSIZE => alnsz = want)
      /\ want > MEM_RUN_MAX => alnsz = IF align <= PAGESIZE THEN want ELSE want - 1 + align
  BY <1>2, Aligned
<1>30. MEM_RUN_MAX \in Nat /\ MEM_RUN_MAX >= PAGESIZE
  <2>1. MEM_BUF_MAP_BITS \in Nat /\ MEM_BUF_MAP_BITS >= 1
    BY SlabAssumption
  <2> QED
    BY <2>1, <1>1, Times DEF MEM_RUN_MAX
<1>31. want > MEM_RUN_MAX => alnsz > MEM_RUN_MAX
  BY <1>2, <1>3, <1>30
<1> HIDE DEF alnsz
<1>4. lines \in Nat /\ alnsz <= lines /\ \E k \in Nat : lines = CLSIZE * k
  BY <1>1, <1>3, Rounded
<1>5. pages \in Nat /\ alnsz <= pages
  BY <1>1, <1>3, Rounded
<1> HIDE DEF lines, pages
<1>6. qid \in Nat /\ memblksize(qid) = lines
  <2>1. PICK k \in Nat : lines = CLSIZE * k
    BY <1>4
  <2>2. CLSIZE - 1 \in 0 .. CLSIZE - 1
    BY <1>1
  <2>3. (CLSIZE * k + (CLSIZE - 1)) \div CLSIZE = k
    BY <1>1, <2>2, Multiple
  <2>4. CLSIZE * k \in Nat
    BY <1>4, <2>1
  <2>5. CLSIZE * k + (CLSIZE - 1) = lines + CLSIZE - 1
    BY <2>1, <2>4, <1>1
  <2>6. qid = k
    BY <2>3, <2>5 DEF memblkqid
  <2> QED
    BY <2>1, <2>6 DEF memblksize
<1> HIDE DEF qid
<1>7. CASE membuftype(alnsz) = "blk"
  <2>1. alnsz <= PAGESIZE
    BY <1>7 DEF membuftype, MEM_BLK_MAX
  <2>2. ~(want > MEM_RUN_MAX)
    BY <2>1, <1>1, <1>3, <1>30, <1>31
  <2>3. CASE qid < MEM_BLK_QUEUES /\ memgetblk(qid, want, align)
    <3>1. qid \in BlkQueues
      BY <2>3, <1>1, <1>6 DEF BlkQueues
    <3>2. align <= CLSIZE \/ want > MEM_RUN_MAX => align = CLSIZE /\ want <= memblksize(qid)
      BY <2>2, <1>2, <1>3, <1>4, <1>6
    <3> QED
      BY <3>1, <3>2, <2>3, <1>2, FromSlab
  <2>4. CASE memgetblkFails(qid)
    BY <2>4, AtEnd DEF memgetblkFails
  <2> QED
    BY <2>3, <2>4, <1>7, <1>21
<1>8. CASE membuftype(alnsz) = "run"
  <2>1. \E how \in {"waits for ever", "writes to NULL", "aborts"} : Ends(how)
    BY <1>8, <1>21 DEF memgetrun
  <2> QED
    BY <2>1, AtEnd
<1>9. CASE membuftype(alnsz) = "big"
  <2>1. CASE memgetbigFails
    BY <2>1, NoneGot DEF memgetbigFails
  <2>2. CASE memgetbig(pages, want, align)
    <3>0. mapped \in Nat
      BY DEF MemInv
    <3>1. NewMapping \in Nat /\ (\E k \in Nat : NewMapping = PAGESIZE * k) /\ (\E k \in Nat : NewMapping = CLSIZE * k)
      BY <3>0, Mapping
    <3>2. RoundUp(NewMapping, align) \in Nat /\ RoundUp(NewMapping, align) <= NewMapping + align - 1
      BY <3>1, <1>2, Rounded
    <3>3. align <= PAGESIZE => RoundUp(NewMapping, align) = NewMapping
      <4>1. ASSUME align <= PAGESIZE PROVE RoundUp(NewMapping, align) = NewMapping
        <5>1. PICK k \in Nat : PAGESIZE = align * k
          BY <4>1, <1>20
        <5>2. PICK m \in Nat : NewMapping = PAGESIZE * m
          BY <3>1
        <5>3. NewMapping = align * (k * m) /\ k * m \in Nat
          <6>1. (align * k) * m = align * (k * m)
            BY <1>2, SMT
          <6> QED
            BY <6>1, <5>1, <5>2, Times
        <5> QED
          BY <5>3, <1>2, RoundedMultiple
      <4> QED
        BY <4>1
    <3>4. align <= CLSIZE \/ want > MEM_RUN_MAX =>
              want + (RoundUp(NewMapping, align) - NewMapping) <= pages
      <4>1. CASE align <= CLSIZE
        BY <4>1, <3>1, <3>2, <3>3, <1>1, <1>2, <1>3, <1>5
      <4>2. CASE want > MEM_RUN_MAX /\ align <= PAGESIZE
        BY <4>2, <3>1, <3>2, <3>3, <1>1, <1>2, <1>3, <1>5
      <4>3. CASE want > MEM_RUN_MAX /\ ~(align <= PAGESIZE)
        BY <4>3, <3>1, <3>2, <1>1, <1>2, <1>3, <1>5
      <4> QED
        BY <4>1, <4>2, <4>3
    <3> QED
      BY <2>2, <3>4, <1>2, <1>5, FromSystem
  <2> QED
    BY <2>1, <2>2, <1>9, <1>21
<1> QED
  BY <1>7, <1>8, <1>9 DEF membuftype

\* The queue of buffers, the areas, and what each leaves alone.
SlabInv == QueueInv /\ MemInv

\* Every step keeps both.
LEMMA SlabStep == SlabInv /\ [SlabNext]_slabvars => SlabInv'
<1> SUFFICES ASSUME SlabInv, [SlabNext]_slabvars PROVE SlabInv'
  OBVIOUS
<1> USE DEF SlabInv
<1>0. ASSUME UNCHANGED bufvars PROVE QueueInv'
  BY <1>0 DEF QueueInv, QueueLinked, bufvars
<1>1. CASE QueueNext
  <2>1. PICK b \in QBufs : /\ bufq.nbuf < MaxQueued
                           /\ Push(b) \/ Enqueue(b) \/ Pop(b) \/ Dequeue(b)
                           /\ UNCHANGED memvars
    BY <1>1 DEF QueueNext
  <2>2. QueueInv'
    BY <2>1, Pushed, Enqueued, Popped, Dequeued
  <2> QED
    BY <2>1, <2>2, NoneGot
<1>2. CASE MemNext
  <2>1. UNCHANGED bufvars
    BY <1>2 DEF MemNext
  <2>2. \A r \in Requests0 : /\ r[1] \in Nat /\ r[2] \in Nat \ {0}
                             /\ r[2] <= PAGESIZE => PAGESIZE % r[2] = 0
    BY SlabAssumption
  <2>3. CASE \E r \in Requests0 : memget(r[1], r[2])
    BY <2>1, <2>2, <2>3, <1>0, Got
  <2>4. CASE \E r \in Requests0 : memresize(r[1], r[2])
    <3>1. PICK r \in Requests0 : memresize(r[1], r[2])
      BY <2>4
    <3>2. UNCHANGED memvars \/ memget(r[1], r[2])
      BY <3>1 DEF memresize
    <3> QED
      BY <3>2, <2>1, <2>2, <1>0, Got, NoneGot
  <2>5. CASE memput
    BY <2>5, <2>1, <1>0, AtEnd DEF memput
  <2> QED
    BY <2>3, <2>4, <2>5, <1>2 DEF MemNext
<1>3. CASE UNCHANGED slabvars
  BY <1>3, <1>0, NoneGot DEF slabvars
<1> QED
  BY <1>1, <1>2, <1>3 DEF SlabNext

\* It starts so.
LEMMA SlabStart == SlabInit => SlabInv
<1> SUFFICES ASSUME SlabInit PROVE SlabInv
  OBVIOUS
<1>1. MEM_BLK_QUEUES \in Nat /\ MaxQueued \in Nat
  BY Page, SlabAssumption
<1>2. /\ bufq \in [head : QBufs \cup {NoBuf}, tail : QBufs \cup {NoBuf}, nbuf : 0 .. MaxQueued]
      /\ links \in [QBufs -> [prev : QBufs \cup {NoBuf}, next : QBufs \cup {NoBuf}]]
      /\ inq = <<>> /\ pops = 0
  BY <1>1 DEF SlabInit, NoQueue
<1>3. inq \in Seq(QBufs) /\ Len(inq) = 0
  BY <1>2, EmptySeq
<1>4. QueueLinked
  BY <1>2, <1>3 DEF SlabInit, NoQueue, QueueLinked
<1>5. QueueInv
  BY <1>2, <1>3, <1>4 DEF QueueInv
<1>6. heads \in [BlkQueues -> [adr : Nat, ofs : Nat]] /\ \A q \in BlkQueues : heads[q] = NoSlab
  BY DEF SlabInit, BlkQueues, NoSlab
<1>7. areas = {} /\ mapped = 0 /\ trouble = "no" /\ Own = {}
  BY DEF SlabInit, Own
<1>8. MemInv
  BY <1>6, <1>7 DEF MemInv, HeadsOK, SlabsApart, AllClear
<1> QED
  BY <1>5, <1>8 DEF SlabInv

\* Both are always so.
LEMMA SlabAlways == SlabSpec => []SlabInv
<1>1. SlabInit => SlabInv
  BY SlabStart
<1>2. SlabInv /\ [SlabNext]_slabvars => SlabInv'
  BY SlabStep
<1> QED
  BY <1>1, <1>2, PTL DEF SlabSpec

\* For every queue, size of page and line, and whatever is asked for, the links
\* of the buffers are those of a list and the areas given lie apart.
THEOREM BlocksKept == SlabSpec => []BlocksApart
<1>1. SlabInv => BlocksApart
  <2> SUFFICES ASSUME SlabInv PROVE BlocksApart
    OBVIOUS
  <2>1. SlabTypeOK /\ QueueLinked
    BY DEF SlabInv, QueueInv, MemInv, SlabTypeOK
  <2>2. AreasApart
    BY DEF SlabInv, MemInv, Own, AreasApart, AreaOK, Apart
  <2> QED
    BY <2>1, <2>2 DEF BlocksApart
<1> QED
  BY <1>1, SlabAlways, PTL

---------------------------------------------------------------------------
(* The assembler: what is loaded is what was written.                      *)

Marks == {"imm", "indir", "predec"}
FlagSet == Marks \cup {"sign", "rel"}
FieldSet == 0 .. Half - 1
InstrSet == [op : Opcodes, aflg : SUBSET FlagSet, bflg : SUBSET FlagSet, pid : {0, 1},
             a : FieldSet, b : FieldSet]

\* One mark at most.
OneMark(flg) == \A m, k \in Marks : m \in flg /\ k \in flg => m = k

\* An instruction as the assembler makes them: an operand has one mark at most,
\* and where there is one operand it is the second.
Shaped(i) ==
    /\ i \in InstrSet
    /\ OneMark(i.aflg) /\ OneMark(i.bflg) /\ "rel" \notin i.bflg
    /\ g_rcnargtab(i.op) = 1 => i.aflg \subseteq {"rel"} /\ i.a = 0

\* The flags of an operand, and the number in its field.
LEMMA FieldShape ==
    ASSUME RedcodeAssumption, NEW o \in Operands
    PROVE  /\ Field(o) \in FieldSet
           /\ FieldFlags(o) \subseteq Marks \cup {"sign"} /\ OneMark(FieldFlags(o))
<1>1. Half \in Nat /\ Half > 0 /\ CWCORESIZE \in Nat
  BY DEF RedcodeAssumption
<1>2. o.val \in Nat /\ o.neg \in BOOLEAN
  BY DEF Operands
<1>3. Field(o) \in FieldSet
  <2> DEFINE x == IF o.neg THEN CWCORESIZE - o.val ELSE o.val
  <2>1. x \in Int
    BY <1>1, <1>2
  <2> HIDE DEF x
  <2>2. x % Half \in 0 .. Half - 1
    BY <1>1, <2>1
  <2> QED BY <2>2 DEF Field, FieldSet, x
<1>4. FieldFlags(o) \subseteq Marks \cup {"sign"}
  BY DEF FieldFlags, Sigil, Marks
<1>5. OneMark(FieldFlags(o))
  BY DEF FieldFlags, Sigil, Marks, OneMark
<1> QED BY <1>3, <1>4, <1>5

\* What is made of a line has this shape.
LEMMA InstrShape ==
    ASSUME RedcodeAssumption, NEW op \in Opcodes, NEW x \in Operands, NEW y \in Operands
    PROVE  Shaped(Instr(op, x, y)) /\ Instr(op, x, y).pid = 0 /\ Instr(op, x, y).op = op
<1> DEFINE i == Instr(op, x, y)
           two == g_rcnargtab(op) = 2
           rel == y.mode = "none" \/ (two /\ x.mode = "none")
<1>1. i = [op |-> op, pid |-> 0,
           aflg |-> (IF two THEN FieldFlags(x) ELSE {}) \cup (IF rel THEN {"rel"} ELSE {}),
           bflg |-> FieldFlags(y),
           a |-> IF two THEN Field(x) ELSE 0, b |-> Field(y)]
  BY DEF Instr
<1> HIDE DEF i
<1>2. /\ i.op = op /\ i.pid = 0 /\ i.bflg = FieldFlags(y) /\ i.b = Field(y)
      /\ i.aflg = (IF two THEN FieldFlags(x) ELSE {}) \cup (IF rel THEN {"rel"} ELSE {})
      /\ i.a = IF two THEN Field(x) ELSE 0
  BY <1>1
<1>3. 0 \in FieldSet
  BY DEF RedcodeAssumption, FieldSet
<1>4. i.aflg \subseteq FlagSet /\ i.bflg \subseteq FlagSet /\ "rel" \notin i.bflg
  <2>1. /\ FieldFlags(x) \subseteq Marks \cup {"sign"} /\ FieldFlags(y) \subseteq Marks \cup {"sign"}
        /\ "rel" \notin Marks \cup {"sign"} /\ Marks \cup {"sign"} \subseteq FlagSet /\ "rel" \in FlagSet
    BY FieldShape DEF FlagSet, Marks
  <2> HIDE DEF two, rel
  <2> QED BY <1>2, <2>1
<1>5. i.a \in FieldSet /\ i.b \in FieldSet
  BY <1>2, <1>3, FieldShape
<1>6. i \in InstrSet
  BY <1>1, <1>2, <1>4, <1>5 DEF InstrSet
<1>7. OneMark(i.bflg)
  BY <1>2, FieldShape
<1>8. OneMark(i.aflg)
  <2>1. \A m \in Marks : m \in i.aflg => two /\ m \in FieldFlags(x)
    BY <1>2 DEF Marks
  <2> QED BY <2>1, FieldShape DEF OneMark
<1>9. ASSUME g_rcnargtab(op) = 1 PROVE i.aflg \subseteq {"rel"} /\ i.a = 0
  <2>1. ~two
    BY <1>9
  <2> HIDE DEF two, rel
  <2> QED BY <1>2, <2>1
<1> QED BY <1>2, <1>4, <1>6, <1>7, <1>8, <1>9 DEF Shaped, i

LEMMA ZeroShape ==
    ASSUME RedcodeAssumption, NEW op \in Opcodes
    PROVE  Shaped([Zero EXCEPT !.op = op]) /\ Shaped(Zero) /\ Zero.op = CWOPDAT /\ Zero.pid = 0
           /\ [Zero EXCEPT !.op = op].op = op
<1>1. 0 \in FieldSet /\ 0 \in Opcodes
  BY DEF RedcodeAssumption, FieldSet, Opcodes, Mnemonics
<1>2. Zero \in InstrSet /\ [Zero EXCEPT !.op = op] \in InstrSet
  BY <1>1 DEF Zero, InstrSet, CWOPDAT
<1> QED BY <1>2 DEF Shaped, Zero, OneMark, CWOPDAT

\* The letters of the mnemonics, which have three each, and no two are the same.
Letters == {"A", "B", "C", "D", "J", "L", "M", "N", "O", "P", "S", "T", "U", "V", "Z"}

LEMMA MnemonicsApart ==
    /\ Len(Mnemonics) = 11 /\ Opcodes = 0 .. 10
    /\ \A i \in 1 .. 11 : Mnemonics[i] \in Seq(Letters) /\ Len(Mnemonics[i]) = 3
    /\ \A i, j \in 1 .. 11 : Mnemonics[i] = Mnemonics[j] => i = j
<1>1. Len(Mnemonics) = 11 /\ Opcodes = 0 .. 10
  BY DEF Mnemonics, Opcodes
<1>2. \A i \in 1 .. 11 : Mnemonics[i] \in Seq(Letters) /\ Len(Mnemonics[i]) = 3
  <2> SUFFICES ASSUME NEW i \in 1 .. 11
               PROVE  Mnemonics[i] \in Seq(Letters) /\ Len(Mnemonics[i]) = 3
    OBVIOUS
  <2>1. \E a, b, c \in Letters : Mnemonics[i] = <<a, b, c>>
    <3>1. i = 1 \/ i = 2 \/ i = 3 \/ i = 4 \/ i = 5 \/ i = 6 \/ i = 7 \/ i = 8 \/ i = 9 \/ i = 10 \/ i = 11
      OBVIOUS
    <3>2. CASE i = 1
      <4>1. Mnemonics[i] = <<"D", "A", "T">>
        BY <3>2 DEF Mnemonics
      <4> QED BY <4>1 DEF Letters
    <3>3. CASE i = 2
      <4>1. Mnemonics[i] = <<"M", "O", "V">>
        BY <3>3 DEF Mnemonics
      <4> QED BY <4>1 DEF Letters
    <3>4. CASE i = 3
      <4>1. Mnemonics[i] = <<"A", "D", "D">>
        BY <3>4 DEF Mnemonics
      <4> QED BY <4>1 DEF Letters
    <3>5. CASE i = 4
      <4>1. Mnemonics[i] = <<"S", "U", "B">>
        BY <3>5 DEF Mnemonics
      <4> QED BY <4>1 DEF Letters
    <3>6. CASE i = 5
      <4>1. Mnemonics[i] = <<"J", "M", "P">>
        BY <3>6 DEF Mnemonics
      <4> QED BY <4>1 DEF Letters
    <3>7. CASE i = 6
      <4>1. Mnemonics[i] = <<"J", "M", "Z">>
        BY <3>7 DEF Mnemonics
      <4> QED BY <4>1 DEF Letters
    <3>8. CASE i = 7
      <4>1. Mnemonics[i] = <<"J", "M", "N">>
        BY <3>8 DEF Mnemonics
      <4> QED BY <4>1 DEF Letters
    <3>9. CASE i = 8
      <4>1. Mnemonics[i] = <<"C", "M", "P">>
        BY <3>9 DEF Mnemonics
      <4> QED BY <4>1 DEF Letters
    <3>10. CASE i = 9
      <4>1. Mnemonics[i] = <<"S", "L", "T">>
        BY <3>10 DEF Mnemonics
      <4> QED BY <4>1 DEF Letters
    <3>11. CASE i = 10
      <4>1. Mnemonics[i] = <<"D", "J", "N">>
        BY <3>11 DEF Mnemonics
      <4> QED BY <4>1 DEF Letters
    <3>12. CASE i = 11
      <4>1. Mnemonics[i] = <<"S", "P", "L">>
        BY <3>12 DEF Mnemonics
      <4> QED BY <4>1 DEF Letters
    <3> QED BY <3>1, <3>2, <3>3, <3>4, <3>5, <3>6, <3>7, <3>8, <3>9, <3>10, <3>11, <3>12
  <2> QED BY <2>1
<1>3. \A i, j \in 1 .. 11 : Mnemonics[i] = Mnemonics[j] => i = j
  BY DEF Mnemonics
<1> QED BY <1>1, <1>2, <1>3

\* rcfindop knows each mnemonic and nothing else of three letters.
LEMMA FindsOp ==
    ASSUME NEW op \in Opcodes PROVE rcfindop(Mnemonics[op + 1]) = op
<1> DEFINE w == Mnemonics[op + 1]
<1>1. op \in 0 .. 10 /\ op + 1 \in 1 .. 11 /\ w \in Seq(Letters) /\ Len(w) = 3
  <2>1. op \in 0 .. 10
    BY MnemonicsApart
  <2>2. op + 1 \in 1 .. 11
    BY <2>1
  <2>3. w \in Seq(Letters) /\ Len(w) = 3
    BY <2>2, MnemonicsApart
  <2> QED BY <2>1, <2>2, <2>3
<1>2. Known(SubSeq(w, 1, 2))
  <2>1. op + 1 \in 1 .. Len(Mnemonics)
    BY <1>1, MnemonicsApart
  <2>2. 2 \in 1 .. 3
    OBVIOUS
  <2> QED BY <2>1, <2>2 DEF Known
<1>3. w = SubSeq(w, 1, 3)
  BY <1>1, SubSeqFull
<1>4. Known(w)
  <2>1. op + 1 \in 1 .. Len(Mnemonics)
    BY <1>1, MnemonicsApart
  <2>2. 3 \in 1 .. 3
    OBVIOUS
  <2> QED BY <1>3, <2>1, <2>2 DEF Known
<1>5. \A o \in Opcodes : Mnemonics[o + 1] = w => o = op
  <2> SUFFICES ASSUME NEW o \in Opcodes, Mnemonics[o + 1] = w PROVE o = op
    OBVIOUS
  <2>1. o \in 0 .. 10
    BY MnemonicsApart
  <2>2. o + 1 \in 1 .. 11
    BY <2>1
  <2>3. o + 1 = op + 1
    BY <1>1, <2>2, MnemonicsApart
  <2> QED BY <1>1, <2>1, <2>3
<1> HIDE DEF w
<1>6. (CHOOSE o \in Opcodes : Mnemonics[o + 1] = w) = op
  BY <1>5 DEF w
<1> QED BY <1>1, <1>2, <1>4, <1>6 DEF rcfindop, w

LEMMA KnownOp ==
    ASSUME NEW word, Len(word) = 3, Known(word)
    PROVE  \E op \in Opcodes : Mnemonics[op + 1] = word
<1>2. PICK i \in 1 .. 11 : \E n \in 1 .. 3 : word = SubSeq(Mnemonics[i], 1, n)
  BY MnemonicsApart DEF Known
<1>3. PICK n \in 1 .. 3 : word = SubSeq(Mnemonics[i], 1, n)
  BY <1>2
<1>4. Len(SubSeq(Mnemonics[i], 1, n)) = n
  <2>1. Mnemonics[i] \in Seq(Letters) /\ Len(Mnemonics[i]) = 3
    BY MnemonicsApart
  <2>2. \A k \in 1 .. n : Mnemonics[i][k] \in Letters
    BY <2>1
  <2> QED BY <2>2, SubSeqProperties
<1>5. word = Mnemonics[i]
  <2>1. n = 3 /\ Mnemonics[i] \in Seq(Letters) /\ Len(Mnemonics[i]) = 3
    BY <1>3, <1>4, MnemonicsApart
  <2> QED BY <1>3, <2>1, SubSeqFull
<1>6. i - 1 \in Opcodes /\ Mnemonics[(i - 1) + 1] = word
  BY <1>5, MnemonicsApart
<1> QED BY <1>6

\* A mark is written for the flag that there is.
LEMMA MarkKept ==
    ASSUME NEW flg, OneMark(flg)
    PROVE  Mark1(flg) \in {"#", "@", "<", "$", "none"} /\ Sigil(Mark1(flg)) = flg \cap Marks
<1>1. CASE "imm" \in flg
  BY <1>1 DEF Mark1, Sigil, Marks, OneMark
<1>2. CASE "imm" \notin flg /\ "indir" \in flg
  BY <1>2 DEF Mark1, Sigil, Marks, OneMark
<1>3. CASE "imm" \notin flg /\ "indir" \notin flg /\ "predec" \in flg
  BY <1>3 DEF Mark1, Sigil, Marks, OneMark
<1>4. CASE "imm" \notin flg /\ "indir" \notin flg /\ "predec" \notin flg
  BY <1>4 DEF Mark1, Sigil, Marks, OneMark
<1> QED BY <1>1, <1>2, <1>3, <1>4

\* An operand that is written is read as the number that it was.
LEMMA NumberKept ==
    ASSUME RedcodeAssumption, NEW mode \in {"#", "@", "<", "$", "none"}, NEW flg, NEW v \in FieldSet,
           "sign" \in flg => v < CWCORESIZE
    PROVE  /\ Number(mode, flg, v) \in Operands /\ Number(mode, flg, v).mode = mode
           /\ Number(mode, flg, v).neg <=> "sign" \in flg
           /\ Field(Number(mode, flg, v)) = v
<1>0. Half \in Nat /\ CWCORESIZE \in Nat
  BY DEF RedcodeAssumption
<1>1. v \in Nat /\ v < Half
  BY <1>0 DEF FieldSet
<1> DEFINE n == IF "sign" \in flg THEN v - CWCORESIZE ELSE v
           o == Number(mode, flg, v)
<1>2. o = [mode |-> mode, neg |-> n < 0, val |-> IF n < 0 THEN -n ELSE n]
  BY DEF Number
<1>3. CASE "sign" \in flg
  <2>1. n = v - CWCORESIZE /\ n \in Int /\ n < 0
    BY <1>0, <1>1, <1>3
  <2> HIDE DEF n
  <2>2. o = [mode |-> mode, neg |-> TRUE, val |-> -n]
    BY <1>2, <2>1
  <2> HIDE DEF o
  <2>3. o.mode = mode /\ o.neg = TRUE /\ o.val = -n /\ -n \in Nat
    BY <2>1, <2>2
  <2>4. o \in Operands
    BY <2>2, <2>3 DEF Operands
  <2>5. CWCORESIZE - o.val = v
    BY <1>0, <1>1, <2>1, <2>3
  <2>6. Field(o) = v % Half /\ v % Half = v
    BY <1>0, <1>1, <2>3, <2>5 DEF Field
  <2> QED BY <1>3, <2>3, <2>4, <2>6 DEF o
<1>4. CASE "sign" \notin flg
  <2>1. n = v
    BY <1>4
  <2> HIDE DEF n
  <2>2. (n < 0) = FALSE /\ (IF n < 0 THEN -n ELSE n) = v
    BY <1>1, <2>1
  <2>3. o = [mode |-> mode, neg |-> FALSE, val |-> v]
    BY <1>2, <2>1, <2>2
  <2> HIDE DEF o
  <2>4. o.mode = mode /\ o.neg = FALSE /\ o.val = v
    BY <2>3
  <2>5. o \in Operands
    BY <1>1, <2>3 DEF Operands
  <2>6. Field(o) = v % Half /\ v % Half = v
    BY <1>0, <1>1, <2>4 DEF Field
  <2> QED BY <1>4, <2>4, <2>5, <2>6 DEF o
<1> QED BY <1>3, <1>4

\* Its flags are those of the operand, if the mark is.
LEMMA FlagsKept ==
    ASSUME RedcodeAssumption, NEW mode \in {"#", "@", "<", "$", "none"}, NEW flg \in SUBSET FlagSet,
           NEW v \in FieldSet, "sign" \in flg => v < CWCORESIZE, Sigil(mode) = flg \cap Marks
    PROVE  FieldFlags(Number(mode, flg, v)) = flg \ {"rel"}
<1>1. FieldFlags(Number(mode, flg, v)) = (flg \cap Marks) \cup (IF "sign" \in flg THEN {"sign"} ELSE {})
  BY NumberKept DEF FieldFlags
<1> QED BY <1>1 DEF FlagSet, Marks

\* What the disassembler writes the assembler reads as the same instruction.
LEMMA WrittenAgain ==
    ASSUME RedcodeAssumption, NEW i, Shaped(i), Decs(i), Signs(i)
    PROVE  \E j \in rcgetop(cwdisasm(i).word, cwdisasm(i).fields) : Same(i, j)
<1> DEFINE g == (i.bflg \ {"predec"}) \cup (i.aflg \cap {"predec"})
           first == Number(Mark1(i.aflg), i.aflg, i.a)
           second == Number(Mark1(g), i.bflg, i.b)
           two == g_rcnargtab(i.op) = 2
           text == cwdisasm(i)
<1>1. /\ i.op \in Opcodes /\ i.aflg \in SUBSET FlagSet /\ i.bflg \in SUBSET FlagSet
      /\ i.a \in FieldSet /\ i.b \in FieldSet
  BY DEF Shaped, InstrSet
<1>2. /\ "sign" \in i.aflg => i.a < CWCORESIZE
      /\ "sign" \in i.bflg => i.b < CWCORESIZE
  BY DEF Signs
<1>3. /\ first \in Operands /\ Field(first) = i.a /\ FieldFlags(first) = i.aflg \ {"rel"}
  <2>1. Mark1(i.aflg) \in {"#", "@", "<", "$", "none"} /\ Sigil(Mark1(i.aflg)) = i.aflg \cap Marks
    BY MarkKept DEF Shaped
  <2> DEFINE m == Mark1(i.aflg)  fl == i.aflg  v == i.a
  <2>2. m \in {"#", "@", "<", "$", "none"} /\ Sigil(m) = fl \cap Marks /\ fl \in SUBSET FlagSet
        /\ v \in FieldSet /\ ("sign" \in fl => v < CWCORESIZE)
    BY <1>1, <1>2, <2>1
  <2> HIDE DEF m, fl, v
  <2>3. Number(m, fl, v) \in Operands /\ Field(Number(m, fl, v)) = v
    BY <2>2, NumberKept
  <2>4. FieldFlags(Number(m, fl, v)) = fl \ {"rel"}
    BY <2>2, FlagsKept
  <2> QED BY <2>3, <2>4 DEF m, fl, v
<1>4. Mark1(g) \in {"#", "@", "<", "$", "none"} /\ Sigil(Mark1(g)) = i.bflg \cap Marks
  <2>1. OneMark(i.bflg) /\ OneMark(i.aflg)
    BY DEF Shaped
  <2>2. CASE "imm" \in i.bflg
    BY <2>1, <2>2 DEF Mark1, Sigil, Marks, OneMark
  <2>3. CASE "imm" \notin i.bflg /\ "indir" \in i.bflg
    BY <2>1, <2>3 DEF Mark1, Sigil, Marks, OneMark
  <2>4. CASE "imm" \notin i.bflg /\ "indir" \notin i.bflg /\ "predec" \in i.bflg
    <3>1. "predec" \in i.aflg
      BY <2>4 DEF Decs
    <3> QED BY <2>4, <3>1 DEF Mark1, Sigil, Marks
  <2>5. CASE "imm" \notin i.bflg /\ "indir" \notin i.bflg /\ "predec" \notin i.bflg
    <3>1. "predec" \notin i.aflg
      BY <2>5 DEF Decs
    <3> QED BY <2>5, <3>1 DEF Mark1, Sigil, Marks
  <2> QED BY <2>2, <2>3, <2>4, <2>5
<1>5. /\ second \in Operands /\ Field(second) = i.b /\ FieldFlags(second) = i.bflg \ {"rel"}
  <2> DEFINE m == Mark1(g)  fl == i.bflg  v == i.b
  <2>2. m \in {"#", "@", "<", "$", "none"} /\ Sigil(m) = fl \cap Marks /\ fl \in SUBSET FlagSet
        /\ v \in FieldSet /\ ("sign" \in fl => v < CWCORESIZE)
    BY <1>1, <1>2, <1>4
  <2> HIDE DEF m, fl, v
  <2>3. Number(m, fl, v) \in Operands /\ Field(Number(m, fl, v)) = v
    BY <2>2, NumberKept
  <2>4. FieldFlags(Number(m, fl, v)) = fl \ {"rel"}
    BY <2>2, FlagsKept
  <2> QED BY <2>3, <2>4 DEF m, fl, v
<1>6. /\ text.word = Mnemonics[i.op + 1]
      /\ text.fields = IF two THEN <<first, second>> ELSE <<second>>
  BY DEF cwdisasm
<1>7. rcfindop(text.word) = i.op /\ ~(i.op < 0)
  <2>1. rcfindop(Mnemonics[i.op + 1]) = i.op
    BY <1>1, FindsOp
  <2>2. i.op \in 0 .. 10
    BY <1>1, MnemonicsApart
  <2>3. ~(i.op < 0)
    BY <2>2
  <2> QED BY <1>6, <2>1, <2>3
<1>8. two \/ g_rcnargtab(i.op) = 1
  BY DEF g_rcnargtab
<1> HIDE DEF first, second, text, g
<1>9. CASE two
  <2>1. text.fields = <<first, second>> /\ Len(text.fields) >= 2
    BY <1>6, <1>9
  <2>2. rcgetop(text.word, text.fields) = {Instr(i.op, first, second)}
    BY <1>7, <1>9, <2>1 DEF rcgetop
  <2>3. Same(i, Instr(i.op, first, second))
    <3> DEFINE rel == second.mode = "none" \/ (two /\ first.mode = "none")
               j == Instr(i.op, first, second)
    <3>1. /\ j.op = i.op /\ j.bflg = i.bflg \ {"rel"} /\ j.a = i.a /\ j.b = i.b
          /\ j.aflg = (i.aflg \ {"rel"}) \cup (IF rel THEN {"rel"} ELSE {})
      BY <1>3, <1>5, <1>9 DEF Instr
    <3> HIDE DEF j, rel
    <3>2. i.aflg \ {"rel"} = j.aflg \ {"rel"}
      BY <3>1
    <3>3. i.bflg = j.bflg
      BY <3>1 DEF Shaped
    <3> QED BY <3>1, <3>2, <3>3 DEF Same, j
  <2> QED BY <2>2, <2>3 DEF text
<1>10. CASE g_rcnargtab(i.op) = 1
  <2>0. ~two
    BY <1>10
  <2>1. text.fields = <<second>> /\ Len(text.fields) >= 1 /\ text.fields[1] = second
    BY <1>6, <2>0
  <2>2. rcgetop(text.word, text.fields) = {Instr(i.op, second, second)}
    BY <1>7, <1>10, <2>1 DEF rcgetop
  <2>3. Same(i, Instr(i.op, second, second))
    <3> DEFINE rel == second.mode = "none" \/ (two /\ second.mode = "none")
               j == Instr(i.op, second, second)
    <3>1. /\ j.op = i.op /\ j.bflg = i.bflg \ {"rel"} /\ j.a = 0 /\ j.b = i.b
          /\ j.aflg = {} \cup (IF rel THEN {"rel"} ELSE {})
      BY <1>5, <2>0 DEF Instr
    <3>2. i.aflg \subseteq {"rel"} /\ i.a = 0
      BY <1>10 DEF Shaped
    <3> HIDE DEF j, rel
    <3>3. i.aflg \ {"rel"} = j.aflg \ {"rel"}
      BY <3>1, <3>2
    <3>4. i.bflg = j.bflg
      BY <3>1 DEF Shaped
    <3> QED BY <3>1, <3>2, <3>3, <3>4 DEF Same, j
  <2> QED BY <2>2, <2>3 DEF text
<1> QED BY <1>8, <1>9, <1>10

\* The opcode of a word, or one of the two ways to find none.
LEMMA AnyOp == ASSUME NEW word PROVE rcfindop(word) \in Opcodes \cup {-1, -2}
<1>1. CASE Len(word) # 3 \/ ~Known(SubSeq(word, 1, 2))
  BY <1>1 DEF rcfindop
<1>2. CASE ~(Len(word) # 3 \/ ~Known(SubSeq(word, 1, 2))) /\ ~Known(word)
  BY <1>2 DEF rcfindop
<1>3. CASE ~(Len(word) # 3 \/ ~Known(SubSeq(word, 1, 2))) /\ Known(word)
  <2>1. rcfindop(word) = CHOOSE op \in Opcodes : Mnemonics[op + 1] = word
    BY <1>3 DEF rcfindop
  <2>2. Len(word) = 3
    BY <1>3
  <2>3. \E op \in Opcodes : Mnemonics[op + 1] = word
    BY <1>3, <2>2, KnownOp
  <2> QED BY <2>1, <2>3
<1> QED BY <1>1, <1>2, <1>3

\* A line of code has a word and operands.
LEMMA LineParts ==
    ASSUME NEW l \in Lines, l.kind = "instr" PROVE l.fields \in Seq(Operands)
BY DEF Lines

\* What is made of such a line, unless the assembler gives up.
LEMMA LineShape ==
    ASSUME RedcodeAssumption, NEW l \in Lines, l.kind = "instr",
           NEW i \in rcgetop(l.word, l.fields), i \notin {Exit, Crash}
    PROVE  Shaped(i) /\ i.pid = 0
<1> DEFINE op == rcfindop(l.word)
           n == g_rcnargtab(op)
<1>1. l.fields \in Seq(Operands)
  BY LineParts
<1>2. op \in Opcodes
  <2>1. op \in {-1, -2} => rcgetop(l.word, l.fields) = {[op |-> op]}
    BY DEF rcgetop
  <2>2. op \notin {-1, -2}
    BY <2>1 DEF Exit, Crash
  <2> QED BY <2>2, AnyOp
<1>3. ~(op < 0) /\ n \in {1, 2}
  <2>1. op \in 0 .. 10
    BY <1>2, MnemonicsApart
  <2> QED BY <2>1 DEF g_rcnargtab
<1>4. CASE Len(l.fields) >= n
  <2>1. i = Instr(op, l.fields[1], l.fields[n])
    BY <1>3, <1>4 DEF rcgetop
  <2>2. l.fields[1] \in Operands /\ l.fields[n] \in Operands
    BY <1>1, <1>3, <1>4
  <2> QED BY <1>2, <2>1, <2>2, InstrShape
<1>5. CASE ~(Len(l.fields) >= n)
  <2>1. \/ i = Exit
        \/ i = [Zero EXCEPT !.op = op]
        \/ \E r \in Remains : i = Instr(op, IF l.fields = <<>> THEN r ELSE l.fields[1], r)
    BY <1>3, <1>5 DEF rcgetop
  <2>2. CASE i = [Zero EXCEPT !.op = op]
    BY <1>2, <2>2, ZeroShape DEF Zero
  <2>3. ASSUME NEW r \in Remains, i = Instr(op, IF l.fields = <<>> THEN r ELSE l.fields[1], r)
        PROVE  Shaped(i) /\ i.pid = 0
    <3>1. r \in Operands
      BY DEF RedcodeAssumption
    <3>2. (IF l.fields = <<>> THEN r ELSE l.fields[1]) \in Operands
      <4>1. l.fields # <<>> => l.fields[1] \in Operands
        BY <1>1
      <4> QED BY <3>1, <4>1
    <3> QED BY <1>2, <2>3, <3>1, <3>2, InstrShape
  <2> QED BY <2>1, <2>2, <2>3
<1> QED BY <1>4, <1>5

\* The instruction of a line that reads nothing behind it.
Instruction(l) == CHOOSE j \in rcgetop(l.word, l.fields) : TRUE

LEMMA OneWay ==
    ASSUME RedcodeAssumption, NEW l \in Lines, l.kind = "instr", rcfindop(l.word) >= 0,
           Len(l.fields) >= g_rcnargtab(rcfindop(l.word))
    PROVE  /\ rcgetop(l.word, l.fields) = {Instruction(l)}
           /\ Instruction(l) \notin {Exit, Crash} /\ Shaped(Instruction(l)) /\ Instruction(l).pid = 0
<1> DEFINE op == rcfindop(l.word)
           x == Instr(op, l.fields[1], l.fields[g_rcnargtab(op)])
<1>1. op \in Opcodes /\ ~(op < 0)
  <2>1. op \in Opcodes \cup {-1, -2}
    BY AnyOp
  <2>2. op >= 0 /\ Opcodes = 0 .. 10
    BY MnemonicsApart
  <2> HIDE DEF op
  <2> QED BY <2>1, <2>2
<1>2. rcgetop(l.word, l.fields) = {x}
  BY <1>1 DEF rcgetop
<1>3. Instruction(l) = x
  BY <1>2 DEF Instruction
<1>4. g_rcnargtab(op) \in {1, 2}
  BY DEF g_rcnargtab
<1>5. l.fields[1] \in Operands /\ l.fields[g_rcnargtab(op)] \in Operands
  BY <1>4, LineParts
<1>6. Shaped(x) /\ x.pid = 0 /\ x.op = op
  BY <1>1, <1>5, InstrShape
<1>7. x \notin {Exit, Crash}
  <2>1. Exit.op = -1 /\ Crash.op = -2
    BY DEF Exit, Crash
  <2>2. op \in 0 .. 10
    BY <1>1, MnemonicsApart
  <2> HIDE DEF x, op
  <2> QED BY <1>6, <2>1, <2>2
<1> QED BY <1>2, <1>3, <1>6, <1>7
---------------------------------------------------------------------------
CoreCells == 0 .. CWCORESIZE - 1

RcTypes ==
    /\ source \in Sources /\ origin \in Origins
    /\ reading \in {1, 2} /\ line \in Nat \ {0} /\ wrap \in BOOLEAN
    /\ nread \in [{1, 2} -> Nat] /\ entry \in [{1, 2} -> CoreCells \cup {-1}]
    /\ DOMAIN optab = CoreCells /\ \A c \in CoreCells : Shaped(optab[c])
    /\ loading \in {"yes", "done", "failed", "overlap"}

\* A program starts at an instruction of its own that is not a DAT.
Starts(p) == entry[p] >= 0 => optab[entry[p]].op # CWOPDAT /\ optab[entry[p]].pid = p - 1

\* The programs are read in order, the second after the first has a start.
InTurn ==
    /\ Starts(1) /\ Starts(2)
    /\ reading = 2 => entry[1] >= 0
    /\ loading = "done" => entry[2] >= 0 /\ reading = 2 /\ (Whole(2) => line = Len(source[2]) + 1)

\* The next line of a program.
NextOf(p) == IF p < reading THEN Len(source[p]) + 1 ELSE IF p = reading THEN line ELSE 1

\* The instruction of a line is in the core.
Stands(p, n) ==
    \/ optab[Cell(p, Cardinality(InstrsBefore(p, n)))] = [Instruction(source[p][n]) EXCEPT !.pid = p - 1]
    \/ p = 1 /\ Instruction(source[p][n]) = Zero

\* So are those of all lines that have been read, and they are counted.
SoFar(p) ==
    /\ NextOf(p) \in 1 .. Len(source[p]) + 1
    /\ nread[p] = Cardinality(InstrsBefore(p, NextOf(p)))
    /\ \A n \in 1 .. NextOf(p) - 1 : source[p][n].kind = "instr" => Stands(p, n)

Going == loading \in {"yes", "done"}

RcInv ==
    /\ RcTypes /\ InTurn
    /\ Going => (Whole(1) => SoFar(1)) /\ (Whole(2) => SoFar(2))

\* A program is a sequence of lines, and its origin is in the core.
LEMMA ProgramTypes ==
    ASSUME RedcodeAssumption, RcTypes, NEW p \in {1, 2}
    PROVE  /\ source[p] \in Seq(Lines) /\ Len(source[p]) \in Nat
           /\ \A n \in 1 .. Len(source[p]) : source[p][n] \in Lines
           /\ \A k \in Nat : Cell(p, k) \in CoreCells
<1>1. source \in Seq(Lines) \X Seq(Lines) /\ origin \in CoreCells \X CoreCells
  BY DEF RedcodeAssumption, RcTypes, CoreCells
<1>2. source[p] \in Seq(Lines) /\ origin[p] \in CoreCells
  BY <1>1
<1>3. ASSUME NEW k \in Nat PROVE Cell(p, k) \in CoreCells
  <2>1. origin[p] + k \in Int /\ CWCORESIZE \in Nat /\ CWCORESIZE > 0
    BY <1>2 DEF CoreCells, RedcodeAssumption
  <2>2. (origin[p] + k) % CWCORESIZE \in 0 .. CWCORESIZE - 1
    BY <2>1
  <2> QED BY <2>2 DEF Cell, CoreCells
<1> QED BY <1>2, <1>3

\* The instructions before a line, and with the line.
LEMMA CountLines ==
    ASSUME NEW p, NEW n \in Nat \ {0}
    PROVE  /\ IsFiniteSet(InstrsBefore(p, n)) /\ Cardinality(InstrsBefore(p, n)) \in Nat
           /\ InstrsBefore(p, 1) = {} /\ Cardinality(InstrsBefore(p, 1)) = 0
           /\ source[p][n].kind = "instr" =>
                 Cardinality(InstrsBefore(p, n + 1)) = Cardinality(InstrsBefore(p, n)) + 1
           /\ source[p][n].kind # "instr" => InstrsBefore(p, n + 1) = InstrsBefore(p, n)
<1>1. IsFiniteSet(1 .. n - 1) /\ InstrsBefore(p, n) \subseteq 1 .. n - 1
  BY FS_Interval DEF InstrsBefore
<1>2. IsFiniteSet(InstrsBefore(p, n)) /\ Cardinality(InstrsBefore(p, n)) \in Nat
  BY <1>1, FS_Subset, FS_CardinalityType
<1>3. InstrsBefore(p, 1) = {}
  BY DEF InstrsBefore
<1>4. CASE source[p][n].kind = "instr"
  <2>1. InstrsBefore(p, n + 1) = InstrsBefore(p, n) \cup {n} /\ n \notin InstrsBefore(p, n)
    BY <1>4 DEF InstrsBefore
  <2> QED BY <1>2, <1>3, <1>4, <2>1, FS_AddElement, FS_EmptySet, ZenonT(40)
<1>5. CASE source[p][n].kind # "instr"
  <2>1. InstrsBefore(p, n + 1) = InstrsBefore(p, n)
    BY <1>5 DEF InstrsBefore
  <2> QED BY <1>2, <1>3, <1>5, <2>1, FS_EmptySet
<1> QED BY <1>4, <1>5

\* A cell that is not zero stays.
Stays == \A c \in CoreCells : optab[c] # Zero => optab'[c] = optab[c]

\* An instruction that is put into the core: to a cell that was zero, or not at all.
LEMMA PutStep ==
    ASSUME RedcodeAssumption, RcTypes, InTurn, NEW i, Shaped(i), i.pid = 0, Put(i), reading' = reading,
           loading # "done"
    PROVE  /\ nread' \in [{1, 2} -> Nat] /\ entry' \in [{1, 2} -> CoreCells \cup {-1}]
           /\ DOMAIN optab' = CoreCells /\ \A c \in CoreCells : Shaped(optab'[c])
           /\ loading' \in {loading, "overlap"}
           /\ Stays /\ Starts(1)' /\ Starts(2)'
           /\ \A p \in {1, 2} : entry[p] >= 0 => entry'[p] >= 0
           /\ \A p \in {1, 2} : p # reading => nread'[p] = nread[p]
           /\ loading' # "overlap" =>
                 /\ nread'[reading] = nread[reading] + 1
                 /\ optab'[Cell(reading, nread[reading])] = [i EXCEPT !.pid = reading - 1]
<1> DEFINE pc == Cell(reading, nread[reading])
           put == [i EXCEPT !.pid = reading - 1]
<1>0. reading \in {1, 2} /\ nread[reading] \in Nat /\ pc \in CoreCells
  BY ProgramTypes DEF RcTypes
<1>1. CASE optab[pc] # Zero
  <2>1. loading' = "overlap" /\ UNCHANGED <<optab, nread, entry>>
    BY <1>1 DEF Put
  <2>2. Starts(1)' /\ Starts(2)'
    BY <2>1 DEF InTurn, Starts
  <2> QED BY <2>1, <2>2 DEF RcTypes, Stays
<1>2. CASE optab[pc] = Zero
  <2>1. /\ optab' = [optab EXCEPT ![pc] = put]
        /\ nread' = [nread EXCEPT ![reading] = @ + 1]
        /\ entry' = [entry EXCEPT ![reading] = IF @ < 0 /\ i.op # CWOPDAT THEN pc ELSE @]
        /\ loading' = loading
    BY <1>2 DEF Put
  <2> HIDE DEF pc
  <2>2. /\ put.op = i.op /\ put.aflg = i.aflg /\ put.bflg = i.bflg /\ put.a = i.a /\ put.b = i.b
        /\ put.pid = reading - 1 /\ put \in InstrSet
    BY <1>0 DEF Shaped, InstrSet
  <2>3. Shaped(put)
    BY <2>2 DEF Shaped
  <2> HIDE DEF put
  <2>4. /\ DOMAIN optab' = CoreCells /\ optab'[pc] = put
        /\ \A c \in CoreCells : c # pc => optab'[c] = optab[c]
    BY <1>0, <2>1 DEF RcTypes
  <2>5. Stays
    BY <1>2, <2>4 DEF Stays
  <2>6. /\ nread' \in [{1, 2} -> Nat] /\ nread'[reading] = nread[reading] + 1
        /\ \A p \in {1, 2} : p # reading => nread'[p] = nread[p]
    BY <1>0, <2>1 DEF RcTypes
  <2>7. /\ entry' \in [{1, 2} -> CoreCells \cup {-1}]
        /\ \A p \in {1, 2} : p # reading => entry'[p] = entry[p]
        /\ entry'[reading] = entry[reading] \/ (entry[reading] < 0 /\ entry'[reading] = pc /\ i.op # CWOPDAT)
    BY <1>0, <2>1 DEF RcTypes
  <2>8. ASSUME NEW p \in {1, 2} PROVE Starts(p)' /\ (entry[p] >= 0 => entry'[p] >= 0)
    <3>1. CASE entry'[p] = entry[p]
      <4>1. SUFFICES ASSUME entry[p] >= 0
                     PROVE  optab'[entry[p]].op # CWOPDAT /\ optab'[entry[p]].pid = p - 1
        BY <3>1 DEF Starts
      <4>2. entry[p] \in CoreCells /\ optab[entry[p]].op # CWOPDAT /\ optab[entry[p]].pid = p - 1
        BY <4>1 DEF RcTypes, InTurn, Starts
      <4>3. optab[entry[p]] # Zero
        BY <4>2 DEF Zero
      <4> QED BY <4>2, <4>3, <2>5 DEF Stays
    <3>2. CASE entry'[p] # entry[p]
      <4>1. p = reading /\ entry[p] < 0 /\ entry'[p] = pc /\ i.op # CWOPDAT
        BY <2>7, <3>2
      <4>2. entry[p] \in Int
        BY DEF RcTypes, CoreCells
      <4> QED BY <2>2, <2>4, <4>1, <4>2 DEF Starts
    <3> QED BY <3>1, <3>2
  <2>9. \A c \in CoreCells : Shaped(optab'[c])
    BY <2>3, <2>4 DEF RcTypes
  <2> QED BY <2>1, <2>4, <2>5, <2>6, <2>7, <2>8, <2>9 DEF pc, put
<1> QED BY <1>1, <1>2

\* What stands in the core stays there.
LEMMA StandsOn ==
    ASSUME RedcodeAssumption, RcTypes, NEW p \in {1, 2}, Whole(p), Stays, UNCHANGED <<source, origin>>,
           NEW n \in 1 .. Len(source[p]), source[p][n].kind = "instr", Stands(p, n)
    PROVE  Stands(p, n)'
<1> DEFINE l == source[p][n]
           i == Instruction(l)
           c == Cell(p, Cardinality(InstrsBefore(p, n)))
<1>1. l \in Lines /\ l.kind = "instr" /\ rcfindop(l.word) >= 0
      /\ Len(l.fields) >= g_rcnargtab(rcfindop(l.word))
  BY ProgramTypes DEF Whole
<1>2. Shaped(i) /\ i.pid = 0
  BY <1>1, OneWay
<1>3. n \in Nat \ {0}
  BY ProgramTypes
<1>4. c \in CoreCells
  BY <1>3, CountLines, ProgramTypes
<1>5. /\ c' = c
      /\ Stands(p, n) = (optab[c] = [i EXCEPT !.pid = p - 1] \/ (p = 1 /\ i = Zero))
      /\ Stands(p, n)' = (optab'[c] = [i EXCEPT !.pid = p - 1] \/ (p = 1 /\ i = Zero))
  BY DEF Stands, Cell, InstrsBefore
<1> HIDE DEF i, c
<1>6. CASE optab[c] = [i EXCEPT !.pid = p - 1] /\ ~(p = 1 /\ i = Zero)
  <2> DEFINE j == [i EXCEPT !.pid = p - 1]
  <2>1. j.pid = p - 1 /\ (p = 1 => j = i)
    BY <1>2 DEF Shaped, InstrSet
  <2>2. Zero.pid = 0
    BY DEF Zero
  <2>3. optab[c] # Zero
    <3>0. optab[c] = j /\ ~(p = 1 /\ i = Zero)
      BY <1>6
    <3> HIDE DEF j
    <3>1. CASE p = 1
      BY <2>1, <3>0, <3>1
    <3>2. CASE p = 2
      BY <2>1, <2>2, <3>0, <3>2
    <3> QED BY <3>1, <3>2
  <2> QED BY <1>4, <1>5, <1>6, <2>3 DEF Stays
<1> QED BY <1>5, <1>6

\* Nothing is read at first, and the core is zero.
LEMMA RcInitHolds == RedcodeAssumption /\ RcInit => RcInv
<1> SUFFICES ASSUME RedcodeAssumption, RcInit PROVE RcInv
  OBVIOUS
<1>1. /\ source \in Sources /\ origin \in Origins /\ reading = 1 /\ line = 1 /\ nread = <<0, 0>>
      /\ wrap = FALSE /\ entry = <<-1, -1>> /\ loading = "yes"
      /\ optab = [c \in CoreCells |-> Zero]
  BY DEF RcInit, CoreCells
<1>2. nread \in [{1, 2} -> Nat] /\ entry \in [{1, 2} -> CoreCells \cup {-1}]
      /\ nread[1] = 0 /\ nread[2] = 0 /\ entry[1] = -1 /\ entry[2] = -1
  BY <1>1
<1>3. \A c \in CoreCells : Shaped(optab[c])
  <2>1. 0 \in Opcodes
    BY MnemonicsApart
  <2>2. Shaped(Zero)
    BY <2>1, ZeroShape
  <2> QED BY <1>1, <2>2
<1>4. RcTypes
  <2>1. DOMAIN optab = CoreCells
    BY <1>1
  <2>2. reading \in {1, 2} /\ line \in Nat \ {0}
    BY <1>1
  <2>3. wrap \in BOOLEAN
    BY <1>1
  <2>4. loading \in {"yes", "done", "failed", "overlap"}
    BY <1>1
  <2>5. source \in Sources /\ origin \in Origins
    BY <1>1
  <2> QED BY <1>2, <1>3, <2>1, <2>2, <2>3, <2>4, <2>5 DEF RcTypes
<1>5. InTurn
  <2>1. ~(entry[1] >= 0) /\ ~(entry[2] >= 0)
    BY <1>2
  <2>2. Starts(1) /\ Starts(2)
    BY <2>1 DEF Starts
  <2>3. reading # 2 /\ loading # "done"
    BY <1>1
  <2> QED BY <2>2, <2>3 DEF InTurn
<1>6. ASSUME NEW p \in {1, 2} PROVE SoFar(p)
  <2>1. NextOf(p) = 1
    BY <1>1, <1>6 DEF NextOf
  <2>2. Len(source[p]) \in Nat
    BY <1>4, ProgramTypes
  <2>3. Cardinality(InstrsBefore(p, 1)) = 0
    BY CountLines
  <2>4. 1 \in 1 .. Len(source[p]) + 1 /\ 1 .. 1 - 1 = {}
    BY <2>2
  <2>5. nread[p] = 0
    BY <1>2
  <2> QED BY <2>1, <2>3, <2>4, <2>5 DEF SoFar
<1> QED BY <1>4, <1>5, <1>6 DEF RcInv

\* Where the instruction of a line stands depends on the program and its origin.
LEMMA StandsNext ==
    ASSUME UNCHANGED <<source, origin>>, NEW p, NEW k,
           optab'[Cell(p, Cardinality(InstrsBefore(p, k)))] = [Instruction(source[p][k]) EXCEPT !.pid = p - 1]
    PROVE  Stands(p, k)'
<1> DEFINE i == Instruction(source[p][k])
           c == Cell(p, Cardinality(InstrsBefore(p, k)))
<1>1. c' = c /\ i' = i
  BY DEF Cell, InstrsBefore
<1>2. Stands(p, k)' = (optab'[c'] = [i' EXCEPT !.pid = p - 1] \/ (p = 1 /\ i' = Zero))
  BY DEF Stands
<1> HIDE DEF i, c
<1>3. optab'[c] = [i EXCEPT !.pid = p - 1]
  BY DEF i, c
<1> QED BY <1>1, <1>2, <1>3

\* One more line of a program, or of the other one.
LEMMA LineRead ==
    ASSUME RedcodeAssumption, RcTypes, NEW p \in {1, 2}, Whole(p) => SoFar(p),
           reading' = reading, line' = line + 1, line <= Len(source[reading]),
           UNCHANGED <<source, origin>>, Stays, p # reading => nread'[p] = nread[p],
           p = reading /\ Whole(p) =>
               \/ source[p][line].kind = "comment" /\ nread'[p] = nread[p]
               \/ /\ source[p][line].kind = "instr" /\ nread'[p] = nread[p] + 1
                  /\ optab'[Cell(p, nread[p])] = [Instruction(source[p][line]) EXCEPT !.pid = p - 1]
    PROVE  Whole(p)' => SoFar(p)'
<1> SUFFICES ASSUME Whole(p)' PROVE SoFar(p)'
  OBVIOUS
<1>1. Whole(p)
  BY DEF Whole
<1>2. /\ NextOf(p) \in 1 .. Len(source[p]) + 1
      /\ nread[p] = Cardinality(InstrsBefore(p, NextOf(p)))
      /\ \A n \in 1 .. NextOf(p) - 1 : source[p][n].kind = "instr" => Stands(p, n)
  BY <1>1 DEF SoFar
<1>3. Len(source[p]) \in Nat
  BY ProgramTypes
<1>4. /\ \A n : InstrsBefore(p, n)' = InstrsBefore(p, n)
      /\ SoFar(p)' = /\ NextOf(p)' \in 1 .. Len(source[p]) + 1
                     /\ nread'[p] = Cardinality(InstrsBefore(p, NextOf(p)'))
                     /\ \A n \in 1 .. NextOf(p)' - 1 : source[p][n].kind = "instr" => Stands(p, n)'
  BY DEF SoFar, InstrsBefore
<1>5. \A n \in 1 .. NextOf(p) - 1 : source[p][n].kind = "instr" => Stands(p, n)'
  <2> SUFFICES ASSUME NEW n \in 1 .. NextOf(p) - 1, source[p][n].kind = "instr" PROVE Stands(p, n)'
    OBVIOUS
  <2>1. n \in 1 .. Len(source[p]) /\ Stands(p, n)
    BY <1>2, <1>3
  <2> QED BY <1>1, <2>1, StandsOn
<1>6. CASE p # reading
  <2>1. NextOf(p)' = NextOf(p) /\ nread'[p] = nread[p]
    BY <1>6 DEF NextOf, RcTypes
  <2> QED BY <1>2, <1>4, <1>5, <2>1
<1>7. CASE p = reading
  <2>1. NextOf(p) = line /\ NextOf(p)' = line + 1 /\ line \in 1 .. Len(source[p]) /\ line \in Nat \ {0}
    BY <1>2, <1>3, <1>7 DEF NextOf, RcTypes
  <2>2. line + 1 \in 1 .. Len(source[p]) + 1 /\ \A n \in 1 .. line + 1 - 1 : n \in 1 .. line - 1 \/ n = line
    BY <1>3, <2>1
  <2>3. CASE source[p][line].kind = "comment" /\ nread'[p] = nread[p]
    <3>1. InstrsBefore(p, line + 1) = InstrsBefore(p, line)
      BY <2>1, <2>3, CountLines
    <3>2. \A n \in 1 .. line + 1 - 1 : source[p][n].kind = "instr" => Stands(p, n)'
      <4> SUFFICES ASSUME NEW n \in 1 .. line + 1 - 1, source[p][n].kind = "instr" PROVE Stands(p, n)'
        OBVIOUS
      <4>1. n \in 1 .. NextOf(p) - 1
        BY <2>1, <2>2, <2>3
      <4> QED BY <1>5, <4>1
    <3>3. nread'[p] = Cardinality(InstrsBefore(p, line + 1))
      BY <1>2, <2>1, <2>3, <3>1
    <3> QED BY <1>4, <2>1, <2>2, <3>2, <3>3
  <2>4. CASE /\ source[p][line].kind = "instr" /\ nread'[p] = nread[p] + 1
             /\ optab'[Cell(p, nread[p])] = [Instruction(source[p][line]) EXCEPT !.pid = p - 1]
    <3>1. Cardinality(InstrsBefore(p, line + 1)) = Cardinality(InstrsBefore(p, line)) + 1
      BY <2>1, <2>4, CountLines
    <3>2. nread'[p] = Cardinality(InstrsBefore(p, line + 1))
      BY <1>2, <2>1, <2>4, <3>1
    <3>3. PICK k : k = line
      OBVIOUS
    <3>5. Stands(p, k)'
      <4>1. optab'[Cell(p, Cardinality(InstrsBefore(p, k)))]
              = [Instruction(source[p][k]) EXCEPT !.pid = p - 1]
        BY <1>2, <2>1, <2>4, <3>3
      <4> QED BY <4>1, StandsNext
    <3>4. \A n \in 1 .. line + 1 - 1 : source[p][n].kind = "instr" => Stands(p, n)'
      <4> SUFFICES ASSUME NEW n \in 1 .. line + 1 - 1, source[p][n].kind = "instr" PROVE Stands(p, n)'
        OBVIOUS
      <4>1. n \in 1 .. NextOf(p) - 1 \/ n = line
        BY <2>1, <2>2
      <4> QED BY <1>5, <3>3, <3>5, <4>1
    <3> QED BY <1>4, <2>1, <2>2, <3>2, <3>4
  <2> QED BY <1>1, <1>7, <2>3, <2>4
<1> QED BY <1>6, <1>7

\* A line that is read: the types, the starts and the instructions so far.
LEMMA ReadStep ==
    ASSUME RedcodeAssumption, RcInv, loading = "yes", line <= Len(source[reading]),
           reading' = reading, line' = line + 1, UNCHANGED <<source, origin>>,
           wrap' \in BOOLEAN, loading' \in {"yes", "failed", "overlap"},
           \/ /\ UNCHANGED <<nread, optab, entry>>
              /\ Going' => ~(Whole(reading) /\ source[reading][line].kind = "instr")
           \/ \E i : /\ Shaped(i) /\ i.pid = 0 /\ Put(i)
                     /\ Whole(reading) => source[reading][line].kind = "instr"
                                          /\ i = Instruction(source[reading][line])
    PROVE  RcInv'
<1>0. reading \in {1, 2} /\ nread[reading] \in Nat /\ Len(source[reading]) \in Nat
      /\ line \in 1 .. Len(source[reading]) /\ loading # "done" /\ loading' # "done"
      /\ RcTypes /\ InTurn
  <2>1. RcTypes /\ InTurn /\ reading \in {1, 2} /\ line \in Nat \ {0} /\ nread[reading] \in Nat
    BY DEF RcInv, RcTypes
  <2>2. Len(source[reading]) \in Nat
    BY <2>1, ProgramTypes
  <2> QED BY <2>1, <2>2
<1>1. Whole(reading) => source[reading][line].kind \in {"comment", "instr"}
  BY <1>0 DEF Whole
<1>2. /\ nread' \in [{1, 2} -> Nat] /\ entry' \in [{1, 2} -> CoreCells \cup {-1}]
      /\ DOMAIN optab' = CoreCells /\ \A c \in CoreCells : Shaped(optab'[c])
      /\ Stays /\ Starts(1)' /\ Starts(2)'
      /\ \A p \in {1, 2} : entry[p] >= 0 => entry'[p] >= 0
      /\ \A p \in {1, 2} : p # reading => nread'[p] = nread[p]
      /\ Going' /\ Whole(reading) =>
           \/ source[reading][line].kind = "comment" /\ nread'[reading] = nread[reading]
           \/ /\ source[reading][line].kind = "instr" /\ nread'[reading] = nread[reading] + 1
              /\ optab'[Cell(reading, nread[reading])]
                   = [Instruction(source[reading][line]) EXCEPT !.pid = reading - 1]
  <2>1. CASE /\ UNCHANGED <<nread, optab, entry>>
             /\ Going' => ~(Whole(reading) /\ source[reading][line].kind = "instr")
    <3>1. Starts(1)' /\ Starts(2)'
      BY <1>0, <2>1 DEF InTurn, Starts
    <3>2. /\ nread' \in [{1, 2} -> Nat] /\ entry' \in [{1, 2} -> CoreCells \cup {-1}]
          /\ DOMAIN optab' = CoreCells /\ \A c \in CoreCells : Shaped(optab'[c])
      BY <1>0, <2>1 DEF RcTypes
    <3> QED BY <1>1, <2>1, <3>1, <3>2 DEF Stays
  <2>2. CASE \E i : /\ Shaped(i) /\ i.pid = 0 /\ Put(i)
                    /\ Whole(reading) => source[reading][line].kind = "instr"
                                         /\ i = Instruction(source[reading][line])
    <3>1. PICK i : /\ Shaped(i) /\ i.pid = 0 /\ Put(i)
                   /\ Whole(reading) => source[reading][line].kind = "instr"
                                        /\ i = Instruction(source[reading][line])
      BY <2>2
    <3>2. Going' => loading' # "overlap"
      BY DEF Going
    <3> QED BY <1>0, <3>1, <3>2, PutStep
  <2> QED BY <2>1, <2>2
<1>3. RcTypes'
  <2>1. source' \in Sources /\ origin' \in Origins /\ reading' \in {1, 2} /\ line' \in Nat \ {0}
    BY <1>0 DEF RcTypes
  <2>2. loading' \in {"yes", "done", "failed", "overlap"}
    OBVIOUS
  <2> QED BY <1>2, <2>1, <2>2 DEF RcTypes
<1>4. InTurn'
  <2>1. reading' = 2 => entry'[1] >= 0
    BY <1>0, <1>2 DEF InTurn
  <2> QED BY <1>0, <1>2, <2>1 DEF InTurn
<1>5. ASSUME Going', NEW p \in {1, 2} PROVE Whole(p)' => SoFar(p)'
  <2>1. Whole(p) => SoFar(p)
    BY DEF RcInv, Going
  <2>2. p = reading /\ Whole(p) =>
               \/ source[p][line].kind = "comment" /\ nread'[p] = nread[p]
               \/ /\ source[p][line].kind = "instr" /\ nread'[p] = nread[p] + 1
                  /\ optab'[Cell(p, nread[p])] = [Instruction(source[p][line]) EXCEPT !.pid = p - 1]
    BY <1>2, <1>5
  <2>3. Stays /\ (p # reading => nread'[p] = nread[p])
    BY <1>2
  <2>4. RcTypes
    BY <1>0
  <2> QED BY <2>1, <2>2, <2>3, <2>4, LineRead
<1> QED BY <1>3, <1>4, <1>5 DEF RcInv

\* Every step keeps what has been loaded.
LEMMA RcStep == RedcodeAssumption /\ RcInv /\ [RcNext]_rcvars => RcInv'
<1> SUFFICES ASSUME RedcodeAssumption, RcInv, [RcNext]_rcvars PROVE RcInv'
  OBVIOUS
<1>0. RcTypes /\ InTurn /\ reading \in {1, 2} /\ Len(source[reading]) \in Nat /\ line \in Nat \ {0}
      /\ wrap \in BOOLEAN
  <2>1. RcTypes /\ InTurn /\ reading \in {1, 2} /\ line \in Nat \ {0}
    BY DEF RcInv, RcTypes
  <2>2. wrap \in BOOLEAN
    BY DEF RcInv, RcTypes
  <2> QED BY <2>1, <2>2, ProgramTypes
<1>00. \A n \in 1 .. Len(source[reading]) : source[reading][n] \in Lines
  BY <1>0, ProgramTypes
<1> DEFINE l == source[reading][line]
<1>1. CASE ReadInstr
  <2>1. /\ loading = "yes" /\ line <= Len(source[reading]) /\ l.kind = "instr"
        /\ Accept(rcgetop(l.word, l.fields))
        /\ reading' = reading /\ line' = line + 1 /\ UNCHANGED <<source, origin>> /\ wrap' = wrap
    BY <1>1 DEF ReadInstr, Text, NextLine, Stay
  <2>2. l \in Lines /\ line \in 1 .. Len(source[reading])
    BY <1>0, <1>00, <2>1
  <2>3. PICK i \in rcgetop(l.word, l.fields) :
            IF i \in {Exit, Crash} THEN loading' = "failed" /\ UNCHANGED <<optab, nread, entry>> ELSE Put(i)
    BY <2>1 DEF Accept
  <2>4. wrap' \in BOOLEAN
    BY <1>0, <2>1
  <2>5. CASE i \in {Exit, Crash}
    <3>1. loading' = "failed" /\ UNCHANGED <<optab, nread, entry>> /\ ~Going'
      BY <2>3, <2>5 DEF Going
    <3> QED BY <2>1, <2>4, <3>1, ReadStep
  <2>6. CASE i \notin {Exit, Crash}
    <3>1. Put(i) /\ Shaped(i) /\ i.pid = 0
      BY <2>1, <2>2, <2>3, <2>6, LineShape
    <3>2. Whole(reading) => l.kind = "instr" /\ i = Instruction(l)
      <4> SUFFICES ASSUME Whole(reading) PROVE i = Instruction(l)
        BY <2>1
      <4>1. rcfindop(l.word) >= 0 /\ Len(l.fields) >= g_rcnargtab(rcfindop(l.word))
        BY <2>1, <2>2 DEF Whole
      <4> HIDE DEF l
      <4>2. rcgetop(l.word, l.fields) = {Instruction(l)}
        BY <2>1, <2>2, <4>1, OneWay
      <4> QED BY <2>3, <4>2
    <3>3. loading' \in {"yes", "failed", "overlap"}
      BY <2>1, <3>1 DEF Put
    <3> QED BY <2>1, <2>4, <3>1, <3>2, <3>3, ReadStep
  <2> QED BY <2>5, <2>6
<1>2. CASE ReadComment
  <2>1. /\ loading = "yes" /\ line <= Len(source[reading]) /\ l.kind = "comment"
        /\ reading' = reading /\ line' = line + 1 /\ UNCHANGED <<source, origin>>
        /\ UNCHANGED <<nread, wrap, optab, entry, loading>>
    BY <1>2 DEF ReadComment, Text, NextLine, Stay
  <2>2. wrap' \in BOOLEAN
    BY <1>0, <2>1
  <2> QED BY <2>1, <2>2, ReadStep
<1>3. CASE ReadBlank
  <2>1. /\ loading = "yes" /\ line <= Len(source[reading]) /\ l.kind = "blank"
        /\ reading' = reading /\ line' = line + 1 /\ UNCHANGED <<source, origin>> /\ wrap' = TRUE
        /\ \/ UNCHANGED <<nread, optab, entry, loading>>
           \/ loading' = "failed" /\ UNCHANGED <<nread, optab, entry>>
           \/ \E r \in Remains : Put(Instr(CWOPDAT, r, r))
    BY <1>3 DEF ReadBlank, Text, NextLine, Stay
  <2>2. wrap' \in BOOLEAN
    BY <2>1
  <2>3. ~Whole(reading)
    <3>1. line \in 1 .. Len(source[reading])
      BY <1>0, <2>1
    <3> QED BY <2>1, <3>1 DEF Whole
  <2>4. CASE \E r \in Remains : Put(Instr(CWOPDAT, r, r))
    <3>1. PICK r \in Remains : Put(Instr(CWOPDAT, r, r))
      BY <2>4
    <3>2. r \in Operands /\ CWOPDAT \in Opcodes
      BY MnemonicsApart DEF RedcodeAssumption, CWOPDAT
    <3>3. Shaped(Instr(CWOPDAT, r, r)) /\ Instr(CWOPDAT, r, r).pid = 0
      BY <3>2, InstrShape
    <3>4. loading' \in {"yes", "failed", "overlap"}
      BY <2>1, <3>1 DEF Put
    <3> QED BY <2>1, <2>2, <2>3, <3>1, <3>3, <3>4, ReadStep
  <2>5. CASE UNCHANGED <<nread, optab, entry>> /\ loading' \in {"yes", "failed"}
    BY <2>1, <2>2, <2>3, <2>5, ReadStep
  <2> QED BY <2>1, <2>4, <2>5
<1>4. CASE SkipOther
  <2>1. /\ loading = "yes" /\ line <= Len(source[reading]) /\ l.kind = "other"
        /\ reading' = reading /\ line' = line + 1 /\ UNCHANGED <<source, origin>>
        /\ UNCHANGED <<nread, wrap, optab, entry, loading>>
    BY <1>4 DEF SkipOther, Text, NextLine, Stay
  <2>2. wrap' \in BOOLEAN
    BY <1>0, <2>1
  <2> QED BY <2>1, <2>2, ReadStep
<1>5. CASE FinishProgram
  <2>1. /\ loading = "yes" /\ (line <= Len(source[reading]) => l.kind = "other" /\ ~wrap)
        /\ IF entry[reading] < 0 THEN loading' = "failed" /\ UNCHANGED <<reading, line, wrap>>
           ELSE IF reading = 1 THEN reading' = 2 /\ line' = 1 /\ wrap' = FALSE /\ UNCHANGED loading
           ELSE loading' = "done" /\ UNCHANGED <<reading, line, wrap>>
        /\ UNCHANGED <<source, origin, nread, optab, entry>>
    BY <1>5 DEF FinishProgram, Text, Stay
  <2>2. entry[reading] \in Int
    BY <1>0 DEF RcTypes, CoreCells
  <2>3. Starts(1)' /\ Starts(2)'
    BY <1>0, <2>1 DEF InTurn, Starts
  <2>4. Whole(reading) => line = Len(source[reading]) + 1
    <3> SUFFICES ASSUME Whole(reading) PROVE line = Len(source[reading]) + 1
      OBVIOUS
    <3>1. line \notin 1 .. Len(source[reading])
      BY <2>1 DEF Whole
    <3>2. SoFar(reading)
      BY <1>0, <2>1 DEF RcInv, Going
    <3>3. NextOf(reading) = line
      BY <1>0 DEF NextOf
    <3> QED BY <1>0, <3>1, <3>2, <3>3 DEF SoFar
  <2>5. \A p \in {1, 2} : Whole(p) => SoFar(p)
    BY <2>1 DEF RcInv, Going
  <2>6. ASSUME NEW p \in {1, 2}, NextOf(p)' = NextOf(p), Whole(p)' PROVE SoFar(p)'
    <3>1. Whole(p)
      BY <2>1, <2>6 DEF Whole
    <3>2. SoFar(p)
      BY <2>5, <3>1
    <3>3. ASSUME NEW n PROVE Stands(p, n)' <=> Stands(p, n)
      BY <2>1 DEF Stands, Cell, InstrsBefore
    <3> QED BY <2>1, <2>6, <3>2, <3>3 DEF SoFar, InstrsBefore
  <2>7. CASE entry[reading] < 0
    <3>1. loading' = "failed" /\ UNCHANGED <<reading, line>> /\ wrap' = wrap
      BY <2>1, <2>7
    <3>2. RcTypes'
      BY <1>0, <2>1, <3>1 DEF RcTypes
    <3>3. InTurn' /\ ~Going'
      BY <1>0, <2>1, <2>3, <3>1 DEF InTurn, Going
    <3> QED BY <3>2, <3>3 DEF RcInv
  <2>8. CASE ~(entry[reading] < 0) /\ reading = 1
    <3>1. reading' = 2 /\ line' = 1 /\ wrap' = FALSE /\ loading' = "yes"
      BY <2>1, <2>8
    <3>2. RcTypes'
      <4>1. wrap' \in BOOLEAN
        BY <3>1
      <4>2. reading' \in {1, 2} /\ line' \in Nat \ {0} /\ loading' \in {"yes", "done", "failed", "overlap"}
        BY <3>1
      <4> QED BY <1>0, <2>1, <4>1, <4>2 DEF RcTypes
    <3>3. InTurn'
      BY <1>0, <2>1, <2>2, <2>3, <2>8, <3>1 DEF InTurn
    <3>4. NextOf(2)' = NextOf(2)
      BY <2>8, <3>1 DEF NextOf
    <3>5. Whole(1)' => NextOf(1)' = NextOf(1)
      <4>1. Whole(1)' => Whole(1)
        BY <2>1 DEF Whole
      <4> QED BY <2>1, <2>4, <2>8, <3>1, <4>1 DEF NextOf
    <3>6. (Whole(1)' => SoFar(1)') /\ (Whole(2)' => SoFar(2)')
      BY <2>6, <3>4, <3>5
    <3> QED BY <3>2, <3>3, <3>6 DEF RcInv
  <2>9. CASE ~(entry[reading] < 0) /\ reading = 2
    <3>1. reading' = reading /\ line' = line /\ wrap' = wrap /\ loading' = "done"
      BY <2>1, <2>9
    <3>2. RcTypes'
      BY <1>0, <2>1, <3>1 DEF RcTypes
    <3>3. Whole(2)' => line' = Len(source'[2]) + 1
      <4>1. Whole(2)' => Whole(2)
        BY <2>1 DEF Whole
      <4> QED BY <2>1, <2>4, <2>9, <3>1, <4>1
    <3>4. InTurn'
      BY <1>0, <2>1, <2>2, <2>3, <2>9, <3>1, <3>3 DEF InTurn
    <3>5. \A p \in {1, 2} : NextOf(p)' = NextOf(p)
      BY <2>1, <3>1 DEF NextOf
    <3>6. (Whole(1)' => SoFar(1)') /\ (Whole(2)' => SoFar(2)')
      BY <2>6, <3>5
    <3> QED BY <3>2, <3>4, <3>6 DEF RcInv
  <2> QED BY <1>0, <2>7, <2>8, <2>9
<1>6. CASE UNCHANGED rcvars
  <2>1. /\ source' = source /\ origin' = origin /\ reading' = reading /\ line' = line /\ nread' = nread
        /\ wrap' = wrap /\ optab' = optab /\ entry' = entry /\ loading' = loading
    BY <1>6 DEF rcvars
  <2>2. RcTypes' /\ InTurn'
    BY <1>0, <2>1 DEF RcTypes, InTurn, Starts, Whole
  <2>3. ASSUME NEW p \in {1, 2} PROVE (Whole(p)' <=> Whole(p)) /\ (SoFar(p)' <=> SoFar(p))
    BY <2>1 DEF Whole, SoFar, NextOf, InstrsBefore, Stands, Cell
  <2> QED BY <2>1, <2>2, <2>3 DEF RcInv, Going
<1> QED BY <1>1, <1>2, <1>3, <1>4, <1>5, <1>6 DEF RcNext

\* Once both programs are loaded, all their lines have been read.
LEMMA RcInvHolds == RedcodeAssumption /\ RcInv => RedcodeHolds
<1> SUFFICES ASSUME RedcodeAssumption, RcInv PROVE RedcodeHolds
  OBVIOUS
<1>1. RoundTrip
  <2> SUFFICES ASSUME NEW c \in CoreCells, Decs(optab[c]), Signs(optab[c])
               PROVE  \E j \in rcgetop(zeusdisasm(c)[2].word, zeusdisasm(c)[2].fields) : Same(optab[c], j)
    BY DEF RoundTrip, CoreCells
  <2>1. Shaped(optab[c]) /\ zeusdisasm(c)[2] = cwdisasm(optab[c])
    BY DEF RcInv, RcTypes, zeusdisasm
  <2> DEFINE i == optab[c]
  <2> HIDE DEF i
  <2>2. Shaped(i) /\ Decs(i) /\ Signs(i)
    BY <2>1 DEF i
  <2>3. \E j \in rcgetop(cwdisasm(i).word, cwdisasm(i).fields) : Same(i, j)
    BY <2>2, WrittenAgain
  <2> QED BY <2>1, <2>3 DEF i
<1>2. LoadedWhole
  <2> SUFFICES ASSUME loading = "done", NEW p \in {1, 2}, Whole(p)
               PROVE  /\ nread[p] = Cardinality(InstrsBefore(p, Len(source[p]) + 1))
                      /\ \A n \in 1 .. Len(source[p]) : source[p][n].kind = "instr" => Stands(p, n)
                      /\ optab[entry[p]].op # CWOPDAT /\ optab[entry[p]].pid = p - 1
    BY DEF LoadedWhole, Stands, Instruction
  <2>1. SoFar(p) /\ InTurn
    BY DEF RcInv, Going
  <2>2. reading = 2 /\ entry[p] >= 0
    BY <2>1 DEF InTurn
  <2>3. NextOf(p) = Len(source[p]) + 1
    BY <2>1, <2>2 DEF NextOf, InTurn
  <2>4. Len(source[p]) \in Nat
    BY ProgramTypes DEF RcInv
  <2>5. 1 .. NextOf(p) - 1 = 1 .. Len(source[p])
    BY <2>3, <2>4
  <2>6. optab[entry[p]].op # CWOPDAT /\ optab[entry[p]].pid = p - 1
    BY <2>1, <2>2 DEF InTurn, Starts
  <2> QED BY <2>1, <2>3, <2>5, <2>6 DEF SoFar
<1> QED BY <1>1, <1>2 DEF RedcodeHolds

\* Whatever the two programs and wherever they are loaded: the assembler has
\* both in the core, complete and in order, when it is done, and what it has
\* loaded the disassembler writes so that it is read as the same instruction.
THEOREM LoadedRight == RcSpec => []RedcodeHolds
<1>1. RedcodeAssumption
  BY RedcodeAssumption
<1>2. RcInit => RcInv
  BY <1>1, RcInitHolds
<1>3. RcInv /\ [RcNext]_rcvars => RcInv'
  BY <1>1, RcStep
<1>4. RcInv => RedcodeHolds
  BY <1>1, RcInvHolds
<1> QED BY <1>2, <1>3, <1>4, PTL DEF RcSpec
---------------------------------------------------------------------------
(* qsort sorts.                                                            *)

\* The part being divided, and the steps between which a part is.
Current == [low |-> low, high |-> high]
Dividing == step \in {"median", "approach", "divide"}
\* A part lies in the array and has five items or more, and two parts share none.
InArray(p) == p.low \in Nat /\ p.high \in Positions /\ p.high - p.low >= 4
Disjoint(p, q) == p.high < q.low \/ q.high < p.low
\* Nothing before a part is above anything in it, and nothing behind it below.
Bounded(f, p) ==
    \A i \in 0 .. p.high, j \in p.low .. items - 1 : i < p.low \/ j > p.high => f[i] <= f[j]
\* Nothing up to k is above anything behind it.
CutAt(f, k) == \A i \in 0 .. k, j \in k + 1 .. items - 1 : f[i] <= f[j]
\* The items of f are the ones given, each once, and g differs from f by an
\* exchange of items between lo and hi only.
Permuted(f) ==
    \E p \in [Positions -> 1 .. items] :
        /\ \A i, j \in Positions : p[i] = p[j] => i = j
        /\ \A k \in 1 .. items : \E i \in Positions : p[i] = k
        /\ \A i \in Positions : f[i] = given[p[i]]
Rearranged(f, g, lo, hi) ==
    /\ g \in [Positions -> Int]
    /\ \A k \in Positions : k < lo \/ k > hi => g[k] = f[k]
    /\ \A k \in lo .. hi : \E l \in lo .. hi : g[k] = f[l]

\* The parts of the invariant: the types; the parts put off are bounded and
\* apart; the least item is in a part that comes to the front, or within the
\* first five already; the two pointers have what is not above the pivot to
\* their left and what is not below it to their right; both parts are bounded
\* by each other; and the insertion sort's run is sorted behind the least item,
\* unless the partitions were skipped for more than five items.
SortTypes ==
    /\ given \in Inputs /\ size \in Sizes
    /\ step \in {"start", "median", "approach", "divide", "least", "insert", "sorted", "lost"}
    /\ item \in [Positions -> Int]
    /\ low \in Int /\ high \in Int /\ pivot \in Int /\ lptr \in Int /\ rptr \in Int /\ run \in Nat
    /\ stk \in Seq([low : Int, high : Int])
PutOff ==
    /\ Dividing =>
        /\ items > maxthres /\ Len(stk) >= 1
        /\ InArray(Current) /\ Bounded(item, Current)
        /\ \A k \in 2 .. Len(stk) :
            /\ InArray(stk[k]) /\ Bounded(item, stk[k]) /\ Disjoint(stk[k], Current)
            /\ \A l \in 2 .. Len(stk) : k # l => Disjoint(stk[k], stk[l])
    /\ ~Dividing => Len(stk) <= 1
LeastNear ==
    /\ Dividing =>
        \/ low = 0
        \/ \E k \in 2 .. Len(stk) : stk[k].low = 0
        \/ \E k \in 0 .. 4 : k < items /\ CutAt(item, k) /\ k < low /\ \A l \in 2 .. Len(stk) : k < stk[l].low
    /\ step = "least" =>
        /\ items > 1
        /\ items > maxthres => \E k \in 0 .. 4 : k < items /\ CutAt(item, k)
Approaching ==
    step = "approach" =>
        /\ low < pivot /\ pivot < high /\ low < lptr /\ lptr <= rptr /\ rptr < high
        /\ \A i \in low .. lptr - 1 : item[i] <= item[pivot]
        /\ \A j \in rptr + 1 .. high : item[pivot] <= item[j]
Parted ==
    step = "divide" =>
        /\ low <= rptr /\ rptr < lptr /\ lptr <= high /\ low < lptr /\ rptr < high
        /\ \A i \in low .. lptr - 1, j \in rptr + 1 .. high : i <= rptr \/ j >= lptr => item[i] <= item[j]
Partitioned == size = 1 \/ items <= 5 \/ items > maxthres
Inserting ==
    /\ step = "insert" =>
        /\ run \in 2 .. items - 1
        /\ \A i, j \in 0 .. run - 1 : i <= j => item[i] <= item[j]
        /\ Partitioned => \A j \in Positions : item[0] <= item[j]
    /\ step = "sorted" => \A i, j \in Positions : i <= j => item[i] <= item[j]
    /\ step = "lost" => ~Partitioned
SortInv ==
    SortTypes /\ Permuted(item) /\ PutOff /\ LeastNear /\ Approaching /\ Parted /\ Inserting

\* A set of naturals that is not empty has a least member.
LEMMA LeastIn ==
    ASSUME NEW T \in SUBSET Nat, T # {}
    PROVE  \E x \in T : \A y \in T : x <= y
<1>1. PICK x \in T : \A y \in T : ~(<<y, x>> \in OpToRel(<, Nat))
  BY NatLessThanWellFounded, WFMin, Zenon
<1>2. \A y \in T : ~(y < x)
  BY <1>1 DEF OpToRel
<1> QED
  BY <1>2

\* One that is bounded has a greatest.
LEMMA GreatestIn ==
    ASSUME NEW T \in SUBSET Nat, T # {}, NEW n \in Nat, \A x \in T : x <= n
    PROVE  \E x \in T : \A y \in T : y <= x
<1> DEFINE D == {n - x : x \in T}
<1>1. D \in SUBSET Nat /\ D # {}
  <2>1. \A x \in T : n - x \in Nat
    OBVIOUS
  <2>2. PICK x \in T : TRUE
    OBVIOUS
  <2>3. n - x \in D
    OBVIOUS
  <2> QED
    BY <2>1, <2>3
<1>2. PICK d \in D : \A e \in D : d <= e
  BY <1>1, LeastIn
<1>3. PICK x \in T : d = n - x
  BY <1>2
<1>4. \A y \in T : y <= x
  <2> SUFFICES ASSUME NEW y \in T PROVE y <= x
    OBVIOUS
  <2>1. n - y \in D
    OBVIOUS
  <2>2. n - x <= n - y
    BY <2>1, <1>2, <1>3
  <2> QED
    BY <2>2
<1> QED
  BY <1>4

\* The number of items and the threshold are naturals.
LEMMA ItemsNat == SortTypes => items \in Nat /\ given \in Seq(Int) /\ size \in Nat \ {0} /\ maxthres \in Nat /\ maxthres >= 4
<1> SUFFICES ASSUME SortTypes PROVE items \in Nat /\ given \in Seq(Int) /\ size \in Nat \ {0} /\ maxthres \in Nat /\ maxthres >= 4
  OBVIOUS
<1>1. given \in Seq(Int) /\ size \in Nat \ {0}
  BY QsortAssumption DEF SortTypes
<1>2. items \in Nat
  BY <1>1, LenProperties DEF items
<1> QED
  BY <1>1, <1>2 DEF maxthres

\* Two items change places, and no other does.
LEMMA SwappedIs ==
    ASSUME NEW f \in [Positions -> Int], NEW i \in Positions, NEW j \in Positions
    PROVE  /\ Swapped(f, i, j) \in [Positions -> Int]
           /\ Swapped(f, i, j)[i] = f[j] /\ Swapped(f, i, j)[j] = f[i]
           /\ \A k \in Positions : k # i /\ k # j => Swapped(f, i, j)[k] = f[k]
BY DEF Swapped

\* An exchange between two bounds changes nothing beyond them.
LEMMA SwappedWithin ==
    ASSUME NEW f \in [Positions -> Int], items \in Nat, NEW lo \in Nat, NEW hi \in Positions,
           NEW i \in lo .. hi, NEW j \in lo .. hi
    PROVE  Rearranged(f, Swapped(f, i, j), lo, hi)
<1>1. i \in Positions /\ j \in Positions
  BY DEF Positions
<1>2. \A k \in lo .. hi : k \in Positions
  BY DEF Positions
<1> DEFINE g == Swapped(f, i, j)
<1>3. g \in [Positions -> Int] /\ g[i] = f[j] /\ g[j] = f[i] /\ \A k \in Positions : k # i /\ k # j => g[k] = f[k]
  BY <1>1, SwappedIs
<1> HIDE DEF g
<1>4. \A k \in lo .. hi : \E l \in lo .. hi : g[k] = f[l]
  BY <1>2, <1>3
<1>5. \A k \in Positions : k < lo \/ k > hi => g[k] = f[k]
  BY <1>3 DEF Positions
<1> QED
  BY <1>3, <1>4, <1>5 DEF Rearranged, g

\* Two exchanges between the same bounds are one.
LEMMA RearrangedTwice ==
    ASSUME NEW f, NEW g, NEW h, NEW lo \in Nat, NEW hi \in Positions, items \in Nat,
           Rearranged(f, g, lo, hi), Rearranged(g, h, lo, hi)
    PROVE  Rearranged(f, h, lo, hi)
<1>1. \A k \in lo .. hi : \E l \in lo .. hi : h[k] = f[l]
  <2> SUFFICES ASSUME NEW k \in lo .. hi PROVE \E l \in lo .. hi : h[k] = f[l]
    OBVIOUS
  <2>1. PICK l \in lo .. hi : h[k] = g[l]
    BY DEF Rearranged
  <2>2. PICK m \in lo .. hi : g[l] = f[m]
    BY DEF Rearranged
  <2> QED
    BY <2>1, <2>2
<1> QED
  BY <1>1 DEF Rearranged

\* An exchange inside a part, or outside it, leaves the part bounded.
LEMMA BoundedKept ==
    ASSUME NEW f \in [Positions -> Int], NEW g, items \in Nat, NEW lo \in Nat, NEW hi \in Positions,
           Rearranged(f, g, lo, hi), NEW q \in [low : Int, high : Int], InArray(q), Bounded(f, q),
           q.high < lo \/ hi < q.low \/ (q.low = lo /\ q.high = hi)
    PROVE  Bounded(g, q)
<1> SUFFICES ASSUME NEW i \in 0 .. q.high, NEW j \in q.low .. items - 1, i < q.low \/ j > q.high
             PROVE  g[i] <= g[j]
  BY DEF Bounded
<1>1. i \in Positions /\ j \in Positions /\ q.low \in Nat /\ q.high \in 0 .. items - 1
  BY DEF InArray, Positions
<1>2. PICK a \in Positions : g[i] = f[a] /\ (IF i \in lo .. hi THEN a \in lo .. hi ELSE a = i)
  <2>1. CASE i \in lo .. hi
    <3>1. PICK a \in lo .. hi : g[i] = f[a]
      BY <2>1 DEF Rearranged
    <3> QED
      BY <3>1, <2>1 DEF Positions
  <2>2. CASE i \notin lo .. hi
    BY <2>2, <1>1 DEF Rearranged, Positions
  <2> QED
    BY <2>1, <2>2
<1>3. PICK b \in Positions : g[j] = f[b] /\ (IF j \in lo .. hi THEN b \in lo .. hi ELSE b = j)
  <2>1. CASE j \in lo .. hi
    <3>1. PICK b \in lo .. hi : g[j] = f[b]
      BY <2>1 DEF Rearranged
    <3> QED
      BY <3>1, <2>1 DEF Positions
  <2>2. CASE j \notin lo .. hi
    BY <2>2, <1>1 DEF Rearranged, Positions
  <2> QED
    BY <2>1, <2>2
<1>4. a \in 0 .. q.high /\ b \in q.low .. items - 1 /\ (a < q.low \/ b > q.high)
  <2>0. q.low \in Nat /\ q.high \in Nat /\ q.low < q.high /\ q.high < items /\ lo \in Nat /\ hi \in Nat
        /\ i \in Nat /\ j \in Nat /\ a \in Nat /\ b \in Nat /\ a < items /\ b < items
    BY <1>1, <1>2, <1>3, SMTT(30) DEF InArray, Positions
  <2>1. a \in 0 .. q.high /\ (i < q.low => a < q.low)
    BY <2>0, <1>2
  <2>2. b \in q.low .. items - 1 /\ (j > q.high => b > q.high)
    BY <2>0, <1>3
  <2> QED
    BY <2>1, <2>2
<1>5. f[a] <= f[b]
  BY <1>4 DEF Bounded
<1> QED
  BY <1>2, <1>3, <1>5

\* An exchange behind a cut leaves the cut.
LEMMA CutKept ==
    ASSUME NEW f \in [Positions -> Int], NEW g, items \in Nat, NEW lo \in Nat, NEW hi \in Positions,
           Rearranged(f, g, lo, hi), NEW k \in Nat, k < items, k < lo, CutAt(f, k)
    PROVE  CutAt(g, k)
<1> SUFFICES ASSUME NEW i \in 0 .. k, NEW j \in k + 1 .. items - 1 PROVE g[i] <= g[j]
  BY DEF CutAt
<1>1. g[i] = f[i]
  BY DEF Rearranged, Positions
<1>2. \E b \in k + 1 .. items - 1 : g[j] = f[b]
  <2>1. CASE j \in lo .. hi
    <3>1. PICK b \in lo .. hi : g[j] = f[b]
      BY <2>1 DEF Rearranged
    <3> QED
      BY <3>1, <2>1 DEF Positions
  <2>2. CASE j \notin lo .. hi
    BY <2>2 DEF Rearranged, Positions
  <2> QED
    BY <2>1, <2>2
<1>3. PICK b \in k + 1 .. items - 1 : g[j] = f[b]
  BY <1>2
<1>4. f[i] <= f[b]
  BY <1>3 DEF CutAt
<1> QED
  BY <1>1, <1>3, <1>4

\* An exchange leaves the items the ones given.
LEMMA PermutedSwap ==
    ASSUME NEW f \in [Positions -> Int], NEW i \in Positions, NEW j \in Positions, Permuted(f)
    PROVE  Permuted(Swapped(f, i, j))
<1>1. PICK p \in [Positions -> 1 .. items] :
        /\ \A k, l \in Positions : p[k] = p[l] => k = l
        /\ \A k \in 1 .. items : \E l \in Positions : p[l] = k
        /\ \A k \in Positions : f[k] = given[p[k]]
  BY DEF Permuted
<1> DEFINE q == [k \in Positions |-> IF k = i THEN p[j] ELSE IF k = j THEN p[i] ELSE p[k]]
<1>2. q \in [Positions -> 1 .. items]
  BY <1>1
<1>3. \A k, l \in Positions : q[k] = q[l] => k = l
  BY <1>1
<1>4. \A k \in 1 .. items : \E l \in Positions : q[l] = k
  <2> SUFFICES ASSUME NEW k \in 1 .. items PROVE \E l \in Positions : q[l] = k
    OBVIOUS
  <2>1. PICK l \in Positions : p[l] = k
    BY <1>1
  <2>2. CASE l = i
    BY <2>1, <2>2
  <2>3. CASE l = j
    BY <2>1, <2>3
  <2>4. CASE l # i /\ l # j
    BY <2>1, <2>4
  <2> QED
    BY <2>2, <2>3, <2>4
<1>5. \A k \in Positions : Swapped(f, i, j)[k] = given[q[k]]
  BY <1>1, SwappedIs
<1> QED
  BY <1>2, <1>3, <1>4, <1>5 DEF Permuted

\* Two items put in order are in order, and the rest stay.
LEMMA InOrder ==
    ASSUME NEW f \in [Positions -> Int], items \in Nat, NEW lo \in Nat, NEW hi \in Positions,
           NEW i \in lo .. hi, NEW j \in lo .. hi, i # j
    PROVE  /\ PutInOrder(f, i, j) \in [Positions -> Int]
           /\ Rearranged(f, PutInOrder(f, i, j), lo, hi)
           /\ Permuted(f) => Permuted(PutInOrder(f, i, j))
           /\ PutInOrder(f, i, j)[i] <= PutInOrder(f, i, j)[j]
           /\ \/ PutInOrder(f, i, j)[i] = f[i] /\ PutInOrder(f, i, j)[j] = f[j]
              \/ PutInOrder(f, i, j)[i] = f[j] /\ PutInOrder(f, i, j)[j] = f[i]
           /\ \A k \in Positions : k # i /\ k # j => PutInOrder(f, i, j)[k] = f[k]
<1>1. i \in Positions /\ j \in Positions
  BY DEF Positions
<1>2. CASE f[j] < f[i]
  <2>1. PutInOrder(f, i, j) = Swapped(f, i, j)
    BY <1>2 DEF PutInOrder
  <2> QED
    BY <2>1, <1>1, <1>2, SwappedIs, SwappedWithin, PermutedSwap
<1>3. CASE ~(f[j] < f[i])
  <2>1. PutInOrder(f, i, j) = f
    BY <1>3 DEF PutInOrder
  <2>2. Rearranged(f, f, lo, hi)
    BY DEF Rearranged
  <2> QED
    BY <2>1, <2>2, <1>1, <1>3
<1> QED
  BY <1>2, <1>3

\* An exchange inside the current part keeps what is known of the parts put off
\* and of the least item.
LEMMA PartMoves ==
    ASSUME SortInv, Dividing, Rearranged(item, item', low, high),
           UNCHANGED <<given, size, low, high, stk>>, step' \in {"approach", "divide"}
    PROVE  PutOff' /\ LeastNear'
<1>1. items' = items /\ Positions' = Positions /\ maxthres' = maxthres /\ Current' = Current
  BY DEF items, Positions, maxthres, Current
<1>2. items \in Nat /\ item \in [Positions -> Int] /\ low \in Nat /\ high \in Positions
      /\ stk \in Seq([low : Int, high : Int])
  BY ItemsNat DEF SortInv, SortTypes, PutOff, InArray, Current
<1>3. Current \in [low : Int, high : Int] /\ Current.low = low /\ Current.high = high
  BY <1>2 DEF Current, Positions
<1>4. Bounded(item', Current)
  BY <1>2, <1>3, BoundedKept DEF SortInv, PutOff
<1>5. \A k \in 2 .. Len(stk) : Bounded(item', stk[k])
  <2> SUFFICES ASSUME NEW k \in 2 .. Len(stk) PROVE Bounded(item', stk[k])
    OBVIOUS
  <2>0. k \in 1 .. Len(stk)
    BY <1>2, LenProperties
  <2>1. stk[k] \in [low : Int, high : Int]
    BY <2>0, <1>2, ElementOfSeq
  <2>2. InArray(stk[k]) /\ Bounded(item, stk[k]) /\ Disjoint(stk[k], Current)
    BY DEF SortInv, PutOff
  <2>3. stk[k].high < low \/ high < stk[k].low
    BY <2>2, <1>3 DEF Disjoint
  <2> QED
    BY <2>1, <2>2, <2>3, <1>2, BoundedKept
<1>6. PutOff'
  <2>1. Dividing'
    BY DEF Dividing
  <2>2. \A p : Bounded(item', p) => Bounded(item, p)'
    BY <1>1 DEF Bounded
  <2>3. \A p : InArray(p)' <=> InArray(p)
    BY <1>1 DEF InArray
  <2> QED
    BY <2>1, <2>2, <2>3, <1>1, <1>4, <1>5 DEF SortInv, PutOff
<1>7. LeastNear'
  <2>1. CASE low = 0
    BY <2>1 DEF LeastNear
  <2>2. CASE \E k \in 2 .. Len(stk) : stk[k].low = 0
    BY <2>2 DEF LeastNear
  <2>3. CASE \E k \in 0 .. 4 : k < items /\ CutAt(item, k) /\ k < low /\ \A l \in 2 .. Len(stk) : k < stk[l].low
    <3>1. PICK k \in 0 .. 4 : k < items /\ CutAt(item, k) /\ k < low /\ \A l \in 2 .. Len(stk) : k < stk[l].low
      BY <2>3
    <3>2. CutAt(item', k)
      BY <3>1, <1>2, CutKept
    <3>3. CutAt(item, k)'
      BY <3>2, <1>1 DEF CutAt
    <3> QED
      BY <3>1, <3>3, <1>1 DEF LeastNear
  <2> QED
    BY <2>1, <2>2, <2>3 DEF SortInv, LeastNear
<1> QED
  BY <1>6, <1>7

\* The whole array is the first part.
LEMMA BeginKeeps == SortInv /\ Begin => SortInv'
<1> SUFFICES ASSUME SortInv, Begin PROVE SortInv'
  OBVIOUS
<1>1. items' = items /\ Positions' = Positions /\ maxthres' = maxthres /\ item' = item
  BY DEF items, Positions, maxthres, Begin
<1>2. items \in Nat /\ maxthres \in Nat /\ maxthres >= 4
  BY ItemsNat DEF SortInv
<1>3. stk' \in Seq([low : Int, high : Int]) /\ Len(stk') <= 1
      /\ (items > 1 => Len(stk') = 1)
  <2>1. Bottom \in [low : Int, high : Int]
    BY DEF Bottom
  <2>2. <<Bottom>> \in Seq([low : Int, high : Int]) /\ Len(<<Bottom>>) = 1
    BY <2>1
  <2>3. <<>> \in Seq([low : Int, high : Int]) /\ Len(<<>>) = 0
    OBVIOUS
  <2>4. stk' = IF items <= 1 THEN <<>> ELSE <<Bottom>>
    BY DEF Begin
  <2>5. CASE items <= 1
    BY <2>3, <2>4, <2>5, <1>2
  <2>6. CASE ~(items <= 1)
    BY <2>2, <2>4, <2>6
  <2> QED
    BY <2>5, <2>6
<1>4. SortTypes'
  BY <1>1, <1>2, <1>3 DEF SortInv, SortTypes, Begin
<1>5. Permuted(item)'
  BY <1>1 DEF SortInv, Permuted, Begin
<1>6. PutOff'
  <2>1. ASSUME Dividing' PROVE items > maxthres /\ items > 1 /\ low' = 0 /\ high' = items - 1
    BY <2>1, <1>2 DEF Begin, Dividing
  <2>2. ASSUME Dividing' PROVE InArray(Current)' /\ Bounded(item, Current)'
    BY <2>1, <2>2, <1>1, <1>2 DEF InArray, Bounded, Current, Positions
  <2> QED
    BY <2>1, <2>2, <1>1, <1>3 DEF PutOff
<1>7. LeastNear'
  BY <1>1, <1>2 DEF LeastNear, Begin, Dividing
<1>8. Approaching' /\ Parted'
  BY DEF Begin, Approaching, Parted
<1>9. Inserting'
  <2>1. step' \notin {"insert", "lost"} /\ (step' = "sorted" => items <= 1)
    BY <1>2 DEF Begin
  <2>2. items <= 1 => \A i, j \in Positions : i = j
    BY <1>2 DEF Positions
  <2>3. \A i \in Positions : item[i] <= item[i]
    BY DEF SortInv, SortTypes
  <2>4. step' = "sorted" => \A i, j \in Positions : item[i] <= item[j]
    BY <2>1, <2>2, <2>3
  <2> QED
    BY <1>1, <2>1, <2>4 DEF Inserting
<1> QED
  BY <1>4, <1>5, <1>6, <1>7, <1>8, <1>9 DEF SortInv

\* The median of three stands between the pointers, with an item on each side
\* that stops them.
LEMMA MedianKeeps == SortInv /\ Median => SortInv'
<1> SUFFICES ASSUME SortInv, Median PROVE SortInv'
  OBVIOUS
<1>1. items' = items /\ Positions' = Positions /\ maxthres' = maxthres
  BY DEF items, Positions, maxthres, Median
<1>2. items \in Nat /\ item \in [Positions -> Int] /\ low \in Nat /\ high \in Positions /\ high - low >= 4
  BY ItemsNat DEF SortInv, SortTypes, PutOff, InArray, Current, Dividing, Median
<1>3. pivot' \in Nat /\ low < pivot' /\ pivot' < high
  BY <1>2 DEF Median, Positions
<1>4. low \in low .. high /\ high \in low .. high /\ pivot' \in low .. high
      /\ low \in Positions /\ high \in Positions /\ pivot' \in Positions
  BY <1>2, <1>3 DEF Positions
<1> DEFINE p == pivot'
           one == PutInOrder(item, low, p)
           two == Swapped(one, p, high)
           three == PutInOrder(two, low, p)
<1>5. item' = IF one[high] < one[p] THEN three ELSE one
  BY DEF Median
<1> HIDE DEF p
<1>p. p = pivot'
  BY DEF p
<1>6. /\ one \in [Positions -> Int] /\ Rearranged(item, one, low, high) /\ Permuted(one)
      /\ one[low] <= one[p] /\ \A k \in Positions : k # low /\ k # p => one[k] = item[k]
  BY <1>2, <1>3, <1>4, <1>p, InOrder DEF SortInv
<1> HIDE DEF one
<1>7. /\ two \in [Positions -> Int] /\ Rearranged(one, two, low, high) /\ Permuted(two)
      /\ two[p] = one[high] /\ two[high] = one[p] /\ two[low] = one[low]
  BY <1>2, <1>3, <1>4, <1>6, <1>p, SwappedIs, SwappedWithin, PermutedSwap
<1> HIDE DEF two
<1>8. /\ three \in [Positions -> Int] /\ Rearranged(two, three, low, high) /\ Permuted(three)
      /\ three[low] <= three[p] /\ three[high] = two[high]
      /\ (three[p] = two[p] \/ three[p] = two[low])
  BY <1>2, <1>3, <1>4, <1>7, <1>p, InOrder
<1> HIDE DEF three
<1>9. Rearranged(item, item', low, high) /\ Permuted(item') /\ item' \in [Positions -> Int]
  <2>1. CASE one[high] < one[p]
    <3>1. Rearranged(item, two, low, high)
      BY <1>2, <1>6, <1>7, RearrangedTwice
    <3>2. Rearranged(item, three, low, high)
      BY <1>2, <1>8, <3>1, RearrangedTwice
    <3> QED
      BY <2>1, <3>2, <1>5, <1>8
  <2>2. CASE ~(one[high] < one[p])
    BY <2>2, <1>5, <1>6
  <2> QED
    BY <2>1, <2>2
<1>10. item'[low] <= item'[p] /\ item'[p] <= item'[high]
  <2>0. one[low] \in Int /\ one[high] \in Int /\ one[p] \in Int /\ three[p] \in Int /\ three[low] \in Int
    BY <1>6, <1>8, <1>4, <1>p
  <2>1. CASE one[high] < one[p]
    BY <2>0, <2>1, <1>5, <1>6, <1>7, <1>8
  <2>2. CASE ~(one[high] < one[p])
    BY <2>0, <2>2, <1>5, <1>6
  <2> QED
    BY <2>1, <2>2
<1>11. UNCHANGED <<given, size, low, high, stk, run>> /\ step' = "approach" /\ lptr' = low + 1 /\ rptr' = high - 1
       /\ Dividing
  BY DEF Median, Dividing
<1>12. PutOff' /\ LeastNear'
  BY <1>9, <1>11, PartMoves
<1>13. SortTypes'
  BY <1>1, <1>2, <1>3, <1>9, <1>11 DEF SortInv, SortTypes, Positions
<1>14. Permuted(item)'
  BY <1>1, <1>9, <1>11 DEF Permuted
<1>15. Approaching'
  <2>1. \A i \in low .. low : item'[i] <= item'[pivot']
    BY <1>10, <1>p, <1>2
  <2>2. \A j \in high .. high : item'[pivot'] <= item'[j]
    BY <1>10, <1>p, <1>2, <1>4
  <2>3. lptr' - 1 = low /\ rptr' + 1 = high
    BY <1>11, <1>2 DEF Positions
  <2> QED
    BY <1>2, <1>3, <1>11, <2>1, <2>2, <2>3 DEF Approaching, Positions
<1>16. Parted' /\ Inserting'
  BY <1>11 DEF Parted, Inserting
<1> QED
  BY <1>12, <1>13, <1>14, <1>15, <1>16 DEF SortInv

\* The search from the left ends at or before the item behind the right pointer.
LEMMA LeftStops ==
    ASSUME SortInv, step = "approach"
    PROVE  /\ FromLeft \in lptr .. rptr + 1
           /\ item[FromLeft] >= item[pivot]
           /\ \A j \in lptr .. FromLeft - 1 : item[j] < item[pivot]
<1>1. items \in Nat /\ item \in [Positions -> Int] /\ low \in Nat /\ high \in Positions /\ lptr \in Int /\ rptr \in Int
  BY ItemsNat DEF SortInv, SortTypes, PutOff, InArray, Current, Dividing
<1>2. low < pivot /\ pivot < high /\ low < lptr /\ lptr <= rptr /\ rptr < high /\ pivot \in Positions
      /\ rptr + 1 \in Positions /\ item[pivot] <= item[rptr + 1]
  BY <1>1 DEF SortInv, SortTypes, Approaching, Positions
<1> DEFINE L == {i \in Positions : i >= lptr /\ item[i] >= item[pivot]}
<1>3. L \in SUBSET Nat /\ rptr + 1 \in L
  BY <1>1, <1>2 DEF Positions
<1>4. PICK x \in L : \A y \in L : x <= y
  BY <1>3, LeastIn
<1>5. \A j \in lptr .. x - 1 : item[j] < item[pivot]
  <2> SUFFICES ASSUME NEW j \in lptr .. x - 1, ~(item[j] < item[pivot]) PROVE FALSE
    OBVIOUS
  <2>1. j \in Positions /\ x \in Nat /\ j < x
    BY <1>1, <1>2, <1>4 DEF Positions
  <2>2. j \in L
    BY <2>1, <1>1, <1>2
  <2> QED
    BY <2>1, <2>2, <1>4
<1>6. /\ FromLeft \in Positions /\ FromLeft >= lptr /\ item[FromLeft] >= item[pivot]
      /\ \A j \in lptr .. FromLeft - 1 : item[j] < item[pivot]
  BY <1>4, <1>5 DEF FromLeft
<1> HIDE DEF FromLeft
<1>7. FromLeft <= rptr + 1
  <2> SUFFICES ASSUME ~(FromLeft <= rptr + 1) PROVE FALSE
    OBVIOUS
  <2>1. rptr + 1 \in lptr .. FromLeft - 1
    BY <1>1, <1>2, <1>6 DEF Positions
  <2>2. item[rptr + 1] < item[pivot]
    BY <2>1, <1>6
  <2>3. item[rptr + 1] \in Int /\ item[pivot] \in Int
    BY <1>1, <1>2
  <2> QED
    BY <2>2, <2>3, <1>2
<1> QED
  BY <1>1, <1>6, <1>7 DEF Positions

\* The search from the right ends at or behind the item before the left pointer.
LEMMA RightStops ==
    ASSUME SortInv, step = "approach"
    PROVE  /\ FromRight \in lptr - 1 .. rptr
           /\ item[FromRight] <= item[pivot]
           /\ \A j \in FromRight + 1 .. rptr : item[j] > item[pivot]
<1>1. items \in Nat /\ item \in [Positions -> Int] /\ low \in Nat /\ high \in Positions /\ lptr \in Int /\ rptr \in Int
  BY ItemsNat DEF SortInv, SortTypes, PutOff, InArray, Current, Dividing
<1>2. low < pivot /\ pivot < high /\ low < lptr /\ lptr <= rptr /\ rptr < high /\ pivot \in Positions
      /\ lptr - 1 \in Positions /\ item[lptr - 1] <= item[pivot]
  BY <1>1 DEF SortInv, SortTypes, Approaching, Positions
<1> DEFINE R == {i \in Positions : i <= rptr /\ item[i] <= item[pivot]}
<1>3. R \in SUBSET Nat /\ lptr - 1 \in R /\ rptr \in Nat /\ \A x \in R : x <= rptr
  BY <1>1, <1>2 DEF Positions
<1>4. PICK x \in R : \A y \in R : y <= x
  BY <1>3, GreatestIn
<1>5. \A j \in x + 1 .. rptr : item[j] > item[pivot]
  <2> SUFFICES ASSUME NEW j \in x + 1 .. rptr, ~(item[j] > item[pivot]) PROVE FALSE
    OBVIOUS
  <2>1. j \in Positions /\ x \in Nat /\ x < j /\ j <= rptr
    BY <1>1, <1>2, <1>4 DEF Positions
  <2>2. j \in R
    BY <2>1, <1>1, <1>2
  <2> QED
    BY <2>1, <2>2, <1>4
<1>6. /\ FromRight \in Positions /\ FromRight <= rptr /\ item[FromRight] <= item[pivot]
      /\ \A j \in FromRight + 1 .. rptr : item[j] > item[pivot]
  BY <1>4, <1>5 DEF FromRight
<1> HIDE DEF FromRight
<1>7. lptr - 1 <= FromRight
  <2> SUFFICES ASSUME ~(lptr - 1 <= FromRight) PROVE FALSE
    OBVIOUS
  <2>1. lptr - 1 \in FromRight + 1 .. rptr
    BY <1>1, <1>2, <1>6 DEF Positions
  <2>2. item[lptr - 1] > item[pivot]
    BY <2>1, <1>6
  <2>3. item[lptr - 1] \in Int /\ item[pivot] \in Int
    BY <1>1, <1>2
  <2> QED
    BY <2>2, <2>3, <1>2
<1> QED
  BY <1>1, <1>6, <1>7 DEF Positions

\* A round of the inner loop, with its exchange or without, and the pivot followed
\* where it moves.
LEMMA ApproachKeeps == SortInv /\ Approach => SortInv'
<1> SUFFICES ASSUME SortInv, Approach PROVE SortInv'
  OBVIOUS
<1> DEFINE l == FromLeft
           r == FromRight
<1>s. step = "approach" /\ UNCHANGED <<given, size, low, high, stk, run>>
  BY DEF Approach
<1>0. items' = items /\ Positions' = Positions /\ maxthres' = maxthres
  BY <1>s DEF items, Positions, maxthres
<1>1. items \in Nat /\ item \in [Positions -> Int] /\ low \in Nat /\ high \in Positions /\ lptr \in Int /\ rptr \in Int
  BY <1>s, ItemsNat DEF SortInv, SortTypes, PutOff, InArray, Current, Dividing
<1>2. low < pivot /\ pivot < high /\ low < lptr /\ lptr <= rptr /\ rptr < high /\ pivot \in Positions
  BY <1>1, <1>s DEF SortInv, SortTypes, Approaching, Positions
<1>3. /\ l \in lptr .. rptr + 1 /\ item[l] >= item[pivot]
      /\ \A j \in lptr .. l - 1 : item[j] < item[pivot]
  BY <1>s, LeftStops
<1>4. /\ r \in lptr - 1 .. rptr /\ item[r] <= item[pivot]
      /\ \A j \in r + 1 .. rptr : item[j] > item[pivot]
  BY <1>s, RightStops
<1>5. /\ item' = IF l < r THEN Swapped(item, l, r) ELSE item
      /\ pivot' = IF l < r /\ pivot = l THEN r ELSE IF l < r /\ pivot = r THEN l ELSE pivot
      /\ lptr' = IF l <= r THEN l + 1 ELSE l
      /\ rptr' = IF l <= r THEN r - 1 ELSE r
      /\ step' = IF l < r /\ l + 1 <= r - 1 THEN "approach" ELSE "divide"
  BY DEF Approach
<1> HIDE DEF l, r
<1>6. l \in Int /\ r \in Int /\ l \in Positions /\ r \in Positions /\ l \in low .. high /\ r \in low .. high
      /\ low < l /\ l <= high /\ low <= r /\ r < high
  BY <1>1, <1>2, <1>3, <1>4 DEF Positions
<1>7. \A k \in low .. high : k \in Positions /\ item[k] \in Int
  BY <1>1 DEF Positions
<1>v. item[pivot] \in Int /\ item[l] \in Int /\ item[r] \in Int
  BY <1>1, <1>2, <1>6
<1>8. \A i \in low .. l - 1 : item[i] <= item[pivot]
  <2> SUFFICES ASSUME NEW i \in low .. l - 1 PROVE item[i] <= item[pivot]
    OBVIOUS
  <2>1. i \in low .. lptr - 1 \/ i \in lptr .. l - 1
    BY <1>1, <1>6
  <2>2. i \in low .. high
    BY <1>1, <1>6 DEF Positions
  <2>3. i \in low .. lptr - 1 => item[i] <= item[pivot]
    BY <1>s DEF SortInv, Approaching
  <2> QED
    BY <2>1, <2>2, <2>3, <1>3, <1>7, <1>v
<1>9. \A j \in r + 1 .. high : item[pivot] <= item[j]
  <2> SUFFICES ASSUME NEW j \in r + 1 .. high PROVE item[pivot] <= item[j]
    OBVIOUS
  <2>1. j \in rptr + 1 .. high \/ j \in r + 1 .. rptr
    BY <1>1, <1>6
  <2>2. j \in low .. high
    BY <1>1, <1>6 DEF Positions
  <2>3. j \in rptr + 1 .. high => item[pivot] <= item[j]
    BY <1>s DEF SortInv, Approaching
  <2> QED
    BY <2>1, <2>2, <2>3, <1>4, <1>7, <1>v
<1>10. item' \in [Positions -> Int] /\ Rearranged(item, item', low, high) /\ Permuted(item')
  <2>1. Rearranged(item, item, low, high)
    BY <1>1 DEF Rearranged
  <2>2. CASE l < r
    BY <2>2, <1>5, <1>1, <1>6, SwappedIs, SwappedWithin, PermutedSwap DEF SortInv
  <2>3. CASE ~(l < r)
    BY <2>1, <2>3, <1>5, <1>1 DEF SortInv
  <2> QED
    BY <2>2, <2>3
<1>11. PutOff' /\ LeastNear'
  <2>1. step' \in {"approach", "divide"}
    BY <1>5
  <2>2. Dividing
    BY <1>s DEF Dividing
  <2> QED
    BY <2>1, <2>2, <1>s, <1>10, PartMoves
<1>12. Permuted(item)'
  BY <1>0, <1>10, <1>s DEF Permuted
<1>13. pivot' \in Int /\ lptr' \in Int /\ rptr' \in Int /\ low < pivot' /\ pivot' < high
  BY <1>1, <1>2, <1>5, <1>6, <1>3, <1>4 DEF Positions
<1>14. SortTypes'
  BY <1>0, <1>5, <1>10, <1>13, <1>s DEF SortInv, SortTypes
<1>15. /\ \A i \in low .. lptr' - 1 : item'[i] <= item[pivot]
       /\ \A j \in rptr' + 1 .. high : item[pivot] <= item'[j]
       /\ (l < r => item'[pivot'] = item[pivot])
  <2>1. CASE l < r
    <3>1. lptr' = l + 1 /\ rptr' = r - 1 /\ item'[l] = item[r] /\ item'[r] = item[l]
          /\ \A k \in Positions : k # l /\ k # r => item'[k] = item[k]
      BY <2>1, <1>5, <1>1, <1>6, SwappedIs
    <3>2. \A i \in low .. lptr' - 1 : item'[i] <= item[pivot]
      <4> SUFFICES ASSUME NEW i \in low .. l PROVE item'[i] <= item[pivot]
        BY <3>1, <1>6
      <4>1. CASE i = l
        BY <4>1, <3>1, <1>4
      <4>2. CASE i # l
        <5>1. i \in low .. l - 1 /\ i # r /\ i \in low .. high
          BY <4>2, <2>1, <1>1, <1>6 DEF Positions
        <5>2. item'[i] = item[i]
          BY <5>1, <4>2, <3>1, <1>7
        <5> QED
          BY <5>1, <5>2, <1>8
      <4> QED
        BY <4>1, <4>2
    <3>3. \A j \in rptr' + 1 .. high : item[pivot] <= item'[j]
      <4> SUFFICES ASSUME NEW j \in r .. high PROVE item[pivot] <= item'[j]
        BY <3>1, <1>6
      <4>1. CASE j = r
        BY <4>1, <3>1, <1>3, <1>v
      <4>2. CASE j # r
        <5>1. j \in r + 1 .. high /\ j # l /\ j \in low .. high
          BY <4>2, <2>1, <1>1, <1>6 DEF Positions
        <5>2. item'[j] = item[j]
          BY <5>1, <4>2, <3>1, <1>7
        <5> QED
          BY <5>1, <5>2, <1>9
      <4> QED
        BY <4>1, <4>2
    <3>4. item'[pivot'] = item[pivot]
      BY <3>1, <2>1, <1>5, <1>2
    <3> QED
      BY <3>2, <3>3, <3>4
  <2>2. CASE l = r
    <3>1. lptr' = l + 1 /\ rptr' = l - 1 /\ item' = item
      BY <2>2, <1>5, <1>6
    <3>2. \A i \in low .. l : i = l \/ i \in low .. l - 1
      BY <1>1, <1>6
    <3>3. \A j \in l .. high : j = l \/ j \in r + 1 .. high
      BY <2>2, <1>1, <1>6 DEF Positions
    <3>4. \A i \in low .. l : item[i] <= item[pivot]
      BY <3>2, <2>2, <1>4, <1>8
    <3>5. \A j \in l .. high : item[pivot] <= item[j]
      BY <3>3, <1>3, <1>9, <1>v
    <3>6. lptr' - 1 = l /\ rptr' + 1 = l
      BY <3>1, <1>6
    <3> QED
      BY <2>2, <3>1, <3>4, <3>5, <3>6, <1>6
  <2>3. CASE l > r
    <3>1. lptr' = l /\ rptr' = r /\ item' = item
      BY <2>3, <1>5, <1>6
    <3> QED
      BY <2>3, <3>1, <1>6, <1>8, <1>9
  <2> QED
    BY <2>1, <2>2, <2>3, <1>6
<1>16. Approaching'
  <2> SUFFICES ASSUME step' = "approach" PROVE Approaching'
    BY DEF Approaching
  <2>1. l < r /\ l + 1 <= r - 1 /\ lptr' = l + 1 /\ rptr' = r - 1
    BY <1>5, <1>6
  <2>2. low < lptr' /\ lptr' <= rptr' /\ rptr' < high
    BY <2>1, <1>6, <1>1 DEF Positions
  <2> QED
    BY <2>1, <2>2, <1>13, <1>15, <1>s DEF Approaching
<1>17. Parted'
  <2> SUFFICES ASSUME step' = "divide" PROVE Parted'
    BY DEF Parted
  <2>1. low <= rptr' /\ rptr' < lptr' /\ lptr' <= high /\ low < lptr' /\ rptr' < high
    BY <1>5, <1>6, <1>1, <1>2, <1>3, <1>4 DEF Positions
  <2>2. ASSUME NEW i \in low .. lptr' - 1, NEW j \in rptr' + 1 .. high PROVE item'[i] <= item'[j]
    <3>1. item'[i] <= item[pivot] /\ item[pivot] <= item'[j]
      BY <1>15
    <3>0. low \in Int /\ high \in Int /\ lptr' \in Int /\ rptr' \in Int
      BY <1>1, <1>13 DEF Positions
    <3>4. \A a, b, c, d \in Int : a <= d /\ d < c /\ c <= b /\ a < c /\ d < b =>
              (\A k \in a .. c - 1 : k \in a .. b) /\ (\A k \in d + 1 .. b : k \in a .. b)
      OBVIOUS
    <3>2. i \in low .. high /\ j \in low .. high
      BY <2>1, <3>0, <3>4
    <3>3. i \in Positions /\ j \in Positions
      BY <3>2, <1>7
    <3> QED
      BY <3>1, <3>3, <1>10, <1>v
  <2> QED
    BY <2>1, <2>2, <1>s DEF Parted
<1>18. Inserting'
  BY <1>5 DEF Inserting
<1> QED
  BY <1>11, <1>12, <1>14, <1>16, <1>17, <1>18 DEF SortInv

\* A part is small where it has five items or fewer, whatever the size of an item.
LEMMA WithinIs ==
    ASSUME SortInv, NEW d \in Int
    PROVE  /\ Within(d) => d \in 0 .. 4
           /\ ~Within(d) /\ d >= 0 => d >= 5
<1>1. size \in Nat \ {0}
  BY ItemsNat DEF SortInv
<1>2. ASSUME d >= 5 PROVE d * size > 4 * size
  <2>1. d * size = (d - 5) * size + 5 * size
    BY <1>1
  <2>2. (d - 5) * size >= 0
    BY <1>1, <1>2
  <2>3. (d - 5) * size \in Int /\ d * size \in Int
    BY <1>1
  <2> QED
    BY <2>1, <2>2, <2>3, <1>1
<1>3. ASSUME d \in 0 .. 4 PROVE d * size <= 4 * size
  <2>1. d = 0 \/ d = 1 \/ d = 2 \/ d = 3 \/ d = 4
    BY <1>3
  <2> QED
    BY <2>1, <1>1
<1>4. d * size \in Int /\ 4 * size \in Int
  BY <1>1
<1>5. d \in 0 .. 4 \/ d < 0 \/ d >= 5
  OBVIOUS
<1>6. Within(d) <=> d >= 0 /\ d * size <= 4 * size
  BY DEF Within, maxthres
<1> QED
  BY <1>2, <1>3, <1>4, <1>5, <1>6

\* What the division leaves: two parts, each bounded, apart from each other and
\* from the parts put off.
LEMMA TwoParts ==
    ASSUME SortInv, step = "divide",
           NEW lpart, lpart = [low |-> low, high |-> rptr],
           NEW rpart, rpart = [low |-> lptr, high |-> high]
    PROVE  /\ lpart \in [low : Int, high : Int] /\ rpart \in [low : Int, high : Int]
           /\ Bounded(item, lpart) /\ Bounded(item, rpart) /\ Disjoint(lpart, rpart)
           /\ ~Within(rptr - low) => InArray(lpart)
           /\ ~Within(high - lptr) => InArray(rpart)
           /\ \A q \in [low : Int, high : Int] : Disjoint(q, Current) => Disjoint(q, lpart) /\ Disjoint(q, rpart)
           /\ Within(rptr - low) /\ low = 0 =>
                rptr \in 0 .. 4 /\ rptr < items /\ CutAt(item, rptr)
           /\ low \in Nat /\ low < lptr /\ rptr < lptr /\ lptr <= high /\ high \in Nat /\ rptr < high /\ low <= rptr
<1>1. items \in Nat /\ item \in [Positions -> Int] /\ low \in Nat /\ high \in Nat /\ lptr \in Int /\ rptr \in Int /\ high < items
  BY ItemsNat DEF SortInv, SortTypes, PutOff, InArray, Current, Dividing, Positions
<1>2. low <= rptr /\ rptr < lptr /\ lptr <= high /\ low < lptr /\ rptr < high
  BY DEF SortInv, Parted
<1>3. \A i \in 0 .. high, j \in low .. items - 1 : i < low \/ j > high => item[i] <= item[j]
  BY DEF SortInv, PutOff, Bounded, Current, Dividing
<1>4. \A i \in low .. lptr - 1, j \in rptr + 1 .. high : i <= rptr \/ j >= lptr => item[i] <= item[j]
  BY DEF SortInv, Parted
<1>5. \A i \in 0 .. rptr, j \in low .. items - 1 : i < low \/ j > rptr => item[i] <= item[j]
  <2> SUFFICES ASSUME NEW i \in 0 .. rptr, NEW j \in low .. items - 1, i < low \/ j > rptr PROVE item[i] <= item[j]
    OBVIOUS
  <2>1. CASE i < low \/ j > high
    BY <2>1, <1>1, <1>2, <1>3
  <2>2. CASE ~(i < low \/ j > high)
    BY <2>2, <1>1, <1>2, <1>4
  <2> QED
    BY <2>1, <2>2
<1>6. \A i \in 0 .. high, j \in lptr .. items - 1 : i < lptr \/ j > high => item[i] <= item[j]
  <2> SUFFICES ASSUME NEW i \in 0 .. high, NEW j \in lptr .. items - 1, i < lptr \/ j > high PROVE item[i] <= item[j]
    OBVIOUS
  <2>1. CASE i < low \/ j > high
    BY <2>1, <1>1, <1>2, <1>3
  <2>2. CASE ~(i < low \/ j > high)
    BY <2>2, <1>1, <1>2, <1>4
  <2> QED
    BY <2>1, <2>2
<1>7. Bounded(item, lpart) /\ Bounded(item, rpart)
  BY <1>5, <1>6 DEF Bounded
<1>8. ~Within(rptr - low) => InArray(lpart)
  <2>1. ~Within(rptr - low) => rptr - low >= 5
    BY <1>1, <1>2, WithinIs
  <2> QED
    BY <2>1, <1>1, <1>2 DEF InArray, Positions
<1>9. ~Within(high - lptr) => InArray(rpart)
  <2>1. ~Within(high - lptr) => high - lptr >= 5
    BY <1>1, <1>2, WithinIs
  <2> QED
    BY <2>1, <1>1, <1>2 DEF InArray, Positions
<1>10. \A q \in [low : Int, high : Int] : Disjoint(q, Current) => Disjoint(q, lpart) /\ Disjoint(q, rpart)
  BY <1>1, <1>2 DEF Disjoint, Current
<1>11. Disjoint(lpart, rpart)
  BY <1>2 DEF Disjoint
<1>12. ASSUME Within(rptr - low), low = 0 PROVE rptr \in 0 .. 4 /\ rptr < items /\ CutAt(item, rptr)
  <2>1. rptr - low \in 0 .. 4
    BY <1>12, <1>1, WithinIs
  <2>2. \A i \in 0 .. rptr, j \in rptr + 1 .. items - 1 : item[i] <= item[j]
    BY <1>12, <1>5, <1>1, <1>2
  <2> QED
    BY <2>1, <2>2, <1>1, <1>2, <1>12 DEF CutAt
<1> QED
  BY <1>1, <1>2, <1>7, <1>8, <1>9, <1>10, <1>11, <1>12

\* Where the part at the front is dropped, its end is a cut within the first five.
LEMMA NearMoves ==
    ASSUME SortInv, step = "divide"
    PROVE  \/ low = 0 /\ ~Within(rptr - low)
           \/ \E k \in 2 .. Len(stk) : stk[k].low = 0
           \/ \E k \in 0 .. 4 :
                /\ k < items /\ CutAt(item, k)
                /\ k < low \/ (k < lptr /\ Within(rptr - low))
                /\ \A l \in 2 .. Len(stk) : k < stk[l].low
<1>1. CASE low = 0 /\ Within(rptr - low)
  <2>1. /\ rptr \in 0 .. 4 /\ rptr < items /\ CutAt(item, rptr)
        /\ rptr < lptr /\ high \in Nat /\ rptr < high
    BY <1>1, TwoParts
  <2>2. \A l \in 2 .. Len(stk) : rptr < stk[l].low
    <3> SUFFICES ASSUME NEW l \in 2 .. Len(stk) PROVE rptr < stk[l].low
      OBVIOUS
    <3>1. InArray(stk[l]) /\ Disjoint(stk[l], Current)
      BY DEF SortInv, PutOff, Dividing
    <3>2. l \in 1 .. Len(stk) /\ stk \in Seq([low : Int, high : Int])
      BY LenProperties DEF SortInv, SortTypes
    <3>3. stk[l].low \in Nat /\ stk[l].high \in Int /\ stk[l].high >= stk[l].low
      BY <3>1, <3>2, ElementOfSeq DEF InArray, Positions
    <3>4. stk[l].high < low \/ high < stk[l].low
      BY <3>1 DEF Disjoint, Current
    <3> QED
      BY <2>1, <3>3, <3>4, <1>1
  <2> QED
    BY <1>1, <2>1, <2>2
<1>2. CASE ~(low = 0 /\ Within(rptr - low))
  BY <1>2 DEF SortInv, LeastNear, Dividing
<1> QED
  BY <1>1, <1>2

\* The stack while a part is being divided.
LEMMA StackIs ==
    ASSUME SortInv, step = "divide"
    PROVE  /\ stk \in Seq([low : Int, high : Int]) /\ Len(stk) \in Nat /\ Len(stk) >= 1
           /\ \A k \in 1 .. Len(stk) : stk[k] \in [low : Int, high : Int]
           /\ \A k \in 2 .. Len(stk) : /\ InArray(stk[k]) /\ Bounded(item, stk[k]) /\ Disjoint(stk[k], Current)
                                       /\ \A l \in 2 .. Len(stk) : k # l => Disjoint(stk[k], stk[l])
           /\ items > maxthres /\ items \in Nat /\ maxthres \in Nat /\ maxthres >= 4
<1>1. stk \in Seq([low : Int, high : Int])
  BY DEF SortInv, SortTypes
<1>2. Len(stk) \in Nat
  BY <1>1, LenProperties
<1>3. \A k \in 1 .. Len(stk) : stk[k] \in [low : Int, high : Int]
  BY <1>1, ElementOfSeq
<1> QED
  BY <1>1, <1>2, <1>3, ItemsNat DEF SortInv, PutOff, Dividing

\* Both parts are dropped, and the last one put off comes next.
LEMMA DividePopKeeps == SortInv /\ DividePop => SortInv'
<1> SUFFICES ASSUME SortInv, DividePop PROVE SortInv'
  OBVIOUS
<1>s. step = "divide" /\ Within(rptr - low) /\ UNCHANGED <<given, size, item, pivot, lptr, rptr, run>>
  BY DEF DividePop
<1>0. items' = items /\ Positions' = Positions /\ maxthres' = maxthres
  BY <1>s DEF items, Positions, maxthres
<1> DEFINE n == Len(stk)
<1>1. /\ stk \in Seq([low : Int, high : Int]) /\ n \in Nat /\ n >= 1
      /\ \A k \in 1 .. n : stk[k] \in [low : Int, high : Int]
      /\ \A k \in 2 .. n : /\ InArray(stk[k]) /\ Bounded(item, stk[k]) /\ Disjoint(stk[k], Current)
                           /\ \A l \in 2 .. n : k # l => Disjoint(stk[k], stk[l])
      /\ items > maxthres /\ items \in Nat /\ maxthres \in Nat /\ maxthres >= 4
  BY <1>s, StackIs
<1>2. stk' = SubSeq(stk, 1, n - 1) /\ low' = stk[n].low /\ high' = stk[n].high
      /\ step' = IF n = 1 THEN "least" ELSE "median"
  BY DEF DividePop
<1> HIDE DEF n
<1>3. stk' \in Seq([low : Int, high : Int]) /\ Len(stk') = n - 1 /\ \A k \in 1 .. n - 1 : stk'[k] = stk[k]
  <2>1. \A k \in 1 .. n - 1 : stk[k] \in [low : Int, high : Int]
    BY <1>1
  <2>2. 1 \in Int /\ n - 1 \in Int
    BY <1>1
  <2>3. /\ SubSeq(stk, 1, n - 1) \in Seq([low : Int, high : Int])
        /\ Len(SubSeq(stk, 1, n - 1)) = IF 1 <= n - 1 THEN n - 1 - 1 + 1 ELSE 0
        /\ \A k \in 1 .. n - 1 - 1 + 1 : SubSeq(stk, 1, n - 1)[k] = stk[1 + k - 1]
    BY <2>1, <2>2, SubSeqProperties
  <2> QED
    BY <2>3, <1>1, <1>2
<1>4. SortTypes'
  <2>1. low' \in Int /\ high' \in Int
    BY <1>1, <1>2
  <2> QED
    BY <2>1, <1>0, <1>2, <1>3, <1>s DEF SortInv, SortTypes
<1>5. Permuted(item)'
  BY <1>0, <1>s DEF SortInv, Permuted
<1>6. PutOff'
  <2>1. CASE n = 1
    BY <2>1, <1>2, <1>3 DEF PutOff, Dividing
  <2>2. CASE n # 1
    <3>1. n \in 2 .. n /\ n - 1 >= 1 /\ Dividing'
      BY <2>2, <1>1, <1>2 DEF Dividing
    <3>3. Current'.low = stk[n].low /\ Current'.high = stk[n].high
      BY <1>2 DEF Current
    <3>4. InArray(Current)' /\ Bounded(item, Current)'
      BY <3>1, <3>3, <1>0, <1>1, <1>s DEF InArray, Bounded
    <3>5. \A k \in 2 .. n - 1 : k \in 2 .. n /\ k # n /\ k \in 1 .. n - 1 /\ n \in 2 .. n
      BY <1>1, <3>1
    <3>6. \A k \in 2 .. n - 1 : Disjoint(stk[k], Current')
      BY <3>5, <3>3, <1>1 DEF Disjoint
    <3>7. \A k \in 2 .. n - 1 :
            /\ InArray(stk[k]) /\ Bounded(item, stk[k]) /\ Disjoint(stk[k], Current')
            /\ stk'[k] = stk[k]
            /\ \A l \in 2 .. n - 1 : (k # l => Disjoint(stk[k], stk[l])) /\ stk'[l] = stk[l]
      BY <3>5, <3>6, <1>1, <1>3
    <3>8. \A k \in 2 .. n - 1 :
            /\ InArray(stk[k])' /\ Bounded(item, stk[k])' /\ Disjoint(stk'[k], Current')
            /\ \A l \in 2 .. n - 1 : k # l => Disjoint(stk'[k], stk'[l])
      BY <3>7, <1>0, <1>s DEF InArray, Bounded
    <3> QED
      BY <3>1, <3>4, <3>8, <1>0, <1>1, <1>3 DEF PutOff
  <2> QED
    BY <2>1, <2>2
<1>7. LeastNear'
  <2>1. CASE \E k \in 2 .. n : stk[k].low = 0
    <3>1. PICK k \in 2 .. n : stk[k].low = 0
      BY <2>1
    <3>2. CASE k = n
      BY <3>1, <3>2, <1>1, <1>2 DEF LeastNear, Dividing
    <3>3. CASE k # n
      <4>1. k \in 2 .. n - 1 /\ k \in 1 .. n - 1 /\ step' = "median"
        BY <3>3, <1>1, <1>2
      <4> QED
        BY <4>1, <3>1, <1>3 DEF LeastNear, Dividing
    <3> QED
      BY <3>2, <3>3
  <2>2. CASE \E k \in 0 .. 4 : k < items /\ CutAt(item, k) /\ \A l \in 2 .. n : k < stk[l].low
    <3>1. PICK k \in 0 .. 4 : k < items /\ CutAt(item, k) /\ \A l \in 2 .. n : k < stk[l].low
      BY <2>2
    <3>2. CutAt(item, k)' /\ k < items'
      BY <3>1, <1>0, <1>s DEF CutAt
    <3>3. step' = "median" => k < low' /\ \A l \in 2 .. Len(stk') : k < stk'[l].low
      <4> SUFFICES ASSUME step' = "median" PROVE k < low' /\ \A l \in 2 .. n - 1 : k < stk'[l].low
        BY <1>3
      <4>1. n \in 2 .. n /\ \A l \in 2 .. n - 1 : l \in 2 .. n /\ l \in 1 .. n - 1
        BY <1>1, <1>2
      <4> QED
        BY <4>1, <3>1, <1>2, <1>3
    <3>4. Dividing' => step' = "median"
      BY <1>2 DEF Dividing
    <3>5. items' > 1
      BY <1>0, <1>1
    <3> QED
      BY <3>1, <3>2, <3>3, <3>4, <3>5 DEF LeastNear
  <2> QED
    BY <2>1, <2>2, <1>s, NearMoves DEF n
<1>8. Approaching' /\ Parted' /\ Inserting'
  BY <1>2 DEF Approaching, Parted, Inserting
<1> QED
  BY <1>4, <1>5, <1>6, <1>7, <1>8 DEF SortInv

\* One part is dropped.
LEMMA DivideOneKeeps == SortInv /\ DivideOne => SortInv'
<1> SUFFICES ASSUME SortInv, DivideOne PROVE SortInv'
  OBVIOUS
<1>s. step = "divide" /\ (Within(rptr - low) => ~Within(high - lptr)) /\ step' = "median"
      /\ UNCHANGED <<given, size, item, pivot, lptr, rptr, stk, run>>
  BY DEF DivideOne, Within
<1>0. items' = items /\ Positions' = Positions /\ maxthres' = maxthres
  BY <1>s DEF items, Positions, maxthres
<1>1. /\ stk \in Seq([low : Int, high : Int]) /\ Len(stk) \in Nat /\ Len(stk) >= 1
      /\ \A k \in 1 .. Len(stk) : stk[k] \in [low : Int, high : Int]
      /\ \A k \in 2 .. Len(stk) : /\ InArray(stk[k]) /\ Bounded(item, stk[k]) /\ Disjoint(stk[k], Current)
                                  /\ \A l \in 2 .. Len(stk) : k # l => Disjoint(stk[k], stk[l])
      /\ items > maxthres /\ items \in Nat /\ maxthres \in Nat /\ maxthres >= 4
  BY <1>s, StackIs
<1> DEFINE lpart == [low |-> low, high |-> rptr]
           rpart == [low |-> lptr, high |-> high]
<1>2. /\ lpart \in [low : Int, high : Int] /\ rpart \in [low : Int, high : Int]
      /\ Bounded(item, lpart) /\ Bounded(item, rpart) /\ Disjoint(lpart, rpart)
      /\ ~Within(rptr - low) => InArray(lpart)
      /\ ~Within(high - lptr) => InArray(rpart)
      /\ \A q \in [low : Int, high : Int] : Disjoint(q, Current) => Disjoint(q, lpart) /\ Disjoint(q, rpart)
      /\ low \in Nat /\ low < lptr
  BY <1>s, TwoParts
<1>3. Current' = IF Within(rptr - low) THEN rpart ELSE lpart
  BY DEF Current, DivideOne
<1>4. low' = IF Within(rptr - low) THEN lptr ELSE low
  BY DEF DivideOne
<1>5. high' = IF Within(rptr - low) THEN high ELSE rptr
  BY DEF DivideOne
<1>6. SortTypes'
  BY <1>0, <1>4, <1>5, <1>s DEF SortInv, SortTypes
<1> HIDE DEF lpart, rpart
<1>7. Permuted(item)'
  BY <1>0, <1>s DEF SortInv, Permuted
<1>8. InArray(Current') /\ Bounded(item, Current') /\ \A k \in 2 .. Len(stk) : Disjoint(stk[k], Current')
  <2>1. \A k \in 2 .. Len(stk) : k \in 1 .. Len(stk)
    BY <1>1
  <2>2. \A k \in 2 .. Len(stk) : Disjoint(stk[k], lpart) /\ Disjoint(stk[k], rpart)
    BY <2>1, <1>1, <1>2
  <2>3. CASE Within(rptr - low)
    <3>1. ~Within(high - lptr)
      BY <2>3, <1>s
    <3> QED
      BY <2>2, <2>3, <3>1, <1>2, <1>3
  <2>4. CASE ~Within(rptr - low)
    BY <2>2, <2>4, <1>2, <1>3
  <2> QED
    BY <2>3, <2>4
<1>9. PutOff'
  <2>1. \A p : (Bounded(item, p) => Bounded(item, p)') /\ (InArray(p) => InArray(p)')
    BY <1>0, <1>s DEF Bounded, InArray
  <2>2. Dividing'
    BY <1>s DEF Dividing
  <2>3. Bounded(item, Current)' /\ InArray(Current)'
    BY <1>8, <1>0, <1>s DEF Bounded, InArray
  <2> QED
    BY <2>1, <2>2, <2>3, <1>0, <1>1, <1>8, <1>s DEF PutOff
<1>10. LeastNear'
  <2>1. CASE low = 0 /\ ~Within(rptr - low)
    BY <2>1, <1>4, <1>s DEF LeastNear
  <2>2. CASE \E k \in 2 .. Len(stk) : stk[k].low = 0
    BY <2>2, <1>s DEF LeastNear
  <2>3. CASE \E k \in 0 .. 4 :
                /\ k < items /\ CutAt(item, k)
                /\ k < low \/ (k < lptr /\ Within(rptr - low))
                /\ \A l \in 2 .. Len(stk) : k < stk[l].low
    <3>1. PICK k \in 0 .. 4 :
                /\ k < items /\ CutAt(item, k)
                /\ k < low \/ (k < lptr /\ Within(rptr - low))
                /\ \A l \in 2 .. Len(stk) : k < stk[l].low
      BY <2>3
    <3>2. CutAt(item, k)' /\ k < items'
      BY <3>1, <1>0, <1>s DEF CutAt
    <3>3. lptr \in Int
      BY DEF SortInv, SortTypes
    <3>4. k < low'
      BY <3>1, <3>3, <1>2, <1>4
    <3> QED
      BY <3>1, <3>2, <3>4, <1>s DEF LeastNear
  <2> QED
    BY <2>1, <2>2, <2>3, <1>s, NearMoves
<1>11. Approaching' /\ Parted' /\ Inserting'
  BY <1>s DEF Approaching, Parted, Inserting
<1> QED
  BY <1>6, <1>7, <1>9, <1>10, <1>11 DEF SortInv

\* The larger part is put off.
LEMMA DividePushKeeps == SortInv /\ DividePush => SortInv'
<1> SUFFICES ASSUME SortInv, DividePush PROVE SortInv'
  OBVIOUS
<1>s. step = "divide" /\ ~Within(rptr - low) /\ ~Within(high - lptr) /\ step' = "median"
      /\ UNCHANGED <<given, size, item, pivot, lptr, rptr, run>>
  BY DEF DividePush
<1>0. items' = items /\ Positions' = Positions /\ maxthres' = maxthres
  BY <1>s DEF items, Positions, maxthres
<1> DEFINE n == Len(stk)
<1>1. /\ stk \in Seq([low : Int, high : Int]) /\ n \in Nat /\ n >= 1
      /\ \A k \in 1 .. n : stk[k] \in [low : Int, high : Int]
      /\ \A k \in 2 .. n : /\ InArray(stk[k]) /\ Bounded(item, stk[k]) /\ Disjoint(stk[k], Current)
                           /\ \A l \in 2 .. n : k # l => Disjoint(stk[k], stk[l])
      /\ items > maxthres /\ items \in Nat /\ maxthres \in Nat /\ maxthres >= 4
  BY <1>s, StackIs
<1> DEFINE lpart == [low |-> low, high |-> rptr]
           rpart == [low |-> lptr, high |-> high]
<1>2. /\ lpart \in [low : Int, high : Int] /\ rpart \in [low : Int, high : Int]
      /\ Bounded(item, lpart) /\ Bounded(item, rpart) /\ Disjoint(lpart, rpart)
      /\ InArray(lpart) /\ InArray(rpart)
      /\ \A q \in [low : Int, high : Int] : Disjoint(q, Current) => Disjoint(q, lpart) /\ Disjoint(q, rpart)
      /\ low \in Nat /\ low < lptr
  BY <1>s, TwoParts
<1>3. PICK off, next \in {lpart, rpart} :
        /\ off # next
        /\ stk' = Append(stk, off) /\ Current' = next /\ low' = next.low /\ high' = next.high
  <2>0. lpart # rpart
    BY <1>2
  <2>1. CASE rptr - low > high - lptr
    BY <2>0, <2>1 DEF DividePush, Current
  <2>2. CASE ~(rptr - low > high - lptr)
    BY <2>0, <2>2 DEF DividePush, Current
  <2> QED
    BY <2>1, <2>2
<1> HIDE DEF n
<1>4. /\ stk' \in Seq([low : Int, high : Int]) /\ Len(stk') = n + 1
      /\ stk'[n + 1] = off /\ \A k \in 1 .. n : stk'[k] = stk[k]
  BY <1>1, <1>2, <1>3, AppendProperties DEF n
<1>5. SortTypes'
  BY <1>0, <1>2, <1>3, <1>4, <1>s DEF SortInv, SortTypes
<1>x. /\ off.low \in {low, lptr} /\ next.low \in {low, lptr}
      /\ (off.low = low \/ next.low = low)
  BY <1>2, <1>3
<1> HIDE DEF lpart, rpart
<1>6. Permuted(item)'
  BY <1>0, <1>s DEF SortInv, Permuted
<1>7. Disjoint(off, next) /\ Disjoint(next, off)
  BY <1>2, <1>3 DEF Disjoint
<1>8. PutOff'
  <2>1. Dividing' /\ items' > maxthres' /\ Len(stk') >= 1
    BY <1>0, <1>1, <1>4, <1>s DEF Dividing
  <2>2. InArray(Current)' /\ Bounded(item, Current)'
    BY <1>2, <1>3, <1>0, <1>s DEF InArray, Bounded
  <2>3. \A k \in 2 .. n + 1 : (k \in 2 .. n /\ k \in 1 .. n) \/ k = n + 1
    BY <1>1
  <2>4. \A k \in 2 .. n + 1 :
            \/ k \in 2 .. n /\ stk'[k] = stk[k] /\ stk[k] \in [low : Int, high : Int]
            \/ k = n + 1 /\ stk'[k] = off
    BY <2>3, <1>1, <1>4
  <2>5. \A k \in 2 .. n : InArray(stk[k]) /\ Bounded(item, stk[k]) /\ Disjoint(stk[k], off) /\ Disjoint(stk[k], next)
                          /\ Disjoint(off, stk[k])
    <3>1. \A k \in 2 .. n : k \in 1 .. n
      OBVIOUS
    <3>2. \A k \in 2 .. n : Disjoint(stk[k], off) /\ Disjoint(stk[k], next)
      BY <3>1, <1>1, <1>2, <1>3
    <3> QED
      BY <3>2, <1>1 DEF Disjoint
  <2>6. \A k \in 2 .. n + 1 : InArray(stk'[k]) /\ Bounded(item, stk'[k]) /\ Disjoint(stk'[k], next)
    BY <2>4, <2>5, <1>2, <1>3, <1>7
  <2>7. \A k \in 2 .. n + 1 : \A l \in 2 .. n + 1 : k # l => Disjoint(stk'[k], stk'[l])
    BY <2>4, <2>5, <1>1
  <2>8. \A k \in 2 .. n + 1 : InArray(stk[k])' /\ Bounded(item, stk[k])'
    BY <2>6, <1>0, <1>s DEF InArray, Bounded
  <2> QED
    BY <2>1, <2>2, <2>6, <2>7, <2>8, <1>3, <1>4 DEF PutOff
<1>9. LeastNear'
  <2>0. n + 1 \in 2 .. n + 1 /\ \A k \in 2 .. n : k \in 2 .. n + 1 /\ k \in 1 .. n
    BY <1>1
  <2>1. CASE low = 0
    <3>1. next.low = 0 \/ (stk'[n + 1].low = 0 /\ n + 1 \in 2 .. Len(stk'))
      BY <2>0, <2>1, <1>x, <1>4
    <3> QED
      BY <3>1, <1>3, <1>s DEF LeastNear
  <2>2. CASE \E k \in 2 .. n : stk[k].low = 0
    <3>1. PICK k \in 2 .. n : stk[k].low = 0
      BY <2>2
    <3>2. k \in 2 .. Len(stk') /\ stk'[k].low = 0
      BY <3>1, <2>0, <1>4
    <3> QED
      BY <3>2, <1>s DEF LeastNear
  <2>3. CASE \E k \in 0 .. 4 : k < items /\ CutAt(item, k) /\ k < low /\ \A l \in 2 .. n : k < stk[l].low
    <3>1. PICK k \in 0 .. 4 : k < items /\ CutAt(item, k) /\ k < low /\ \A l \in 2 .. n : k < stk[l].low
      BY <2>3
    <3>2. CutAt(item, k)' /\ k < items'
      BY <3>1, <1>0, <1>s DEF CutAt
    <3>3. lptr \in Int
      BY DEF SortInv, SortTypes
    <3>4. k < next.low /\ k < off.low
      BY <3>1, <3>3, <1>2, <1>x
    <3>5. \A l \in 2 .. n + 1 : k < stk'[l].low
      <4>1. \A l \in 2 .. n + 1 : l \in 2 .. n \/ l = n + 1
        BY <1>1
      <4> QED
        BY <4>1, <2>0, <3>1, <3>4, <1>4
    <3> QED
      BY <3>1, <3>2, <3>4, <3>5, <1>3, <1>4, <1>s DEF LeastNear
  <2> QED
    BY <2>1, <2>2, <2>3, <1>s, NearMoves DEF n
<1>10. Approaching' /\ Parted' /\ Inserting'
  BY <1>s DEF Approaching, Parted, Inserting
<1> QED
  BY <1>5, <1>6, <1>8, <1>9, <1>10 DEF SortInv

\* The least of one item more.
LEMMA LeastStep ==
    ASSUME NEW f \in [Positions -> Int], items \in Nat, NEW n \in Nat, n + 1 < items,
           \E i \in 0 .. n : \A j \in 0 .. n : f[i] < f[j] \/ (f[i] = f[j] /\ i <= j)
    PROVE  \E i \in 0 .. n + 1 : \A j \in 0 .. n + 1 : f[i] < f[j] \/ (f[i] = f[j] /\ i <= j)
<1>1. PICK i \in 0 .. n : \A j \in 0 .. n : f[i] < f[j] \/ (f[i] = f[j] /\ i <= j)
  OBVIOUS
<1>2. \A j \in 0 .. n + 1 : (j \in 0 .. n \/ j = n + 1) /\ f[j] \in Int
  BY DEF Positions
<1>3. i \in 0 .. n + 1 /\ n + 1 \in 0 .. n + 1 /\ f[i] \in Int /\ f[n + 1] \in Int
  BY <1>2
<1>4. CASE f[i] <= f[n + 1]
  <2>1. \A j \in 0 .. n + 1 : f[i] < f[j] \/ (f[i] = f[j] /\ i <= j)
    BY <1>1, <1>2, <1>3, <1>4
  <2> QED
    BY <2>1, <1>3
<1>5. CASE f[n + 1] < f[i]
  <2>1. \A j \in 0 .. n + 1 : f[n + 1] < f[j] \/ (f[n + 1] = f[j] /\ n + 1 <= j)
    BY <1>1, <1>2, <1>3, <1>5
  <2> QED
    BY <2>1, <1>3
<1> QED
  BY <1>3, <1>4, <1>5

\* There is a least item among up to five.
LEMMA LeastAmong ==
    ASSUME NEW f \in [Positions -> Int], items \in Nat, NEW n \in 0 .. 4, n < items
    PROVE  \E i \in 0 .. n : \A j \in 0 .. n : f[i] < f[j] \/ (f[i] = f[j] /\ i <= j)
<1> DEFINE P(m) == \E i \in 0 .. m : \A j \in 0 .. m : f[i] < f[j] \/ (f[i] = f[j] /\ i <= j)
<1>1. P(0)
  BY DEF Positions
<1>2. \A m \in Nat : m + 1 < items /\ P(m) => P(m + 1)
  BY LeastStep
<1> HIDE DEF P
<1>3. (1 < items => P(1)) /\ (2 < items => P(2)) /\ (3 < items => P(3)) /\ (4 < items => P(4))
  <2>1. 0 + 1 = 1 /\ 1 + 1 = 2 /\ 2 + 1 = 3 /\ 3 + 1 = 4
    OBVIOUS
  <2>2. 1 < items => P(1)
    BY <1>1, <1>2, <2>1
  <2>3. 2 < items => P(2)
    BY <2>2, <1>2, <2>1
  <2>4. 3 < items => P(3)
    BY <2>3, <1>2, <2>1
  <2>5. 4 < items => P(4)
    BY <2>4, <1>2, <2>1
  <2> QED
    BY <2>2, <2>3, <2>4, <2>5
<1>4. n = 0 \/ n = 1 \/ n = 2 \/ n = 3 \/ n = 4
  OBVIOUS
<1>5. P(n)
  BY <1>1, <1>3, <1>4
<1> QED
  BY <1>5 DEF P

\* The least of the first items is the least of all where the array was
\* partitioned, or has five items at most.
LEMMA LeastKeeps == SortInv /\ Least => SortInv'
<1> SUFFICES ASSUME SortInv, Least PROVE SortInv'
  OBVIOUS
<1>s. step = "least" /\ UNCHANGED <<given, size, low, high, pivot, lptr, rptr, stk>> /\ run' = 2
      /\ step' = IF items > 2 THEN "insert" ELSE "sorted"
  BY DEF Least, partvars
<1>0. items' = items /\ Positions' = Positions /\ maxthres' = maxthres
  BY <1>s DEF items, Positions, maxthres
<1>1. items \in Nat /\ item \in [Positions -> Int] /\ items > 1 /\ maxthres \in Nat
  BY <1>s, ItemsNat DEF SortInv, SortTypes, LeastNear
<1> DEFINE upto == IF items - 1 < 4 THEN items - 1 ELSE 4
           least == CHOOSE i \in 0 .. upto :
                        \A j \in 0 .. upto : item[i] < item[j] \/ (item[i] = item[j] /\ i <= j)
<1>2. item' = Swapped(item, 0, least)
  BY DEF Least
<1>3. upto \in 0 .. 4 /\ upto < items /\ upto >= 1 /\ upto \in Positions
  BY <1>1 DEF Positions
<1>4. \A k \in Positions : k <= 4 => k \in 0 .. upto
  BY <1>1 DEF Positions
<1> HIDE DEF upto
<1>5. least \in 0 .. upto /\ \A j \in 0 .. upto : item[least] < item[j] \/ (item[least] = item[j] /\ least <= j)
  <2>1. \E i \in 0 .. upto : \A j \in 0 .. upto : item[i] < item[j] \/ (item[i] = item[j] /\ i <= j)
    BY <1>1, <1>3, LeastAmong
  <2> QED
    BY <2>1
<1> HIDE DEF least
<1>6. 0 \in 0 .. upto /\ 0 \in Positions /\ least \in Positions /\ \A k \in 0 .. upto : k \in Positions /\ item[k] \in Int
  BY <1>1, <1>3, <1>5 DEF Positions
<1>7. /\ item' \in [Positions -> Int] /\ Permuted(item') /\ Rearranged(item, item', 0, upto)
      /\ item'[0] = item[least]
  BY <1>1, <1>2, <1>3, <1>5, <1>6, SwappedIs, SwappedWithin, PermutedSwap DEF SortInv
<1>8. \A j \in 0 .. upto : item'[0] <= item'[j]
  <2> SUFFICES ASSUME NEW j \in 0 .. upto PROVE item'[0] <= item'[j]
    OBVIOUS
  <2>1. PICK l \in 0 .. upto : item'[j] = item[l]
    BY <1>7 DEF Rearranged
  <2> QED
    BY <2>1, <1>5, <1>6, <1>7
<1>9. Partitioned => \A j \in Positions : item'[0] <= item'[j]
  <2> SUFFICES ASSUME Partitioned, NEW j \in Positions PROVE item'[0] <= item'[j]
    OBVIOUS
  <2>1. CASE items <= 5
    <3>1. j \in 0 .. upto
      BY <2>1, <1>1, <1>4 DEF Positions
    <3> QED
      BY <3>1, <1>8
  <2>2. CASE items > 5
    <3>1. items > maxthres
      BY <2>2, <1>1 DEF Partitioned, maxthres
    <3>2. PICK k \in 0 .. 4 : k < items /\ CutAt(item, k)
      BY <3>1, <1>s DEF SortInv, LeastNear
    <3>3. CASE j \in 0 .. upto
      BY <3>3, <1>8
    <3>4. CASE j \notin 0 .. upto
      <4>1. item'[j] = item[j] /\ item[j] \in Int
        BY <3>4, <1>3, <1>7, <1>1 DEF Rearranged, Positions
      <4>2. j \in k + 1 .. items - 1 /\ 0 \in 0 .. k
        BY <3>2, <3>4, <1>4, <1>1 DEF Positions
      <4>3. item[0] <= item[j]
        BY <3>2, <4>2 DEF CutAt
      <4>4. item[least] <= item[0]
        BY <1>5, <1>6
      <4> QED
        BY <4>1, <4>3, <4>4, <1>5, <1>6, <1>7
    <3> QED
      BY <3>3, <3>4
  <2> QED
    BY <2>1, <2>2, <1>1
<1>10. SortTypes'
  BY <1>0, <1>7, <1>s DEF SortInv, SortTypes
<1>11. Permuted(item)'
  BY <1>0, <1>7, <1>s DEF Permuted
<1>12. PutOff' /\ LeastNear' /\ Approaching' /\ Parted'
  BY <1>s DEF SortInv, PutOff, LeastNear, Approaching, Parted, Dividing
<1>13. Inserting'
  <2>1. item'[0] <= item'[0] /\ item'[1] <= item'[1] /\ item'[0] <= item'[1]
    BY <1>3, <1>6, <1>7, <1>8, <1>1 DEF Positions
  <2>2. \A i, j \in 0 .. 1 : i <= j => item'[i] <= item'[j]
    <3>1. \A i \in 0 .. 1 : i = 0 \/ i = 1
      OBVIOUS
    <3> QED
      BY <2>1, <3>1
  <2>3. CASE items > 2
    <3>1. step' = "insert" /\ run' \in 2 .. items - 1 /\ run' - 1 = 1
      BY <2>3, <1>1, <1>s
    <3>2. Partitioned' <=> Partitioned
      BY <1>0, <1>s DEF Partitioned
    <3> QED
      BY <3>1, <3>2, <2>2, <1>0, <1>9 DEF Inserting
  <2>4. CASE items = 2
    <3>1. step' = "sorted" /\ Positions = 0 .. 1
      BY <2>4, <1>s DEF Positions
    <3> QED
      BY <3>1, <2>2, <1>0 DEF Inserting
  <2> QED
    BY <2>3, <2>4, <1>1
<1> QED
  BY <1>10, <1>11, <1>12, <1>13 DEF SortInv

\* An item is inserted into the run, or the search runs off the front.
LEMMA InsertKeeps == SortInv /\ Insert => SortInv'
<1> SUFFICES ASSUME SortInv, Insert PROVE SortInv'
  OBVIOUS
<1>s. step = "insert" /\ UNCHANGED <<given, size, low, high, pivot, lptr, rptr, stk>>
  BY DEF Insert, partvars
<1>0. items' = items /\ Positions' = Positions /\ maxthres' = maxthres
  BY <1>s DEF items, Positions, maxthres
<1>1. items \in Nat /\ item \in [Positions -> Int] /\ run \in 2 .. items - 1
  BY <1>s, ItemsNat DEF SortInv, SortTypes, Inserting
<1>2. \A i, j \in 0 .. run - 1 : i <= j => item[i] <= item[j]
  BY <1>s DEF SortInv, Inserting
<1>3. Partitioned => \A j \in Positions : item[0] <= item[j]
  BY <1>s DEF SortInv, Inserting
<1>4. run \in Positions /\ 0 \in Positions /\ item[run] \in Int
      /\ \A k \in 0 .. run : k \in Positions /\ item[k] \in Int
  BY <1>1 DEF Positions
<1>p. Partitioned' <=> Partitioned
  BY <1>0, <1>s DEF Partitioned
<1>w. ASSUME step' \in {"insert", "sorted", "lost"} PROVE PutOff' /\ LeastNear' /\ Approaching' /\ Parted'
  BY <1>w, <1>s DEF SortInv, PutOff, LeastNear, Approaching, Parted, Dividing
<1> DEFINE not == {i \in 0 .. run - 1 : item[i] <= item[run]}
           m == CHOOSE i \in not : \A j \in not : j <= i
           spot == m + 1
<1>5. CASE not = {}
  <2>1. step' = "lost" /\ item' = item /\ run' = run
    BY <1>5 DEF Insert
  <2>2. ~Partitioned
    <3> SUFFICES ASSUME Partitioned PROVE FALSE
      OBVIOUS
    <3>1. 0 \in not
      BY <1>1, <1>3, <1>4
    <3> QED
      BY <3>1, <1>5
  <2>3. SortTypes' /\ Permuted(item)'
    BY <2>1, <1>0, <1>s DEF SortInv, SortTypes, Permuted
  <2>4. Inserting'
    BY <2>1, <2>2, <1>p DEF Inserting
  <2> QED
    BY <2>1, <2>3, <2>4, <1>w DEF SortInv
<1>6. CASE not # {}
  <2>1. /\ item' = [i \in Positions |->
                        IF i = spot THEN item[run]
                        ELSE IF i \in spot + 1 .. run THEN item[i - 1] ELSE item[i]]
        /\ run' = run + 1
        /\ step' = IF run + 1 <= items - 1 THEN "insert" ELSE "sorted"
    BY <1>6 DEF Insert
  <2>2. m \in not /\ \A j \in not : j <= m
    <3>1. not \in SUBSET Nat /\ run \in Nat /\ \A x \in not : x <= run
      BY <1>1
    <3>2. \E i \in not : \A j \in not : j <= i
      BY <3>1, <1>6, GreatestIn
    <3> QED
      BY <3>2
  <2> HIDE DEF m
  <2>3. m \in 0 .. run - 1 /\ item[m] <= item[run] /\ \A j \in 0 .. run - 1 : j > m => item[run] < item[j]
    <3>1. \A j \in 0 .. run - 1 : j > m => j \notin not
      BY <2>2, <1>1
    <3>2. \A j \in 0 .. run - 1 : j \in Positions /\ item[j] \in Int
      BY <1>1 DEF Positions
    <3> QED
      BY <2>2, <3>1, <3>2, <1>4
  <2>4. spot \in 1 .. run /\ spot \in Positions
    BY <2>3, <1>1 DEF Positions
  <2>5. \A i \in spot + 1 .. run : i - 1 \in spot .. run - 1 /\ i - 1 \in Positions
    BY <2>4, <1>1 DEF Positions
  <2> HIDE DEF not
  <2>at. spot = m + 1
    OBVIOUS
  <2> HIDE DEF spot
  <2>6. item' \in [Positions -> Int]
    BY <2>1, <2>5, <1>1, <1>4
  <2>7. Permuted(item')
    <3>1. PICK p \in [Positions -> 1 .. items] :
            /\ \A k, l \in Positions : p[k] = p[l] => k = l
            /\ \A k \in 1 .. items : \E l \in Positions : p[l] = k
            /\ \A k \in Positions : item[k] = given[p[k]]
      BY DEF SortInv, Permuted
    <3> DEFINE to == [i \in Positions |-> IF i = spot THEN run ELSE IF i \in spot + 1 .. run THEN i - 1 ELSE i]
               q == [i \in Positions |-> p[to[i]]]
    <3>2. to \in [Positions -> Positions]
      BY <2>5, <1>4
    <3>3. \A k, l \in Positions : to[k] = to[l] => k = l
      BY <2>4, <1>1 DEF Positions
    <3>r. /\ \A i \in Positions : i # spot /\ i \in spot + 1 .. run => to[i] = i - 1
          /\ \A i \in Positions : i # spot /\ i \notin spot + 1 .. run => to[i] = i
          /\ to[spot] = run
      BY <2>4
    <3>4. \A k \in Positions : \E l \in Positions : to[l] = k
      <4> SUFFICES ASSUME NEW k \in Positions PROVE \E l \in Positions : to[l] = k
        OBVIOUS
      <4>1. CASE k = run
        BY <4>1, <2>4
      <4>2. CASE k \in spot .. run - 1
        <5>1. k \in Int /\ k + 1 \in Positions /\ k + 1 \in spot + 1 .. run /\ k + 1 # spot /\ k + 1 - 1 = k
          BY <4>2, <2>4, <1>1 DEF Positions
        <5>2. PICK j \in Positions : j \in spot + 1 .. run /\ j # spot /\ j - 1 = k
          BY <5>1
        <5> HIDE DEF to
        <5>3. to[j] = j - 1
          BY <5>2, <3>r
        <5> QED
          BY <5>2, <5>3
      <4>3. CASE k # run /\ k \notin spot .. run - 1
        <5>1. k # spot /\ k \notin spot + 1 .. run
          BY <4>3, <2>4, <1>1 DEF Positions
        <5> QED
          BY <5>1
      <4> QED
        BY <4>1, <4>2, <4>3
    <3>5. \A k \in Positions : item'[k] = item[to[k]]
      BY <2>1
    <3> HIDE DEF to
    <3>6. q \in [Positions -> 1 .. items]
      BY <3>1, <3>2
    <3>7. \A k, l \in Positions : q[k] = q[l] => k = l
      BY <3>1, <3>2, <3>3
    <3>8. \A k \in 1 .. items : \E l \in Positions : q[l] = k
      <4> SUFFICES ASSUME NEW k \in 1 .. items PROVE \E l \in Positions : q[l] = k
        OBVIOUS
      <4>1. PICK l \in Positions : p[l] = k
        BY <3>1
      <4>2. PICK i \in Positions : to[i] = l
        BY <3>4
      <4> QED
        BY <4>1, <4>2
    <3>9. \A k \in Positions : item'[k] = given[q[k]]
      BY <3>1, <3>2, <3>5
    <3> QED
      BY <3>6, <3>7, <3>8, <3>9 DEF Permuted
  <2>8. \A i, j \in 0 .. run : i <= j => item'[i] <= item'[j]
    <3>1. \A i \in 0 .. spot - 1 : item'[i] = item[i] /\ i \in 0 .. run - 1 /\ item[i] <= item[run]
      <4>1. \A i \in 0 .. spot - 1 : i \in Positions /\ i # spot /\ i \notin spot + 1 .. run /\ i \in 0 .. run - 1 /\ i <= m
        BY <2>4, <2>at, <2>3, <1>1 DEF Positions
      <4>2. \A i \in 0 .. spot - 1 : item[i] <= item[m]
        BY <4>1, <2>3, <1>2
      <4>3. m \in 0 .. run /\ item[m] \in Int
        BY <2>3, <1>1, <1>4
      <4>4. \A i \in 0 .. spot - 1 : item[i] \in Int
        BY <4>1, <1>1
      <4>5. \A i \in 0 .. spot - 1 : item[i] <= item[run]
        BY <4>2, <4>3, <4>4, <2>3, <1>4
      <4>6. \A i \in 0 .. spot - 1 : item'[i] = item[i]
        BY <4>1, <2>1
      <4> QED
        BY <4>1, <4>5, <4>6
    <3>2. item'[spot] = item[run]
      BY <2>1, <2>4
    <3>3. \A i \in spot + 1 .. run : item'[i] = item[i - 1] /\ i - 1 \in 0 .. run - 1 /\ item[run] <= item[i - 1]
      <4>1. \A i \in spot + 1 .. run : i \in Positions /\ i # spot /\ i - 1 \in 0 .. run - 1 /\ i - 1 > m
        BY <2>4, <2>at, <2>3, <1>1 DEF Positions
      <4>2. \A i \in spot + 1 .. run : item[i - 1] \in Int
        BY <2>5, <1>1
      <4> QED
        BY <4>1, <4>2, <2>1, <2>3, <1>4
    <3> SUFFICES ASSUME NEW i \in 0 .. run, NEW j \in 0 .. run, i <= j PROVE item'[i] <= item'[j]
      OBVIOUS
    <3>4. \A k \in 0 .. run : k \in 0 .. spot - 1 \/ k = spot \/ k \in spot + 1 .. run
      BY <2>4, <1>1
    <3>5. CASE i \in 0 .. spot - 1
      <4>1. CASE j \in 0 .. spot - 1
        BY <3>1, <3>5, <4>1, <1>2
      <4>2. CASE j = spot
        BY <3>1, <3>2, <3>5, <4>2
      <4>3. CASE j \in spot + 1 .. run
        <5>1. i <= j - 1 /\ i \in 0 .. run - 1 /\ j - 1 \in 0 .. run - 1
          BY <3>1, <3>3, <3>5, <4>3, <2>4
        <5> QED
          BY <5>1, <3>1, <3>3, <3>5, <4>3, <1>2
      <4> QED
        BY <4>1, <4>2, <4>3, <3>4
    <3>6. CASE i = spot
      <4>1. j = spot \/ j \in spot + 1 .. run
        BY <3>6, <2>4, <1>1
      <4> QED
        BY <4>1, <3>2, <3>3, <3>6, <1>4
    <3>7. CASE i \in spot + 1 .. run
      <4>1. j \in spot + 1 .. run /\ i - 1 <= j - 1
        BY <3>7, <2>4, <1>1
      <4> QED
        BY <4>1, <3>3, <3>7, <1>2
    <3> QED
      BY <3>4, <3>5, <3>6, <3>7
  <2>9. Partitioned => \A j \in Positions : item'[0] <= item'[j]
    <3>1. item'[0] = item[0]
      BY <2>1, <2>4, <1>4
    <3>2. \A j \in Positions : \E k \in Positions : item'[j] = item[k]
      BY <2>1, <2>5, <1>4
    <3> QED
      BY <3>1, <3>2, <1>3
  <2>10. SortTypes' /\ Permuted(item)'
    <3>1. run' \in Nat /\ step' \in {"insert", "sorted"}
      BY <2>1, <1>1
    <3>2. Permuted(item)'
      BY <2>7, <1>0, <1>s DEF Permuted
    <3> QED
      BY <3>1, <3>2, <2>6, <1>0, <1>s DEF SortInv, SortTypes
  <2>11. Inserting'
    <3>1. CASE run + 1 <= items - 1
      <4>1. step' = "insert" /\ run' \in 2 .. items - 1 /\ run' - 1 = run
        BY <3>1, <2>1, <1>1
      <4> QED
        BY <4>1, <2>8, <2>9, <1>0, <1>p DEF Inserting
    <3>2. CASE ~(run + 1 <= items - 1)
      <4>1. step' = "sorted" /\ Positions = 0 .. run
        BY <3>2, <2>1, <1>1 DEF Positions
      <4> QED
        BY <4>1, <2>8, <1>0 DEF Inserting
    <3> QED
      BY <3>1, <3>2
  <2> QED
    BY <2>1, <2>10, <2>11, <1>w DEF SortInv
<1> QED
  BY <1>5, <1>6

\* The array as it is passed.
LEMMA SortStart == SortInit => SortInv
<1> SUFFICES ASSUME SortInit PROVE SortInv
  OBVIOUS
<1>1. /\ given \in Seq(Int) /\ given \in Inputs /\ size \in Sizes /\ items \in Nat
      /\ item = [i \in Positions |-> given[i + 1]]
  BY QsortAssumption, LenProperties DEF SortInit, items, Positions
<1>2. \A i \in Positions : i + 1 \in 1 .. items /\ i + 1 \in 1 .. Len(given)
  BY <1>1 DEF Positions, items
<1>3. item \in [Positions -> Int]
  <2>1. \A i \in Positions : given[i + 1] \in Int
    BY <1>1, <1>2, ElementOfSeq
  <2> QED
    BY <2>1, <1>1
<1>4. Permuted(item)
  <2> DEFINE p == [i \in Positions |-> i + 1]
  <2>1. p \in [Positions -> 1 .. items]
    BY <1>2
  <2>2. \A i, j \in Positions : p[i] = p[j] => i = j
    BY DEF Positions
  <2>3. \A k \in 1 .. items : \E i \in Positions : p[i] = k
    <3> SUFFICES ASSUME NEW k \in 1 .. items PROVE \E i \in Positions : p[i] = k
      OBVIOUS
    <3>1. k - 1 \in Positions /\ k - 1 + 1 = k
      BY <1>1 DEF Positions
    <3>2. p[k - 1] = k
      BY <3>1
    <3> QED
      BY <3>1, <3>2
  <2>4. \A i \in Positions : item[i] = given[p[i]]
    BY <1>1
  <2> HIDE DEF p
  <2> QED
    BY <2>1, <2>2, <2>3, <2>4 DEF Permuted
<1>5. SortTypes
  <2>1. stk = <<>> /\ <<>> \in Seq([low : Int, high : Int])
    BY DEF SortInit
  <2> QED
    BY <2>1, <1>1, <1>3 DEF SortInit, SortTypes
<1>6. PutOff /\ LeastNear /\ Approaching /\ Parted /\ Inserting
  BY DEF SortInit, PutOff, LeastNear, Approaching, Parted, Inserting, Dividing
<1> QED
  BY <1>4, <1>5, <1>6 DEF SortInv

\* The invariant holds in every state.
LEMMA SortAlways == SortSpec => []SortInv
<1>1. SortInv /\ UNCHANGED sortvars => SortInv'
  <2> SUFFICES ASSUME SortInv, UNCHANGED sortvars PROVE SortInv'
    OBVIOUS
  <2>0. items' = items /\ Positions' = Positions /\ maxthres' = maxthres /\ Current' = Current
        /\ item' = item /\ stk' = stk /\ step' = step /\ given' = given
    BY DEF sortvars, items, Positions, maxthres, Current
  <2>1. SortTypes'
    BY <2>0 DEF SortInv, SortTypes, sortvars
  <2>2. Permuted(item)'
    BY <2>0 DEF SortInv, Permuted
  <2>3. PutOff'
    BY <2>0 DEF SortInv, PutOff, Dividing, InArray, Bounded
  <2>4. LeastNear'
    BY <2>0 DEF SortInv, LeastNear, Dividing, CutAt, sortvars
  <2>5. Approaching' /\ Parted'
    BY <2>0 DEF SortInv, Approaching, Parted, sortvars
  <2>6. Inserting'
    BY <2>0 DEF SortInv, Inserting, Partitioned, sortvars
  <2> QED
    BY <2>1, <2>2, <2>3, <2>4, <2>5, <2>6 DEF SortInv
<1>2. SortInv /\ [SortNext]_sortvars => SortInv'
  BY <1>1, BeginKeeps, MedianKeeps, ApproachKeeps, DividePopKeeps, DivideOneKeeps, DividePushKeeps,
     LeastKeeps, InsertKeeps DEF SortNext
<1> QED
  BY <1>2, SortStart, PTL DEF SortSpec

\* Items that are the ones given hold each key as often.
LEMMA SameKeys ==
    ASSUME SortInv, NEW k
    PROVE  Cardinality({i \in Positions : item[i] = k}) = Cardinality({i \in 1 .. items : given[i] = k})
<1> DEFINE S == {i \in Positions : item[i] = k}
           T == {i \in 1 .. items : given[i] = k}
<1>1. PICK p \in [Positions -> 1 .. items] :
        /\ \A i, j \in Positions : p[i] = p[j] => i = j
        /\ \A l \in 1 .. items : \E i \in Positions : p[i] = l
        /\ \A i \in Positions : item[i] = given[p[i]]
  BY DEF SortInv, Permuted
<1> DEFINE b == [i \in S |-> p[i]]
<1>2. b \in [S -> T]
  BY <1>1
<1>3. \A i, j \in S : b[i] = b[j] => i = j
  BY <1>1
<1>4. \A l \in T : \E i \in S : b[i] = l
  BY <1>1
<1>5. b \in Bijection(S, T)
  <2> HIDE DEF b, S, T
  <2>1. DOMAIN b = S
    BY <1>2
  <2>2. b \in Injection(S, T)
    BY <1>2, <1>3, <2>1 DEF Injection, IsInjective
  <2>3. b \in Surjection(S, T)
    BY <1>2, <1>4 DEF Surjection
  <2> QED
    BY <2>2, <2>3 DEF Bijection
<1>6. ExistsBijection(S, T)
  BY <1>5 DEF ExistsBijection
<1>7. IsFiniteSet(S)
  <2>1. items \in Nat
    BY ItemsNat DEF SortInv
  <2>2. IsFiniteSet(Positions)
    BY <2>1, FS_Interval DEF Positions
  <2>3. S \subseteq Positions
    OBVIOUS
  <2> QED
    BY <2>2, <2>3, FS_Subset
<1> HIDE DEF S, T
<1>8. Cardinality(S) = Cardinality(T)
  BY <1>6, <1>7, FS_Bijection
<1> QED
  BY <1>8 DEF S, T

\* For every array and every size of an item: qsort ends with the array sorted
\* and the items it was given; while it divides, each part that is left is
\* bounded by what surrounds it; and the insertion sort runs off the front of the
\* array only where the partitions were skipped because the number of items was
\* compared with a threshold in bytes (qsort).
THEOREM SortsRight == SortSpec => []SortHolds
<1>1. SortInv => SortHolds
  <2> SUFFICES ASSUME SortInv PROVE SortHolds
    OBVIOUS
  <2>0. items \in Nat /\ size \in Nat \ {0} /\ maxthres \in Nat /\ stk \in Seq([low : Int, high : Int])
    BY ItemsNat DEF SortInv, SortTypes
  <2>1. step = "sorted" => \A i \in 0 .. items - 2 : item[i] <= item[i + 1]
    <3> SUFFICES ASSUME step = "sorted", NEW i \in 0 .. items - 2 PROVE item[i] <= item[i + 1]
      OBVIOUS
    <3>1. i \in Positions /\ i + 1 \in Positions /\ i <= i + 1
      BY <2>0 DEF Positions
    <3> QED
      BY <3>1 DEF SortInv, Inserting
  <2>2. \A k : Cardinality({i \in Positions : item[i] = k}) = Cardinality({i \in 1 .. items : given[i] = k})
    BY SameKeys
  <2>3. \A p \in Parts : Bounded(item, p)
    <3> SUFFICES ASSUME NEW p \in Parts PROVE Bounded(item, p)
      OBVIOUS
    <3>1. Dividing
      <4>1. CASE step = "median"
        BY <4>1 DEF Dividing
      <4>2. CASE step # "median"
        <5>1. PICK k \in 2 .. Len(stk) : p = stk[k]
          BY <4>2 DEF Parts
        <5>2. ~(Len(stk) <= 1)
          BY <5>1
        <5> QED
          BY <5>2 DEF SortInv, PutOff
      <4> QED
        BY <4>1, <4>2
    <3>2. Bounded(item, Current) /\ \A k \in 2 .. Len(stk) : Bounded(item, stk[k])
      BY <3>1 DEF SortInv, PutOff
    <3>3. p = Current \/ \E k \in 2 .. Len(stk) : p = stk[k]
      BY DEF Parts, Current
    <3> QED
      BY <3>2, <3>3
  <2>4. step = "lost" => size > 1 /\ items \in 6 .. maxthres
    <3> SUFFICES ASSUME step = "lost" PROVE size > 1 /\ items \in 6 .. maxthres
      OBVIOUS
    <3>1. ~Partitioned
      BY DEF SortInv, Inserting
    <3> QED
      BY <3>1, <2>0 DEF Partitioned
  <2> QED
    BY <2>1, <2>2, <2>3, <2>4 DEF SortHolds, Bounded
<1> QED
  BY <1>1, SortAlways, PTL
---------------------------------------------------------------------------
(* The rooms of a level: parts that tile it, rooms apart, lines inside.    *)

\* A set that holds a beginning, and what follows each of its members up to a
\* bound, holds all up to the bound.
LEMMA Reaches ==
    ASSUME NEW n \in Nat, NEW T, 0 \in T, \A i \in 1 .. n : i - 1 \in T => i \in T
    PROVE  \A i \in 0 .. n : i \in T
<1> DEFINE U == {i \in 0 .. n : i \notin T}
<1>1. ASSUME U # {} PROVE FALSE
  <2>1. PICK x \in U : \A y \in U : x <= y
    <3>1. U \in SUBSET Nat
      OBVIOUS
    <3> QED
      BY <1>1, <3>1, LeastIn
  <2>2. x \in 1 .. n /\ x - 1 \in 0 .. n /\ ~(x <= x - 1)
    OBVIOUS
  <2>3. x - 1 \in T
    BY <2>1, <2>2
  <2> QED
    BY <2>2, <2>3
<1> QED
  BY <1>1

PartSet == [x : Nat, y : Nat, w : Nat, h : Nat, vertical : BOOLEAN]
PartSize(p) == p.w * p.h

LEMMA PartSizes ==
    ASSUME NEW p \in PartSet
    PROVE  /\ p.x \in Nat /\ p.y \in Nat /\ p.w \in Nat /\ p.h \in Nat /\ p.vertical \in BOOLEAN
           /\ PartSize(p) \in Nat
<1>1. p.x \in Nat /\ p.y \in Nat /\ p.w \in Nat /\ p.h \in Nat /\ p.vertical \in BOOLEAN
  BY DEF PartSet
<1> QED
  BY <1>1, SMT DEF PartSize

\* A product of a sum.
LEMMA TwoProducts ==
    ASSUME NEW a \in Nat, NEW b \in Nat, NEW c \in Nat, c <= a
    PROVE  c * b + (a - c) * b = a * b /\ b * c + b * (a - c) = b * a
BY SMT

\* What halving makes of a part.
LEMMA HalvesMade ==
    ASSUME NEW p \in PartSet, NEW a, NEW b, a = Halves(p)[1], b = Halves(p)[2]
    PROVE  /\ Halves(p) = <<a, b>> /\ a \in PartSet /\ b \in PartSet
           /\ a.vertical = ~p.vertical /\ b.vertical = ~p.vertical
           /\ a.x = p.x /\ a.y = p.y
           /\ p.vertical => /\ a.w = p.w \div 2 /\ b.x = p.x + p.w \div 2 /\ b.w = p.w - p.w \div 2
                            /\ b.y = p.y /\ a.h = p.h /\ b.h = p.h
           /\ ~p.vertical => /\ a.h = p.h \div 2 /\ b.y = p.y + p.h \div 2 /\ b.h = p.h - p.h \div 2
                             /\ b.x = p.x /\ a.w = p.w /\ b.w = p.w
<1>1. p.x \in Nat /\ p.y \in Nat /\ p.w \in Nat /\ p.h \in Nat /\ p.vertical \in BOOLEAN
  BY PartSizes
<1>2. /\ p.w \div 2 \in Nat /\ p.w - p.w \div 2 \in Nat /\ p.x + p.w \div 2 \in Nat
      /\ p.h \div 2 \in Nat /\ p.h - p.h \div 2 \in Nat /\ p.y + p.h \div 2 \in Nat
  BY <1>1
<1>3. CASE p.vertical
  <2> DEFINE one == [p EXCEPT !.w = p.w \div 2, !.vertical = FALSE]
             two == [p EXCEPT !.x = p.x + p.w \div 2, !.w = p.w - p.w \div 2, !.vertical = FALSE]
  <2>1. Halves(p) = <<one, two>>
    BY <1>3 DEF Halves
  <2>2. one \in PartSet /\ two \in PartSet
    BY <1>1, <1>2 DEF PartSet
  <2>3. /\ one.x = p.x /\ one.y = p.y /\ one.w = p.w \div 2 /\ one.h = p.h /\ one.vertical = FALSE
        /\ two.x = p.x + p.w \div 2 /\ two.y = p.y /\ two.w = p.w - p.w \div 2 /\ two.h = p.h /\ two.vertical = FALSE
    BY DEF PartSet
  <2> HIDE DEF one, two
  <2>4. a = one /\ b = two
    BY <2>1
  <2> QED
    BY <1>3, <2>1, <2>2, <2>3, <2>4
<1>4. CASE ~p.vertical
  <2> DEFINE one == [p EXCEPT !.h = p.h \div 2, !.vertical = TRUE]
             two == [p EXCEPT !.y = p.y + p.h \div 2, !.h = p.h - p.h \div 2, !.vertical = TRUE]
  <2>1. Halves(p) = <<one, two>>
    BY <1>4 DEF Halves
  <2>2. one \in PartSet /\ two \in PartSet
    BY <1>1, <1>2 DEF PartSet
  <2>3. /\ one.x = p.x /\ one.y = p.y /\ one.h = p.h \div 2 /\ one.w = p.w /\ one.vertical = TRUE
        /\ two.y = p.y + p.h \div 2 /\ two.x = p.x /\ two.h = p.h - p.h \div 2 /\ two.w = p.w /\ two.vertical = TRUE
    BY DEF PartSet
  <2> HIDE DEF one, two
  <2>4. a = one /\ b = two
    BY <2>1
  <2> QED
    BY <1>4, <2>1, <2>2, <2>3, <2>4
<1> QED
  BY <1>3, <1>4

\* The halves lie in the part, apart from each other and from what lies apart from
\* it, and have its cells.
LEMMA HalvesWithin ==
    ASSUME NEW p \in PartSet, NEW a, NEW b, a = Halves(p)[1], b = Halves(p)[2]
    PROVE  /\ a \in PartSet /\ b \in PartSet /\ NoneShared(a, b)
           /\ \A c \in {a, b} : /\ c.x + c.w <= p.x + p.w /\ c.y + c.h <= p.y + p.h
                                /\ \A q \in PartSet : NoneShared(p, q) => NoneShared(q, c)
           /\ PartSize(a) + PartSize(b) = PartSize(p)
<1>1. /\ a \in PartSet /\ b \in PartSet
      /\ a.x = p.x /\ a.y = p.y
      /\ p.vertical => /\ a.w = p.w \div 2 /\ b.x = p.x + p.w \div 2 /\ b.w = p.w - p.w \div 2
                       /\ b.y = p.y /\ a.h = p.h /\ b.h = p.h
      /\ ~p.vertical => /\ a.h = p.h \div 2 /\ b.y = p.y + p.h \div 2 /\ b.h = p.h - p.h \div 2
                        /\ b.x = p.x /\ a.w = p.w /\ b.w = p.w
  BY HalvesMade
<1>2. p.x \in Nat /\ p.y \in Nat /\ p.w \in Nat /\ p.h \in Nat /\ p.vertical \in BOOLEAN
  BY PartSizes
<1>3. p.w \div 2 \in Nat /\ p.w \div 2 <= p.w /\ p.h \div 2 \in Nat /\ p.h \div 2 <= p.h
  BY <1>2
<1>4. NoneShared(a, b)
  BY <1>1, <1>2, <1>3 DEF NoneShared
<1>5. ASSUME NEW c \in {a, b}
      PROVE  /\ c.x + c.w <= p.x + p.w /\ c.y + c.h <= p.y + p.h
             /\ p.x <= c.x /\ p.y <= c.y
             /\ c.x \in Nat /\ c.y \in Nat /\ c.w \in Nat /\ c.h \in Nat
  <2>1. c.x \in Nat /\ c.y \in Nat /\ c.w \in Nat /\ c.h \in Nat
    BY <1>1, PartSizes
  <2>2. CASE c = a
    BY <2>2, <1>1, <1>2, <1>3, <2>1
  <2>3. CASE c = b
    BY <2>3, <1>1, <1>2, <1>3, <2>1
  <2> QED
    BY <2>1, <2>2, <2>3
<1>6. ASSUME NEW c \in {a, b}, NEW q \in PartSet, NoneShared(p, q)
      PROVE  NoneShared(q, c)
  <2>1. q.x \in Nat /\ q.y \in Nat /\ q.w \in Nat /\ q.h \in Nat
    BY PartSizes
  <2>2. /\ c.x + c.w <= p.x + p.w /\ c.y + c.h <= p.y + p.h
        /\ p.x <= c.x /\ p.y <= c.y
        /\ c.x \in Nat /\ c.y \in Nat /\ c.w \in Nat /\ c.h \in Nat
    BY <1>5
  <2> QED
    BY <1>6, <2>1, <2>2, <1>2 DEF NoneShared
<1>7. PartSize(a) + PartSize(b) = PartSize(p)
  <2>1. CASE p.vertical
    <3>1. (p.w \div 2) * p.h + (p.w - p.w \div 2) * p.h = p.w * p.h
      BY <1>2, <1>3, TwoProducts
    <3> QED
      BY <2>1, <1>1, <3>1 DEF PartSize
  <2>2. CASE ~p.vertical
    <3>1. p.w * (p.h \div 2) + p.w * (p.h - p.h \div 2) = p.w * p.h
      BY <1>2, <1>3, TwoProducts
    <3> QED
      BY <2>2, <1>1, <3>1 DEF PartSize
  <2> QED
    BY <2>1, <2>2
<1> QED
  BY <1>1, <1>4, <1>5, <1>6, <1>7

\* How large the parts of each depth are, from a level 4 * m wide and 16 high.
PartLarge(i, p, m) ==
    /\ i = 1 => p.w >= 4 * m /\ p.h >= 16
    /\ i \in 2 .. 3 => /\ p.w >= 2 * m /\ p.h >= 8
                       /\ (p.vertical => p.w >= 4 * m) /\ (~p.vertical => p.h >= 16)
    /\ i \in 4 .. 7 => p.w >= 2 * m /\ p.h >= 8
    /\ i >= 8 => p.w >= m /\ p.h >= 4

LEMMA HalvesLarge ==
    ASSUME NEW p \in PartSet, NEW k \in 1 .. 7, NEW m \in Nat, PartLarge(k, p, m),
           NEW a, NEW b, a = Halves(p)[1], b = Halves(p)[2]
    PROVE  PartLarge(2 * k, a, m) /\ PartLarge(2 * k + 1, b, m)
<1>1. /\ a \in PartSet /\ b \in PartSet
      /\ a.vertical = ~p.vertical /\ b.vertical = ~p.vertical
      /\ p.vertical => a.w = p.w \div 2 /\ b.w = p.w - p.w \div 2 /\ a.h = p.h /\ b.h = p.h
      /\ ~p.vertical => a.h = p.h \div 2 /\ b.h = p.h - p.h \div 2 /\ a.w = p.w /\ b.w = p.w
  BY HalvesMade
<1>2. p.w \in Nat /\ p.h \in Nat /\ p.vertical \in BOOLEAN
  BY PartSizes
<1>3. CASE p.vertical
  <2>1. ~a.vertical /\ ~b.vertical
    BY <1>1, <1>3
  <2> QED
    BY <1>1, <1>2, <1>3, <2>1 DEF PartLarge
<1>4. CASE ~p.vertical
  <2>1. a.vertical /\ b.vertical
    BY <1>1, <1>4
  <2> QED
    BY <1>1, <1>2, <1>4, <2>1 DEF PartLarge
<1> QED
  BY <1>3, <1>4

\* The cells of part i when it is not halved yet.
AreaOf(tab, i) == IF i \in Leaves(tab) THEN tab[i].w * tab[i].h ELSE 0

\* The sums of the cells of the first parts.
IsSums(tab, f, n) ==
    /\ f \in [0 .. n -> Nat] /\ f[0] = 0
    /\ \A i \in 1 .. n : f[i] = f[i - 1] + AreaOf(tab, i)

LEMMA SumsExist ==
    ASSUME NEW tab \in Seq(PartSet)
    PROVE  \E f : IsSums(tab, f, Len(tab))
<1> DEFINE T == {n \in Nat : \E f : IsSums(tab, f, n)}
           len0 == Len(tab)
<1>0. len0 \in Nat
  OBVIOUS
<1>1. 0 \in T
  <2>1. IsSums(tab, [i \in 0 .. 0 |-> 0], 0)
    BY DEF IsSums
  <2> QED
    BY <2>1
<1>2. ASSUME NEW i \in 1 .. len0, i - 1 \in T PROVE i \in T
  <2>1. PICK f : IsSums(tab, f, i - 1)
    BY <1>2
  <2>2. AreaOf(tab, i) \in Nat
    <3>1. tab[i] \in PartSet
      BY <1>0
    <3> QED
      BY <3>1, PartSizes DEF AreaOf, PartSize
  <2> DEFINE g == [j \in 0 .. i |-> IF j = i THEN f[i - 1] + AreaOf(tab, i) ELSE f[j]]
  <2>3. f \in [0 .. i - 1 -> Nat] /\ f[0] = 0 /\ \A j \in 1 .. i - 1 : f[j] = f[j - 1] + AreaOf(tab, j)
    BY <2>1 DEF IsSums
  <2> DEFINE e == AreaOf(tab, i)
  <2>4. f[i - 1] \in Nat /\ e \in Nat
    BY <2>2, <2>3, <1>0
  <2> HIDE DEF e
  <2>5. g \in [0 .. i -> Nat]
    BY <2>3, <2>4, <1>0 DEF e
  <2>6. g[0] = 0
    BY <2>3, <1>0
  <2>7. ASSUME NEW j \in 1 .. i PROVE g[j] = g[j - 1] + AreaOf(tab, j)
    <3>1. CASE j = i
      BY <3>1, <1>0
    <3>2. CASE j # i
      <4>1. j \in 1 .. i - 1 /\ j - 1 \in 0 .. i /\ j - 1 # i /\ j \in 0 .. i
        BY <3>2, <1>0
      <4>2. g[j] = f[j] /\ g[j - 1] = f[j - 1]
        BY <4>1, <3>2
      <4> QED
        BY <4>1, <4>2, <2>3
    <3> QED
      BY <3>1, <3>2
  <2>8. IsSums(tab, g, i)
    BY <2>5, <2>6, <2>7 DEF IsSums
  <2> QED
    BY <2>8, <1>0
<1> HIDE DEF T
<1>3. len0 \in T
  BY <1>0, <1>1, <1>2, Reaches, SMTT(30)
<1> QED
  BY <1>3 DEF T

\* What is covered is the last of the sums.
LEMMA CoveredSum ==
    ASSUME NEW tab \in Seq(PartSet)
    PROVE  \E f : IsSums(tab, f, Len(tab)) /\ Covered(tab) = f[Len(tab)]
<1> DEFINE Body(f) == [i \in 0 .. Len(tab) |->
                         IF i = 0 THEN 0
                         ELSE f[i - 1] + (IF i \in Leaves(tab) THEN tab[i].w * tab[i].h ELSE 0)]
           g == CHOOSE f : f = Body(f)
           len0 == Len(tab)
<1>0. len0 \in Nat
  OBVIOUS
<1>1. PICK f : IsSums(tab, f, len0)
  BY SumsExist
<1>2. f = Body(f)
  <2>1. f = [i \in 0 .. len0 |-> f[i]] /\ f[0] = 0
    BY <1>1 DEF IsSums
  <2>2. \A i \in 0 .. len0 : f[i] = IF i = 0 THEN 0 ELSE f[i - 1] + AreaOf(tab, i)
    BY <1>0, <1>1 DEF IsSums
  <2> QED
    BY <2>1, <2>2 DEF AreaOf
<1>3. g = Body(g)
  BY <1>2
<1>4. Covered(tab) = g[len0]
  BY DEF Covered
<1> HIDE DEF g
<1>5. g[0] = 0 /\ \A i \in 1 .. len0 : g[i] = g[i - 1] + AreaOf(tab, i)
  <2>1. \A i \in 0 .. len0 : Body(g)[i] = IF i = 0 THEN 0 ELSE g[i - 1] + AreaOf(tab, i)
    BY DEF AreaOf
  <2> HIDE DEF Body
  <2>2. \A i \in 0 .. len0 : g[i] = IF i = 0 THEN 0 ELSE g[i - 1] + AreaOf(tab, i)
    BY <2>1, <1>3
  <2> QED
    BY <2>2, <1>0
<1>6. \A i \in 0 .. len0 : g[i] \in Nat
  <2> DEFINE T == {i \in Nat : g[i] \in Nat}
  <2>1. 0 \in T
    BY <1>5
  <2>2. ASSUME NEW i \in 1 .. len0, i - 1 \in T PROVE i \in T
    <3>1. tab[i] \in PartSet
      BY <1>0
    <3>2. AreaOf(tab, i) \in Nat
      BY <3>1, PartSizes DEF AreaOf, PartSize
    <3> QED
      BY <3>2, <2>2, <1>5, <1>0
  <2> HIDE DEF T
  <2>3. \A i \in 0 .. len0 : i \in T
    BY <1>0, <2>1, <2>2, Reaches
  <2> QED
    BY <2>3 DEF T
<1>7. DOMAIN g = 0 .. len0 /\ g = [i \in 0 .. len0 |-> g[i]]
  BY <1>3
<1>8. g \in [0 .. len0 -> Nat]
  BY <1>6, <1>7
<1>9. IsSums(tab, g, len0)
  BY <1>5, <1>8 DEF IsSums
<1> QED
  BY <1>4, <1>9

\* Two items behind a sequence.
LEMMA TwoMore ==
    ASSUME NEW S, NEW s \in Seq(S), NEW n \in Nat, Len(s) = n, NEW x \in S, NEW y \in S
    PROVE  /\ s \o <<x, y>> \in Seq(S) /\ Len(s \o <<x, y>>) = n + 2
           /\ (s \o <<x, y>>)[n + 1] = x /\ (s \o <<x, y>>)[n + 2] = y
           /\ \A i \in 1 .. n : (s \o <<x, y>>)[i] = s[i]
<1> DEFINE p == <<x, y>>
<1>1. p \in Seq(S) /\ Len(p) = 2 /\ p[1] = x /\ p[2] = y
  OBVIOUS
<1> HIDE DEF p
<1>2. /\ s \o p \in Seq(S) /\ Len(s \o p) = n + 2
      /\ \A i \in 1 .. n + 2 : (s \o p)[i] = IF i <= n THEN s[i] ELSE p[i - n]
  <2>1. /\ s \o p \in Seq(S) /\ Len(s \o p) = Len(s) + Len(p)
        /\ \A i \in 1 .. Len(s) + Len(p) :
              (s \o p)[i] = IF i <= Len(s) THEN s[i] ELSE p[i - Len(s)]
    BY <1>1, ConcatProperties, Zenon
  <2> QED
    BY <1>1, <2>1
<1>3. (s \o p)[n + 1] = x /\ (s \o p)[n + 2] = y
  <2>1. n + 1 \in 1 .. n + 2 /\ n + 2 \in 1 .. n + 2 /\ n + 1 - n = 1 /\ n + 2 - n = 2
    OBVIOUS
  <2> QED
    BY <1>1, <1>2, <2>1
<1>4. \A i \in 1 .. n : (s \o p)[i] = s[i]
  <2>1. \A i \in 1 .. n : i \in 1 .. n + 2 /\ i <= n
    OBVIOUS
  <2> QED
    BY <1>2, <2>1
<1> QED
  BY <1>2, <1>3, <1>4 DEF p

\* Halving a part covers what was covered.
LEMMA HalvedCovers ==
    ASSUME NEW tab \in Seq(PartSet), NEW k \in Nat \ {0}, Len(tab) = 2 * k - 1,
           NEW a \in PartSet, NEW b \in PartSet, PartSize(a) + PartSize(b) = PartSize(tab[k])
    PROVE  Covered(tab \o <<a, b>>) = Covered(tab)
<1> DEFINE t2 == tab \o <<a, b>>
           n == 2 * k - 1
           z == PartSize(tab[k])
<1>0. k \in 1 .. n /\ n \in Nat /\ tab[k] \in PartSet /\ z \in Nat
      /\ PartSize(a) \in Nat /\ PartSize(b) \in Nat
  <2>1. k \in 1 .. n /\ n \in Nat
    OBVIOUS
  <2>2. tab[k] \in PartSet
    BY <2>1
  <2> QED
    BY <2>1, <2>2, PartSizes
<1>1. t2 \in Seq(PartSet) /\ Len(t2) = n + 2 /\ t2[n + 1] = a /\ t2[n + 2] = b
      /\ \A i \in 1 .. n : t2[i] = tab[i]
  <2>1. n \in Nat /\ Len(tab) = n
    BY <1>0
  <2> HIDE DEF n
  <2> QED
    BY <2>1, TwoMore
<1>2. Leaves(tab) = k .. n /\ Leaves(t2) = k + 1 .. n + 2
  <2>1. (n + 1) \div 2 = k /\ (n + 2 + 1) \div 2 = k + 1
    OBVIOUS
  <2> QED
    BY <1>1, <2>1 DEF Leaves
<1>3. PICK f : IsSums(tab, f, n) /\ Covered(tab) = f[n]
  BY CoveredSum
<1>4. PICK g : IsSums(t2, g, n + 2) /\ Covered(t2) = g[n + 2]
  BY <1>1, CoveredSum
<1>5. /\ AreaOf(t2, n + 1) = PartSize(a) /\ AreaOf(t2, n + 2) = PartSize(b)
      /\ \A i \in 1 .. n : /\ i # k => AreaOf(t2, i) = AreaOf(tab, i)
                           /\ i < k => AreaOf(tab, i) = 0
                           /\ i = k => AreaOf(t2, i) = 0 /\ AreaOf(tab, i) = z
                           /\ AreaOf(tab, i) \in Nat
  <2>1. AreaOf(t2, n + 1) = PartSize(a) /\ AreaOf(t2, n + 2) = PartSize(b)
    BY <1>0, <1>1, <1>2 DEF AreaOf, PartSize
  <2>2. ASSUME NEW i \in 1 .. n
        PROVE  /\ i # k => AreaOf(t2, i) = AreaOf(tab, i)
               /\ i < k => AreaOf(tab, i) = 0
               /\ i = k => AreaOf(t2, i) = 0 /\ AreaOf(tab, i) = z
    BY <1>0, <1>1, <1>2 DEF AreaOf, PartSize
  <2>3. ASSUME NEW i \in 1 .. n PROVE AreaOf(tab, i) \in Nat
    <3>1. tab[i] \in PartSet
      BY <1>0
    <3> QED
      BY <3>1, PartSizes DEF AreaOf, PartSize
  <2> QED
    BY <2>1, <2>2, <2>3
<1> HIDE DEF t2, n, z
<1>6. \A i \in 0 .. n : g[i] = f[i] - (IF i >= k THEN z ELSE 0)
  <2> DEFINE T == {i \in Nat : g[i] = f[i] - (IF i >= k THEN z ELSE 0)}
  <2>1. 0 \in T
    BY <1>0, <1>3, <1>4 DEF IsSums
  <2>2. ASSUME NEW i \in 1 .. n, i - 1 \in T PROVE i \in T
    <3>0. i \in 1 .. n + 2 /\ i - 1 \in 0 .. n /\ i - 1 \in 0 .. n + 2 /\ i \in Nat
      BY <1>0
    <3>1. f[i] = f[i - 1] + AreaOf(tab, i) /\ f[i - 1] \in Nat
      <4>1. f[i] = f[i - 1] + AreaOf(tab, i)
        BY <1>3, Zenon DEF IsSums
      <4>2. f[i - 1] \in Nat
        BY <3>0, <1>3, Zenon DEF IsSums
      <4> QED
        BY <4>1, <4>2
    <3>2. g[i] = g[i - 1] + AreaOf(t2, i) /\ g[i - 1] \in Nat
      <4>1. g[i] = g[i - 1] + AreaOf(t2, i)
        BY <3>0, <1>4, Zenon DEF IsSums
      <4>2. g[i - 1] \in Nat
        BY <3>0, <1>4, Zenon DEF IsSums
      <4> QED
        BY <4>1, <4>2
    <3>3. g[i - 1] = f[i - 1] - (IF i - 1 >= k THEN z ELSE 0)
      BY <2>2
    <3>4. CASE i = k
      <4>1. AreaOf(t2, i) = 0 /\ AreaOf(tab, i) = z /\ ~(i - 1 >= k) /\ i >= k
        BY <3>4, <1>0, <1>5
      <4>2. f[i] = f[i - 1] + z /\ g[i] = g[i - 1] + 0 /\ g[i - 1] = f[i - 1] - 0
        BY <3>1, <3>2, <3>3, <4>1
      <4> QED
        BY <4>1, <4>2, <3>1, <3>2, <1>0
    <3>5. CASE i # k
      <4>1. AreaOf(t2, i) = AreaOf(tab, i) /\ AreaOf(tab, i) \in Nat /\ ((i - 1 >= k) <=> (i >= k))
        BY <3>5, <1>0, <1>5
      <4> DEFINE e == AreaOf(tab, i)
      <4>2. f[i] = f[i - 1] + e /\ g[i] = g[i - 1] + e /\ e \in Nat
        BY <3>1, <3>2, <4>1
      <4> HIDE DEF e
      <4>3. CASE i >= k
        <5>1. g[i - 1] = f[i - 1] - z
          BY <3>3, <4>1, <4>3
        <5> QED
          BY <5>1, <4>2, <4>3, <3>1, <3>2, <1>0, SMTT(30)
      <4>4. CASE ~(i >= k)
        <5>1. g[i - 1] = f[i - 1] - 0
          BY <3>3, <4>1, <4>4
        <5> QED
          BY <5>1, <4>2, <4>4, <3>1, <3>2, <1>0
      <4> QED
        BY <4>3, <4>4
    <3> QED
      BY <3>4, <3>5
  <2> HIDE DEF T
  <2>3. \A i \in 0 .. n : i \in T
    BY <1>0, <2>1, <2>2, Reaches
  <2> QED
    BY <2>3 DEF T
<1>7. g[n] = f[n] - z /\ f[n] \in Nat /\ g[n] \in Nat
  BY <1>0, <1>3, <1>4, <1>6 DEF IsSums
<1>8. g[n + 1] = g[n] + PartSize(a) /\ g[n + 2] = g[n + 1] + PartSize(b)
  <2>1. g[n + 1] = g[(n + 1) - 1] + AreaOf(t2, n + 1) /\ g[n + 2] = g[(n + 2) - 1] + AreaOf(t2, n + 2)
    BY <1>0, <1>4 DEF IsSums
  <2>2. (n + 1) - 1 = n /\ (n + 2) - 1 = n + 1
    BY <1>0
  <2> QED
    BY <2>1, <2>2, <1>5
<1>9. g[n + 2] = f[n]
  BY <1>0, <1>7, <1>8 DEF z
<1> QED
  BY <1>3, <1>4, <1>9 DEF t2

\* What holds of the table of parts of a level dim[1] wide and dim[2] high: its parts lie in the level
\* and are large enough for rooms; those not halved yet are apart and cover it.
TabSound(tab, dim) ==
    /\ tab \in Seq(PartSet)
    /\ \E k \in 1 .. 8 : Len(tab) = 2 * k - 1
    /\ \A i \in 1 .. Len(tab) :
          /\ tab[i].x + tab[i].w <= dim[1] /\ tab[i].y + tab[i].h <= dim[2]
          /\ \A m \in {4, 13} : 4 * m <= dim[1] => PartLarge(i, tab[i], m)
    /\ \A i, j \in Leaves(tab) : i # j => NoneShared(tab[i], tab[j])
    /\ Covered(tab) = dim[1] * dim[2]

LevelSize(dim) == dim \in Nat \X Nat /\ dim[1] >= 16 /\ dim[2] >= 16

LEMMA FirstTab ==
    ASSUME NEW dim, LevelSize(dim), NEW v \in BOOLEAN
    PROVE  TabSound(<<[x |-> 0, y |-> 0, w |-> dim[1], h |-> dim[2], vertical |-> v]>>, dim)
<1> DEFINE p == [x |-> 0, y |-> 0, w |-> dim[1], h |-> dim[2], vertical |-> v]
           tab == <<p>>
<1>1. dim[1] \in Nat /\ dim[2] \in Nat /\ dim[1] >= 16 /\ dim[2] >= 16
  BY DEF LevelSize
<1>2. p \in PartSet /\ p.x = 0 /\ p.y = 0 /\ p.w = dim[1] /\ p.h = dim[2]
  BY <1>1 DEF PartSet
<1> HIDE DEF p
<1>3. tab \in Seq(PartSet) /\ Len(tab) = 1 /\ tab[1] = p
  BY <1>2
<1> HIDE DEF tab
<1>4. Leaves(tab) = {1}
  BY <1>3 DEF Leaves
<1>5. \A m \in {4, 13} : 4 * m <= dim[1] => PartLarge(1, p, m)
  BY <1>1, <1>2 DEF PartLarge
<1>6. Covered(tab) = dim[1] * dim[2]
  <2>1. PICK f : IsSums(tab, f, 1) /\ Covered(tab) = f[1]
    BY <1>3, CoveredSum
  <2>2. f[0] = 0 /\ f[1] = f[1 - 1] + AreaOf(tab, 1)
    BY <2>1 DEF IsSums
  <2>3. AreaOf(tab, 1) = dim[1] * dim[2]
    BY <1>2, <1>3, <1>4 DEF AreaOf
  <2>4. AreaOf(tab, 1) \in Nat
    BY <1>2, <1>3, <1>4, PartSizes DEF AreaOf, PartSize
  <2> QED
    BY <2>1, <2>2, <2>3, <2>4
<1>7. \A i \in 1 .. Len(tab) :
          /\ tab[i].x + tab[i].w <= dim[1] /\ tab[i].y + tab[i].h <= dim[2]
          /\ \A m \in {4, 13} : 4 * m <= dim[1] => PartLarge(i, tab[i], m)
  <2>1. \A i \in 1 .. Len(tab) : i = 1
    BY <1>3
  <2> QED
    BY <2>1, <1>1, <1>2, <1>3, <1>5
<1>8. \E k \in 1 .. 8 : Len(tab) = 2 * k - 1
  BY <1>3
<1>9. TabSound(tab, dim)
  BY <1>3, <1>4, <1>6, <1>7, <1>8 DEF TabSound
<1> QED
  BY <1>9 DEF tab, p

LEMMA SumsThrough ==
    \A a, b, c, d, e \in Nat :
        /\ a + b <= c + d /\ c + d <= e => a + b <= e
        /\ a + b + 2 <= c + d /\ c + d <= e => a + b + 2 <= e
        /\ a + 11 <= c + d /\ c + d <= e => a + 11 <= e
        /\ c < a => 0 < a
OBVIOUS

LEMMA UpTo == \A a, b \in Nat : a <= b => a \in 0 .. b
OBVIOUS

LEMMA InSeq ==
    ASSUME NEW S, NEW q \in Seq(S), NEW i \in 1 .. Len(q)
    PROVE  q[i] \in S
OBVIOUS

LEMMA SharedBoth ==
    ASSUME NEW p \in PartSet, NEW q \in PartSet, NoneShared(p, q)
    PROVE  NoneShared(q, p)
BY DEF NoneShared

LEMMA SplitTab ==
    ASSUME NEW dim, LevelSize(dim), NEW tab, TabSound(tab, dim), Len(tab) < 15
    PROVE  TabSound(tab \o Halves(tab[(Len(tab) + 1) \div 2]), dim)
<1>1. PICK k \in 1 .. 8 : Len(tab) = 2 * k - 1
  BY DEF TabSound
<1>2. tab \in Seq(PartSet) /\ k \in 1 .. 7 /\ k \in 1 .. Len(tab) /\ (Len(tab) + 1) \div 2 = k
      /\ k \in Nat \ {0} /\ Len(tab) \in Nat
  BY <1>1 DEF TabSound
<1> DEFINE p == tab[k]
           a == Halves(p)[1]
           b == Halves(p)[2]
           t2 == tab \o <<a, b>>
           n == 2 * k - 1
<1>3. p \in PartSet
  BY <1>2
<1>4. Halves(p) = <<a, b>> /\ a \in PartSet /\ b \in PartSet
  BY <1>3, HalvesMade
<1>5. /\ NoneShared(a, b) /\ PartSize(a) + PartSize(b) = PartSize(p)
      /\ \A c \in {a, b} : /\ c.x + c.w <= p.x + p.w /\ c.y + c.h <= p.y + p.h
                           /\ \A q \in PartSet : NoneShared(p, q) => NoneShared(q, c)
  BY <1>3, HalvesWithin
<1>6. \A m \in Nat : PartLarge(k, p, m) => PartLarge(2 * k, a, m) /\ PartLarge(2 * k + 1, b, m)
  BY <1>2, <1>3, HalvesLarge
<1> HIDE DEF a, b, p
<1>7. t2 \in Seq(PartSet) /\ Len(t2) = n + 2 /\ t2[n + 1] = a /\ t2[n + 2] = b
      /\ \A i \in 1 .. n : t2[i] = tab[i]
  BY <1>1, <1>2, <1>4
<1>8. Covered(t2) = dim[1] * dim[2]
  BY <1>1, <1>2, <1>4, <1>5, HalvedCovers DEF p, TabSound
<1> HIDE DEF t2
<1>9. /\ p.x + p.w <= dim[1] /\ p.y + p.h <= dim[2]
      /\ \A m \in {4, 13} : 4 * m <= dim[1] => PartLarge(k, p, m)
  BY <1>2 DEF TabSound, p
<1>10. dim[1] \in Nat /\ dim[2] \in Nat
  BY DEF LevelSize
<1>11. ASSUME NEW i \in 1 .. n + 2
       PROVE  /\ t2[i].x + t2[i].w <= dim[1] /\ t2[i].y + t2[i].h <= dim[2]
              /\ \A m \in {4, 13} : 4 * m <= dim[1] => PartLarge(i, t2[i], m)
  <2>1. CASE i \in 1 .. n
    BY <2>1, <1>1, <1>7 DEF TabSound
  <2>2. CASE i \in {n + 1, n + 2}
    <3>1. t2[i] \in {a, b}
      BY <2>2, <1>7
    <3>2. /\ t2[i].x + t2[i].w <= p.x + p.w /\ t2[i].y + t2[i].h <= p.y + p.h
          /\ t2[i].x \in Nat /\ t2[i].w \in Nat /\ t2[i].y \in Nat /\ t2[i].h \in Nat
          /\ p.x \in Nat /\ p.w \in Nat /\ p.y \in Nat /\ p.h \in Nat
      <4>1. t2[i] \in PartSet
        BY <3>1, <1>4
      <4>2. /\ t2[i].x + t2[i].w <= p.x + p.w /\ t2[i].y + t2[i].h <= p.y + p.h
        BY <3>1, <1>5
      <4> QED
        BY <4>1, <4>2, <1>3, PartSizes
    <3>3. t2[i].x + t2[i].w <= dim[1] /\ t2[i].y + t2[i].h <= dim[2]
      <4> DEFINE c == t2[i]
      <4>1. /\ c.x + c.w <= p.x + p.w /\ c.y + c.h <= p.y + p.h
            /\ c.x \in Nat /\ c.w \in Nat /\ c.y \in Nat /\ c.h \in Nat
        BY <3>2
      <4> HIDE DEF c
      <4>2. c.x + c.w <= dim[1] /\ c.y + c.h <= dim[2]
        <5>1. p.x + p.w <= dim[1] /\ p.y + p.h <= dim[2]
          BY <1>9
        <5>2. p.x \in Nat /\ p.w \in Nat /\ p.y \in Nat /\ p.h \in Nat
          BY <3>2
        <5> QED
          BY <4>1, <5>1, <5>2, <1>10, SumsThrough
      <4> QED
        BY <4>2 DEF c
    <3>4. ASSUME NEW m \in {4, 13}, 4 * m <= dim[1] PROVE PartLarge(i, t2[i], m)
      <4>1. PartLarge(2 * k, a, m) /\ PartLarge(2 * k + 1, b, m)
        BY <3>4, <1>6, <1>9
      <4>2. n + 1 = 2 * k /\ n + 2 = 2 * k + 1
        BY <1>2
      <4>3. (i = 2 * k /\ t2[i] = a) \/ (i = 2 * k + 1 /\ t2[i] = b)
        BY <2>2, <4>2, <1>7
      <4> QED
        BY <4>1, <4>3
    <3> QED
      BY <3>3, <3>4
  <2> QED
    BY <2>1, <2>2, <1>2
<1>12. Leaves(tab) = k .. n /\ Leaves(t2) = k + 1 .. n + 2
  <2>1. (n + 1) \div 2 = k /\ (n + 2 + 1) \div 2 = k + 1
    BY <1>2
  <2> QED
    BY <1>1, <1>7, <2>1 DEF Leaves
<1>13. ASSUME NEW i \in k + 1 .. n PROVE NoneShared(t2[i], a) /\ NoneShared(t2[i], b)
  <2>1. i \in k .. n /\ k \in k .. n /\ i # k /\ i \in 1 .. n
    BY <1>2
  <2>2. NoneShared(p, tab[i])
    BY <2>1, <1>12 DEF TabSound, p
  <2>3. tab[i] \in PartSet /\ t2[i] = tab[i]
    BY <2>1, <1>1, <1>2, <1>7
  <2> QED
    BY <2>2, <2>3, <1>5
<1>14. ASSUME NEW i \in k + 1 .. n + 2, NEW j \in k + 1 .. n + 2, i < j
       PROVE  NoneShared(t2[i], t2[j])
  <2>1. CASE j \in 1 .. n
    <3>1. i \in k .. n /\ j \in k .. n /\ i # j /\ i \in 1 .. n
      BY <2>1, <1>2, <1>14
    <3> QED
      BY <2>1, <3>1, <1>7, <1>12 DEF TabSound
  <2>2. CASE j = n + 1
    <3>1. i \in k + 1 .. n
      BY <2>2, <1>2, <1>14
    <3> QED
      BY <2>2, <3>1, <1>7, <1>13
  <2>3. CASE j = n + 2
    <3>1. i \in k + 1 .. n \/ i = n + 1
      BY <2>3, <1>2, <1>14
    <3> QED
      BY <2>3, <3>1, <1>5, <1>7, <1>13
  <2> QED
    BY <2>1, <2>2, <2>3, <1>2
<1>15. ASSUME NEW i \in k + 1 .. n + 2, NEW j \in k + 1 .. n + 2, i # j
       PROVE  NoneShared(t2[i], t2[j])
  <2>1. t2[i] \in PartSet /\ t2[j] \in PartSet
    BY <1>2, <1>7
  <2>2. i < j \/ j < i
    BY <1>2, <1>15
  <2> QED
    BY <2>1, <2>2, <1>14, SharedBoth
<1>16. \E j \in 1 .. 8 : Len(t2) = 2 * j - 1
  <2>1. k + 1 \in 1 .. 8 /\ Len(t2) = 2 * (k + 1) - 1
    BY <1>2, <1>7
  <2> QED
    BY <2>1
<1>17. TabSound(t2, dim)
  BY <1>7, <1>8, <1>11, <1>12, <1>15, <1>16 DEF TabSound
<1> QED
  BY <1>2, <1>4, <1>17 DEF t2, p

RoomSet == [x : Nat, y : Nat, w : Nat \ {0}, h : Nat \ {0}]

\* A room leaves its part a row and column before it and two after it.
RoomIn(r, p) ==
    /\ r.x > p.x /\ r.x + r.w + 2 <= p.x + p.w
    /\ r.y > p.y /\ r.y + r.h + 2 <= p.y + p.h
    /\ r.h <= MAX_HEIGHT
    /\ p.w >= 13 => r.x + 11 <= p.x + p.w

\* Where a room begins in its part: at one at least, in the first quarter.
LEMMA PlaceBounds ==
    ASSUME NEW d \in Nat, NEW len \in Nat, len >= 4, NEW least \in Nat
    PROVE  /\ Place(d, len, least) \in Nat /\ Place(d, len, least) >= 1
           /\ len - Place(d, len, least) >= 3
           /\ len >= 13 => len - Place(d, len, least) >= 11
<1> DEFINE q == Greater(len \div 4, 2)
           e == d % q
<1>1. q \in Nat /\ q >= 2 /\ (len <= 11 => q = 2) /\ (len >= 12 => 4 * q <= len)
  BY DEF Greater
<1> HIDE DEF q
<1>2. e \in Nat /\ e < q
  BY <1>1
<1> HIDE DEF e
<1>3. Place(d, len, least) = Greater(Lesser(e, len - least - 2), 1)
  BY DEF Place, e, q
<1> QED
  BY <1>1, <1>2, <1>3 DEF Greater, Lesser

LEMMA ExtentBounds ==
    ASSUME NEW d \in Nat, NEW len \in Nat, NEW from \in Nat, len - from >= 3,
           NEW least \in Nat, least >= 1, NEW most \in Nat, most >= 1
    PROVE  /\ Extent(d, len, from, least, most) \in Nat \ {0}
           /\ from + Extent(d, len, from, least, most) + 2 <= len
           /\ Extent(d, len, from, least, most) <= most
<1> DEFINE q == Greater(len - 2, 1)
           e == d % q
<1>1. q \in Nat /\ q >= 1
  BY DEF Greater
<1> HIDE DEF q
<1>2. e \in Nat
  BY <1>1
<1> HIDE DEF e
<1>3. Extent(d, len, from, least, most)
        = Lesser(Lesser(Greater(least + e, least), len - from - 2), most)
  BY DEF Extent, e, q
<1> QED
  BY <1>2, <1>3 DEF Greater, Lesser

LEMMA RoomMade ==
    ASSUME NEW p \in PartSet, p.w >= 4, p.h >= 4, NEW d \in Nat \X Nat \X Nat \X Nat
    PROVE  mjolmkroom(p, d) \in RoomSet /\ RoomIn(mjolmkroom(p, d), p)
<1>1. p.x \in Nat /\ p.y \in Nat /\ p.w \in Nat /\ p.h \in Nat
  BY PartSizes
<1>2. d[1] \in Nat /\ d[2] \in Nat /\ d[3] \in Nat /\ d[4] \in Nat
  OBVIOUS
<1> DEFINE x == Place(d[1], p.w, MIN_WIDTH)
           y == Place(d[2], p.h, MIN_HEIGHT)
           w == Extent(d[3], p.w, x, MIN_WIDTH, MAX_WIDTH)
           h == Extent(d[4], p.h, y, MIN_HEIGHT, MAX_HEIGHT)
           r == [x |-> p.x + x, y |-> p.y + y, w |-> w, h |-> h]
<1>3. MIN_WIDTH \in Nat /\ MIN_WIDTH >= 1 /\ MIN_HEIGHT \in Nat /\ MIN_HEIGHT >= 1
      /\ MAX_WIDTH \in Nat /\ MAX_WIDTH >= 1 /\ MAX_HEIGHT \in Nat /\ MAX_HEIGHT >= 1
  BY DEF MIN_WIDTH, MIN_HEIGHT, MAX_WIDTH, MAX_HEIGHT
<1>4. x \in Nat /\ x >= 1 /\ p.w - x >= 3 /\ (p.w >= 13 => p.w - x >= 11)
  BY <1>1, <1>2, <1>3, PlaceBounds
<1>5. y \in Nat /\ y >= 1 /\ p.h - y >= 3
  BY <1>1, <1>2, <1>3, PlaceBounds
<1> HIDE DEF x, y
<1>6. w \in Nat \ {0} /\ x + w + 2 <= p.w
  BY <1>1, <1>2, <1>3, <1>4, ExtentBounds
<1>7. h \in Nat \ {0} /\ y + h + 2 <= p.h /\ h <= MAX_HEIGHT
  BY <1>1, <1>2, <1>3, <1>5, ExtentBounds
<1>8. mjolmkroom(p, d) = r
  BY DEF mjolmkroom, x, y
<1> HIDE DEF w, h
<1>9. r \in RoomSet
  BY <1>1, <1>4, <1>5, <1>6, <1>7 DEF RoomSet
<1>10. RoomIn(r, p)
  BY <1>1, <1>3, <1>4, <1>5, <1>6, <1>7 DEF RoomIn
<1> QED
  BY <1>8, <1>9, <1>10

\* Rooms of parts that are apart have a row or column between them.
LEMMA RoomsFree ==
    ASSUME NEW p \in PartSet, NEW q \in PartSet, NoneShared(p, q),
           NEW r \in RoomSet, NEW s \in RoomSet, RoomIn(r, p), RoomIn(s, q)
    PROVE  NoneShared([r EXCEPT !.w = @ + 1, !.h = @ + 1], [s EXCEPT !.w = @ + 1, !.h = @ + 1])
<1> DEFINE r1 == [r EXCEPT !.w = r.w + 1, !.h = r.h + 1]
           s1 == [s EXCEPT !.w = s.w + 1, !.h = s.h + 1]
<1>1. /\ r.x \in Nat /\ r.y \in Nat /\ r.w \in Nat /\ r.h \in Nat
      /\ s.x \in Nat /\ s.y \in Nat /\ s.w \in Nat /\ s.h \in Nat
  BY DEF RoomSet
<1>2. /\ p.x \in Nat /\ p.y \in Nat /\ p.w \in Nat /\ p.h \in Nat
      /\ q.x \in Nat /\ q.y \in Nat /\ q.w \in Nat /\ q.h \in Nat
  BY PartSizes
<1>3. /\ r1.x = r.x /\ r1.y = r.y /\ r1.w = r.w + 1 /\ r1.h = r.h + 1
      /\ s1.x = s.x /\ s1.y = s.y /\ s1.w = s.w + 1 /\ s1.h = s.h + 1
  BY DEF RoomSet
<1> HIDE DEF r1, s1
<1>4. NoneShared(r1, s1)
  BY <1>1, <1>2, <1>3 DEF NoneShared, RoomIn
<1> QED
  BY <1>4 DEF r1, s1

\* What a draw is reduced to: one at least, and at most its modulus.
LEMMA StepBounds ==
    ASSUME NEW d \in Nat, NEW m \in Nat \ {0}
    PROVE  /\ Step(d, m) \in Nat /\ 1 <= Step(d, m) /\ Step(d, m) <= m
           /\ m >= 2 => Step(d, m) <= m - 1
<1> DEFINE e == d % m
<1>1. e \in Nat /\ e < m
  OBVIOUS
<1>2. Step(d, m) = Greater(e, 1)
  BY DEF Step
<1> HIDE DEF e
<1> QED
  BY <1>1, <1>2 DEF Greater

LEMMA TwiceBounds ==
    ASSUME NEW d \in Nat, NEW e \in Nat, NEW m \in Nat \ {0}
    PROVE  StepTwice(d, e, m) \in Nat /\ StepTwice(d, e, m) <= m
<1>1. e % m \in Nat /\ e % m <= m
  OBVIOUS
<1>2. StepTwice(d, e, m) \in {1, e % m}
  BY DEF StepTwice
<1> QED
  BY <1>1, <1>2

Inside(cells, dim) ==
    \A c \in cells : c[1] \in 0 .. dim[1] - 1 /\ c[2] \in 0 .. dim[2] - 1

\* A line is in the level if its column or row, its first cell and the next, and
\* its limit are.
LEMMA DownIn ==
    ASSUME NEW dim, LevelSize(dim), NEW a \in Nat, NEW from \in Nat, NEW lim \in Int,
           a < dim[1], from + 1 < dim[2], lim < dim[2]
    PROVE  /\ Inside(Down(a, from, lim), dim) /\ Inside(Short(a, from, lim), dim)
           /\ End(from, lim) \in Nat /\ End(from, lim) < dim[2]
<1>1. dim[1] \in Nat /\ dim[2] \in Nat
  BY DEF LevelSize
<1>2. End(from, lim) \in Nat /\ (End(from, lim) = from + 1 \/ End(from, lim) = lim)
  BY DEF End, Greater
<1> HIDE DEF End
<1>3. End(from, lim) < dim[2]
  BY <1>2
<1>4. \A y \in from .. End(from, lim) : y \in 0 .. dim[2] - 1
  BY <1>1, <1>2, <1>3
<1>5. a \in 0 .. dim[1] - 1
  BY <1>1
<1>6. \A y \in from .. End(from, lim) - 1 : y \in from .. End(from, lim)
  BY <1>2
<1> QED
  BY <1>2, <1>3, <1>4, <1>5, <1>6 DEF Inside, Down, Short

LEMMA AcrossIn ==
    ASSUME NEW dim, LevelSize(dim), NEW a \in Nat, NEW from \in Nat, NEW lim \in Int,
           a < dim[2], from + 1 < dim[1], lim < dim[1]
    PROVE  /\ Inside(Across(a, from, lim), dim)
           /\ End(from, lim) \in Nat /\ End(from, lim) < dim[1]
<1>1. dim[1] \in Nat /\ dim[2] \in Nat
  BY DEF LevelSize
<1>2. End(from, lim) \in Nat /\ (End(from, lim) = from + 1 \/ End(from, lim) = lim)
  BY DEF End, Greater
<1> HIDE DEF End
<1>3. End(from, lim) < dim[1]
  BY <1>2
<1>4. \A x \in from .. End(from, lim) : x \in 0 .. dim[1] - 1
  BY <1>1, <1>2, <1>3
<1>5. a \in 0 .. dim[2] - 1
  BY <1>1
<1> QED
  BY <1>2, <1>3, <1>4, <1>5 DEF Inside, Across

LEMMA InsideBoth ==
    ASSUME NEW dim, NEW b, NEW c, Inside(b, dim), Inside(c, dim)
    PROVE  Inside(b \cup c, dim)
BY DEF Inside

\* A room in a level: what is known of its place in it.
RoomOf(r, dim) ==
    /\ r \in RoomSet
    /\ 0 < r.x /\ r.x + r.w + 2 <= dim[1]
    /\ 0 < r.y /\ r.y + r.h + 2 <= dim[2]
    /\ r.h <= MAX_HEIGHT
    /\ dim[1] >= 52 => r.x + 11 <= dim[1]

LEMMA RoomNumbers ==
    ASSUME NEW dim, LevelSize(dim), NEW r, RoomOf(r, dim)
    PROVE  /\ dim[1] \in Nat /\ dim[2] \in Nat
           /\ r.x \in Nat \ {0} /\ r.y \in Nat \ {0} /\ r.w \in Nat \ {0} /\ r.h \in Nat \ {0}
           /\ r.x + r.w + 2 <= dim[1] /\ r.y + r.h + 2 <= dim[2]
           /\ r.x < dim[1] /\ r.y < dim[2]
           /\ RightEdge(r) \in Nat /\ RightEdge(r) = r.x + r.w - 1 /\ RightEdge(r) + 1 < dim[1]
           /\ BottomEdge(r) \in Nat /\ BottomEdge(r) = r.y + r.h - 1 /\ BottomEdge(r) + 1 < dim[2]
<1>1. r.x \in Nat \ {0} /\ r.y \in Nat \ {0} /\ r.w \in Nat \ {0} /\ r.h \in Nat \ {0}
  BY DEF RoomOf, RoomSet
<1>2. dim[1] \in Nat /\ dim[2] \in Nat
  BY DEF LevelSize
<1> QED
  BY <1>1, <1>2 DEF RoomOf, RightEdge, BottomEdge

LEMMA LineLeftAbove ==
    ASSUME NEW dim, LevelSize(dim), NEW s, RoomOf(s, dim), NEW t, RoomOf(t, dim),
           NEW d \in Nat \X Nat \X Nat, NEW junk, s.y <= t.y, t.x > RightEdge(s),
           0 \notin LeftAbove(s, t, d, junk).mods
    PROVE  Inside(LeftAbove(s, t, d, junk).cells, dim)
<1>1. /\ dim[1] \in Nat /\ dim[2] \in Nat
      /\ s.x \in Nat \ {0} /\ s.y \in Nat \ {0} /\ s.w \in Nat \ {0} /\ s.h \in Nat \ {0}
      /\ s.x + s.w + 2 <= dim[1] /\ s.y + s.h + 2 <= dim[2] /\ s.x < dim[1] /\ s.y < dim[2]
      /\ RightEdge(s) \in Nat /\ RightEdge(s) = s.x + s.w - 1 /\ RightEdge(s) + 1 < dim[1]
      /\ BottomEdge(s) \in Nat /\ BottomEdge(s) = s.y + s.h - 1 /\ BottomEdge(s) + 1 < dim[2]
  BY RoomNumbers
<1>2. /\ t.x \in Nat \ {0} /\ t.y \in Nat \ {0} /\ t.w \in Nat \ {0} /\ t.h \in Nat \ {0}
      /\ t.x + t.w + 2 <= dim[1] /\ t.y + t.h + 2 <= dim[2] /\ t.x < dim[1] /\ t.y < dim[2]
      /\ RightEdge(t) \in Nat /\ RightEdge(t) = t.x + t.w - 1 /\ RightEdge(t) + 1 < dim[1]
      /\ BottomEdge(t) \in Nat /\ BottomEdge(t) = t.y + t.h - 1 /\ BottomEdge(t) + 1 < dim[2]
  BY RoomNumbers
<1>3. d[1] \in Nat /\ d[2] \in Nat /\ d[3] \in Nat
  OBVIOUS
<1>0. /\ BottomEdge(s) \in Nat /\ BottomEdge(s) \in Int
      /\ BottomEdge(s) + 1 < dim[2] /\ BottomEdge(s) < dim[2]
      /\ BottomEdge(t) \in Nat /\ BottomEdge(t) \in Int
      /\ BottomEdge(t) + 1 < dim[2] /\ BottomEdge(t) < dim[2]
      /\ RightEdge(s) \in Nat /\ RightEdge(s) + 1 < dim[1]
      /\ RightEdge(t) \in Nat /\ RightEdge(t) + 1 < dim[1]
      /\ s.x \in Int /\ s.x < dim[1] /\ s.y \in Int /\ s.y < dim[2]
      /\ t.x \in Int /\ t.x < dim[1] /\ t.y \in Int /\ t.y < dim[2]
  BY <1>1, <1>2
<1>4. ~(t.x <= RightEdge(s))
  BY <1>1, <1>2
<1>5. CASE t.y <= BottomEdge(s)
  <2> DEFINE delta == s.y + s.h - t.y - 1
             y == t.y + Step(d[1], delta)
  <2>1. /\ LeftAbove(s, t, d, junk).mods = {delta}
        /\ LeftAbove(s, t, d, junk).cells = Across(y, RightEdge(s), t.x)
    BY <1>4, <1>5 DEF LeftAbove, Drawn
  <2>2. delta \in Nat \ {0}
    BY <2>1, <1>1, <1>2, <1>5 DEF Lesser
  <2>3. Step(d[1], delta) \in Nat /\ Step(d[1], delta) <= delta
    BY <2>2, <1>3, StepBounds
  <2>4. y \in Nat /\ y \in Int /\ y < dim[2]
    BY <2>3, <1>1, <1>2, <1>5 DEF Lesser
  <2> HIDE DEF y, delta
  <2>5. Inside(Across(y, RightEdge(s), t.x), dim)
    BY <2>4, <1>0, AcrossIn, Zenon
  <2> QED
    BY <2>1, <2>5
<1>6. CASE ~(t.y <= BottomEdge(s))
  <2> DEFINE y == t.y + Step(d[1], t.h - 1)
             x == s.x + Step(d[2], s.w - 1)
  <2>1. /\ LeftAbove(s, t, d, junk).mods = {t.h - 1, s.w - 1}
        /\ LeftAbove(s, t, d, junk).cells
              = Down(x, BottomEdge(s), y) \cup Across(End(BottomEdge(s), y), x, t.x)
    BY <1>4, <1>6 DEF LeftAbove, Drawn
  <2>2. t.h - 1 \in Nat \ {0} /\ s.w - 1 \in Nat \ {0}
    BY <2>1, <1>1, <1>2
  <2>3. /\ Step(d[1], t.h - 1) \in Nat /\ Step(d[1], t.h - 1) <= t.h - 1
        /\ Step(d[2], s.w - 1) \in Nat /\ Step(d[2], s.w - 1) <= s.w - 1
    BY <2>2, <1>3, StepBounds
  <2>4. x \in Nat /\ x + 1 < dim[1] /\ x < dim[1] /\ y \in Nat /\ y \in Int /\ y < dim[2]
    BY <2>3, <1>1, <1>2
  <2> HIDE DEF x, y
  <2>5. Inside(Down(x, BottomEdge(s), y), dim) /\ End(BottomEdge(s), y) \in Nat
        /\ End(BottomEdge(s), y) < dim[2]
    BY <2>4, <1>0, DownIn, Zenon
  <2>6. Inside(Across(End(BottomEdge(s), y), x, t.x), dim)
    BY <2>4, <2>5, <1>0, AcrossIn, Zenon
  <2> QED
    BY <2>1, <2>5, <2>6, InsideBoth
<1> QED
  BY <1>5, <1>6

LEMMA LineRightAbove ==
    ASSUME NEW dim, LevelSize(dim), NEW s, RoomOf(s, dim), NEW t, RoomOf(t, dim),
           NEW d \in Nat \X Nat \X Nat, s.y <= t.y, s.x > t.x, dim[1] >= 52,
           0 \notin RightAbove(s, t, d).mods
    PROVE  Inside(RightAbove(s, t, d).cells, dim)
<1>1. /\ dim[1] \in Nat /\ dim[2] \in Nat
      /\ s.x \in Nat \ {0} /\ s.y \in Nat \ {0} /\ s.w \in Nat \ {0} /\ s.h \in Nat \ {0}
      /\ s.x + s.w + 2 <= dim[1] /\ s.y + s.h + 2 <= dim[2] /\ s.x < dim[1] /\ s.y < dim[2]
      /\ RightEdge(s) \in Nat /\ RightEdge(s) = s.x + s.w - 1 /\ RightEdge(s) + 1 < dim[1]
      /\ BottomEdge(s) \in Nat /\ BottomEdge(s) = s.y + s.h - 1 /\ BottomEdge(s) + 1 < dim[2]
  BY RoomNumbers
<1>2. /\ t.x \in Nat \ {0} /\ t.y \in Nat \ {0} /\ t.w \in Nat \ {0} /\ t.h \in Nat \ {0}
      /\ t.x + t.w + 2 <= dim[1] /\ t.y + t.h + 2 <= dim[2] /\ t.x < dim[1] /\ t.y < dim[2]
      /\ RightEdge(t) \in Nat /\ RightEdge(t) = t.x + t.w - 1 /\ RightEdge(t) + 1 < dim[1]
      /\ BottomEdge(t) \in Nat /\ BottomEdge(t) = t.y + t.h - 1 /\ BottomEdge(t) + 1 < dim[2]
  BY RoomNumbers
<1>3. d[1] \in Nat /\ d[2] \in Nat /\ d[3] \in Nat
  OBVIOUS
<1>0. /\ BottomEdge(s) \in Nat /\ BottomEdge(s) \in Int
      /\ BottomEdge(s) + 1 < dim[2] /\ BottomEdge(s) < dim[2]
      /\ BottomEdge(t) \in Nat /\ BottomEdge(t) \in Int
      /\ BottomEdge(t) + 1 < dim[2] /\ BottomEdge(t) < dim[2]
      /\ RightEdge(s) \in Nat /\ RightEdge(s) + 1 < dim[1]
      /\ RightEdge(t) \in Nat /\ RightEdge(t) + 1 < dim[1]
      /\ s.x \in Int /\ s.x < dim[1] /\ s.y \in Int /\ s.y < dim[2]
      /\ t.x \in Int /\ t.x < dim[1] /\ t.y \in Int /\ t.y < dim[2]
  BY <1>1, <1>2
<1>4. CASE s.x <= RightEdge(t)
  <2> DEFINE delta == t.x + t.w - s.x - 1
             x == s.x + Step(d[1], delta)
  <2>1. /\ RightAbove(s, t, d).mods = {delta}
        /\ RightAbove(s, t, d).cells = Down(x, BottomEdge(s), t.y)
    BY <1>4 DEF RightAbove, Drawn
  <2>2. delta \in Nat \ {0}
    BY <2>1, <1>1, <1>2, <1>4 DEF Lesser
  <2>3. Step(d[1], delta) \in Nat /\ Step(d[1], delta) <= delta
    BY <2>2, <1>3, StepBounds
  <2>4. x \in Nat /\ x < dim[1]
    BY <2>3, <1>1, <1>2, <1>4 DEF Lesser
  <2> HIDE DEF x, delta
  <2>5. Inside(Down(x, BottomEdge(s), t.y), dim)
    BY <2>4, <1>0, DownIn, Zenon
  <2> QED
    BY <2>1, <2>5
<1>5. CASE ~(s.x <= RightEdge(t)) /\ t.y <= BottomEdge(s)
  <2> DEFINE delta == s.y + s.h - t.y - 1
             y == t.y + Step(d[1], delta)
  <2>1. /\ RightAbove(s, t, d).mods = {delta}
        /\ RightAbove(s, t, d).cells = Across(y, RightEdge(t), s.x)
    BY <1>5 DEF RightAbove, Drawn
  <2>2. delta \in Nat \ {0}
    BY <2>1, <1>1, <1>2, <1>5 DEF Lesser
  <2>3. Step(d[1], delta) \in Nat /\ Step(d[1], delta) <= delta
    BY <2>2, <1>3, StepBounds
  <2>4. y \in Nat /\ y \in Int /\ y < dim[2]
    BY <2>3, <1>1, <1>2, <1>5 DEF Lesser
  <2> HIDE DEF y, delta
  <2>5. Inside(Across(y, RightEdge(t), s.x), dim)
    BY <2>4, <1>0, AcrossIn, Zenon
  <2> QED
    BY <2>1, <2>5
<1>6. CASE ~(s.x <= RightEdge(t)) /\ ~(t.y <= BottomEdge(s))
  <2> DEFINE val == Step(d[1], t.h - 1)
             x == s.x + val
             y == t.y + val
  <2>1. /\ RightAbove(s, t, d).mods = {t.h - 1}
        /\ RightAbove(s, t, d).cells
              = Short(x, BottomEdge(s), y) \cup Across(End(BottomEdge(s), y), RightEdge(t), x)
    BY <1>6 DEF RightAbove, Drawn
  <2>2. t.h - 1 \in Nat \ {0} /\ t.h <= 12 /\ s.x + 11 <= dim[1]
    BY <2>1, <1>1, <1>2 DEF RoomOf, MAX_HEIGHT
  <2>3. val \in Nat /\ val <= t.h - 1 /\ (t.h - 1 >= 2 => val <= (t.h - 1) - 1)
    BY <2>2, <1>3, StepBounds
  <2> HIDE DEF val
  <2>4. x \in Nat /\ x \in Int /\ x < dim[1] /\ y \in Nat /\ y \in Int /\ y < dim[2]
    BY <2>2, <2>3, <1>1, <1>2
  <2> HIDE DEF x, y
  <2>5. Inside(Short(x, BottomEdge(s), y), dim) /\ End(BottomEdge(s), y) \in Nat
        /\ End(BottomEdge(s), y) < dim[2]
    BY <2>4, <1>0, DownIn, Zenon
  <2>6. Inside(Across(End(BottomEdge(s), y), RightEdge(t), x), dim)
    BY <2>4, <2>5, <1>0, AcrossIn, Zenon
  <2> QED
    BY <2>1, <2>5, <2>6, InsideBoth
<1> QED
  BY <1>4, <1>5, <1>6

LEMMA LineBeside ==
    ASSUME NEW dim, LevelSize(dim), NEW s, RoomOf(s, dim), NEW t, RoomOf(t, dim),
           NEW d \in Nat \X Nat \X Nat, s.y > t.y, s.y <= BottomEdge(t),
           0 \notin Beside(s, t, d).mods
    PROVE  Inside(Beside(s, t, d).cells, dim)
<1>1. /\ dim[1] \in Nat /\ dim[2] \in Nat
      /\ s.x \in Nat \ {0} /\ s.y \in Nat \ {0} /\ s.w \in Nat \ {0} /\ s.h \in Nat \ {0}
      /\ s.x + s.w + 2 <= dim[1] /\ s.y + s.h + 2 <= dim[2] /\ s.x < dim[1] /\ s.y < dim[2]
      /\ RightEdge(s) \in Nat /\ RightEdge(s) = s.x + s.w - 1 /\ RightEdge(s) + 1 < dim[1]
      /\ BottomEdge(s) \in Nat /\ BottomEdge(s) = s.y + s.h - 1 /\ BottomEdge(s) + 1 < dim[2]
  BY RoomNumbers
<1>2. /\ t.x \in Nat \ {0} /\ t.y \in Nat \ {0} /\ t.w \in Nat \ {0} /\ t.h \in Nat \ {0}
      /\ t.x + t.w + 2 <= dim[1] /\ t.y + t.h + 2 <= dim[2] /\ t.x < dim[1] /\ t.y < dim[2]
      /\ RightEdge(t) \in Nat /\ RightEdge(t) = t.x + t.w - 1 /\ RightEdge(t) + 1 < dim[1]
      /\ BottomEdge(t) \in Nat /\ BottomEdge(t) = t.y + t.h - 1 /\ BottomEdge(t) + 1 < dim[2]
  BY RoomNumbers
<1>3. d[1] \in Nat /\ d[2] \in Nat /\ d[3] \in Nat
  OBVIOUS
<1>0. /\ BottomEdge(s) \in Nat /\ BottomEdge(s) \in Int
      /\ BottomEdge(s) + 1 < dim[2] /\ BottomEdge(s) < dim[2]
      /\ BottomEdge(t) \in Nat /\ BottomEdge(t) \in Int
      /\ BottomEdge(t) + 1 < dim[2] /\ BottomEdge(t) < dim[2]
      /\ RightEdge(s) \in Nat /\ RightEdge(s) + 1 < dim[1]
      /\ RightEdge(t) \in Nat /\ RightEdge(t) + 1 < dim[1]
      /\ s.x \in Int /\ s.x < dim[1] /\ s.y \in Int /\ s.y < dim[2]
      /\ t.x \in Int /\ t.x < dim[1] /\ t.y \in Int /\ t.y < dim[2]
  BY <1>1, <1>2
<1>4. CASE s.x <= t.x
  <2> DEFINE delta == Lesser(t.y + t.h - s.y - 1, s.h - 1)
             y == s.y + Step(d[1], delta)
  <2>1. /\ Beside(s, t, d).mods = {delta}
        /\ Beside(s, t, d).cells = Across(y, RightEdge(s), t.x)
    BY <1>4 DEF Beside, Drawn
  <2>2. delta \in Nat \ {0}
    BY <2>1, <1>1, <1>2, <1>4 DEF Lesser
  <2>3. Step(d[1], delta) \in Nat /\ Step(d[1], delta) <= delta
    BY <2>2, <1>3, StepBounds
  <2>4. y \in Nat /\ y \in Int /\ y < dim[2]
    BY <2>3, <1>1, <1>2, <1>4 DEF Lesser
  <2> HIDE DEF y, delta
  <2>5. Inside(Across(y, RightEdge(s), t.x), dim)
    BY <2>4, <1>0, AcrossIn, Zenon
  <2> QED
    BY <2>1, <2>5
<1>5. CASE ~(s.x <= t.x)
  <2> DEFINE delta == Lesser(t.y + t.h - s.y, s.h - 1)
             y == s.y + Step(d[1], delta)
  <2>1. /\ Beside(s, t, d).mods = {delta}
        /\ Beside(s, t, d).cells = Across(y, RightEdge(t), s.x)
    BY <1>5 DEF Beside, Drawn
  <2>2. delta \in Nat \ {0}
    BY <2>1, <1>1, <1>2, <1>5 DEF Lesser
  <2>3. Step(d[1], delta) \in Nat /\ Step(d[1], delta) <= delta
    BY <2>2, <1>3, StepBounds
  <2>4. y \in Nat /\ y \in Int /\ y < dim[2]
    BY <2>3, <1>1, <1>2, <1>5 DEF Lesser
  <2> HIDE DEF y, delta
  <2>5. Inside(Across(y, RightEdge(t), s.x), dim)
    BY <2>4, <1>0, AcrossIn, Zenon
  <2> QED
    BY <2>1, <2>5
<1> QED
  BY <1>4, <1>5

LEMMA LineLeftBelow ==
    ASSUME NEW dim, LevelSize(dim), NEW s, RoomOf(s, dim), NEW t, RoomOf(t, dim),
           NEW d \in Nat \X Nat \X Nat, s.y > BottomEdge(t), s.x <= t.x,
           0 \notin LeftBelow(s, t, d).mods
    PROVE  Inside(LeftBelow(s, t, d).cells, dim)
<1>1. /\ dim[1] \in Nat /\ dim[2] \in Nat
      /\ s.x \in Nat \ {0} /\ s.y \in Nat \ {0} /\ s.w \in Nat \ {0} /\ s.h \in Nat \ {0}
      /\ s.x + s.w + 2 <= dim[1] /\ s.y + s.h + 2 <= dim[2] /\ s.x < dim[1] /\ s.y < dim[2]
      /\ RightEdge(s) \in Nat /\ RightEdge(s) = s.x + s.w - 1 /\ RightEdge(s) + 1 < dim[1]
      /\ BottomEdge(s) \in Nat /\ BottomEdge(s) = s.y + s.h - 1 /\ BottomEdge(s) + 1 < dim[2]
  BY RoomNumbers
<1>2. /\ t.x \in Nat \ {0} /\ t.y \in Nat \ {0} /\ t.w \in Nat \ {0} /\ t.h \in Nat \ {0}
      /\ t.x + t.w + 2 <= dim[1] /\ t.y + t.h + 2 <= dim[2] /\ t.x < dim[1] /\ t.y < dim[2]
      /\ RightEdge(t) \in Nat /\ RightEdge(t) = t.x + t.w - 1 /\ RightEdge(t) + 1 < dim[1]
      /\ BottomEdge(t) \in Nat /\ BottomEdge(t) = t.y + t.h - 1 /\ BottomEdge(t) + 1 < dim[2]
  BY RoomNumbers
<1>3. d[1] \in Nat /\ d[2] \in Nat /\ d[3] \in Nat
  OBVIOUS
<1>0. /\ BottomEdge(s) \in Nat /\ BottomEdge(s) \in Int
      /\ BottomEdge(s) + 1 < dim[2] /\ BottomEdge(s) < dim[2]
      /\ BottomEdge(t) \in Nat /\ BottomEdge(t) \in Int
      /\ BottomEdge(t) + 1 < dim[2] /\ BottomEdge(t) < dim[2]
      /\ RightEdge(s) \in Nat /\ RightEdge(s) + 1 < dim[1]
      /\ RightEdge(t) \in Nat /\ RightEdge(t) + 1 < dim[1]
      /\ s.x \in Int /\ s.x < dim[1] /\ s.y \in Int /\ s.y < dim[2]
      /\ t.x \in Int /\ t.x < dim[1] /\ t.y \in Int /\ t.y < dim[2]
  BY <1>1, <1>2
<1>4. CASE t.x <= RightEdge(s)
  <2> DEFINE delta == s.x + s.w - t.x - 1
             x == t.x + Step(d[2], delta)
  <2>1. /\ LeftBelow(s, t, d).mods = {delta}
        /\ LeftBelow(s, t, d).cells = Down(x, BottomEdge(t), BottomEdge(t))
    BY <1>4 DEF LeftBelow, Drawn
  <2>2. delta \in Nat \ {0}
    BY <2>1, <1>1, <1>2, <1>4 DEF Lesser
  <2>3. Step(d[2], delta) \in Nat /\ Step(d[2], delta) <= delta
    BY <2>2, <1>3, StepBounds
  <2>4. x \in Nat /\ x < dim[1]
    BY <2>3, <1>1, <1>2, <1>4 DEF Lesser
  <2> HIDE DEF x, delta
  <2>5. Inside(Down(x, BottomEdge(t), BottomEdge(t)), dim)
    BY <2>4, <1>0, DownIn, Zenon
  <2> QED
    BY <2>1, <2>5
<1>5. CASE ~(t.x <= RightEdge(s))
  <2> DEFINE y == s.y + Step(d[1], s.h - 1)
             lim == t.x + StepTwice(d[2], d[3], t.w - 1)
  <2>1. /\ LeftBelow(s, t, d).mods = {s.h - 1, t.w - 1}
        /\ LeftBelow(s, t, d).cells
              = Across(y, RightEdge(s), lim) \cup Short(End(RightEdge(s), lim), BottomEdge(t), y)
    BY <1>5 DEF LeftBelow, Drawn
  <2>2. s.h - 1 \in Nat \ {0} /\ t.w - 1 \in Nat \ {0}
    BY <2>1, <1>1, <1>2
  <2>3. Step(d[1], s.h - 1) \in Nat /\ Step(d[1], s.h - 1) <= s.h - 1
    BY <2>2, <1>3, StepBounds
  <2>4. StepTwice(d[2], d[3], t.w - 1) \in Nat /\ StepTwice(d[2], d[3], t.w - 1) <= t.w - 1
    BY <2>2, <1>3, TwiceBounds
  <2>5. y \in Nat /\ y \in Int /\ y < dim[2] /\ lim \in Nat /\ lim \in Int /\ lim < dim[1]
    BY <2>3, <2>4, <1>1, <1>2
  <2> HIDE DEF y, lim
  <2>6. Inside(Across(y, RightEdge(s), lim), dim) /\ End(RightEdge(s), lim) \in Nat
        /\ End(RightEdge(s), lim) < dim[1]
    BY <2>5, <1>0, AcrossIn, Zenon
  <2>7. Inside(Short(End(RightEdge(s), lim), BottomEdge(t), y), dim)
    BY <2>5, <2>6, <1>0, DownIn, Zenon
  <2> QED
    BY <2>1, <2>6, <2>7, InsideBoth
<1> QED
  BY <1>4, <1>5

LEMMA LineRightBelow ==
    ASSUME NEW dim, LevelSize(dim), NEW s, RoomOf(s, dim), NEW t, RoomOf(t, dim),
           NEW d \in Nat \X Nat \X Nat, s.y > BottomEdge(t), s.x > t.x,
           0 \notin RightBelow(s, t, d).mods
    PROVE  Inside(RightBelow(s, t, d).cells, dim)
<1>1. /\ dim[1] \in Nat /\ dim[2] \in Nat
      /\ s.x \in Nat \ {0} /\ s.y \in Nat \ {0} /\ s.w \in Nat \ {0} /\ s.h \in Nat \ {0}
      /\ s.x + s.w + 2 <= dim[1] /\ s.y + s.h + 2 <= dim[2] /\ s.x < dim[1] /\ s.y < dim[2]
      /\ RightEdge(s) \in Nat /\ RightEdge(s) = s.x + s.w - 1 /\ RightEdge(s) + 1 < dim[1]
      /\ BottomEdge(s) \in Nat /\ BottomEdge(s) = s.y + s.h - 1 /\ BottomEdge(s) + 1 < dim[2]
  BY RoomNumbers
<1>2. /\ t.x \in Nat \ {0} /\ t.y \in Nat \ {0} /\ t.w \in Nat \ {0} /\ t.h \in Nat \ {0}
      /\ t.x + t.w + 2 <= dim[1] /\ t.y + t.h + 2 <= dim[2] /\ t.x < dim[1] /\ t.y < dim[2]
      /\ RightEdge(t) \in Nat /\ RightEdge(t) = t.x + t.w - 1 /\ RightEdge(t) + 1 < dim[1]
      /\ BottomEdge(t) \in Nat /\ BottomEdge(t) = t.y + t.h - 1 /\ BottomEdge(t) + 1 < dim[2]
  BY RoomNumbers
<1>3. d[1] \in Nat /\ d[2] \in Nat /\ d[3] \in Nat
  OBVIOUS
<1>0. /\ BottomEdge(s) \in Nat /\ BottomEdge(s) \in Int
      /\ BottomEdge(s) + 1 < dim[2] /\ BottomEdge(s) < dim[2]
      /\ BottomEdge(t) \in Nat /\ BottomEdge(t) \in Int
      /\ BottomEdge(t) + 1 < dim[2] /\ BottomEdge(t) < dim[2]
      /\ RightEdge(s) \in Nat /\ RightEdge(s) + 1 < dim[1]
      /\ RightEdge(t) \in Nat /\ RightEdge(t) + 1 < dim[1]
      /\ s.x \in Int /\ s.x < dim[1] /\ s.y \in Int /\ s.y < dim[2]
      /\ t.x \in Int /\ t.x < dim[1] /\ t.y \in Int /\ t.y < dim[2]
  BY <1>1, <1>2
<1>4. CASE s.x <= RightEdge(t)
  <2> DEFINE delta == t.x + t.w - s.x - 1
             x == s.x + Step(d[1], delta)
  <2>1. /\ RightBelow(s, t, d).mods = {delta}
        /\ RightBelow(s, t, d).cells = Down(x, BottomEdge(t), s.y)
    BY <1>4 DEF RightBelow, Drawn
  <2>2. delta \in Nat \ {0}
    BY <2>1, <1>1, <1>2, <1>4 DEF Lesser
  <2>3. Step(d[1], delta) \in Nat /\ Step(d[1], delta) <= delta
    BY <2>2, <1>3, StepBounds
  <2>4. x \in Nat /\ x < dim[1]
    BY <2>3, <1>1, <1>2, <1>4 DEF Lesser
  <2> HIDE DEF x, delta
  <2>5. Inside(Down(x, BottomEdge(t), s.y), dim)
    BY <2>4, <1>0, DownIn, Zenon
  <2> QED
    BY <2>1, <2>5
<1>5. CASE ~(s.x <= RightEdge(t))
  <2> DEFINE lim == s.y + Step(d[1], s.h - 1)
             x == t.x + Step(d[2], t.w - 1)
  <2>1. /\ RightBelow(s, t, d).mods = {s.h - 1, t.w - 1}
        /\ RightBelow(s, t, d).cells
              = Down(x, BottomEdge(t), lim) \cup Across(End(BottomEdge(t), lim), x, s.x)
    BY <1>5 DEF RightBelow, Drawn
  <2>2. s.h - 1 \in Nat \ {0} /\ t.w - 1 \in Nat \ {0}
    BY <2>1, <1>1, <1>2
  <2>3. /\ Step(d[1], s.h - 1) \in Nat /\ Step(d[1], s.h - 1) <= s.h - 1
        /\ Step(d[2], t.w - 1) \in Nat /\ Step(d[2], t.w - 1) <= t.w - 1
    BY <2>2, <1>3, StepBounds
  <2>4. x \in Nat /\ x + 1 < dim[1] /\ x < dim[1] /\ lim \in Nat /\ lim \in Int /\ lim < dim[2]
    BY <2>3, <1>1, <1>2
  <2> HIDE DEF x, lim
  <2>5. Inside(Down(x, BottomEdge(t), lim), dim) /\ End(BottomEdge(t), lim) \in Nat
        /\ End(BottomEdge(t), lim) < dim[2]
    BY <2>4, <1>0, DownIn, Zenon
  <2>6. Inside(Across(End(BottomEdge(t), lim), x, s.x), dim)
    BY <2>4, <2>5, <1>0, AcrossIn, Zenon
  <2> QED
    BY <2>1, <2>5, <2>6, InsideBoth
<1> QED
  BY <1>4, <1>5


LEMMA LineInside ==
    ASSUME NEW dim, LevelSize(dim), dim[1] >= 52,
           NEW s, RoomOf(s, dim), NEW t, RoomOf(t, dim),
           NEW d \in Nat \X Nat \X Nat, NEW junk, ~Uninitialised(s, t),
           0 \notin mjolconnrooms(s, t, d, junk).mods
    PROVE  Inside(mjolconnrooms(s, t, d, junk).cells, dim)
<1>1. /\ s.x \in Nat \ {0} /\ s.y \in Nat \ {0}
      /\ RightEdge(s) \in Nat /\ BottomEdge(s) \in Nat
  BY RoomNumbers
<1>2. /\ t.x \in Nat \ {0} /\ t.y \in Nat \ {0}
      /\ RightEdge(t) \in Nat /\ BottomEdge(t) \in Nat /\ BottomEdge(t) >= t.y
  BY RoomNumbers
<1>3. CASE s.y <= t.y /\ s.x <= t.x
  <2>1. mjolconnrooms(s, t, d, junk) = LeftAbove(s, t, d, junk)
    BY <1>3 DEF mjolconnrooms
  <2>2. t.x > RightEdge(s)
    BY <1>1, <1>2, <1>3 DEF Uninitialised
  <2> QED
    BY <1>3, <2>1, <2>2, LineLeftAbove
<1>4. CASE s.y <= t.y /\ ~(s.x <= t.x)
  <2>1. mjolconnrooms(s, t, d, junk) = RightAbove(s, t, d) /\ s.x > t.x
    BY <1>1, <1>2, <1>4 DEF mjolconnrooms
  <2> QED
    BY <1>4, <2>1, LineRightAbove
<1>5. CASE ~(s.y <= t.y) /\ s.y <= BottomEdge(t)
  <2>1. mjolconnrooms(s, t, d, junk) = Beside(s, t, d) /\ s.y > t.y
    BY <1>1, <1>2, <1>5 DEF mjolconnrooms
  <2> QED
    BY <1>5, <2>1, LineBeside
<1>6. CASE ~(s.y <= t.y) /\ ~(s.y <= BottomEdge(t)) /\ s.x <= t.x
  <2>1. mjolconnrooms(s, t, d, junk) = LeftBelow(s, t, d) /\ s.y > BottomEdge(t)
    BY <1>1, <1>2, <1>6 DEF mjolconnrooms
  <2> QED
    BY <1>6, <2>1, LineLeftBelow
<1>7. CASE ~(s.y <= t.y) /\ ~(s.y <= BottomEdge(t)) /\ ~(s.x <= t.x)
  <2>1. mjolconnrooms(s, t, d, junk) = RightBelow(s, t, d) /\ s.y > BottomEdge(t) /\ s.x > t.x
    BY <1>1, <1>2, <1>7 DEF mjolconnrooms
  <2> QED
    BY <2>1, LineRightBelow
<1> QED
  BY <1>3, <1>4, <1>5, <1>6, <1>7

\* The table of parts is sound, each room is in its part, and what
\* is drawn is in the level.
RoomsInv ==
    /\ lvlsize \in LevelSizes
    /\ TabSound(parts, lvlsize)
    /\ rooms \in Seq(RoomSet) /\ Len(rooms) <= 8
    /\ Len(rooms) > 0 => Len(parts) = 15
    /\ \A j \in 1 .. Len(rooms) : RoomIn(rooms[j], parts[16 - j])
    /\ conn.src \in 0 .. Len(rooms)
    /\ LinesInside
    /\ nroom \in {0, 2 * NLVL} /\ stray \in BOOLEAN /\ dead \in BOOLEAN

LEMMA LevelsLarge ==
    ASSUME lvlsize \in LevelSizes
    PROVE  LevelSize(lvlsize)
BY RoomsAssumption DEF LevelSize

LEMMA PartsEight == NParts = 8 /\ 8 \in Nat
BY DEF NParts, NLVL

\* A room that was made is in the level.
LEMMA RoomsInLevel ==
    ASSUME RoomsInv, NEW j \in 1 .. Len(rooms)
    PROVE  RoomOf(rooms[j], lvlsize) /\ parts[16 - j] \in PartSet /\ 16 - j \in Leaves(parts)
<1>1. LevelSize(lvlsize) /\ lvlsize[1] \in Nat /\ lvlsize[2] \in Nat
  BY LevelsLarge DEF RoomsInv, LevelSize
<1>2. /\ rooms[j] \in RoomSet /\ Len(parts) = 15 /\ 16 - j \in 8 .. 15 /\ parts[16 - j] \in PartSet
  BY DEF RoomsInv, TabSound
<1> DEFINE r == rooms[j]
           i == 16 - j
           p == parts[i]
<1>3. /\ p.x + p.w <= lvlsize[1] /\ p.y + p.h <= lvlsize[2]
      /\ \A m \in {4, 13} : 4 * m <= lvlsize[1] => PartLarge(i, p, m)
  BY <1>2 DEF RoomsInv, TabSound
<1>4. RoomIn(r, p)
  BY DEF RoomsInv
<1>5. i \in Leaves(parts)
  BY <1>2 DEF Leaves
<1> HIDE DEF r, p
<1>6. lvlsize[1] >= 52 => p.w >= 13
  <2>1. 13 \in {4, 13} /\ 4 * 13 = 52
    OBVIOUS
  <2>2. lvlsize[1] >= 52 => PartLarge(i, p, 13)
    BY <1>1, <1>3, <2>1
  <2> QED
    BY <1>2, <2>2 DEF PartLarge
<1>7. /\ p.x \in Nat /\ p.y \in Nat /\ p.w \in Nat /\ p.h \in Nat
      /\ r.x \in Nat /\ r.y \in Nat /\ r.w \in Nat /\ r.h \in Nat
      /\ r \in RoomSet
  BY <1>2, PartSizes DEF RoomSet, p, r
<1>8. p.x + p.w <= lvlsize[1] /\ p.y + p.h <= lvlsize[2]
  BY <1>3
<1>9. RoomOf(r, lvlsize)
  <2>1. /\ 0 < r.x /\ r.x + r.w + 2 <= lvlsize[1]
        /\ 0 < r.y /\ r.y + r.h + 2 <= lvlsize[2]
    <3>1. r.x > p.x /\ r.y > p.y /\ r.x + r.w + 2 <= p.x + p.w /\ r.y + r.h + 2 <= p.y + p.h
      BY <1>4 DEF RoomIn
    <3>2. p.x < r.x /\ p.y < r.y
      BY <3>1, <1>7
    <3> QED
      BY <1>1, <3>1, <3>2, <1>7, <1>8, SumsThrough, Zenon
  <2>2. ASSUME lvlsize[1] >= 52 PROVE r.x + 11 <= lvlsize[1]
    <3>1. r.x + 11 <= p.x + p.w
      BY <2>2, <1>4, <1>6 DEF RoomIn
    <3> QED
      BY <1>1, <3>1, <1>7, <1>8, SumsThrough, Zenon
  <2>3. r.h <= MAX_HEIGHT
    BY <1>4 DEF RoomIn
  <2> QED
    BY <1>7, <2>1, <2>2, <2>3 DEF RoomOf
<1> QED
  BY <1>2, <1>5, <1>9 DEF r

LEMMA RoomsBegin == RoomsInit => RoomsInv
<1> SUFFICES ASSUME RoomsInit PROVE RoomsInv
  OBVIOUS
<1>1. TabSound(parts, lvlsize)
  <2>1. PICK v \in BOOLEAN :
          parts = <<[x |-> 0, y |-> 0, w |-> lvlsize[1], h |-> lvlsize[2], vertical |-> v]>>
    BY DEF RoomsInit
  <2> QED
    BY <2>1, FirstTab, LevelsLarge DEF RoomsInit
<1>2. conn.src = 0 /\ conn.cells = {}
  BY DEF RoomsInit, NoLine
<1>3. rooms \in Seq(RoomSet) /\ Len(rooms) = 0 /\ \A j \in 1 .. Len(rooms) : FALSE
  BY DEF RoomsInit
<1>4. LinesInside
  BY <1>2 DEF LinesInside
<1>5. Len(rooms) <= 8 /\ ~(Len(rooms) > 0) /\ conn.src \in 0 .. Len(rooms)
  BY <1>2, <1>3
<1>6. /\ lvlsize \in LevelSizes
      /\ nroom \in {0, 2 * NLVL} /\ stray \in BOOLEAN /\ dead \in BOOLEAN
  BY DEF RoomsInit
<1> QED
  BY <1>1, <1>3, <1>4, <1>5, <1>6, Zenon DEF RoomsInv

LEMMA RoomsStep == RoomsInv /\ [RoomsNext]_roomvars => RoomsInv'
<1> SUFFICES ASSUME RoomsInv, [RoomsNext]_roomvars PROVE RoomsInv'
  OBVIOUS
<1>0. LevelSize(lvlsize)
  BY LevelsLarge DEF RoomsInv
<1>1. CASE Split
  <2>1. Len(parts) < 15 /\ Len(rooms) = 0
    BY <1>1, PartsEight DEF Split, RoomsInv
  <2>2. TabSound(parts', lvlsize)
    BY <1>0, <1>1, <2>1, SplitTab DEF Split, RoomsInv
  <2>3. \A j \in 1 .. Len(rooms) : FALSE
    BY <2>1
  <2> QED
    BY <1>1, <2>1, <2>2, <2>3 DEF Split, RoomsInv, LinesInside
<1>2. CASE MakeRoom
  <2>1. PICK d \in RoomDraws :
            rooms' = Append(rooms, mjolmkroom(parts[Len(parts) - Len(rooms)], d))
    BY <1>2 DEF MakeRoom
  <2>2. Len(parts) = 15 /\ Len(rooms) < 8 /\ UNCHANGED <<lvlsize, parts, conn, stray, nroom, dead>>
    BY <1>2, PartsEight DEF MakeRoom
  <2> DEFINE n == Len(rooms)
             p == parts[15 - n]
             r == mjolmkroom(p, d)
  <2>3. n \in 0 .. 7 /\ 15 - n \in 8 .. 15 /\ p \in PartSet
    <3>1. parts \in Seq(PartSet) /\ rooms \in Seq(RoomSet)
      BY DEF RoomsInv, TabSound
    <3>3. Len(parts) = 15 /\ n < 8
      BY <2>2
    <3>0. n \in Nat
      BY <3>1
    <3> HIDE DEF n
    <3>2. n \in 0 .. 7 /\ 15 - n \in 8 .. 15
      BY <3>0, <3>3
    <3>4. 15 - n \in 1 .. Len(parts)
      BY <3>2, <3>3
    <3> QED
      BY <3>1, <3>2, <3>4, InSeq, Zenon
  <2>4. d \in Nat \X Nat \X Nat \X Nat
    BY RoomsAssumption
  <2>5. p.w >= 4 /\ p.h >= 4
    <3>1. 4 \in {4, 13} /\ 4 * 4 <= lvlsize[1]
      BY <1>0 DEF LevelSize
    <3>2. 15 - n \in 1 .. Len(parts)
      BY <2>2, <2>3
    <3>3. \A m \in {4, 13} : 4 * m <= lvlsize[1] => PartLarge(15 - n, p, m)
      BY <3>2 DEF RoomsInv, TabSound
    <3>4. PartLarge(15 - n, p, 4)
      BY <3>1, <3>3
    <3> QED
      BY <2>3, <3>4 DEF PartLarge
  <2>6. r \in RoomSet /\ RoomIn(r, p)
    BY <2>3, <2>4, <2>5, RoomMade
  <2> HIDE DEF r
  <2>7. rooms' = Append(rooms, r) /\ rooms \in Seq(RoomSet)
    BY <2>1, <2>2 DEF RoomsInv, r
  <2>8. rooms' \in Seq(RoomSet) /\ Len(rooms') = n + 1 /\ rooms'[n + 1] = r
        /\ \A j \in 1 .. n : rooms'[j] = rooms[j]
    BY <2>6, <2>7
  <2>9. ASSUME NEW j \in 1 .. n + 1 PROVE RoomIn(rooms'[j], parts[16 - j])
    <3>1. CASE j \in 1 .. n
      BY <3>1, <2>8 DEF RoomsInv
    <3>2. CASE j = n + 1
      <4>1. 16 - j = 15 - n
        BY <2>3, <3>2
      <4> QED
        BY <3>2, <4>1, <2>6, <2>8
    <3> QED
      BY <3>1, <3>2, <2>3
  <2>10. conn.src \in 0 .. n + 1
    BY <2>3 DEF RoomsInv
  <2>11. (LinesInside)'
    BY <2>2 DEF RoomsInv, LinesInside
  <2> QED
    BY <2>2, <2>3, <2>8, <2>9, <2>10, <2>11 DEF RoomsInv
<1>3. CASE ConnectRooms
  <2> DEFINE k == Greater(conn.src + 1, 2)
             s == rooms[k]
             t == rooms[k - 1]
  <2>1. Len(rooms) = 8 /\ conn.src < 8 /\ UNCHANGED <<lvlsize, parts, rooms, nroom>>
    BY <1>3, PartsEight DEF ConnectRooms
  <2>2. k \in 2 .. 8 /\ k \in 1 .. Len(rooms) /\ k - 1 \in 1 .. Len(rooms)
    BY <2>1 DEF RoomsInv, Greater
  <2>3. PICK d \in LineDraws, junk \in IF Uninitialised(s, t) THEN Junk ELSE {0} :
            /\ conn' = [src |-> k, mods |-> mjolconnrooms(s, t, d, junk).mods,
                        cells |-> mjolconnrooms(s, t, d, junk).cells]
            /\ stray' = Uninitialised(s, t)
            /\ dead' = (0 \in mjolconnrooms(s, t, d, junk).mods)
    BY <1>3 DEF ConnectRooms
  <2>4. RoomOf(s, lvlsize) /\ RoomOf(t, lvlsize)
    BY <2>2, RoomsInLevel
  <2>5. d \in Nat \X Nat \X Nat
    BY RoomsAssumption
  <2> HIDE DEF k, s, t
  <2>6. lvlsize[1] \in Nat
    BY <1>0 DEF LevelSize
  <2>7. ASSUME ~(lvlsize[1] < 52), ~Uninitialised(s, t), 0 \notin mjolconnrooms(s, t, d, junk).mods
        PROVE  Inside(mjolconnrooms(s, t, d, junk).cells, lvlsize)
    BY <1>0, <2>4, <2>5, <2>6, <2>7, LineInside
  <2>8. (LinesInside)'
    BY <2>1, <2>3, <2>7 DEF LinesInside, Inside
  <2>9. conn'.src \in 0 .. Len(rooms) /\ stray' \in BOOLEAN /\ dead' \in BOOLEAN
    BY <2>1, <2>2, <2>3 DEF Uninitialised
  <2> QED
    BY <2>1, <2>8, <2>9 DEF RoomsInv
<1>4. CASE Finish
  BY <1>4 DEF Finish, RoomsInv, LinesInside
<1>5. CASE UNCHANGED roomvars
  BY <1>5 DEF roomvars, RoomsInv, LinesInside
<1> QED
  BY <1>1, <1>2, <1>3, <1>4, <1>5 DEF RoomsNext

LEMMA RoomsFollow == RoomsInv => LevelSound
<1> SUFFICES ASSUME RoomsInv PROVE LevelSound
  OBVIOUS
<1>0. LevelSize(lvlsize) /\ lvlsize[1] \in Nat /\ lvlsize[2] \in Nat
  BY LevelsLarge DEF RoomsInv, LevelSize
<1>1. RoomsTypeOK
  <2>1. Len(parts) \in 1 .. 2 * NParts - 1
    BY PartsEight DEF RoomsInv, TabSound
  <2>2. \A i \in 1 .. Len(parts) : parts[i] \in PartSet
    BY DEF RoomsInv, TabSound
  <2>3. Len(rooms) \in 0 .. NParts /\ \A i \in 1 .. Len(rooms) : rooms[i] \in RoomSet
    <3>1. rooms \in Seq(RoomSet) /\ Len(rooms) <= 8
      BY DEF RoomsInv
    <3>2. Len(rooms) \in Nat
      BY <3>1
    <3>3. Len(rooms) \in 0 .. NParts
      BY <3>1, <3>2, PartsEight, UpTo, Zenon
    <3> QED
      BY <3>1, <3>3, InSeq
  <2> QED
    BY <2>1, <2>2, <2>3 DEF RoomsInv, RoomsTypeOK, PartSet, RoomSet
<1>2. PartsTile
  <2>1. \A i, j \in Leaves(parts) : i < j => i # j
    BY DEF Leaves, RoomsInv, TabSound
  <2>2. \A i \in Leaves(parts) : i \in 1 .. Len(parts)
    BY DEF Leaves, RoomsInv, TabSound
  <2> QED
    BY <2>1, <2>2 DEF RoomsInv, TabSound, PartsTile
<1>3. RoomsApart
  <2>1. ASSUME NEW i \in 1 .. Len(rooms)
        PROVE  /\ rooms[i].x > 0 /\ rooms[i].x + rooms[i].w < lvlsize[1]
               /\ rooms[i].y > 0 /\ rooms[i].y + rooms[i].h < lvlsize[2]
    <3>1. RoomOf(rooms[i], lvlsize)
      BY RoomsInLevel
    <3> DEFINE r == rooms[i]
    <3> HIDE DEF r
    <3>2. /\ r.x \in Nat \ {0} /\ r.y \in Nat \ {0} /\ r.w \in Nat \ {0} /\ r.h \in Nat \ {0}
          /\ r.x + r.w + 2 <= lvlsize[1] /\ r.y + r.h + 2 <= lvlsize[2]
      BY <1>0, <3>1, RoomNumbers DEF r
    <3>3. r.x > 0 /\ r.x + r.w < lvlsize[1] /\ r.y > 0 /\ r.y + r.h < lvlsize[2]
      BY <1>0, <3>2, SMTT(30)
    <3> QED
      BY <3>3 DEF r
  <2>2. ASSUME NEW i \in 1 .. Len(rooms), NEW j \in 1 .. i - 1
        PROVE  NoneShared([rooms[i] EXCEPT !.w = @ + 1, !.h = @ + 1],
                          [rooms[j] EXCEPT !.w = @ + 1, !.h = @ + 1])
    <3>1. j \in 1 .. Len(rooms) /\ 16 - i # 16 - j
      OBVIOUS
    <3>2. /\ parts[16 - i] \in PartSet /\ 16 - i \in Leaves(parts)
          /\ parts[16 - j] \in PartSet /\ 16 - j \in Leaves(parts)
      BY <3>1, RoomsInLevel
    <3>3. NoneShared(parts[16 - i], parts[16 - j])
      BY <3>1, <3>2 DEF RoomsInv, TabSound
    <3>4. /\ rooms[i] \in RoomSet /\ RoomIn(rooms[i], parts[16 - i])
          /\ rooms[j] \in RoomSet /\ RoomIn(rooms[j], parts[16 - j])
      BY <3>1 DEF RoomsInv
    <3> QED
      BY <3>2, <3>3, <3>4, RoomsFree
  <2> QED
    BY <2>1, <2>2 DEF RoomsApart
<1> QED
  BY <1>1, <1>2, <1>3 DEF RoomsInv, LevelSound

\* However the draws come out, the parts of a level of 16 by 16 cells or more cover
\* it, its rooms are apart, and in a level of 52 columns or more no line that is
\* drawn at a column that was set leaves it (mjolinitrooms).
THEOREM LevelsSound == RoomsSpec => []LevelSound
<1>1. RoomsInit => RoomsInv
  BY RoomsBegin
<1>2. RoomsInv /\ [RoomsNext]_roomvars => RoomsInv'
  BY RoomsStep
<1>3. RoomsInv => LevelSound
  BY RoomsFollow
<1> QED
  BY <1>1, <1>2, <1>3, PTL DEF RoomsSpec
---------------------------------------------------------------------------
(* The frames of a film.                                                   *)

\* What is divided by the same number keeps its order.
LEMMA DividedInOrder ==
    ASSUME NEW x \in Nat, NEW y \in Nat, x <= y, NEW d \in Nat \ {0}
    PROVE  x \div d <= y \div d
<1> DEFINE p == x \div d
           q == y \div d
<1>1. p \in Nat /\ p * d <= x /\ q \in Nat /\ y < q * d + d
  BY Divided
<1> HIDE DEF p, q
<1>2. ASSUME q + 1 <= p PROVE FALSE
  <2>1. (q + 1) * d <= p * d /\ (q + 1) * d = q * d + d /\ q * d \in Nat /\ p * d \in Nat
    BY <1>1, <1>2, Times
  <2> DEFINE qd == q * d
             pd == p * d
  <2>2. qd + d <= pd /\ pd <= x /\ y < qd + d /\ qd \in Nat /\ pd \in Nat
    BY <1>1, <2>1
  <2> HIDE DEF qd, pd
  <2> QED
    BY <2>2
<1> QED
  BY <1>1, <1>2 DEF p, q

\* The nearest level rises with time, and up to the end no higher than the top.
LEMMA NearestIs ==
    ASSUME NEW top \in Nat, NEW limit \in Nat \ {0}, NEW time \in Nat
    PROVE  /\ Nearest(top, time, limit) \in Nat
           /\ time <= limit => Nearest(top, time, limit) <= top
           /\ \A later \in Nat : time <= later => Nearest(top, time, limit) <= Nearest(top, later, limit)
<1> DEFINE N(t) == 2 * top * t + limit
           d == 2 * limit
<1>1. d \in Nat \ {0}
  OBVIOUS
<1>2. ASSUME NEW t \in Nat PROVE 2 * top * t \in Nat /\ N(t) \in Nat /\ 2 * top * t = t * (2 * top)
  <2>1. 2 * top \in Nat
    OBVIOUS
  <2>2. (2 * top) * t \in Nat /\ (2 * top) * t = t * (2 * top)
    BY <2>1, Times
  <2> QED
    BY <2>2
<1>3. ASSUME NEW t \in Nat, NEW u \in Nat, t <= u PROVE N(t) <= N(u)
  <2>1. 2 * top \in Nat
    OBVIOUS
  <2>2. t * (2 * top) <= u * (2 * top)
    BY <1>3, <2>1, Times
  <2>3. 2 * top * t <= 2 * top * u
    BY <1>2, <2>2
  <2> QED
    BY <1>2, <2>3
<1>4. ASSUME NEW t \in Nat, NEW u \in Nat, t <= u PROVE N(t) \div d <= N(u) \div d
  <2> HIDE DEF N, d
  <2> QED
    BY <1>1, <1>2, <1>3, <1>4, DividedInOrder
<1>5. N(limit) \div d = top
  <2>1. N(limit) = top * d + limit /\ top * d \in Nat /\ limit < d
    BY SMT
  <2> DEFINE n == N(limit)
             q == n \div d
  <2>2. q \in Nat /\ q * d <= n /\ n < q * d + d
    <3>1. n \in Nat
      BY <1>2
    <3> HIDE DEF n, d
    <3> QED
      BY <1>1, <3>1, Divided
  <2>3. n = top * d + limit
    BY <2>1
  <2> HIDE DEF q, n, d
  <2>4. ~(q + 1 <= top)
    <3>1. q + 1 <= top => (q + 1) * d <= top * d /\ (q + 1) * d = q * d + d /\ q * d \in Nat
      BY <1>1, <2>2, Times
    <3> QED
      BY <1>1, <2>1, <2>2, <2>3, <3>1
  <2>5. ~(top + 1 <= q)
    <3>1. top + 1 <= q => (top + 1) * d <= q * d /\ (top + 1) * d = top * d + d /\ q * d \in Nat
      BY <1>1, <2>2, Times
    <3> QED
      BY <1>1, <2>1, <2>2, <2>3, <3>1
  <2> QED
    BY <2>2, <2>4, <2>5 DEF q, n
<1>6. \A t \in Nat : Nearest(top, t, limit) = N(t) \div d
  BY DEF Nearest
<1>7. N(time) \div d \in Nat
  <2> HIDE DEF N, d
  <2> QED
    BY <1>1, <1>2, Divided
<1>8. time <= limit => N(time) \div d <= top
  <2> HIDE DEF N, d
  <2> QED
    BY <1>4, <1>5
<1> HIDE DEF N, d
<1> QED
  BY <1>4, <1>6, <1>7, <1>8

\* A sequence with an item at its end.
LEMMA LongerBy ==
    ASSUME NEW S, NEW s \in Seq(S), NEW e
    PROVE  /\ Append(s, e) \in Seq(S \cup {e}) /\ Len(Append(s, e)) = Len(s) + 1
           /\ \A i \in 1 .. Len(s) : Append(s, e)[i] = s[i]
           /\ Append(s, e)[Len(s) + 1] = e
<1>1. s \in Seq(S \cup {e}) /\ e \in S \cup {e}
  BY SeqMonotonic
<1> QED
  BY <1>1, AppendProperties

\* The level of the next frame is that of the time gone by, or the first one.  The
\* last frame had the level remembered, and from then on levels only go one way:
\* in a crossfade from the second frame on.
Clocked == film.limit > 0 /\ shade = FadeLevel(film.dir, used, film.limit)
Unclocked ==
    used = 0 /\ shade = FirstLevel(film.dir) /\ Len(shots) <= IF turn = "clock" THEN 1 ELSE 0
FilmTypes ==
    /\ film.dir \in {"in", "out", "cross"} /\ film.limit \in Nat
    /\ shade \in Int /\ lastshade \in Int /\ used \in Nat
    /\ \E S : shots \in Seq(S)
    /\ turn \in {"look", "clock", "done"}
FilmInv ==
    /\ FilmTypes /\ FramesInOrder
    /\ Clocked \/ Unclocked
    /\ turn = "clock" => used < film.limit /\ shade = lastshade
    /\ Len(shots) > 0 =>
        /\ shots[Len(shots)].shade = lastshade
        /\ film.dir = "in" => lastshade <= shade
        /\ film.dir = "out" => shade <= lastshade
        /\ film.dir = "cross" /\ Len(shots) > 1 => lastshade <= shade
    /\ Len(shots) = 0 /\ film.dir = "cross" => Unclocked /\ lastshade = 0 /\ turn # "clock"

\* Levels in the order of times, by direction.
LEMMA LevelsAre ==
    ASSUME NEW dir \in {"in", "out", "cross"}, NEW limit \in Nat \ {0}, NEW time \in Nat
    PROVE  /\ FadeLevel(dir, time, limit) \in Int
           /\ dir = "in" => FadeLevel(dir, time, limit) >= 0
           /\ dir = "out" => FadeLevel(dir, time, limit) <= Shades - 1
           /\ dir = "cross" => FadeLevel(dir, time, limit) >= 0
           /\ time <= limit => FadeLevel(dir, time, limit)
                                 \in 0 .. IF dir = "cross" THEN FullAlpha ELSE Shades - 1
           /\ \A later \in Nat : time <= later =>
                 IF dir = "out" THEN FadeLevel(dir, later, limit) <= FadeLevel(dir, time, limit)
                 ELSE FadeLevel(dir, time, limit) <= FadeLevel(dir, later, limit)
<1> DEFINE top == IF dir = "cross" THEN FullAlpha ELSE Shades - 1
<1>1. top \in Nat
  BY FadeAssumption
<1>2. \A t \in Nat : Nearest(top, t, limit) \in Nat
                     /\ (t <= limit => Nearest(top, t, limit) <= top)
                     /\ \A later \in Nat : t <= later => Nearest(top, t, limit) <= Nearest(top, later, limit)
  <2> HIDE DEF top
  <2> QED
    BY <1>1, NearestIs
<1>3. \A t : FadeLevel(dir, t, limit) = IF dir = "out" THEN top - Nearest(top, t, limit)
                                        ELSE Nearest(top, t, limit)
  BY DEF FadeLevel
<1>4. dir # "cross" => top = Shades - 1
  OBVIOUS
<1>5. top = IF dir = "cross" THEN FullAlpha ELSE Shades - 1
  OBVIOUS
<1> HIDE DEF top
<1> QED
  BY <1>1, <1>2, <1>3, <1>4, <1>5

LEMMA FilmStarts == FilmInit => FilmInv
<1> SUFFICES ASSUME FilmInit PROVE FilmInv
  OBVIOUS
<1>1. /\ film.dir \in {"in", "out", "cross"} /\ film.limit \in Nat
      /\ shade = FirstLevel(film.dir) /\ lastshade = FirstLast(film.dir) /\ used = 0
      /\ shots = <<>> /\ turn = "look"
  BY FadeAssumption DEF FilmInit
<1>2. Len(shots) = 0 /\ shots \in Seq({})
  BY <1>1
<1>3. FilmTypes
  <2>1. shade \in Int /\ lastshade \in Int
    BY <1>1, FadeAssumption DEF FirstLevel, FirstLast
  <2> QED
    BY <1>1, <1>2, <2>1 DEF FilmTypes
<1>4. FramesInOrder
  BY <1>2 DEF FramesInOrder
<1>5. Unclocked /\ (film.dir = "cross" => lastshade = 0)
  BY <1>1, <1>2 DEF Unclocked, FirstLast
<1> QED
  BY <1>1, <1>2, <1>3, <1>4, <1>5 DEF FilmInv

LEMMA FrameKeeps == FilmInv /\ DrawFrame => FilmInv'
<1> SUFFICES ASSUME FilmInv, DrawFrame PROVE FilmInv'
  OBVIOUS
<1> DEFINE n == Len(shots)
           shot == [shade |-> shade, shown |-> canvas']
<1>1. /\ turn = "look" /\ used < film.limit /\ shade # lastshade
      /\ lastshade' = shade /\ shots' = Append(shots, shot)
      /\ turn' = "clock" /\ film' = film /\ shade' = shade /\ used' = used
  BY DEF DrawFrame
<1>2. FilmTypes
  BY DEF FilmInv
<1>3. PICK S : shots \in Seq(S)
  BY <1>2 DEF FilmTypes
<1>4. /\ shots' \in Seq(S \cup {shot}) /\ Len(shots') = n + 1
      /\ \A i \in 1 .. n : shots'[i] = shots[i]
      /\ shots'[n + 1] = shot /\ n \in Nat
  <2> HIDE DEF shot
  <2> QED
    BY <1>1, <1>3, LongerBy, LenProperties
<1>5. shots'[n + 1].shade = shade
  BY <1>4
<1> HIDE DEF shot, n
<1>6. /\ film.dir \in {"in", "out", "cross"} /\ film.limit \in Nat \ {0}
      /\ shade \in Int /\ lastshade \in Int /\ used \in Nat
  BY <1>1, <1>2 DEF FilmTypes
<1>7. FilmTypes'
  BY <1>1, <1>2, <1>4 DEF FilmTypes
<1>8. Unclocked => n = 0
  BY <1>1, <1>4 DEF Unclocked, n
<1>9. (Clocked \/ Unclocked)'
  <2>1. Clocked => Clocked'
    BY <1>1 DEF Clocked
  <2>2. Unclocked => Unclocked'
    BY <1>1, <1>4, <1>8 DEF Unclocked
  <2> QED
    BY <2>1, <2>2 DEF FilmInv
<1>10. n > 0 => Clocked
  <2>1. n > 0 => n # 0
    BY <1>4
  <2>2. Clocked \/ Unclocked
    BY DEF FilmInv
  <2> QED
    BY <2>1, <2>2, <1>8, Zenon
<1>11. shade \in 0 .. IF film.dir = "cross" THEN FullAlpha ELSE Shades - 1
  <2>1. CASE Clocked
    <3>1. shade = FadeLevel(film.dir, used, film.limit)
      BY <2>1 DEF Clocked
    <3>2. used <= film.limit
      BY <1>1, <1>6
    <3> QED
      BY <3>1, <3>2, <1>6, LevelsAre
  <2>2. CASE Unclocked
    BY <2>2, <1>6, FadeAssumption DEF Unclocked, FirstLevel
  <2> QED
    BY <2>1, <2>2 DEF FilmInv
<1>12. n > 0 => /\ shots[n].shade = lastshade
                /\ film.dir = "in" => lastshade < shade
                /\ film.dir = "out" => shade < lastshade
                /\ film.dir = "cross" /\ n > 1 => lastshade < shade
  BY <1>1, <1>4, <1>6 DEF FilmInv, n
<1>13. film.dir = "cross" /\ n = 0 => shade = FullAlpha
  BY DEF FilmInv, Unclocked, FirstLevel, n
<1>14. FramesInOrder'
  <2>1. FramesInOrder
    BY DEF FilmInv
  <2>2. film.dir # "cross" => \A i \in 1 .. n + 1 : shots'[i].shade \in 0 .. Shades - 1
    BY <2>1, <1>4, <1>5, <1>11 DEF FramesInOrder, n
  <2>3. film.dir = "in" => \A i \in 2 .. n + 1 : shots'[i - 1].shade < shots'[i].shade
    <3> SUFFICES ASSUME film.dir = "in", NEW i \in 2 .. n + 1 PROVE shots'[i - 1].shade < shots'[i].shade
      OBVIOUS
    <3>1. CASE i = n + 1
      <4>1. n > 0 /\ i - 1 = n /\ n \in 1 .. n
        BY <3>1, <1>4
      <4> QED
        BY <4>1, <3>1, <1>4, <1>5, <1>12
    <3>2. CASE i # n + 1
      <4>1. i \in 2 .. n /\ i \in 1 .. n /\ i - 1 \in 1 .. n
        BY <3>2, <1>4
      <4> QED
        BY <4>1, <2>1, <1>4 DEF FramesInOrder, n
    <3> QED
      BY <3>1, <3>2
  <2>4. film.dir = "out" => \A i \in 2 .. n + 1 : shots'[i].shade < shots'[i - 1].shade
    <3> SUFFICES ASSUME film.dir = "out", NEW i \in 2 .. n + 1 PROVE shots'[i].shade < shots'[i - 1].shade
      OBVIOUS
    <3>1. CASE i = n + 1
      <4>1. n > 0 /\ i - 1 = n /\ n \in 1 .. n
        BY <3>1, <1>4
      <4> QED
        BY <4>1, <3>1, <1>4, <1>5, <1>12
    <3>2. CASE i # n + 1
      <4>1. i \in 2 .. n /\ i \in 1 .. n /\ i - 1 \in 1 .. n
        BY <3>2, <1>4
      <4> QED
        BY <4>1, <2>1, <1>4 DEF FramesInOrder, n
    <3> QED
      BY <3>1, <3>2
  <2>5. ASSUME film.dir = "cross"
        PROVE  /\ \A i \in 1 .. n + 1 : shots'[i].shade \in 0 .. FullAlpha
               /\ \A i \in 3 .. n + 1 : shots'[i - 1].shade < shots'[i].shade
               /\ shots'[1].shade = FullAlpha
    <3>1. \A i \in 1 .. n + 1 : shots'[i].shade \in 0 .. FullAlpha
      BY <2>1, <2>5, <1>4, <1>5, <1>11 DEF FramesInOrder, n
    <3>2. ASSUME NEW i \in 3 .. n + 1 PROVE shots'[i - 1].shade < shots'[i].shade
      <4>1. CASE i = n + 1
        <5>1. n > 1 /\ n > 0 /\ i - 1 = n /\ n \in 1 .. n
          BY <4>1, <1>4
        <5> QED
          BY <5>1, <4>1, <2>5, <1>4, <1>5, <1>12
      <4>2. CASE i # n + 1
        <5>1. i \in 3 .. n /\ i \in 1 .. n /\ i - 1 \in 1 .. n
          BY <4>2, <1>4
        <5> QED
          BY <5>1, <2>1, <2>5, <1>4 DEF FramesInOrder, n
      <4> QED
        BY <4>1, <4>2
    <3>3. shots'[1].shade = FullAlpha
      <4>1. CASE n = 0
        BY <4>1, <1>5, <1>13, <2>5
      <4>2. CASE n # 0
        <5>1. n > 0 /\ 1 \in 1 .. n
          BY <4>2, <1>4
        <5> QED
          BY <5>1, <2>1, <2>5, <1>4 DEF FramesInOrder, n
      <4> QED
        BY <4>1, <4>2
    <3> QED
      BY <3>1, <3>2, <3>3
  <2> QED
    BY <2>2, <2>3, <2>4, <2>5, <1>1, <1>4 DEF FramesInOrder
<1>15. ~(Len(shots') = 0) /\ shots'[Len(shots')].shade = lastshade' /\ used' < film'.limit
       /\ shade' = lastshade' /\ shade' \in Int
  BY <1>1, <1>4, <1>5, <1>6
<1> QED
  BY <1>7, <1>9, <1>14, <1>15 DEF FilmInv

LEMMA KeepKeeps == FilmInv /\ KeepFrame => FilmInv'
<1> SUFFICES ASSUME FilmInv, KeepFrame PROVE FilmInv'
  OBVIOUS
<1>1. /\ turn = "look" /\ used < film.limit /\ shade = lastshade
      /\ lastshade' = lastshade /\ shots' = shots
      /\ turn' = "clock" /\ film' = film /\ shade' = shade /\ used' = used
  BY DEF KeepFrame
<1>2. FilmTypes' /\ FramesInOrder'
  BY <1>1 DEF FilmInv, FilmTypes, FramesInOrder
<1>3. Len(shots) = 0 => film.dir # "cross"
  <2> SUFFICES ASSUME Len(shots) = 0, film.dir = "cross" PROVE FALSE
    OBVIOUS
  <2>1. lastshade = 0 /\ shade = FullAlpha
    BY DEF FilmInv, Unclocked, FirstLevel
  <2> QED
    BY <2>1, <1>1, FadeAssumption
<1>4. (Clocked \/ Unclocked)'
  <2>1. \E S : shots \in Seq(S)
    BY DEF FilmInv, FilmTypes
  <2>2. Len(shots) \in Nat
    BY <2>1, LenProperties
  <2> QED
    BY <2>2, <1>1 DEF FilmInv, Clocked, Unclocked
<1> QED
  BY <1>1, <1>2, <1>3, <1>4 DEF FilmInv

LEMMA ClockKeeps == FilmInv /\ ReadClock => FilmInv'
<1> SUFFICES ASSUME FilmInv, ReadClock PROVE FilmInv'
  OBVIOUS
<1>1. /\ turn = "clock" /\ used' \in used .. MaxTime /\ lastshade' = lastshade /\ shots' = shots
      /\ turn' = "look" /\ film' = film /\ shade' = FadeLevel(film.dir, used', film.limit)
  BY DEF ReadClock
<1>2. /\ film.dir \in {"in", "out", "cross"} /\ film.limit \in Nat \ {0}
      /\ shade \in Int /\ lastshade \in Int /\ used \in Nat /\ shade = lastshade
  BY <1>1 DEF FilmInv, FilmTypes
<1>3. used' \in Nat /\ used <= used'
  BY <1>1, <1>2, FadeAssumption
<1>4. /\ shade' \in Int /\ (film.dir \in {"in", "cross"} => shade' >= 0)
      /\ film.dir = "out" => shade' <= Shades - 1
      /\ Clocked => IF film.dir = "out" THEN shade' <= shade ELSE shade <= shade'
  BY <1>1, <1>2, <1>3, LevelsAre DEF Clocked
<1>5. Clocked'
  BY <1>1, <1>2 DEF Clocked
<1>6. FilmTypes' /\ FramesInOrder'
  BY <1>1, <1>2, <1>3, <1>4 DEF FilmInv, FilmTypes, FramesInOrder
<1>7. /\ film.dir = "in" => shade <= shade'
      /\ film.dir = "out" => shade' <= shade
      /\ film.dir = "cross" /\ Len(shots) > 1 => shade <= shade'
  <2>1. CASE Clocked
    BY <2>1, <1>4
  <2>2. CASE Unclocked
    <3>1. Len(shots) <= 1 /\ shade = FirstLevel(film.dir)
      BY <2>2, <1>1 DEF Unclocked
    <3>2. \E S : shots \in Seq(S)
      BY DEF FilmInv, FilmTypes
    <3>3. Len(shots) \in Nat
      BY <3>2, LenProperties
    <3> QED
      BY <3>1, <3>3, <1>2, <1>4 DEF FirstLevel
  <2> QED
    BY <2>1, <2>2 DEF FilmInv
<1>8. Len(shots) = 0 => film.dir # "cross"
  BY <1>1 DEF FilmInv
<1> QED
  BY <1>1, <1>2, <1>5, <1>6, <1>7, <1>8 DEF FilmInv

LEMMA FinishKeeps == FilmInv /\ FinishFilm => FilmInv'
BY DEF FilmInv, FinishFilm, FilmTypes, FramesInOrder, Clocked, Unclocked

\* Whatever the clock shows and whatever the frames look like, each film draws
\* levels that its table has, each once and in order (_GFX_FADE_COPY_LOOP,
\* _GFX_CROSSFADE_COPY_LOOP).
THEOREM FramesRight == FilmSpec => []FramesInOrder
<1>1. FilmInit => FilmInv
  BY FilmStarts
<1>2. FilmInv /\ [FilmNext]_filmvars => FilmInv'
  <2>1. CASE UNCHANGED filmvars
    BY <2>1 DEF filmvars, FilmInv, FilmTypes, FramesInOrder, Clocked, Unclocked
  <2> QED
    BY <2>1, FrameKeeps, KeepKeeps, ClockKeeps, FinishKeeps DEF FilmNext
<1>3. FilmInv => FramesInOrder
  BY DEF FilmInv
<1> QED
  BY <1>1, <1>2, <1>3, PTL DEF FilmSpec
=============================================================================
