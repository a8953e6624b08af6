------------------------ MODULE CavesStringsProofs -------------------------
(***************************************************************************)
(* Theorems about the cave generator of mjolnir, for every size of the     *)
(* map, of the caves and of the tables, every closing of cells at the      *)
(* start and every corridor, and about the blocks and strings of the C     *)
(* library, wherever they are and however long they and a word are.        *)
(*                                                                         *)
(* A cell of a cave has a call of its own, made once; a call that has      *)
(* looked at its neighbours leaves none of them free (Searched), so when   *)
(* the first call returns the cave is complete, and because each call was  *)
(* made from a neighbour the cave hangs together.  The calls that are      *)
(* open hold one of two sizes of the table until it is enlarged a second   *)
(* time, which a cave of no more than twice the first size does not need   *)
(* (Room).  The reference definition finds a component in as many rounds   *)
(* as there are cells: while a round adds a cell, the cells found          *)
(* outnumber the rounds.                                                   *)
(*                                                                         *)
(* A copy of several units is one of their bytes if nothing is read that   *)
(* was written before (CopiedUp, CopiedDown); only the bytes that          *)
(* memcpybk takes from behind the ends break that.  A search stops at the  *)
(* first offset with a property, which the end of the string has (ScanIs). *)
(***************************************************************************)
EXTENDS Caves, Strings, FiniteSetTheorems, SequenceTheorems, WellFoundedInduction, TLAPS

LEMMA LeastIn ==
    ASSUME NEW T \in SUBSET Nat, T # {}
    PROVE  \E x \in T : \A y \in T : x <= y
<1>1. PICK x \in T : \A y \in T : ~(<<y, x>> \in OpToRel(<, Nat))
  BY NatLessThanWellFounded, WFMin, Zenon
<1>2. \A y \in T : ~(y < x)
  BY <1>1 DEF OpToRel
<1> QED
  BY <1>2

LEMMA Reaches ==
    ASSUME NEW n \in Nat, NEW T, 0 \in T, \A i \in 1 .. n : i - 1 \in T => i \in T
    PROVE  \A i \in 0 .. n : i \in T
<1> DEFINE U == {i \in 0 .. n : i \notin T}
<1>1. ASSUME U # {} PROVE FALSE
  <2>1. PICK x \in U : \A y \in U : x <= y
    <3>1. U \in SUBSET Nat
      OBVIOUS
    <3> QED
      BY <1>1, <3>1, LeastIn
  <2>2. x \in 1 .. n /\ x - 1 \in 0 .. n /\ ~(x <= x - 1)
    OBVIOUS
  <2>3. x - 1 \in T
    BY <2>1, <2>2
  <2> QED
    BY <2>2, <2>3
<1> QED
  BY <1>1

LEMMA Divided ==
    ASSUME NEW a \in Nat, NEW d \in Nat \ {0}
    PROVE  a \div d \in Nat /\ (a \div d) * d <= a /\ a < (a \div d) * d + d
BY SMT

LEMMA Times ==
    ASSUME NEW a \in Nat, NEW b \in Nat, NEW d \in Nat
    PROVE  a * d \in Nat /\ (a <= b => a * d <= b * d) /\ a * d = d * a /\ (a + 1) * d = a * d + d
<1>1. a * d \in Nat /\ a * d = d * a /\ (a + 1) * d = a * d + d
  BY SMT
<1>2. ASSUME a <= b PROVE a * d <= b * d
  <2>1. b - a \in Nat
    BY <1>2
  <2>2. (b - a) * d \in Nat /\ (b - a) * d = b * d - a * d
    BY <2>1, SMT
  <2> QED
    BY <2>2, SMT
<1> QED
  BY <1>1, <1>2

---------------------------------------------------------------------------
(* Caves: connected, complete, apart, and joined by their corridors.       *)

\* What a function takes at each place up to n, one step from the place before.
Steps(f, n, v0, Step) == f[0] = v0 /\ \A i \in 1 .. n : f[i] = Step[i][f[i - 1]]

\* A function on 0 .. n is made from its first value by a step for each place.
LEMMA StepByStep ==
    ASSUME NEW n \in Nat, NEW Val, NEW v0 \in Val, NEW Step \in [1 .. n -> [Val -> Val]]
    PROVE  \E f \in [0 .. n -> Val] : Steps(f, n, v0, Step)
<1> DEFINE Made(f, k) == f \in [0 .. k -> Val] /\ f[0] = v0 /\ \A i \in 1 .. k : f[i] = Step[i][f[i - 1]]
           T == {k \in Nat : \E f : Made(f, k)}
<1>1. 0 \in T
  <2>1. Made([i \in 0 .. 0 |-> v0], 0)
    OBVIOUS
  <2> QED
    BY <2>1
<1>2. ASSUME NEW i \in 1 .. n, i - 1 \in T PROVE i \in T
  <2>1. PICK f : Made(f, i - 1)
    BY <1>2
  <2> DEFINE v == Step[i][f[i - 1]]
             g == [j \in 0 .. i |-> IF j = i THEN v ELSE f[j]]
  <2>2. f[i - 1] \in Val /\ v \in Val
    BY <2>1
  <2>3. g \in [0 .. i -> Val] /\ g[0] = v0
    <3> HIDE DEF v
    <3> QED
      BY <2>1, <2>2
  <2>4. ASSUME NEW j \in 1 .. i PROVE g[j] = Step[j][g[j - 1]]
    <3>1. j - 1 \in 0 .. i /\ j - 1 # i /\ j \in 0 .. i /\ (j # i => j \in 1 .. i - 1)
      OBVIOUS
    <3>2. g[j - 1] = f[j - 1] /\ (j = i => g[j] = v) /\ (j # i => g[j] = f[j])
      BY <3>1
    <3> HIDE DEF g
    <3> QED
      BY <3>1, <3>2, <2>1
  <2>5. Made(g, i)
    BY <2>3, <2>4
  <2> HIDE DEF g, Made
  <2> QED
    BY <2>5
<1> HIDE DEF T
<1>3. n \in T
  <2>1. \A i \in 0 .. n : i \in T
    BY <1>1, <1>2, Reaches
  <2> QED
    BY <2>1
<1> QED
  BY <1>3 DEF T, Steps

\* The size of the map.
LEMMA MapSize ==
    /\ GridW \in Nat \ {0} /\ GridH \in Nat \ {0} /\ NCells \in Nat
    /\ IsFiniteSet(Cells) /\ Cardinality(Cells) = NCells
<1>1. GridW \in Nat \ {0} /\ GridH \in Nat \ {0}
  BY CavesAssumption
<1>2. NCells \in Nat
  BY <1>1, Times DEF NCells
<1>3. /\ IsFiniteSet(0 .. GridW - 1) /\ Cardinality(0 .. GridW - 1) = GridW
      /\ IsFiniteSet(0 .. GridH - 1) /\ Cardinality(0 .. GridH - 1) = GridH
  BY <1>1, FS_Interval
<1>4. IsFiniteSet(Cells) /\ Cardinality(Cells) = NCells
  <2>1. /\ IsFiniteSet((0 .. GridW - 1) \X (0 .. GridH - 1))
        /\ Cardinality((0 .. GridW - 1) \X (0 .. GridH - 1))
            = Cardinality(0 .. GridW - 1) * Cardinality(0 .. GridH - 1)
    BY <1>3, FS_Product, ZenonT(30)
  <2> QED
    BY <1>3, <2>1 DEF Cells, NCells
<1> QED
  BY <1>1, <1>2, <1>4

\* Every place of the scan is a cell.
LEMMA PlaceIsCell ==
    ASSUME NEW i \in Nat, i < NCells
    PROVE  CellAt(i) \in Cells
<1> DEFINE row == i \div GridW
           col == i % GridW
<1>1. GridW \in Nat \ {0} /\ GridH \in Nat \ {0}
  BY CavesAssumption
<1>2. row \in Nat /\ row * GridW <= i
  BY <1>1, Divided
<1>3. col \in 0 .. GridW - 1
  BY <1>1
<1> HIDE DEF row, col
<1>4. ~(GridH <= row)
  <2>1. ASSUME GridH <= row PROVE FALSE
    <3>1. GridH * GridW <= row * GridW /\ GridH * GridW = NCells /\ row * GridW \in Nat /\ NCells \in Nat
      BY <1>1, <1>2, <2>1, Times DEF NCells
    <3> QED
      BY <3>1, <1>2
  <2> QED
    BY <2>1
<1>5. row \in 0 .. GridH - 1
  BY <1>1, <1>2, <1>4
<1> QED
  BY <1>3, <1>5 DEF CellAt, Cells, row, col

\* Every cell has its place in the scan.
LEMMA CellHasPlace ==
    ASSUME NEW c \in Cells
    PROVE  \E i \in 0 .. NCells - 1 : CellAt(i) = c
<1>1. GridW \in Nat \ {0} /\ GridH \in Nat \ {0}
  BY CavesAssumption
<1>2. PICK x \in 0 .. GridW - 1, y \in 0 .. GridH - 1 : c = <<x, y>>
  BY DEF Cells
<1> DEFINE i == y * GridW + x
<1>3. y * GridW \in Nat /\ y \in Nat /\ x \in Nat
  BY <1>1, <1>2, Times
<1>4. i \in 0 .. NCells - 1
  <2>1. y + 1 \in Nat /\ y + 1 <= GridH
    BY <1>1, <1>2
  <2>2. (y + 1) * GridW = y * GridW + GridW /\ (y + 1) * GridW <= GridH * GridW
    BY <1>1, <1>3, <2>1, Times
  <2>3. GridH * GridW = NCells /\ NCells \in Nat
    BY <1>1, Times DEF NCells
  <2> QED
    BY <1>1, <1>2, <1>3, <2>2, <2>3
<1>5. i \div GridW = y /\ i % GridW = x
  <2> DEFINE q == i \div GridW
             r == i % GridW
  <2>1. q \in Nat /\ q * GridW <= i /\ i < q * GridW + GridW /\ q * GridW \in Nat
    BY <1>1, <1>3, Divided, Times
  <2>2. i = GridW * q + r /\ r \in 0 .. GridW - 1
    BY <1>1, <1>3
  <2> HIDE DEF q, r
  <2>3. ~(q + 1 <= y)
    <3>1. ASSUME q + 1 <= y PROVE FALSE
      <4>1. (q + 1) * GridW <= y * GridW /\ (q + 1) * GridW = q * GridW + GridW
        BY <1>1, <1>3, <2>1, <3>1, Times
      <4> QED
        BY <4>1, <1>1, <1>2, <1>3, <2>1
    <3> QED
      BY <3>1
  <2>4. ~(y + 1 <= q)
    <3>1. ASSUME y + 1 <= q PROVE FALSE
      <4>1. (y + 1) * GridW <= q * GridW /\ (y + 1) * GridW = y * GridW + GridW
        BY <1>1, <1>3, <2>1, <3>1, Times
      <4> QED
        BY <4>1, <1>1, <1>2, <1>3, <2>1
    <3> QED
      BY <3>1
  <2>5. q = y
    BY <2>1, <2>3, <2>4, <1>3
  <2>6. GridW * q = y * GridW
    BY <2>5, <1>1, <1>3, Times
  <2> QED
    BY <2>2, <2>5, <2>6, <1>2, <1>3 DEF q, r
<1>6. CellAt(i) = c
  BY <1>2, <1>5 DEF CellAt
<1> QED
  BY <1>4, <1>6

\* The neighbours of a cell, by direction.
LEMMA Moves ==
    ASSUME NEW c \in Int \X Int
    PROVE  /\ Move(c, 0) = <<c[1], c[2] - 1>> /\ Move(c, 1) = <<c[1], c[2] + 1>>
           /\ Move(c, 2) = <<c[1] + 1, c[2]>> /\ Move(c, 3) = <<c[1] - 1, c[2]>>
           /\ \A d \in Dirs : Move(c, d) \in Int \X Int /\ Move(c, d) # c
<1>1. /\ Move(c, 0) = <<c[1], c[2] - 1>> /\ Move(c, 1) = <<c[1], c[2] + 1>>
      /\ Move(c, 2) = <<c[1] + 1, c[2]>> /\ Move(c, 3) = <<c[1] - 1, c[2]>>
  BY DEF Move, Offset
<1>2. ASSUME NEW d \in Dirs PROVE Move(c, d) \in Int \X Int /\ Move(c, d) # c
  <2>1. d = 0 \/ d = 1 \/ d = 2 \/ d = 3
    BY DEF Dirs
  <2>2. c = <<c[1], c[2]>> /\ c[1] \in Int /\ c[2] \in Int
    OBVIOUS
  <2> QED
    BY <1>1, <2>1, <2>2
<1> QED
  BY <1>1, <1>2

\* Who has a neighbour is one of its neighbours.
LEMMA Beside ==
    ASSUME NEW c \in Cells, NEW d \in Cells, Adjacent(c, d)
    PROVE  Adjacent(d, c) /\ c # d
<1>1. c \in Int \X Int /\ d \in Int \X Int
  BY CavesAssumption DEF Cells
<1>2. PICK k \in Dirs : d = Move(c, k)
  BY DEF Adjacent
<1>3. c = <<c[1], c[2]>> /\ c[1] \in Int /\ c[2] \in Int
  BY <1>1
<1>4. /\ Move(d, 0) = <<d[1], d[2] - 1>> /\ Move(d, 1) = <<d[1], d[2] + 1>>
      /\ Move(d, 2) = <<d[1] + 1, d[2]>> /\ Move(d, 3) = <<d[1] - 1, d[2]>>
  BY <1>1, Moves
<1>5. /\ Move(c, 0) = <<c[1], c[2] - 1>> /\ Move(c, 1) = <<c[1], c[2] + 1>>
      /\ Move(c, 2) = <<c[1] + 1, c[2]>> /\ Move(c, 3) = <<c[1] - 1, c[2]>>
  BY <1>1, Moves
<1>6. k = 0 \/ k = 1 \/ k = 2 \/ k = 3
  BY DEF Dirs
<1>7. c = Move(d, 0) \/ c = Move(d, 1) \/ c = Move(d, 2) \/ c = Move(d, 3)
  <2>1. CASE k = 0
    <3>1. d[1] = c[1] /\ d[2] = c[2] - 1
      BY <1>2, <1>5, <2>1
    <3>2. Move(d, 1) = <<c[1], c[2]>>
      BY <1>3, <1>4, <3>1
    <3> QED
      BY <3>2, <1>3
  <2>2. CASE k = 1
    <3>1. d[1] = c[1] /\ d[2] = c[2] + 1
      BY <1>2, <1>5, <2>2
    <3>2. Move(d, 0) = <<c[1], c[2]>>
      BY <1>3, <1>4, <3>1
    <3> QED
      BY <3>2, <1>3
  <2>3. CASE k = 2
    <3>1. d[1] = c[1] + 1 /\ d[2] = c[2]
      BY <1>2, <1>5, <2>3
    <3>2. Move(d, 3) = <<c[1], c[2]>>
      BY <1>3, <1>4, <3>1
    <3> QED
      BY <3>2, <1>3
  <2>4. CASE k = 3
    <3>1. d[1] = c[1] - 1 /\ d[2] = c[2]
      BY <1>2, <1>5, <2>4
    <3>2. Move(d, 2) = <<c[1], c[2]>>
      BY <1>3, <1>4, <3>1
    <3> QED
      BY <3>2, <1>3
  <2> QED
    BY <1>6, <2>1, <2>2, <2>3, <2>4
<1>8. d # c
  BY <1>1, <1>2, Moves
<1> QED
  BY <1>7, <1>8 DEF Adjacent, Dirs

\* One cell of the set leads to every other through cells of the set.
HangsTogether(S) ==
    \A X \in SUBSET S : X # {} /\ (\A e \in X, d \in S : Adjacent(e, d) => d \in X) => X = S

\* A cell beside one of the set, or the first one, may join it.
LEMMA OneMore ==
    ASSUME NEW S \in SUBSET Cells, HangsTogether(S), NEW d \in Cells,
           S = {} \/ \E e \in S : Adjacent(e, d)
    PROVE  HangsTogether(S \cup {d})
<1> DEFINE S2 == S \cup {d}
<1>1. ASSUME NEW X \in SUBSET S2, X # {}, \A e \in X, x \in S2 : Adjacent(e, x) => x \in X
      PROVE  X = S2
  <2>1. CASE S = {}
    BY <1>1, <2>1
  <2>2. CASE S # {} /\ X \cap S = {}
    <3>1. PICK e \in S : Adjacent(e, d)
      BY <2>2
    <3>2. d \in X
      BY <1>1, <2>2
    <3>3. Adjacent(d, e)
      BY <3>1, Beside
    <3> QED
      BY <1>1, <2>2, <3>1, <3>2, <3>3
  <2>3. CASE S # {} /\ X \cap S # {}
    <3>1. X \cap S = S
      <4>1. X \cap S \in SUBSET S /\ X \cap S # {}
        BY <2>3
      <4>2. \A e \in X \cap S, x \in S : Adjacent(e, x) => x \in X \cap S
        BY <1>1
      <4> QED
        BY <4>1, <4>2, Zenon DEF HangsTogether
    <3>2. PICK e \in S : Adjacent(e, d)
      BY <2>3
    <3>3. d \in X
      BY <1>1, <3>1, <3>2
    <3> QED
      BY <3>1, <3>3
  <2> QED
    BY <2>1, <2>2, <2>3
<1> QED
  BY <1>1 DEF HangsTogether

\* What hangs together with a cell of a set that hangs together and that no closed
\* cell is beside, is that set.
LEMMA ComponentIs ==
    ASSUME closed \subseteq Cells, NEW S \in SUBSET closed, NEW c \in S, HangsTogether(S),
           \A e \in S, d \in closed : Adjacent(e, d) => d \in S
    PROVE  Component(c) = S
<1> DEFINE Near(X) == X \cup {d \in closed : \E e \in X : Adjacent(e, d)}
           Body(f) == [n \in 0 .. NCells |->
                         IF n = 0 THEN {c} \cap closed
                         ELSE LET near == f[n - 1]
                              IN  near \cup {d \in closed : \E e \in near : Adjacent(e, d)}]
           g == CHOOSE f : f = Body(f)
           G == [i \in 1 .. NCells |-> [X \in SUBSET closed |-> Near(X)]]
<1>0. NCells \in Nat /\ {c} \cap closed = {c} /\ {c} \in SUBSET closed
  BY MapSize
<1>1. PICK f \in [0 .. NCells -> SUBSET closed] :
          f[0] = {c} /\ \A i \in 1 .. NCells : f[i] = G[i][f[i - 1]]
  <2>1. G \in [1 .. NCells -> [SUBSET closed -> SUBSET closed]]
    OBVIOUS
  <2> HIDE DEF G
  <2>2. \E f \in [0 .. NCells -> SUBSET closed] : Steps(f, NCells, {c}, G)
    BY <1>0, <2>1, StepByStep
  <2> QED
    BY <2>2 DEF Steps
<1>2. \A i \in 1 .. NCells : f[i - 1] \in SUBSET closed /\ f[i] = Near(f[i - 1])
  <2>1. \A i \in 1 .. NCells : i - 1 \in 0 .. NCells
    BY <1>0
  <2> QED
    BY <1>1, <2>1
<1>3. f = Body(f)
  <2>1. f = [i \in 0 .. NCells |-> f[i]]
    BY <1>1
  <2>2. \A i \in 0 .. NCells : f[i] = IF i = 0 THEN {c} \cap closed ELSE Near(f[i - 1])
    <3>1. \A i \in 0 .. NCells : i = 0 \/ i \in 1 .. NCells
      BY <1>0
    <3> QED
      BY <1>0, <1>1, <1>2, <3>1
  <2> QED
    BY <2>1, <2>2
<1>4. g = Body(g)
  BY <1>3
<1>5. Component(c) = g[NCells]
  BY DEF Component
<1> HIDE DEF g
<1>6. g[0] = {c} /\ \A i \in 1 .. NCells : g[i] = Near(g[i - 1])
  <2>1. \A i \in 0 .. NCells : Body(g)[i] = IF i = 0 THEN {c} \cap closed ELSE Near(g[i - 1])
    OBVIOUS
  <2> HIDE DEF Body, Near
  <2>2. \A i \in 0 .. NCells : g[i] = IF i = 0 THEN {c} \cap closed ELSE Near(g[i - 1])
    BY <2>1, <1>4
  <2>3. 0 \in 0 .. NCells /\ \A i \in 1 .. NCells : i \in 0 .. NCells /\ i # 0
    BY <1>0
  <2> QED
    BY <2>2, <2>3, <1>0
<1> DEFINE Stable(X) == \A e \in X, d \in closed : Adjacent(e, d) => d \in X
           Good(X) == c \in X /\ X \subseteq S
           Large(X, n) == Stable(X) \/ Cardinality(X) >= n + 1
           T == {n \in Nat : Good(g[n]) /\ Large(g[n], n)}
<1>7. 0 \in T
  <2>1. Good(g[0])
    BY <1>6
  <2>2. Cardinality({c}) = 1
    BY FS_Singleton
  <2>3. Large(g[0], 0)
    <3> HIDE DEF Stable
    <3> QED
      BY <1>6, <2>2
  <2> HIDE DEF Good, Large
  <2> QED
    BY <2>1, <2>3
<1>8. ASSUME NEW i \in 1 .. NCells, i - 1 \in T PROVE i \in T
  <2> DEFINE X == g[i - 1]
             Y == g[i]
  <2>1. Good(X) /\ Large(X, i - 1) /\ Y = Near(X)
    BY <1>6, <1>8
  <2> HIDE DEF X, Y
  <2>2. Good(Y)
    BY <2>1
  <2>3. CASE Stable(X)
    <3>1. Y = X
      BY <2>1, <2>3
    <3> QED
      BY <3>1, <2>2, <2>3 DEF Y
  <2>4. CASE ~Stable(X)
    <3>1. PICK d \in closed : d \notin X /\ d \in Y
      BY <2>1, <2>4
    <3>2. IsFiniteSet(X) /\ IsFiniteSet(Y) /\ Cardinality(X) \in Nat /\ Cardinality(Y) \in Nat
      <4>1. X \in SUBSET Cells /\ Y \in SUBSET Cells
        BY <2>1, <2>2
      <4>2. IsFiniteSet(X) /\ IsFiniteSet(Y)
        BY <4>1, MapSize, FS_Subset
      <4> QED
        BY <4>2, FS_CardinalityType
    <3>3. IsFiniteSet(X \cup {d}) /\ Cardinality(X \cup {d}) = Cardinality(X) + 1
      BY <3>1, <3>2, FS_AddElement
    <3>4. Cardinality(X \cup {d}) <= Cardinality(Y)
      <4>1. X \cup {d} \in SUBSET Y
        BY <2>1, <3>1
      <4> QED
        BY <4>1, <3>2, FS_Subset
    <3>5. Cardinality(X) >= i - 1 + 1
      BY <2>1, <2>4
    <3>6. Cardinality(Y) >= i + 1
      BY <3>2, <3>3, <3>4, <3>5
    <3> QED
      BY <3>6, <2>2 DEF Y
  <2> QED
    BY <2>3, <2>4
<1> HIDE DEF T
<1>9. NCells \in T
  <2>1. \A i \in 0 .. NCells : i \in T
    BY <1>0, <1>7, <1>8, Reaches
  <2> QED
    BY <2>1, <1>0
<1> DEFINE X == g[NCells]
<1>10. Good(X) /\ Large(X, NCells)
  BY <1>9 DEF T
<1> HIDE DEF X
<1>11. Stable(X)
  <2>1. X \in SUBSET Cells
    BY <1>10
  <2>2. Cardinality(X) <= NCells
    BY <2>1, MapSize, FS_Subset
  <2>3. Cardinality(X) \in Nat
    BY <2>1, MapSize, FS_Subset, FS_CardinalityType
  <2> QED
    BY <1>0, <1>10, <2>2, <2>3
<1>12. X = S
  BY <1>10, <1>11 DEF HangsTogether
<1> QED
  BY <1>5, <1>12 DEF X

\* A pass over the map leaves cells of the map, whether it opens them
LEMMA PassSmooths ==
    ASSUME NEW S \in SUBSET Cells
    PROVE  Pass(S, SmoothCell) \in SUBSET Cells
<1> DEFINE V == SUBSET Cells
           Body(f) == [n \in 0 .. NCells |-> IF n = 0 THEN S ELSE SmoothCell(f[n - 1], CellAt(n - 1))]
           g == CHOOSE f : f = Body(f)
           G == [i \in 1 .. NCells |-> [X \in V |-> SmoothCell(X, CellAt(i - 1))]]
<1>0. NCells \in Nat
  BY MapSize
<1>1. ASSUME NEW i \in 1 .. NCells, NEW X \in V PROVE SmoothCell(X, CellAt(i - 1)) \in V
  <2>1. CellAt(i - 1) \in Cells
    BY <1>0, PlaceIsCell
  <2> QED
    BY <2>1 DEF SmoothCell
<1>2. PICK f \in [0 .. NCells -> V] : Steps(f, NCells, S, G)
  <2>1. G \in [1 .. NCells -> [V -> V]]
    BY <1>1
  <2> HIDE DEF G
  <2> QED
    BY <1>0, <2>1, StepByStep
<1>3. f = Body(f)
  <2>1. f = [i \in 0 .. NCells |-> f[i]]
    BY <1>2
  <2>2. f[0] = S /\ \A i \in 1 .. NCells : f[i] = G[i][f[i - 1]]
    BY <1>2 DEF Steps
  <2>3. \A i \in 0 .. NCells : f[i] = IF i = 0 THEN S ELSE SmoothCell(f[i - 1], CellAt(i - 1))
    <3>1. \A i \in 0 .. NCells : i = 0 \/ (i \in 1 .. NCells /\ i - 1 \in 0 .. NCells)
      <4> HIDE DEF V
      <4> QED
        BY <1>0
    <3> HIDE DEF V
    <3>2. \A i \in 1 .. NCells : f[i - 1] \in V
      BY <3>1, <1>2
    <3> QED
      BY <2>2, <3>1, <3>2
  <2> QED
    BY <2>1, <2>3
<1>4. g = Body(g)
  BY <1>3
<1>5. Pass(S, SmoothCell) = g[NCells]
  BY DEF Pass
<1> HIDE DEF g
<1>6. g[0] = S /\ \A i \in 1 .. NCells : g[i] = SmoothCell(g[i - 1], CellAt(i - 1))
  <2>1. \A i \in 0 .. NCells : Body(g)[i] = IF i = 0 THEN S ELSE SmoothCell(g[i - 1], CellAt(i - 1))
    OBVIOUS
  <2> HIDE DEF Body
  <2>2. \A i \in 0 .. NCells : g[i] = IF i = 0 THEN S ELSE SmoothCell(g[i - 1], CellAt(i - 1))
    BY <2>1, <1>4
  <2>3. 0 \in 0 .. NCells /\ \A i \in 1 .. NCells : i \in 0 .. NCells /\ i # 0
    BY <1>0
  <2> QED
    BY <2>2, <2>3
<1> DEFINE T == {n \in Nat : g[n] \in V}
<1>7. 0 \in T /\ \A i \in 1 .. NCells : i - 1 \in T => i \in T
  BY <1>1, <1>6
<1> HIDE DEF T
<1>8. NCells \in T
  <2>1. \A i \in 0 .. NCells : i \in T
    BY <1>0, <1>7, Reaches
  <2> QED
    BY <2>1, <1>0
<1> QED
  BY <1>5, <1>8 DEF T

\* or closes them.
LEMMA PassFills ==
    ASSUME NEW S \in SUBSET Cells
    PROVE  Pass(S, FillCell) \in SUBSET Cells
<1> DEFINE V == SUBSET Cells
           Body(f) == [n \in 0 .. NCells |-> IF n = 0 THEN S ELSE FillCell(f[n - 1], CellAt(n - 1))]
           g == CHOOSE f : f = Body(f)
           G == [i \in 1 .. NCells |-> [X \in V |-> FillCell(X, CellAt(i - 1))]]
<1>0. NCells \in Nat
  BY MapSize
<1>1. ASSUME NEW i \in 1 .. NCells, NEW X \in V PROVE FillCell(X, CellAt(i - 1)) \in V
  <2>1. CellAt(i - 1) \in Cells
    BY <1>0, PlaceIsCell
  <2> QED
    BY <2>1 DEF FillCell
<1>2. PICK f \in [0 .. NCells -> V] : Steps(f, NCells, S, G)
  <2>1. G \in [1 .. NCells -> [V -> V]]
    BY <1>1
  <2> HIDE DEF G
  <2> QED
    BY <1>0, <2>1, StepByStep
<1>3. f = Body(f)
  <2>1. f = [i \in 0 .. NCells |-> f[i]]
    BY <1>2
  <2>2. f[0] = S /\ \A i \in 1 .. NCells : f[i] = G[i][f[i - 1]]
    BY <1>2 DEF Steps
  <2>3. \A i \in 0 .. NCells : f[i] = IF i = 0 THEN S ELSE FillCell(f[i - 1], CellAt(i - 1))
    <3>1. \A i \in 0 .. NCells : i = 0 \/ (i \in 1 .. NCells /\ i - 1 \in 0 .. NCells)
      <4> HIDE DEF V
      <4> QED
        BY <1>0
    <3> HIDE DEF V
    <3>2. \A i \in 1 .. NCells : f[i - 1] \in V
      BY <3>1, <1>2
    <3> QED
      BY <2>2, <3>1, <3>2
  <2> QED
    BY <2>1, <2>3
<1>4. g = Body(g)
  BY <1>3
<1>5. Pass(S, FillCell) = g[NCells]
  BY DEF Pass
<1> HIDE DEF g
<1>6. g[0] = S /\ \A i \in 1 .. NCells : g[i] = FillCell(g[i - 1], CellAt(i - 1))
  <2>1. \A i \in 0 .. NCells : Body(g)[i] = IF i = 0 THEN S ELSE FillCell(g[i - 1], CellAt(i - 1))
    OBVIOUS
  <2> HIDE DEF Body
  <2>2. \A i \in 0 .. NCells : g[i] = IF i = 0 THEN S ELSE FillCell(g[i - 1], CellAt(i - 1))
    BY <2>1, <1>4
  <2>3. 0 \in 0 .. NCells /\ \A i \in 1 .. NCells : i \in 0 .. NCells /\ i # 0
    BY <1>0
  <2> QED
    BY <2>2, <2>3
<1> DEFINE T == {n \in Nat : g[n] \in V}
<1>7. 0 \in T /\ \A i \in 1 .. NCells : i - 1 \in T => i \in T
  BY <1>1, <1>6
<1> HIDE DEF T
<1>8. NCells \in T
  <2>1. \A i \in 0 .. NCells : i \in T
    BY <1>0, <1>7, Reaches
  <2> QED
    BY <2>1, <1>0
<1> QED
  BY <1>5, <1>8 DEF T

\* Along a line the next place is beside the last.
LEMMA AlongBeside ==
    ASSUME NEW c \in Cells, NEW d \in Dirs, NEW n \in Nat
    PROVE  /\ Along(c, d, 0) = c /\ Along(c, d, n) \in Int \X Int
           /\ Along(c, d, n + 1) = Move(Along(c, d, n), d)
<1>1. c = <<c[1], c[2]>> /\ c[1] \in Int /\ c[2] \in Int
  BY CavesAssumption DEF Cells
<1>2. d = 0 \/ d = 1 \/ d = 2 \/ d = 3
  BY DEF Dirs
<1> DEFINE a == Offset[d + 1][1]
           b == Offset[d + 1][2]
<1>3. a \in {-1, 0, 1} /\ b \in {-1, 0, 1}
  BY <1>2 DEF Offset
<1>4. Along(c, d, n) = <<c[1] + n * a, c[2] + n * b>>
  BY DEF Along
<1>5. Along(c, d, n + 1) = <<c[1] + (n + 1) * a, c[2] + (n + 1) * b>>
  BY DEF Along
<1>6. Along(c, d, 0) = <<c[1] + 0 * a, c[2] + 0 * b>>
  BY DEF Along
<1>7. Move(Along(c, d, n), d) = <<Along(c, d, n)[1] + a, Along(c, d, n)[2] + b>>
  BY DEF Move
<1> HIDE DEF a, b
<1>8. /\ 0 * a = 0 /\ 0 * b = 0 /\ n * a \in Int /\ n * b \in Int
      /\ (n + 1) * a = n * a + a /\ (n + 1) * b = n * b + b
  <2>1. 0 * a = 0 /\ n * a \in Int /\ (n + 1) * a = n * a + a
    BY <1>3
  <2>2. 0 * b = 0 /\ n * b \in Int /\ (n + 1) * b = n * b + b
    BY <1>3
  <2> QED
    BY <2>1, <2>2
<1> QED
  BY <1>1, <1>3, <1>4, <1>5, <1>6, <1>7, <1>8

\* A line leaves the map before it is as long as both its sides.
LEMMA LineEnds ==
    ASSUME NEW c \in Cells, NEW d \in Dirs
    PROVE  Along(c, d, GridW + GridH) \notin Cells
<1>1. c = <<c[1], c[2]>> /\ c[1] \in 0 .. GridW - 1 /\ c[2] \in 0 .. GridH - 1
  BY DEF Cells
<1>2. GridW \in Nat \ {0} /\ GridH \in Nat \ {0}
  BY CavesAssumption
<1> DEFINE n == GridW + GridH
<1>3. d = 0 \/ d = 1 \/ d = 2 \/ d = 3
  BY DEF Dirs
<1>4. Along(c, d, n) = <<c[1] + n * Offset[d + 1][1], c[2] + n * Offset[d + 1][2]>>
  BY DEF Along
<1>5. n \in Nat /\ n >= GridW /\ n >= GridH
  BY <1>2
<1> HIDE DEF n
<1>6. n * 0 = 0 /\ n * 1 = n /\ n * (-1) = -n
  BY <1>5
<1>7. CASE d = 0
  <2>1. Along(c, d, n)[2] = c[2] - n
    BY <1>1, <1>4, <1>5, <1>6, <1>7 DEF Offset
  <2> QED
    BY <2>1, <1>1, <1>2, <1>5 DEF Cells, n
<1>8. CASE d = 1
  <2>1. Along(c, d, n)[2] = c[2] + n
    BY <1>1, <1>4, <1>5, <1>6, <1>8 DEF Offset
  <2> QED
    BY <2>1, <1>1, <1>2, <1>5 DEF Cells, n
<1>9. CASE d = 2
  <2>1. Along(c, d, n)[1] = c[1] + n
    BY <1>1, <1>4, <1>5, <1>6, <1>9 DEF Offset
  <2> QED
    BY <2>1, <1>1, <1>2, <1>5 DEF Cells, n
<1>10. CASE d = 3
  <2>1. Along(c, d, n)[1] = c[1] - n
    BY <1>1, <1>4, <1>5, <1>6, <1>10 DEF Offset
  <2> QED
    BY <2>1, <1>1, <1>2, <1>5 DEF Cells, n
<1> QED
  BY <1>3, <1>7, <1>8, <1>9, <1>10

\* The edge of a set that closed cells beside it belong to is an open cell beside
\* the set.
LEMMA EdgeBeside ==
    ASSUME closed \subseteq Cells, NEW S \in SUBSET closed, NEW c \in S, NEW d \in Dirs,
           \A e \in S, x \in closed : Adjacent(e, x) => x \in S
    PROVE  LET e == Edge(c, d)
           IN  e # NoCell => e \in Cells /\ e \notin closed /\ \E x \in S : Adjacent(x, e)
<1> DEFINE L == {n \in Nat \ {0} : Along(c, d, n) \notin closed}
           Good(n) == Along(c, d, n) \notin closed /\ \A m \in 1 .. n - 1 : Along(c, d, m) \in closed
           n == CHOOSE n \in 1 .. GridW + GridH : Good(n)
<1>0. GridW \in Nat \ {0} /\ GridH \in Nat \ {0} /\ c \in Cells
  BY CavesAssumption
<1>1. n \in 1 .. GridW + GridH /\ Good(n)
  <2>1. GridW + GridH \in L
    BY <1>0, LineEnds
  <2>2. PICK k \in L : \A j \in L : k <= j
    <3>1. L \in SUBSET Nat
      OBVIOUS
    <3> HIDE DEF L
    <3> QED
      BY <2>1, <3>1, LeastIn
  <2>3. k \in 1 .. GridW + GridH
    BY <1>0, <2>1, <2>2
  <2>4. \A m \in 1 .. k - 1 : Along(c, d, m) \in closed
    <3>1. \A m \in 1 .. k - 1 : m \in Nat \ {0} /\ ~(k <= m)
      BY <2>3
    <3> QED
      BY <2>2, <3>1
  <2>5. Good(k)
    BY <2>2, <2>4
  <2> HIDE DEF Good
  <2> QED
    BY <2>3, <2>5
<1>2. Edge(c, d) = IF Along(c, d, n) \in Cells THEN Along(c, d, n) ELSE NoCell
  BY DEF Edge
<1> HIDE DEF n
<1> DEFINE T == {m \in Nat : m < n => Along(c, d, m) \in S}
<1>3. 0 \in T
  BY <1>0, AlongBeside
<1>4. ASSUME NEW m \in 1 .. n, m - 1 \in T PROVE m \in T
  <2>1. CASE m = n
    BY <2>1, <1>1
  <2>2. CASE m # n
    <3>1. m - 1 \in Nat /\ m - 1 < n /\ m < n /\ m \in 1 .. n - 1 /\ m - 1 + 1 = m
      BY <2>2, <1>1
    <3>2. Along(c, d, m - 1) \in S /\ Along(c, d, m) \in closed
      BY <3>1, <1>1, <1>4
    <3>3. Along(c, d, m) = Move(Along(c, d, m - 1), d)
      BY <1>0, <3>1, AlongBeside
    <3>4. Adjacent(Along(c, d, m - 1), Along(c, d, m))
      BY <3>3 DEF Adjacent
    <3> QED
      BY <3>2, <3>4
  <2> QED
    BY <2>1, <2>2
<1> HIDE DEF T
<1>5. n - 1 \in T
  <2>1. n \in Nat /\ n - 1 \in 0 .. n
    BY <1>1
  <2>2. \A i \in 0 .. n : i \in T
    BY <1>3, <1>4, <2>1, Reaches
  <2> QED
    BY <2>1, <2>2
<1>6. Adjacent(Along(c, d, n - 1), Along(c, d, n)) /\ Along(c, d, n - 1) \in S
  <2>1. n - 1 \in Nat /\ n - 1 < n /\ n - 1 + 1 = n
    BY <1>1
  <2>2. Along(c, d, n) = Move(Along(c, d, n - 1), d)
    BY <1>0, <2>1, AlongBeside
  <2> QED
    BY <2>1, <2>2, <1>5 DEF T, Adjacent
<1> QED
  BY <1>1, <1>2, <1>6

\* A call of the search, the cells of a cave, and cells that are done with.
Frames == [cell : Cells, ndx : 0 .. 4, max : Nat]
Once(s) == \A j, k \in 1 .. Len(s) : s[j] = s[k] => j = k
Of(s) == {s[j] : j \in 1 .. Len(s)}
Owned(i) == {c \in Cells : caveid[c] = i}
NoFresh(c, n) == \A k \in 0 .. n - 1 : ~Fresh(Move(c, k))
Alone(c) == \A d \in closed : ~Adjacent(c, d)

MapTypes ==
    /\ count \in Nat /\ closed \in SUBSET Cells /\ caveid \in [Cells -> Int] /\ ncave \in Nat
    /\ celltab \in [0 .. NCells -> Seq(Cells)] /\ room \in Nat /\ frames \in Seq(Frames)

\* The table of a cave lists the cells with its number once each.
Listed(i) == Once(celltab[i]) /\ Of(celltab[i]) = Owned(i) /\ HangsTogether(Owned(i))
Complete(i) ==
    /\ RightSize(Len(celltab[i])) /\ Listed(i)
    /\ \A c \in Owned(i), d \in closed : Adjacent(c, d) => caveid[d] = i

\* What holds of the map while caves are looked for, and later.
Searched ==
    /\ ncave <= count /\ count <= NCells
    /\ \A i \in 0 .. ncave - 1 : Complete(i)
    /\ \A c \in Cells : caveid[c] # NoCave => c \in closed /\ caveid[c] \in 0 .. ncave
    /\ phase # "find" => \A c \in Cells : caveid[c] # ncave
    /\ \A j \in 0 .. count - 1 : CellAt(j) \in closed /\ caveid[CellAt(j)] = NoCave => Alone(CellAt(j))

\* The calls: the cave so far, how much of its neighbours each call has seen, and that
\* a cell that no call is at has none left.
Calling ==
    /\ count < NCells /\ frames # <<>> /\ frames[1].cell = CellAt(count)
    /\ Listed(ncave)
    /\ \A i \in 1 .. Len(frames) : frames[i].cell \in closed /\ NoFresh(frames[i].cell, frames[i].ndx)
    /\ \A i \in 2 .. Len(frames) : caveid[frames[i].cell] = ncave
    /\ caveid[CellAt(count)] \in {NoCave, ncave}
    /\ celltab[ncave] # <<>> => Adjacent(celltab[ncave][1], CellAt(count))
    /\ \A c \in Owned(ncave) : (\E i \in 2 .. Len(frames) : frames[i].cell = c) \/ NoFresh(c, 4)

\* While a cave has no more cells than twice its first table, its table is as large as
\* the calls believe, or at least not smaller.
Room ==
    LET n == Len(celltab[ncave])
    IN  /\ n <= CellTabInit => /\ room = CellTabInit
                               /\ \A i \in 1 .. Len(frames) : frames[i].max = CellTabInit
        /\ n > CellTabInit /\ n <= 2 * CellTabInit =>
              /\ room = 2 * CellTabInit
              /\ \A i \in 1 .. Len(frames) : frames[i].max \in {CellTabInit, 2 * CellTabInit}

Phases == {"automaton", "scan", "find", "connect", "corridor", "joined", "done", "wild"}
MapInv ==
    /\ MapTypes /\ phase \in Phases
    /\ phase = "automaton" => ncave = 0 /\ \A c \in Cells : caveid[c] = NoCave
    /\ phase \notin {"automaton", "wild"} => Searched
    /\ phase = "find" => Calling /\ Room
    /\ phase \notin {"find", "wild"} => frames = <<>>
    /\ phase \in {"connect", "corridor", "joined", "done"} => count = NCells
    /\ phase \in {"connect", "corridor", "joined"} => ncave > 0
    /\ TablesHold

CorInv ==
    /\ cor \in Seq(Cells)
    /\ phase = "corridor" => cor # <<>> /\ dir \in Dirs
    /\ CorridorJoins

CavesInv == MapInv /\ CorInv

\* Places of the last call and of the others when the last one is replaced.
LEMMA BelowIs ==
    ASSUME MapTypes, frames # <<>>, NEW f \in Frames
    PROVE  /\ Below(f) \in Seq(Frames) /\ Len(Below(f)) = Len(frames)
           /\ Below(f)[Len(frames)] = f
           /\ \A i \in 1 .. Len(frames) - 1 : Below(f)[i] = frames[i]
           /\ Len(frames) \in Nat \ {0} /\ Top \in Frames /\ Top = frames[Len(frames)]
           /\ \A i \in 1 .. Len(frames) : frames[i] \in Frames
<1>1. frames \in Seq(Frames)
  BY DEF MapTypes
<1>2. Len(frames) \in Nat \ {0} /\ \A i \in 1 .. Len(frames) : frames[i] \in Frames
  BY <1>1
<1>3. Top \in Frames /\ Top = frames[Len(frames)]
  BY <1>2 DEF Top
<1>4. Below(f) \in Seq(Frames) /\ Len(Below(f)) = Len(frames)
  BY <1>2 DEF Below
<1>5. \A i \in 1 .. Len(frames) : Below(f)[i] = IF i = Len(frames) THEN f ELSE frames[i]
  BY DEF Below
<1>6. Below(f)[Len(frames)] = f
  BY <1>2, <1>5
<1>7. \A i \in 1 .. Len(frames) - 1 : Below(f)[i] = frames[i]
  <2>1. \A i \in 1 .. Len(frames) - 1 : i \in 1 .. Len(frames) /\ i # Len(frames)
    BY <1>2
  <2> QED
    BY <2>1, <1>5
<1> QED
  BY <1>2, <1>3, <1>4, <1>6, <1>7

\* One cell more in a table.
LEMMA OneMoreListed ==
    ASSUME NEW s \in Seq(Cells), NEW x \in Cells, Once(s), x \notin Of(s)
    PROVE  /\ Append(s, x) \in Seq(Cells) /\ Len(Append(s, x)) = Len(s) + 1
           /\ Once(Append(s, x)) /\ Of(Append(s, x)) = Of(s) \cup {x}
           /\ Append(s, x)[1] = IF s = <<>> THEN x ELSE s[1]
<1> DEFINE t == Append(s, x)
           n == Len(s)
<1>1. /\ n \in Nat /\ t \in Seq(Cells) /\ Len(t) = n + 1 /\ t[n + 1] = x
      /\ \A i \in 1 .. n : t[i] = s[i]
  OBVIOUS
<1>2. s = <<>> <=> n = 0
  OBVIOUS
<1>3. \A i \in 1 .. n : s[i] # x
  BY DEF Of
<1> HIDE DEF t, n
<1>4. \A i \in 1 .. n + 1 : i = n + 1 \/ i \in 1 .. n
  BY <1>1
<1>5. Once(t)
  <2>1. ASSUME NEW j \in 1 .. n + 1, NEW k \in 1 .. n + 1, t[j] = t[k] PROVE j = k
    <3>1. CASE j = n + 1 /\ k \in 1 .. n
      BY <3>1, <2>1, <1>1, <1>3
    <3>2. CASE k = n + 1 /\ j \in 1 .. n
      BY <3>2, <2>1, <1>1, <1>3
    <3>3. CASE j \in 1 .. n /\ k \in 1 .. n
      <4>1. s[j] = s[k]
        BY <3>3, <2>1, <1>1
      <4> QED
        BY <4>1, <3>3 DEF Once, n
    <3> QED
      BY <1>4, <3>1, <3>2, <3>3
  <2> QED
    BY <2>1, <1>1 DEF Once
<1>6. Of(t) = Of(s) \cup {x}
  <2>1. \A y \in Of(t) : y \in Of(s) \cup {x}
    <3>1. ASSUME NEW j \in 1 .. n + 1 PROVE t[j] \in Of(s) \cup {x}
      BY <1>1, <1>4 DEF Of, n
    <3> QED
      BY <3>1, <1>1 DEF Of
  <2>2. \A y \in Of(s) : y \in Of(t)
    <3>1. ASSUME NEW j \in 1 .. n PROVE s[j] \in Of(t)
      <4>1. j \in 1 .. n + 1 /\ t[j] = s[j]
        BY <1>1
      <4> QED
        BY <4>1, <1>1 DEF Of
    <3> QED
      BY <3>1 DEF Of, n
  <2>3. x \in Of(t)
    <3>1. n + 1 \in 1 .. n + 1
      BY <1>1
    <3> QED
      BY <3>1, <1>1 DEF Of
  <2> QED
    BY <2>1, <2>2, <2>3
<1>7. t[1] = IF s = <<>> THEN x ELSE s[1]
  BY <1>1, <1>2
<1> QED
  BY <1>1, <1>5, <1>6, <1>7 DEF t, n

\* The number of a cave is a place of the table of caves.
LEMMA CaveHasTable ==
    ASSUME MapTypes, Searched, NEW i \in 0 .. ncave
    PROVE  i \in 0 .. NCells /\ celltab[i] \in Seq(Cells) /\ ncave \in 0 .. NCells
<1>1. NCells \in Nat /\ ncave \in Nat /\ count \in Nat /\ ncave <= count /\ count <= NCells
  BY MapSize DEF MapTypes, Searched
<1>2. i \in 0 .. NCells /\ ncave \in 0 .. NCells
  BY <1>1
<1> QED
  BY <1>2 DEF MapTypes

\* Nothing that the map is judged by changes.
LEMMA SameCaves ==
    ASSUME UNCHANGED <<closed, caveid, celltab>>
    PROVE  /\ \A i \in Nat : Listed(i)' = Listed(i) /\ Complete(i)' = Complete(i) /\ Owned(i)' = Owned(i)
           /\ \A c : Alone(c)' = Alone(c) /\ \A n : NoFresh(c, n)' = NoFresh(c, n)
<1>1. \A i \in Nat : Owned(i)' = Owned(i)
  BY DEF Owned
<1>2. \A i \in Nat : Listed(i)' = Listed(i)
  BY <1>1 DEF Listed
<1>3. \A i \in Nat : Complete(i)' = Complete(i)
  BY <1>1, <1>2 DEF Complete
<1>4. \A c : Alone(c)' = Alone(c)
  BY DEF Alone
<1>5. \A c : \A n : NoFresh(c, n)' = NoFresh(c, n)
  BY DEF NoFresh, Fresh
<1> QED
  BY <1>1, <1>2, <1>3, <1>4, <1>5

\* No corridor is at hand.
LEMMA NoCorridor ==
    ASSUME CorInv, UNCHANGED cor, phase' \notin {"corridor", "joined"}
    PROVE  CorInv'
BY DEF CorInv, CorridorJoins

\* The first states.
LEMMA CavesStart == ASSUME CavesInit PROVE CavesInv
<1>1. MapTypes
  <2>1. closed \in SUBSET Cells /\ CellTabInit \in Nat
    BY CavesAssumption DEF CavesInit
  <2>2. caveid \in [Cells -> Int] /\ frames \in Seq(Frames)
    BY DEF CavesInit, NoCave
  <2>3. celltab \in [0 .. NCells -> Seq(Cells)]
    BY DEF CavesInit
  <2> QED
    BY <2>1, <2>2, <2>3 DEF CavesInit, MapTypes
<1>2. MapInv
  BY <1>1 DEF CavesInit, MapInv, Phases, TablesHold
<1>3. CorInv
  BY DEF CavesInit, CorInv, CorridorJoins
<1> QED
  BY <1>2, <1>3 DEF CavesInv

\* The automaton opens and closes cells of the map.
LEMMA DoAutomaton == ASSUME CavesInv, Automaton PROVE CavesInv'
<1>1. MapTypes'
  <2>1. closed' \in SUBSET Cells /\ count' \in Nat
    BY DEF CavesInv, MapInv, MapTypes, Automaton
  <2> QED
    BY <2>1 DEF CavesInv, MapInv, MapTypes, Automaton
<1>2. MapInv'
  BY <1>1 DEF CavesInv, MapInv, Automaton, Phases, TablesHold
<1>3. CorInv'
  BY NoCorridor DEF CavesInv, Automaton, corvars
<1> QED
  BY <1>2, <1>3 DEF CavesInv

LEMMA DoSmooth == ASSUME CavesInv, Smooth PROVE CavesInv'
<1>1. closed' \in SUBSET Cells
  <2> DEFINE s1 == Pass(closed, SmoothCell)
             s2 == Pass(s1, SmoothCell)
             s3 == Pass(s2, SmoothCell)
             s4 == Pass(s3, FillCell)
  <2>1. closed \in SUBSET Cells
    BY DEF CavesInv, MapInv, MapTypes
  <2>2. s1 \in SUBSET Cells
    BY <2>1, PassSmooths
  <2> HIDE DEF s1
  <2>3. s2 \in SUBSET Cells
    BY <2>2, PassSmooths
  <2> HIDE DEF s2
  <2>4. s3 \in SUBSET Cells
    BY <2>3, PassSmooths
  <2> HIDE DEF s3
  <2>5. s4 \in SUBSET Cells
    BY <2>4, PassFills
  <2> QED
    BY <2>5 DEF Smooth, s1, s2, s3
<1>2. MapTypes'
  BY <1>1 DEF CavesInv, MapInv, MapTypes, Smooth
<1>3. Searched'
  <2>1. ncave' = 0 /\ count' = 0 /\ (\A c \in Cells : caveid'[c] = NoCave) /\ 0 <= NCells
    BY MapSize DEF CavesInv, MapInv, MapTypes, Smooth
  <2> QED
    BY <2>1 DEF Searched, NoCave
<1>4. MapInv'
  BY <1>2, <1>3 DEF CavesInv, MapInv, Smooth, Phases, TablesHold
<1>5. CorInv'
  BY NoCorridor DEF CavesInv, Smooth, corvars
<1> QED
  BY <1>4, <1>5 DEF CavesInv

\* A cell that a search may begin at.
LEMMA DoScanFind == ASSUME CavesInv, ScanFind PROVE CavesInv'
<1> DEFINE root == CellAt(count)
           f == Frame(root, CellTabInit)
<1>0. /\ MapTypes /\ Searched /\ phase = "scan" /\ phase' = "find" /\ count < NCells
      /\ UNCHANGED <<count, closed, caveid, ncave>>
      /\ celltab' = [celltab EXCEPT ![ncave] = <<>>]
      /\ room' = CellTabInit /\ frames' = <<f>> /\ root \in closed /\ caveid[root] = NoCave
  BY DEF CavesInv, MapInv, ScanFind
<1>1. ncave \in 0 .. NCells /\ celltab'[ncave] = <<>> /\ \A i \in 0 .. ncave - 1 : celltab'[i] = celltab[i]
  <2>1. ncave \in 0 .. NCells /\ ncave \in Nat
    BY <1>0, CaveHasTable DEF MapTypes
  <2>2. \A i \in 0 .. ncave - 1 : i \in 0 .. NCells /\ i # ncave
    BY <2>1, MapSize
  <2> QED
    BY <1>0, <2>1, <2>2 DEF MapTypes
<1>2. root \in Cells /\ f \in Frames /\ f.cell = root /\ f.ndx = 0 /\ f.max = CellTabInit
  BY <1>0, CavesAssumption DEF MapTypes, Frames, Frame
<1>3. MapTypes'
  <2>1. celltab' \in [0 .. NCells -> Seq(Cells)]
    <3>1. <<>> \in Seq(Cells) /\ celltab \in [0 .. NCells -> Seq(Cells)]
      BY <1>0 DEF MapTypes
    <3> QED
      BY <3>1, <1>0
  <2>2. frames' \in Seq(Frames)
    BY <1>0, <1>2
  <2>3. room' \in Nat
    BY <1>0, CavesAssumption
  <2> QED
    BY <1>0, <2>1, <2>2, <2>3 DEF MapTypes
<1>4. \A i \in 0 .. ncave - 1 : Complete(i)'
  <2>1. ASSUME NEW i \in 0 .. ncave - 1 PROVE Complete(i)'
    <3>1. Complete(i) /\ celltab'[i] = celltab[i] /\ Owned(i)' = Owned(i)
      BY <1>0, <1>1 DEF Searched, Owned
    <3> QED
      BY <3>1, <1>0 DEF Complete, Listed
  <2> QED
    BY <2>1
<1>5. Searched'
  BY <1>0, <1>4 DEF Searched, Alone
<1>6. Listed(ncave)'
  <2>1. Owned(ncave)' = {}
    BY <1>0 DEF Searched, Owned
  <2>2. HangsTogether({})
    BY DEF HangsTogether
  <2>3. Once(<<>>) /\ Of(<<>>) = {}
    BY DEF Once, Of
  <2> QED
    BY <1>0, <1>1, <2>1, <2>2, <2>3 DEF Listed
<1>7. Len(frames') = 1 /\ frames'[1] = f /\ frames' # <<>> /\ \A i \in 1 .. Len(frames') : frames'[i] = f
  BY <1>0
<1>8. Calling'
  <2>1. NoFresh(root, 0)'
    BY DEF NoFresh
  <2>2. \A c \in Cells : caveid'[c] # ncave'
    BY <1>0 DEF Searched
  <2>3. 2 .. Len(frames') = {}
    BY <1>7
  <2>4. Owned(ncave)' = {}
    BY <1>0, <2>2 DEF Owned
  <2> HIDE DEF f, root
  <2> QED
    BY <1>0, <1>1, <1>2, <1>6, <1>7, <2>1, <2>3, <2>4 DEF Calling, root
<1>9. Room'
  <2>1. Len(celltab'[ncave']) = 0 /\ CellTabInit \in Nat \ {0}
    BY <1>0, <1>1, CavesAssumption
  <2> HIDE DEF f
  <2> QED
    BY <2>1, <1>0, <1>2, <1>7 DEF Room
<1>10. MapInv'
  BY <1>0, <1>3, <1>5, <1>8, <1>9 DEF MapInv, Phases, TablesHold
<1>11. CorInv'
  BY NoCorridor, <1>0 DEF CavesInv, ScanFind, corvars
<1> QED
  BY <1>10, <1>11 DEF CavesInv

LEMMA DoScanSkip == ASSUME CavesInv, ScanSkip PROVE CavesInv'
<1>0. /\ MapTypes /\ Searched /\ phase = "scan" /\ phase' = "scan" /\ count < NCells /\ frames = <<>>
      /\ UNCHANGED <<closed, caveid, ncave, celltab, room, frames>> /\ count' = count + 1
      /\ ~(CellAt(count) \in closed /\ caveid[CellAt(count)] = NoCave)
  BY DEF CavesInv, MapInv, ScanSkip, mapvars
<1>1. MapTypes'
  BY <1>0 DEF MapTypes
<1>2. Searched'
  <2>1. \A i \in 0 .. ncave' - 1 : Complete(i)'
    <3>1. \A i \in 0 .. ncave - 1 : i \in Nat /\ Complete(i)
      BY <1>0 DEF Searched, MapTypes
    <3> QED
      BY <1>0, <3>1, SameCaves
  <2>2. \A j \in 0 .. count' - 1 : CellAt(j) \in closed' /\ caveid'[CellAt(j)] = NoCave => Alone(CellAt(j))'
    <3>1. \A j \in 0 .. count' - 1 : j = count \/ j \in 0 .. count - 1
      BY <1>0 DEF MapTypes
    <3>2. \A c : Alone(c)' = Alone(c)
      BY <1>0 DEF Alone
    <3> QED
      BY <1>0, <3>1, <3>2 DEF Searched
  <2>3. ncave' <= count' /\ count' <= NCells
    BY <1>0, MapSize DEF Searched, MapTypes
  <2> QED
    BY <1>0, <2>1, <2>2, <2>3 DEF Searched
<1>3. MapInv'
  BY <1>0, <1>1, <1>2 DEF MapInv, Phases, TablesHold
<1>4. CorInv'
  BY NoCorridor, <1>0 DEF CavesInv, ScanSkip, corvars
<1> QED
  BY <1>3, <1>4 DEF CavesInv

\* One neighbour more.
LEMMA OneMoreSeen ==
    ASSUME NEW c, NEW F, NEW n \in Nat, \A i \in 0 .. n - 1 : Move(c, i) \notin F, Move(c, n) \notin F
    PROVE  \A i \in 0 .. n + 1 - 1 : Move(c, i) \notin F
<1>1. \A i \in 0 .. n + 1 - 1 : i = n \/ i \in 0 .. n - 1
  OBVIOUS
<1> QED
  BY <1>1

\* The call at work: where it is, and that whom it looks at is beside it.
LEMMA Looking ==
    ASSUME CavesInv, phase = "find", Top.ndx < 4, Fresh(Seen)
    PROVE  /\ Seen \in Cells /\ Seen \in closed /\ caveid[Seen] = NoCave
           /\ Adjacent(Top.cell, Seen) /\ Adjacent(Seen, Top.cell) /\ Top.cell \in closed
           /\ Owned(ncave) = {} \/ \E e \in Owned(ncave) : Adjacent(e, Seen)
           /\ celltab[ncave] = <<>> => Top.cell = CellAt(count)
<1> DEFINE root == CellAt(count)
           n == Len(frames)
<1>0. MapTypes /\ Calling /\ Searched /\ frames # <<>>
  BY DEF CavesInv, MapInv, Calling
<1>1. frames \in Seq(Frames) /\ n \in Nat \ {0} /\ Top = frames[n] /\ Top \in Frames
  BY <1>0 DEF MapTypes, Top
<1>2. Seen \in closed /\ caveid[Seen] = NoCave /\ Seen \in Cells
  BY <1>0 DEF Fresh, MapTypes
<1>3. Top.cell \in Cells /\ Top.ndx \in Dirs /\ Top.cell \in closed
  BY <1>0, <1>1 DEF Frames, Dirs, Calling
<1>4. Adjacent(Top.cell, Seen)
  BY <1>3 DEF Adjacent, Seen
<1>5. Adjacent(Seen, Top.cell)
  BY <1>2, <1>3, <1>4, Beside
<1>6. n # 1 => Top.cell \in Owned(ncave)
  <2>1. n # 1 => n \in 2 .. n
    <3> HIDE DEF n
    <3> QED
      BY <1>1
  <2> QED
    BY <2>1, <1>0, <1>1, <1>3 DEF Calling, Owned
<1>7. n = 1 => Top.cell = root
  BY <1>0, <1>1 DEF Calling
<1>8. Listed(ncave) /\ celltab[ncave] \in Seq(Cells)
  BY <1>0, CaveHasTable DEF Calling, MapTypes
<1>9. n = 1 /\ Owned(ncave) # {} => root \in Owned(ncave)
  <2>1. ASSUME n = 1, Owned(ncave) # {} PROVE root \in Owned(ncave)
    <3>1. celltab[ncave] # <<>> /\ celltab[ncave][1] \in Owned(ncave)
      <4>1. Of(celltab[ncave]) # {} /\ Of(celltab[ncave]) = Owned(ncave)
        BY <1>8, <2>1 DEF Listed
      <4>2. celltab[ncave] # <<>> /\ 1 \in 1 .. Len(celltab[ncave])
        BY <1>8, <4>1 DEF Of
      <4> QED
        BY <4>1, <4>2 DEF Of
    <3> DEFINE c0 == celltab[ncave][1]
    <3>2. NoFresh(c0, 4) /\ Adjacent(c0, root)
      <4>1. 2 .. Len(frames) = {}
        BY <2>1
      <4> HIDE DEF c0, n
      <4> QED
        BY <1>0, <3>1, <4>1 DEF Calling, c0
    <3>3. ~Fresh(root)
      <4>1. PICK k \in Dirs : root = Move(c0, k)
        BY <3>2 DEF Adjacent
      <4>2. k \in 0 .. 4 - 1
        BY DEF Dirs
      <4> QED
        BY <3>2, <4>1, <4>2 DEF NoFresh
    <3>4. root \in closed /\ root \in Cells /\ caveid[root] \in {NoCave, ncave}
      BY <1>0, <1>3, <1>7, <2>1 DEF Calling
    <3> QED
      BY <3>3, <3>4 DEF Fresh, Owned
  <2> QED
    BY <2>1
<1>10. Owned(ncave) = {} \/ \E e \in Owned(ncave) : Adjacent(e, Seen)
  <2> HIDE DEF root, n
  <2> QED
    BY <1>4, <1>6, <1>7, <1>9
<1>11. celltab[ncave] = <<>> => Top.cell = root
  <2>1. celltab[ncave] = <<>> => Owned(ncave) = {}
    BY <1>8 DEF Listed, Of
  <2> QED
    BY <2>1, <1>6, <1>7
<1> QED
  BY <1>2, <1>3, <1>4, <1>5, <1>10, <1>11

\* A neighbour joins the cave.
LEMMA DoFindEnter == ASSUME CavesInv, FindEnter PROVE CavesInv'
<1> DEFINE tab == celltab[ncave]
           n == Len(tab)
           max2 == IF Full(n, Top.max) THEN 2 * Top.max ELSE Top.max
           size2 == IF Full(n, Top.max) THEN max2 ELSE room
           f == [Top EXCEPT !.ndx = @ + 1, !.max = max2]
           g == Frame(Seen, size2)
           k == Len(frames)
<1>0. /\ MapTypes /\ Searched /\ Calling /\ Room /\ phase = "find" /\ Top.ndx < 4 /\ Fresh(Seen)
      /\ UNCHANGED <<count, closed, ncave, corvars>>
      /\ caveid' = [caveid EXCEPT ![Seen] = ncave]
      /\ celltab' = [celltab EXCEPT ![ncave] = Append(@, Seen)]
      /\ room' = size2 /\ frames' = Append(Below(f), g)
      /\ (n < size2 /\ phase' = "find") \/ (n >= size2 /\ phase' = "wild")
  BY DEF CavesInv, MapInv, FindEnter
<1>1. /\ Seen \in Cells /\ Seen \in closed /\ caveid[Seen] = NoCave
      /\ Adjacent(Top.cell, Seen) /\ Adjacent(Seen, Top.cell) /\ Top.cell \in closed
      /\ Owned(ncave) = {} \/ \E e \in Owned(ncave) : Adjacent(e, Seen)
      /\ tab = <<>> => Top.cell = CellAt(count)
  BY <1>0, Looking
<1>2. ncave \in 0 .. NCells /\ tab \in Seq(Cells) /\ n \in Nat /\ ncave \in Nat /\ frames # <<>>
  BY <1>0, CaveHasTable DEF MapTypes, Calling
<1>3. frames \in Seq(Frames) /\ k \in Nat \ {0} /\ Top = frames[k] /\ Top \in Frames
  BY <1>0, <1>2 DEF MapTypes, Top
<1>4. /\ Top.cell \in Cells /\ Top.ndx \in 0 .. 3 /\ Top.max \in Nat /\ room \in Nat
      /\ CellTabInit \in Nat \ {0}
  BY <1>0, <1>3, CavesAssumption DEF Frames, MapTypes
<1> DEFINE t2 == Append(tab, Seen)
<1>5. /\ celltab'[ncave'] = t2 /\ celltab' \in [0 .. NCells -> Seq(Cells)]
      /\ \A i \in 0 .. ncave - 1 : celltab'[i] = celltab[i]
  <2>1. t2 \in Seq(Cells) /\ celltab \in [0 .. NCells -> Seq(Cells)]
    BY <1>0, <1>1, <1>2 DEF MapTypes
  <2>2. \A i \in 0 .. ncave - 1 : i \in 0 .. NCells /\ i # ncave
    BY <1>2, MapSize
  <2>3. celltab' = [celltab EXCEPT ![ncave] = t2]
    BY <1>0, <1>2
  <2> HIDE DEF t2, tab
  <2> QED
    BY <2>1, <2>2, <2>3, <1>0, <1>2
<1>6. /\ caveid' \in [Cells -> Int] /\ caveid'[Seen] = ncave
      /\ \A c \in Cells : c # Seen => caveid'[c] = caveid[c]
  BY <1>0, <1>1, <1>2 DEF MapTypes
<1>7. Seen \notin Owned(ncave) /\ Owned(ncave)' = Owned(ncave) \cup {Seen}
  BY <1>0, <1>1, <1>2, <1>6 DEF Owned, NoCave
<1>8. Once(tab) /\ Of(tab) = Owned(ncave) /\ HangsTogether(Owned(ncave))
  BY <1>0 DEF Calling, Listed
<1>9. /\ Len(t2) = n + 1 /\ Once(t2) /\ Of(t2) = Owned(ncave)'
      /\ t2[1] = IF tab = <<>> THEN Seen ELSE tab[1]
  BY <1>1, <1>2, <1>7, <1>8, OneMoreListed
<1>10. Listed(ncave)'
  <2>1. HangsTogether(Owned(ncave) \cup {Seen})
    <3>1. Owned(ncave) \in SUBSET Cells
      BY DEF Owned
    <3> QED
      BY <3>1, <1>1, <1>8, OneMore
  <2> HIDE DEF t2
  <2> QED
    BY <2>1, <1>5, <1>7, <1>9 DEF Listed
<1>11. \A i \in 0 .. ncave - 1 : Complete(i)'
  <2>1. ASSUME NEW i \in 0 .. ncave - 1 PROVE Complete(i)'
    <3>1. Complete(i) /\ celltab'[i] = celltab[i] /\ i # ncave /\ i # NoCave /\ i \in Nat
      BY <1>0, <1>2, <1>5 DEF Searched, NoCave
    <3>2. Owned(i)' = Owned(i)
      BY <3>1, <1>1, <1>6 DEF Owned
    <3>3. \A c \in Owned(i), d \in closed : Adjacent(c, d) => caveid'[d] = i
      <4>1. ASSUME NEW c \in Owned(i), NEW d \in closed, Adjacent(c, d) PROVE caveid'[d] = i
        <5>1. caveid[d] = i /\ d \in Cells
          BY <3>1, <4>1, <1>0 DEF Complete, MapTypes
        <5> QED
          BY <5>1, <3>1, <1>1, <1>6
      <4> QED
        BY <4>1
    <3> QED
      BY <3>1, <3>2, <3>3, <1>0 DEF Complete, Listed
  <2> QED
    BY <2>1
<1>12. Searched' \/ phase' = "wild"
  <2>1. \A c \in Cells : caveid'[c] # NoCave => c \in closed' /\ caveid'[c] \in 0 .. ncave'
    BY <1>0, <1>1, <1>2, <1>6 DEF Searched
  <2>2. \A j \in 0 .. count' - 1 : CellAt(j) \in closed' /\ caveid'[CellAt(j)] = NoCave => Alone(CellAt(j))'
    <3>1. ASSUME NEW j \in 0 .. count - 1, CellAt(j) \in closed, caveid'[CellAt(j)] = NoCave
          PROVE  Alone(CellAt(j))'
      <4>1. caveid[CellAt(j)] = NoCave
        BY <1>0, <1>2, <1>6, <3>1 DEF MapTypes, NoCave
      <4>2. Alone(CellAt(j))
        BY <4>1, <3>1, <1>0 DEF Searched
      <4> QED
        BY <4>2, <1>0 DEF Alone
    <3> QED
      BY <3>1, <1>0
  <2> QED
    BY <2>1, <2>2, <1>0, <1>11 DEF Searched
<1>13. f \in Frames /\ f.cell = Top.cell /\ f.ndx = Top.ndx + 1 /\ f.max = max2
  <2>1. max2 \in Nat /\ Top.ndx + 1 \in 0 .. 4
    BY <1>4
  <2> HIDE DEF max2
  <2> QED
    BY <2>1, <1>3 DEF Frames
<1>14. /\ frames' \in Seq(Frames)
       /\ k + 1 \in Nat /\ Len(frames') = k + 1 /\ frames'[k] = f /\ frames'[k + 1] = g
       /\ \A i \in 1 .. k - 1 : frames'[i] = frames[i]
       /\ \A i \in 1 .. k : frames[i] \in Frames
  <2> DEFINE b == Below(f)
  <2>1. /\ b \in Seq(Frames) /\ Len(b) = k /\ b[k] = f
        /\ \A i \in 1 .. k - 1 : b[i] = frames[i]
        /\ \A i \in 1 .. k : frames[i] \in Frames
    BY <1>0, <1>2, <1>13, BelowIs
  <2>2. g \in Frames
    BY <1>1, <1>2, <1>4 DEF Frame, Frames
  <2>3. frames' = Append(b, g)
    BY <1>0
  <2> HIDE DEF b, f, g, k
  <2>4. Len(frames') = k + 1 /\ frames'[k] = f /\ frames'[k + 1] = g /\ \A i \in 1 .. k - 1 : frames'[i] = b[i]
    BY <1>3, <2>1, <2>3
  <2>5. frames' \in Seq(Frames)
    BY <2>1, <2>2, <2>3
  <2> QED
    BY <2>1, <2>2, <2>4, <2>5, <1>3
<1>15. MapTypes'
  <2>1. size2 \in Nat
    BY <1>2, <1>4
  <2> HIDE DEF size2
  <2> QED
    BY <2>1, <1>0, <1>5, <1>6, <1>14 DEF MapTypes
<1> DEFINE free == {c \in closed' : caveid'[c] = NoCave}
           NoneFree(c, j) == \A i \in 0 .. j - 1 : Move(c, i) \notin free
<1>16. (\A c \in free : Fresh(c) /\ c # Seen) /\ \A c : \A j : NoFresh(c, j) => NoneFree(c, j)
  <2>1. \A c \in free : Fresh(c) /\ c # Seen
    BY <1>0, <1>2, <1>6 DEF Fresh, MapTypes, NoCave
  <2> HIDE DEF free
  <2> QED
    BY <2>1 DEF NoFresh
<1>17. Calling'
  <2>1. frames'[1].cell = CellAt(count) /\ frames' # <<>>
    <3>1. k = 1 => frames'[1].cell = frames[1].cell
      BY <1>3, <1>13, <1>14
    <3>2. k # 1 => frames'[1].cell = frames[1].cell
      <4>1. k # 1 => 1 \in 1 .. k - 1
        <5> HIDE DEF k
        <5> QED
          BY <1>3
      <4> QED
        BY <4>1, <1>14
    <3>3. frames[1].cell = CellAt(count) /\ Len(frames') # 0
      BY <1>0, <1>3, <1>14 DEF Calling
    <3> QED
      BY <3>1, <3>2, <3>3
  <2>2. \A i \in 1 .. k : frames'[i].cell = frames[i].cell
    <3>1. \A i \in 1 .. k : i = k \/ i \in 1 .. k - 1
      BY <1>3
    <3> QED
      BY <3>1, <1>3, <1>13, <1>14
  <2>3. \A i \in 1 .. k + 1 : i = k + 1 \/ i = k \/ i \in 1 .. k - 1
    BY <1>3
  <2>4. g.cell = Seen /\ g.ndx = 0
    BY DEF Frame
  <2>5. ASSUME NEW i \in 1 .. k + 1
        PROVE  frames'[i].cell \in closed /\ NoneFree(frames'[i].cell, frames'[i].ndx)
    <3> HIDE DEF free
    <3>1. CASE i = k + 1
      <4>1. frames'[i].cell = Seen /\ frames'[i].ndx = 0
        BY <3>1, <2>4, <1>14
      <4> QED
        BY <4>1, <1>1
    <3>2. CASE i = k
      <4>1. NoFresh(Top.cell, Top.ndx)
        <5>1. k \in 1 .. k
          BY <1>3
        <5> QED
          BY <5>1, <1>0, <1>3 DEF Calling
      <4>2. NoneFree(Top.cell, Top.ndx + 1)
        <5>1. Move(Top.cell, Top.ndx) \notin free
          BY <1>16 DEF Seen
        <5>2. \A j \in 0 .. Top.ndx - 1 : Move(Top.cell, j) \notin free
          BY <4>1, <1>16
        <5>3. Top.ndx \in Nat
          BY <1>4
        <5> QED
          BY <5>1, <5>2, <5>3, OneMoreSeen
      <4>3. frames'[i].cell = Top.cell /\ frames'[i].ndx = Top.ndx + 1
        BY <3>2, <1>13, <1>14
      <4> HIDE DEF NoneFree
      <4> QED
        BY <4>2, <4>3, <1>1
    <3>3. CASE i \in 1 .. k - 1
      <4>1. frames'[i] = frames[i] /\ i \in 1 .. k
        BY <3>3, <1>3, <1>14
      <4>2. frames[i].cell \in closed /\ NoFresh(frames[i].cell, frames[i].ndx)
        BY <4>1, <1>0 DEF Calling
      <4> HIDE DEF NoneFree
      <4> QED
        BY <4>1, <4>2, <1>16
    <3> QED
      BY <2>3, <3>1, <3>2, <3>3
  <2>6. ASSUME NEW i \in 2 .. k + 1 PROVE caveid'[frames'[i].cell] = ncave
    <3>1. CASE i = k + 1
      BY <3>1, <2>4, <1>6, <1>14
    <3>2. CASE i # k + 1
      <4>1. i \in 2 .. k /\ i \in 1 .. k
        BY <3>2, <1>3
      <4>2. caveid[frames[i].cell] = ncave /\ frames[i].cell \in Cells /\ frames'[i].cell = frames[i].cell
        BY <4>1, <2>2, <1>0, <1>14 DEF Calling, Frames
      <4> QED
        BY <4>2, <1>6
    <3> QED
      BY <3>1, <3>2
  <2>7. caveid'[CellAt(count)] \in {NoCave, ncave}
    <3>1. CellAt(count) \in Cells
      BY <1>0, PlaceIsCell DEF MapTypes, Calling
    <3> QED
      BY <3>1, <1>0, <1>6 DEF Calling
  <2>8. Adjacent(t2[1], CellAt(count))
    BY <1>0, <1>1, <1>9 DEF Calling
  <2>9. ASSUME NEW c \in Owned(ncave)'
        PROVE  (\E i \in 2 .. k + 1 : frames'[i].cell = c) \/ NoneFree(c, 4)
    <3> HIDE DEF NoneFree
    <3>1. CASE c = Seen
      <4>1. k + 1 \in 2 .. k + 1
        BY <1>3
      <4> QED
        BY <4>1, <3>1, <2>4, <1>14
    <3>2. CASE c \in Owned(ncave)
      <4>1. CASE \E i \in 2 .. k : frames[i].cell = c
        <5>1. \A i \in 2 .. k : i \in 1 .. k /\ i \in 2 .. k + 1
          BY <1>3
        <5> QED
          BY <4>1, <5>1, <2>2
      <4>2. CASE NoFresh(c, 4)
        BY <4>2, <1>16
      <4> QED
        BY <3>2, <4>1, <4>2, <1>0 DEF Calling
    <3> QED
      BY <3>1, <3>2, <1>7
  <2>10. Len(frames') = k + 1 /\ celltab'[ncave'] = t2 /\ UNCHANGED <<count, closed, ncave>> /\ count < NCells
    BY <1>0, <1>5, <1>14 DEF Calling
  <2>11. \A i \in 1 .. Len(frames') :
            frames'[i].cell \in closed' /\ NoFresh(frames[i].cell, frames[i].ndx)'
    BY <2>5, <2>10 DEF NoFresh, Fresh
  <2>12. \A c \in Owned(ncave)' : (\E i \in 2 .. Len(frames') : frames'[i].cell = c) \/ NoFresh(c, 4)'
    BY <2>9, <2>10 DEF NoFresh, Fresh
  <2> HIDE DEF t2, k, free, NoneFree
  <2> QED
    BY <2>1, <2>6, <2>7, <2>8, <2>10, <2>11, <2>12, <1>10 DEF Calling
<1>18. /\ n + 1 <= CellTabInit => n < size2 /\ size2 = CellTabInit /\ max2 = CellTabInit
       /\ n + 1 > CellTabInit /\ n + 1 <= 2 * CellTabInit =>
             n < size2 /\ size2 = 2 * CellTabInit /\ max2 \in {CellTabInit, 2 * CellTabInit}
  <2>1. k \in 1 .. k
    BY <1>3
  <2>2. n <= CellTabInit => room = CellTabInit /\ Top.max = CellTabInit
    BY <2>1, <1>0, <1>3 DEF Room
  <2>3. n > CellTabInit /\ n <= 2 * CellTabInit =>
            room = 2 * CellTabInit /\ Top.max \in {CellTabInit, 2 * CellTabInit}
    BY <2>1, <1>0, <1>3 DEF Room
  <2> HIDE DEF n, k
  <2> QED
    BY <2>2, <2>3, <1>2, <1>4 DEF Full
<1>19. Room'
  <2>1. \A i \in 1 .. k + 1 : frames'[i].max \in {size2, max2} \/ (i \in 1 .. k /\ frames'[i] = frames[i])
    <3>1. \A i \in 1 .. k + 1 : i = k + 1 \/ i = k \/ i \in 1 .. k - 1
      BY <1>3
    <3>2. g.max = size2
      BY DEF Frame
    <3>3. f.max = max2 /\ frames'[k] = f /\ frames'[k + 1] = g /\ \A i \in 1 .. k - 1 : frames'[i] = frames[i]
      BY <1>13, <1>14
    <3>4. \A i \in 1 .. k - 1 : i \in 1 .. k
      BY <1>3
    <3>5. frames'[k].max = max2 /\ frames'[k + 1].max = size2
      BY <3>2, <3>3
    <3> HIDE DEF f, g, max2, size2, k
    <3>6. ASSUME NEW i \in 1 .. k + 1
          PROVE  frames'[i].max \in {size2, max2} \/ (i \in 1 .. k /\ frames'[i] = frames[i])
      BY <3>1, <3>3, <3>4, <3>5
    <3> QED
      BY <3>6
  <2>2. n + 1 <= CellTabInit => \A i \in 1 .. k : frames[i].max = CellTabInit
    BY <1>0, <1>2, <1>4 DEF Room
  <2>3. n + 1 <= 2 * CellTabInit => \A i \in 1 .. k : frames[i].max \in {CellTabInit, 2 * CellTabInit}
    <3>1. n <= CellTabInit => \A i \in 1 .. k : frames[i].max = CellTabInit
      BY <1>0 DEF Room
    <3>2. n > CellTabInit /\ n <= 2 * CellTabInit =>
             \A i \in 1 .. k : frames[i].max \in {CellTabInit, 2 * CellTabInit}
      BY <1>0 DEF Room
    <3> HIDE DEF n, k
    <3> QED
      BY <3>1, <3>2, <1>2, <1>4
  <2>4. n + 1 <= CellTabInit => room' = CellTabInit /\ \A i \in 1 .. k + 1 : frames'[i].max = CellTabInit
    <3> HIDE DEF n, k, size2, max2
    <3> QED
      BY <2>1, <2>2, <1>0, <1>18
  <2>5. n + 1 > CellTabInit /\ n + 1 <= 2 * CellTabInit =>
           room' = 2 * CellTabInit /\ \A i \in 1 .. k + 1 : frames'[i].max \in {CellTabInit, 2 * CellTabInit}
    <3> HIDE DEF n, k, size2, max2
    <3> QED
      BY <2>1, <2>3, <1>0, <1>18
  <2> HIDE DEF t2, n, k
  <2> QED
    BY <2>4, <2>5, <1>5, <1>9, <1>14 DEF Room
<1>20. TablesHold'
  <2>1. phase' = "wild" => n + 1 > 2 * CellTabInit
    <3> HIDE DEF n, size2, max2
    <3> QED
      BY <1>0, <1>2, <1>4, <1>18
  <2> HIDE DEF t2, n
  <2> QED
    BY <2>1, <1>5, <1>9 DEF TablesHold
<1>21. MapInv'
  <2> HIDE DEF n, size2
  <2> QED
    BY <1>0, <1>12, <1>15, <1>17, <1>19, <1>20 DEF MapInv, Phases
<1>22. CorInv'
  <2>1. phase' \notin {"corridor", "joined"} /\ UNCHANGED cor
    <3> HIDE DEF n, size2
    <3> QED
      BY <1>0 DEF corvars
  <2> QED
    BY <2>1, NoCorridor DEF CavesInv
<1> QED
  BY <1>21, <1>22 DEF CavesInv

\* What a step that changes only the calls leaves as it was.
LEMMA SameSearched ==
    ASSUME MapTypes, Searched, phase = "find", UNCHANGED <<phase, count, closed, caveid, ncave, celltab>>
    PROVE  Searched' /\ Listed(ncave)' = Listed(ncave)
<1>1. \A i \in 0 .. ncave' - 1 : Complete(i)'
  <2>1. \A i \in 0 .. ncave - 1 : i \in Nat /\ Complete(i)
    BY DEF Searched, MapTypes
  <2> QED
    BY <2>1, SameCaves
<1>2. \A c : Alone(c)' = Alone(c)
  BY SameCaves
<1>3. Listed(ncave)' = Listed(ncave)
  BY DEF Listed, Owned
<1> QED
  BY <1>1, <1>2, <1>3 DEF Searched

\* Only the calls change, to some that have seen no less.
LEMMA SameCave ==
    ASSUME CavesInv, phase = "find", UNCHANGED <<phase, count, mapvars, room, corvars>>,
           frames' \in Seq(Frames), frames' # <<>>, Len(frames') <= Len(frames),
           \A i \in 1 .. Len(frames') :
               /\ frames'[i].cell = frames[i].cell /\ frames'[i].max = frames[i].max
               /\ NoFresh(frames'[i].cell, frames'[i].ndx),
           \A i \in 1 .. Len(frames) : i > Len(frames') => NoFresh(frames[i].cell, 4)
    PROVE  CavesInv'
<1>0. MapTypes /\ Searched /\ Calling /\ Room /\ UNCHANGED <<closed, caveid, ncave, ncavemax, celltab, cor, count>>
  BY DEF CavesInv, MapInv, mapvars, corvars
<1>1. MapTypes'
  BY <1>0 DEF MapTypes
<1>2. Searched' /\ Listed(ncave)'
  BY <1>0, SameSearched DEF Calling
<1> DEFINE k == Len(frames)
           m == Len(frames')
<1>3. /\ k \in Nat /\ m \in Nat \ {0} /\ m <= k
      /\ \A i \in 1 .. m : i \in 1 .. k /\ \A j \in 2 .. m : j \in 2 .. k
  <2>1. k \in Nat /\ m \in Nat \ {0} /\ m <= k
    BY <1>0 DEF MapTypes
  <2> HIDE DEF k, m
  <2> QED
    BY <2>1
<1>4. Calling'
  <2>1. frames'[1].cell = CellAt(count)
    BY <1>0, <1>3 DEF Calling
  <2>2. \A i \in 1 .. m : frames'[i].cell \in closed /\ NoFresh(frames'[i].cell, frames'[i].ndx)
    BY <1>0, <1>3 DEF Calling
  <2>3. \A i \in 2 .. m : caveid[frames'[i].cell] = ncave
    <3>1. \A i \in 2 .. m : i \in 1 .. m /\ i \in 2 .. k
      BY <1>3
    <3> QED
      BY <3>1, <1>0 DEF Calling
  <2>4. ASSUME NEW c \in Owned(ncave)
        PROVE  (\E i \in 2 .. m : frames'[i].cell = c) \/ NoFresh(c, 4)
    <3>1. CASE \E i \in 2 .. k : frames[i].cell = c
      <4>1. PICK i \in 2 .. k : frames[i].cell = c
        BY <3>1
      <4>2. i \in 1 .. k /\ (i > m \/ (i \in 1 .. m /\ i \in 2 .. m))
        BY <4>1, <1>3
      <4> QED
        BY <4>1, <4>2
    <3>2. CASE NoFresh(c, 4)
      BY <3>2
    <3> QED
      BY <3>1, <3>2, <1>0 DEF Calling
  <2>5. Owned(ncave)' = Owned(ncave)
    BY <1>0 DEF Owned
  <2>6. \A i \in 1 .. m : frames'[i].cell \in closed' /\ NoFresh(frames[i].cell, frames[i].ndx)'
    BY <2>2, <1>0 DEF NoFresh, Fresh
  <2>7. \A c \in Owned(ncave)' : (\E i \in 2 .. m : frames'[i].cell = c) \/ NoFresh(c, 4)'
    BY <2>4, <2>5, <1>0 DEF NoFresh, Fresh
  <2> HIDE DEF k
  <2> QED
    BY <2>1, <2>3, <2>6, <2>7, <1>0, <1>2 DEF Calling
<1>5. Room'
  <2>1. \A i \in 1 .. m : frames'[i].max = frames[i].max /\ i \in 1 .. k
    BY <1>3
  <2>2. Len(celltab'[ncave']) = Len(celltab[ncave]) /\ room' = room
    BY <1>0
  <2> HIDE DEF k
  <2> QED
    BY <2>1, <2>2, <1>0 DEF Room, k
<1>6. MapInv'
  BY <1>0, <1>1, <1>2, <1>4, <1>5 DEF MapInv, Phases, TablesHold
<1>7. CorInv'
  BY <1>0, NoCorridor DEF CavesInv
<1> QED
  BY <1>6, <1>7 DEF CavesInv

LEMMA DoFindPass == ASSUME CavesInv, FindPass PROVE CavesInv'
<1> DEFINE k == Len(frames)
           f == [Top EXCEPT !.ndx = @ + 1]
<1>0. /\ MapTypes /\ Calling /\ frames # <<>> /\ phase = "find" /\ Top.ndx < 4 /\ ~Fresh(Seen)
      /\ frames' = Below(f) /\ UNCHANGED <<phase, count, mapvars, room, corvars>>
  BY DEF CavesInv, MapInv, FindPass, Calling
<1>1. k \in Nat \ {0} /\ Top = frames[k] /\ Top \in Frames /\ \A i \in 1 .. k : frames[i] \in Frames
  BY <1>0 DEF MapTypes, Top
<1>2. Top.ndx \in 0 .. 3 /\ Top.ndx \in Nat /\ Top.cell \in Cells
  BY <1>0, <1>1 DEF Frames
<1>3. f \in Frames /\ f.cell = Top.cell /\ f.ndx = Top.ndx + 1 /\ f.max = Top.max
  <2>1. Top.ndx + 1 \in 0 .. 4
    BY <1>2
  <2> QED
    BY <2>1, <1>1 DEF Frames
<1>4. /\ frames' \in Seq(Frames) /\ Len(frames') = k /\ frames'[k] = f
      /\ \A i \in 1 .. k - 1 : frames'[i] = frames[i]
  BY <1>0, <1>3, BelowIs
<1>5. NoFresh(Top.cell, Top.ndx + 1)
  <2> DEFINE free == {c \in closed : Fresh(c)}
  <2>1. NoFresh(Top.cell, Top.ndx)
    <3>1. k \in 1 .. k
      BY <1>1
    <3> QED
      BY <3>1, <1>0, <1>1 DEF Calling
  <2>2. \A i \in 0 .. Top.ndx - 1 : Move(Top.cell, i) \notin free
    BY <2>1 DEF NoFresh
  <2>3. Move(Top.cell, Top.ndx) \notin free
    BY <1>0 DEF Seen
  <2>4. \A i \in 0 .. Top.ndx + 1 - 1 : Move(Top.cell, i) \notin free
    <3> HIDE DEF free
    <3> QED
      BY <2>2, <2>3, <1>2, OneMoreSeen
  <2>5. \A c : Fresh(c) => c \in free
    BY DEF Fresh
  <2> HIDE DEF free
  <2> QED
    BY <2>4, <2>5, <1>2 DEF NoFresh
<1> HIDE DEF f
<1>6. ASSUME NEW i \in 1 .. k
      PROVE  /\ frames'[i].cell = frames[i].cell /\ frames'[i].max = frames[i].max
             /\ NoFresh(frames'[i].cell, frames'[i].ndx)
  <2>1. CASE i = k
    BY <2>1, <1>1, <1>3, <1>4, <1>5
  <2>2. CASE i # k
    <3>1. i \in 1 .. k - 1
      BY <2>2, <1>1
    <3> QED
      BY <3>1, <1>0, <1>4 DEF Calling
  <2> QED
    BY <2>1, <2>2
<1>7. frames' # <<>> /\ k <= k /\ \A i \in 1 .. k : ~(i > k)
  BY <1>1, <1>4
<1> QED
  <2>1. Len(frames') = Len(frames) /\ Len(frames') <= Len(frames)
    BY <1>1, <1>4
  <2> HIDE DEF k
  <2>2. \A i \in 1 .. Len(frames) : i > Len(frames') => NoFresh(frames[i].cell, 4)
    BY <2>1, <1>7 DEF k
  <2> QED
    BY <2>1, <2>2, <1>0, <1>4, <1>6, <1>7, SameCave DEF k

LEMMA DoFindReturn == ASSUME CavesInv, FindReturn PROVE CavesInv'
<1> DEFINE k == Len(frames)
<1>0. /\ MapTypes /\ Calling /\ phase = "find" /\ Top.ndx = 4 /\ k > 1
      /\ frames' = SubSeq(frames, 1, k - 1) /\ UNCHANGED <<phase, count, mapvars, room, corvars>>
  BY DEF CavesInv, MapInv, FindReturn
<1>1. frames \in Seq(Frames) /\ k \in Nat /\ Top = frames[k] /\ k - 1 \in Nat \ {0}
  BY <1>0 DEF MapTypes, Top
<1>2. /\ frames' \in Seq(Frames) /\ Len(frames') = k - 1 /\ frames' # <<>>
      /\ \A i \in 1 .. k - 1 : frames'[i] = frames[i]
  <2>1. /\ frames' \in Seq(Frames) /\ Len(frames') = k - 1
        /\ \A i \in 1 .. k - 1 : frames'[i] = frames[1 + i - 1]
    <3>1. 1 \in 1 .. k + 1 /\ k - 1 \in 0 .. k
      BY <1>1
    <3> HIDE DEF k
    <3> QED
      BY <1>0, <1>1, <3>1, SubSeqProperties DEF k
  <2>2. \A i \in 1 .. k - 1 : 1 + i - 1 = i
    BY <1>1
  <2> QED
    BY <1>1, <2>1, <2>2
<1>3. NoFresh(Top.cell, 4)
  <2>1. k \in 1 .. k
    BY <1>1
  <2> QED
    BY <2>1, <1>0, <1>1 DEF Calling
<1>4. ASSUME NEW i \in 1 .. k - 1
      PROVE  /\ frames'[i].cell = frames[i].cell /\ frames'[i].max = frames[i].max
             /\ NoFresh(frames'[i].cell, frames'[i].ndx)
  <2>1. i \in 1 .. k
    BY <1>1
  <2> QED
    BY <2>1, <1>0, <1>2 DEF Calling
<1>5. \A i \in 1 .. k : i > k - 1 => i = k
  <2> HIDE DEF k
  <2> QED
    BY <1>1
<1> QED
  <2>1. Len(frames') = k - 1 /\ Len(frames') <= k
    BY <1>1, <1>2
  <2>2. \A i \in 1 .. k : i > Len(frames') => NoFresh(frames[i].cell, 4)
    BY <1>1, <1>3, <1>5, <2>1
  <2>3. \A i \in 1 .. Len(frames') :
               /\ frames'[i].cell = frames[i].cell /\ frames'[i].max = frames[i].max
               /\ NoFresh(frames'[i].cell, frames'[i].ndx)
    BY <1>4, <2>1
  <2> QED
    BY <2>1, <2>2, <2>3, <1>0, <1>2, SameCave

\* What the first call leaves when it is over.
LEMMA SearchOver ==
    ASSUME CavesInv, phase = "find", Top.ndx = 4, Len(frames) = 1
    PROVE  /\ \A c \in Owned(ncave), d \in closed : Adjacent(c, d) => caveid[d] = ncave
           /\ celltab[ncave] = <<>> => Owned(ncave) = {} /\ Alone(CellAt(count))
           /\ celltab[ncave] # <<>> => caveid[CellAt(count)] = ncave
           /\ celltab[ncave] \in Seq(Cells) /\ ncave \in 0 .. NCells
<1> DEFINE root == CellAt(count)
<1>0. MapTypes /\ Calling /\ Searched
  BY DEF CavesInv, MapInv
<1>1. frames[1].cell = root /\ Top = frames[1] /\ root \in closed /\ NoFresh(root, 4)
  BY <1>0 DEF Calling, Top
<1>2. \A c \in Owned(ncave) : NoFresh(c, 4)
  <2>1. 2 .. Len(frames) = {}
    OBVIOUS
  <2> QED
    BY <2>1, <1>0 DEF Calling
<1>3. ASSUME NEW c \in Cells, NoFresh(c, 4), NEW d \in closed, Adjacent(c, d), c \in closed,
             caveid[c] \in {NoCave, ncave}
      PROVE  caveid[d] = ncave
  <2>1. PICK k \in Dirs : d = Move(c, k)
    BY <1>3 DEF Adjacent
  <2>2. k \in 0 .. 4 - 1
    BY DEF Dirs
  <2>3. ~Fresh(d)
    BY <2>1, <2>2, <1>3 DEF NoFresh
  <2>4. d \in Cells /\ caveid[d] # NoCave /\ caveid[d] \in 0 .. ncave
    BY <2>3, <1>0 DEF Fresh, Searched, MapTypes
  <2>5. ASSUME caveid[d] # ncave PROVE FALSE
    <3> DEFINE i == caveid[d]
    <3>1. i \in 0 .. ncave - 1
      BY <2>4, <2>5, <1>0 DEF MapTypes
    <3>2. Complete(i) /\ d \in Owned(i)
      BY <3>1, <2>4, <1>0 DEF Searched, Owned
    <3>3. Adjacent(d, c)
      BY <1>3, <2>4, Beside
    <3>4. caveid[c] = i
      BY <3>2, <3>3, <1>3 DEF Complete
    <3> QED
      BY <3>1, <3>4, <1>0, <1>3 DEF NoCave, MapTypes
  <2> QED
    BY <2>5
<1>4. \A c \in Owned(ncave), d \in closed : Adjacent(c, d) => caveid[d] = ncave
  <2>1. \A c \in Owned(ncave) : c \in Cells /\ caveid[c] = ncave /\ c \in closed
    BY <1>0 DEF Owned, Searched, MapTypes, NoCave
  <2> QED
    BY <2>1, <1>2, <1>3
<1>5. celltab[ncave] \in Seq(Cells) /\ Listed(ncave) /\ ncave \in 0 .. NCells
  BY <1>0, CaveHasTable DEF Calling, MapTypes
<1>6. root \in Cells /\ caveid[root] \in {NoCave, ncave}
  BY <1>0, <1>1 DEF Calling, MapTypes
<1>7. celltab[ncave] = <<>> => Owned(ncave) = {}
  BY <1>5 DEF Listed, Of
<1>8. celltab[ncave] = <<>> => Alone(root)
  <2>1. ASSUME celltab[ncave] = <<>>, NEW d \in closed, Adjacent(root, d) PROVE FALSE
    <3>1. caveid[d] = ncave /\ d \in Cells
      BY <2>1, <1>0, <1>1, <1>3, <1>6 DEF MapTypes
    <3> QED
      BY <3>1, <2>1, <1>7 DEF Owned
  <2> QED
    BY <2>1 DEF Alone
<1>9. celltab[ncave] # <<>> => caveid[root] = ncave
  <2>1. ASSUME celltab[ncave] # <<>> PROVE caveid[root] = ncave
    <3> DEFINE c0 == celltab[ncave][1]
    <3>1. c0 \in Owned(ncave)
      <4>1. 1 \in 1 .. Len(celltab[ncave])
        BY <2>1, <1>5
      <4> QED
        BY <4>1, <1>5 DEF Listed, Of
    <3>2. Adjacent(c0, root)
      BY <2>1, <1>0 DEF Calling
    <3> HIDE DEF c0
    <3> QED
      BY <3>1, <3>2, <1>1, <1>4
  <2> QED
    BY <2>1
<1> QED
  BY <1>4, <1>5, <1>7, <1>8, <1>9

\* The scan goes on behind a search: who is judged by then, and what has been seen.
LEMMA PassedMore ==
    ASSUME MapTypes, Searched, count' = count + 1, closed' \subseteq closed,
           \A j \in 0 .. count - 1 : LET c == CellAt(j) IN
               c \in closed' /\ caveid'[c] = NoCave => caveid[c] = NoCave,
           CellAt(count) \in closed' /\ caveid'[CellAt(count)] = NoCave => Alone(CellAt(count))
    PROVE  \A j \in 0 .. count' - 1 :
               CellAt(j) \in closed' /\ caveid'[CellAt(j)] = NoCave => Alone(CellAt(j))'
<1>1. \A c : Alone(c) => \A d \in closed' : ~Adjacent(c, d)
  BY DEF Alone
<1>2. ASSUME NEW j \in 0 .. count' - 1, CellAt(j) \in closed', caveid'[CellAt(j)] = NoCave
      PROVE  Alone(CellAt(j))
  <2>1. j = count \/ j \in 0 .. count - 1
    BY DEF MapTypes
  <2>2. CASE j = count
    BY <2>2, <1>2
  <2>3. CASE j \in 0 .. count - 1
    BY <2>3, <1>2 DEF Searched
  <2> QED
    BY <2>1, <2>2, <2>3
<1> QED
  BY <1>1, <1>2 DEF Alone

\* A cell without neighbours makes no cave.
LEMMA DoFoundNone == ASSUME CavesInv, FoundNone PROVE CavesInv'
<1>0. /\ MapTypes /\ Calling /\ Searched /\ phase = "find" /\ Top.ndx = 4 /\ Len(frames) = 1
      /\ celltab[ncave] = <<>> /\ frames' = <<>> /\ phase' = "scan" /\ count' = count + 1 /\ room' = 0
      /\ UNCHANGED <<closed, caveid, ncave, celltab, cor>>
  BY DEF CavesInv, MapInv, FoundNone, mapvars, corvars
<1>1. Owned(ncave) = {} /\ Alone(CellAt(count))
  BY <1>0, SearchOver
<1>2. MapTypes'
  BY <1>0 DEF MapTypes
<1>3. Searched'
  <2>1. \A i \in 0 .. ncave' - 1 : Complete(i)'
    <3>1. \A i \in 0 .. ncave - 1 : i \in Nat /\ Complete(i)
      BY <1>0 DEF Searched, MapTypes
    <3> QED
      BY <1>0, <3>1, SameCaves
  <2>2. \A j \in 0 .. count' - 1 : CellAt(j) \in closed' /\ caveid'[CellAt(j)] = NoCave => Alone(CellAt(j))'
    BY <1>0, <1>1, PassedMore
  <2>3. ncave' <= count' /\ count' <= NCells
    BY <1>0, MapSize DEF Searched, Calling, MapTypes
  <2>4. \A c \in Cells : caveid'[c] # ncave'
    BY <1>0, <1>1 DEF Owned
  <2>5. \A c \in Cells : caveid'[c] # NoCave => c \in closed' /\ caveid'[c] \in 0 .. ncave'
    BY <1>0 DEF Searched
  <2> QED
    BY <2>1, <2>2, <2>3, <2>4, <2>5 DEF Searched
<1>4. MapInv'
  BY <1>0, <1>2, <1>3 DEF MapInv, Phases, TablesHold
<1>5. CorInv'
  BY <1>0, NoCorridor DEF CavesInv
<1> QED
  BY <1>4, <1>5 DEF CavesInv

\* A cave of the right size.
LEMMA DoFoundCave == ASSUME CavesInv, FoundCave PROVE CavesInv'
<1>0. /\ MapTypes /\ Calling /\ Searched /\ phase = "find" /\ Top.ndx = 4 /\ Len(frames) = 1
      /\ celltab[ncave] # <<>> /\ frames' = <<>> /\ phase' = "scan" /\ count' = count + 1 /\ room' = 0
      /\ RightSize(Len(celltab[ncave])) /\ ncave' = ncave + 1
      /\ UNCHANGED <<closed, caveid, celltab, cor>>
  BY DEF CavesInv, MapInv, FoundCave, corvars
<1>1. /\ \A c \in Owned(ncave), d \in closed : Adjacent(c, d) => caveid[d] = ncave
      /\ caveid[CellAt(count)] = ncave
  BY <1>0, SearchOver
<1>2. MapTypes'
  BY <1>0 DEF MapTypes
<1>3. Complete(ncave)
  BY <1>0, <1>1 DEF Complete, Calling
<1>4. Searched'
  <2>1. \A i \in 0 .. ncave' - 1 : Complete(i)'
    <3>1. \A i \in 0 .. ncave' - 1 : i \in Nat /\ (i = ncave \/ i \in 0 .. ncave - 1)
      BY <1>0 DEF MapTypes
    <3>2. \A i \in 0 .. ncave' - 1 : i \in Nat /\ Complete(i)
      BY <3>1, <1>0, <1>3 DEF Searched
    <3> QED
      BY <1>0, <3>2, SameCaves
  <2>2. \A j \in 0 .. count' - 1 : CellAt(j) \in closed' /\ caveid'[CellAt(j)] = NoCave => Alone(CellAt(j))'
    <3>1. ncave # NoCave
      BY <1>0 DEF MapTypes, NoCave
    <3> QED
      BY <3>1, <1>0, <1>1, PassedMore
  <2>3. ncave' <= count' /\ count' <= NCells
    BY <1>0, MapSize DEF Searched, Calling, MapTypes
  <2>4. \A c \in Cells : caveid'[c] # ncave'
    BY <1>0 DEF Searched, MapTypes, NoCave
  <2>5. \A c \in Cells : caveid'[c] # NoCave => c \in closed' /\ caveid'[c] \in 0 .. ncave'
    BY <1>0 DEF Searched, MapTypes
  <2> QED
    BY <2>1, <2>2, <2>3, <2>4, <2>5 DEF Searched
<1>5. MapInv'
  BY <1>0, <1>2, <1>4 DEF MapInv, Phases, TablesHold
<1>6. CorInv'
  BY <1>0, NoCorridor DEF CavesInv
<1> QED
  BY <1>5, <1>6 DEF CavesInv

\* A cave of the wrong size is opened again.
LEMMA DoRemoveCave == ASSUME CavesInv, RemoveCave PROVE CavesInv'
<1> DEFINE gone == {celltab[ncave][i] : i \in 1 .. Len(celltab[ncave])}
<1>0. /\ MapTypes /\ Calling /\ Searched /\ phase = "find" /\ Top.ndx = 4 /\ Len(frames) = 1
      /\ celltab[ncave] # <<>> /\ frames' = <<>> /\ count' = count + 1 /\ room' = 0
      /\ closed' = closed \ gone /\ caveid' = [c \in Cells |-> IF c \in gone THEN NoCave ELSE caveid[c]]
      /\ celltab' = [celltab EXCEPT ![ncave] = <<>>] /\ phase' \in {"wild", "scan"}
      /\ UNCHANGED <<ncave, cor>>
  BY DEF CavesInv, MapInv, RemoveCave, corvars
<1>1. caveid[CellAt(count)] = ncave /\ ncave \in 0 .. NCells /\ ncave \in Nat
  BY <1>0, SearchOver DEF MapTypes
<1>2. gone = Owned(ncave)
  BY <1>0 DEF Calling, Listed, Of
<1> HIDE DEF gone
<1>3. MapTypes'
  <2>1. celltab' \in [0 .. NCells -> Seq(Cells)]
    <3>1. <<>> \in Seq(Cells) /\ celltab \in [0 .. NCells -> Seq(Cells)]
      BY <1>0 DEF MapTypes
    <3> QED
      BY <3>1, <1>0
  <2>2. caveid' \in [Cells -> Int] /\ closed' \in SUBSET Cells
    BY <1>0 DEF MapTypes, NoCave
  <2> QED
    BY <2>1, <2>2, <1>0 DEF MapTypes
<1>4. /\ \A c \in Cells : caveid[c] = ncave => caveid'[c] = NoCave /\ c \notin closed'
      /\ \A c \in Cells : caveid[c] # ncave => caveid'[c] = caveid[c] /\ (c \in closed' <=> c \in closed)
      /\ closed' \subseteq closed
  BY <1>0, <1>2 DEF Owned
<1>5. \A i \in 0 .. ncave - 1 : Complete(i)'
  <2>1. ASSUME NEW i \in 0 .. ncave - 1 PROVE Complete(i)'
    <3>1. Complete(i) /\ i # ncave /\ i # NoCave /\ i \in 0 .. NCells
      BY <1>0, <1>1, MapSize DEF Searched, NoCave
    <3>2. celltab'[i] = celltab[i]
      BY <3>1, <1>0 DEF MapTypes
    <3>3. Owned(i)' = Owned(i)
      BY <3>1, <1>4 DEF Owned
    <3>4. \A c \in Owned(i), d \in closed' : Adjacent(c, d) => caveid'[d] = i
      BY <3>1, <1>0, <1>4 DEF Complete, MapTypes
    <3> QED
      BY <3>1, <3>2, <3>3, <3>4 DEF Complete, Listed
  <2> QED
    BY <2>1
<1>6. Searched'
  <2>1. CellAt(count) \in Cells
    BY <1>0, PlaceIsCell DEF MapTypes, Calling
  <2>2. \A j \in 0 .. count' - 1 : CellAt(j) \in closed' /\ caveid'[CellAt(j)] = NoCave => Alone(CellAt(j))'
    <3>1. \A c : c \in closed' /\ caveid'[c] = NoCave => caveid[c] = NoCave
      BY <1>0, <1>4 DEF MapTypes
    <3>2. CellAt(count) \notin closed'
      BY <2>1, <1>1, <1>4
    <3> QED
      BY <3>1, <3>2, <1>0, <1>4, PassedMore
  <2>3. ncave' <= count' /\ count' <= NCells
    BY <1>0, MapSize DEF Searched, Calling, MapTypes
  <2>4. \A c \in Cells : caveid'[c] # ncave'
    BY <1>0, <1>1, <1>4 DEF NoCave
  <2>5. \A c \in Cells : caveid'[c] # NoCave => c \in closed' /\ caveid'[c] \in 0 .. ncave'
    BY <1>0, <1>4 DEF Searched
  <2>6. \A i \in 0 .. ncave' - 1 : Complete(i)'
    BY <1>0, <1>5
  <2> QED
    BY <2>2, <2>3, <2>4, <2>5, <2>6 DEF Searched
<1>7. MapInv'
  BY <1>0, <1>3, <1>6 DEF MapInv, Phases, TablesHold
<1>8. CorInv'
  BY <1>0, NoCorridor DEF CavesInv
<1> QED
  BY <1>7, <1>8 DEF CavesInv

\* The search for caves is over: what a step of the corridors leaves as it was.
LEMMA SameMap ==
    ASSUME CavesInv, phase \in {"connect", "corridor", "joined"},
           phase' \in {"connect", "corridor", "joined"}, UNCHANGED <<count, mapvars, room, frames>>
    PROVE  MapInv'
<1>0. MapTypes /\ Searched /\ frames = <<>> /\ UNCHANGED <<count, closed, caveid, ncave, celltab, room, frames>>
  BY DEF CavesInv, MapInv, mapvars
<1>1. MapTypes'
  BY <1>0 DEF MapTypes
<1>2. Searched'
  <2>1. \A i \in 0 .. ncave' - 1 : Complete(i)'
    <3>1. \A i \in 0 .. ncave - 1 : i \in Nat /\ Complete(i)
      BY <1>0 DEF Searched, MapTypes
    <3> QED
      BY <1>0, <3>1, SameCaves
  <2>2. \A c : Alone(c)' = Alone(c)
    BY <1>0, SameCaves
  <2> QED
    BY <2>1, <2>2, <1>0 DEF Searched
<1> QED
  BY <1>0, <1>1, <1>2 DEF CavesInv, MapInv, Phases, TablesHold

LEMMA DoConnect == ASSUME CavesInv, Connect PROVE CavesInv'
<1>0. /\ MapTypes /\ Searched /\ phase = "scan" /\ frames = <<>> /\ count = NCells
      /\ phase' = (IF ncave = 0 THEN "done" ELSE "connect")
      /\ UNCHANGED <<count, closed, caveid, ncave, celltab, room, frames, cor>>
  BY DEF CavesInv, MapInv, Connect, mapvars, corvars
<1>1. MapTypes'
  BY <1>0 DEF MapTypes
<1>2. Searched'
  <2>1. \A i \in 0 .. ncave' - 1 : Complete(i)'
    <3>1. \A i \in 0 .. ncave - 1 : i \in Nat /\ Complete(i)
      BY <1>0 DEF Searched, MapTypes
    <3> QED
      BY <1>0, <3>1, SameCaves
  <2>2. \A c : Alone(c)' = Alone(c)
    BY <1>0, SameCaves
  <2> QED
    BY <2>1, <2>2, <1>0 DEF Searched
<1>3. phase' \in {"connect", "done"} /\ (phase' = "connect" => ncave' > 0)
  BY <1>0 DEF MapTypes
<1>4. MapInv'
  BY <1>0, <1>1, <1>2, <1>3 DEF MapInv, Phases, TablesHold
<1>5. CorInv'
  BY <1>0, <1>3, NoCorridor DEF CavesInv
<1> QED
  BY <1>4, <1>5 DEF CavesInv

\* The first cave, and who has a number.
LEMMA FirstCave ==
    ASSUME CavesInv, phase \in {"connect", "corridor", "joined"}
    PROVE  /\ 0 \in 0 .. ncave - 1 /\ celltab[0] \in Seq(Cells)
           /\ CaveCells(0) = Owned(0) /\ CaveCells(0) \in SUBSET closed /\ closed \subseteq Cells
           /\ \A c \in CaveCells(0), d \in closed : Adjacent(c, d) => d \in CaveCells(0)
           /\ \A c \in Cells : caveid[c] # NoCave => c \in closed /\ caveid[c] \in 0 .. ncave - 1
<1>0. MapTypes /\ Searched /\ ncave > 0 /\ phase # "find"
  BY DEF CavesInv, MapInv
<1>1. 0 \in 0 .. ncave - 1 /\ 0 \in 0 .. ncave
  BY <1>0 DEF MapTypes
<1>2. Complete(0)
  BY <1>0, <1>1 DEF Searched
<1>3. CaveCells(0) = Owned(0)
  BY <1>2 DEF Complete, Listed, CaveCells, Of
<1>4. \A c \in Cells : caveid[c] # NoCave => c \in closed /\ caveid[c] \in 0 .. ncave - 1
  BY <1>0 DEF Searched, MapTypes
<1>5. Owned(0) \in SUBSET closed
  BY <1>4 DEF Owned, NoCave
<1>6. \A c \in Owned(0), d \in closed : Adjacent(c, d) => d \in Owned(0)
  BY <1>0, <1>2 DEF Complete, Owned, MapTypes
<1>7. celltab[0] \in Seq(Cells)
  BY <1>0, <1>1, CaveHasTable
<1> QED
  BY <1>0, <1>1, <1>3, <1>4, <1>5, <1>6, <1>7 DEF MapTypes

LEMMA DoFindEdge == ASSUME CavesInv, FindEdge PROVE CavesInv'
<1>0. phase = "connect" /\ UNCHANGED <<count, mapvars, room, frames, cormap>> /\ UNCHANGED <<closed, caveid, ncave, celltab>>
  BY DEF FindEdge, mapvars
<1>1. PICK i \in 1 .. Len(celltab[0]), d \in Dirs :
          /\ dir' = d
          /\ LET e == Edge(celltab[0][i], d)
             IN  \/ e = NoCell /\ UNCHANGED <<phase, cor, dir1, len, nturn>>
                 \/ e # NoCell /\ StartCorridor(e, d)
  BY DEF FindEdge
<1> DEFINE c == celltab[0][i]
           e == Edge(c, d)
           S == CaveCells(0)
<1>2. c \in S
  BY DEF CaveCells
<1>3. CASE e = NoCell
  <2>1. phase' = "connect" /\ cor' = cor
    BY <1>0, <1>1, <1>3
  <2>2. MapInv'
    BY <1>0, <2>1, SameMap
  <2>3. CorInv'
    BY <2>1, NoCorridor DEF CavesInv
  <2> QED
    BY <2>2, <2>3 DEF CavesInv
<1>4. CASE e # NoCell
  <2>1. phase' = "corridor" /\ cor' = <<e>>
    BY <1>0, <1>1, <1>4 DEF StartCorridor
  <2>2. MapInv'
    BY <1>0, <2>1, SameMap
  <2>3. e \in Cells /\ e \notin closed /\ \E x \in S : Adjacent(x, e)
    <3>1. /\ closed \subseteq Cells /\ S \in SUBSET closed
          /\ \A x \in S, y \in closed : Adjacent(x, y) => y \in S
      BY <1>0, FirstCave
    <3> HIDE DEF S, c
    <3> QED
      BY <1>2, <1>4, <3>1, EdgeBeside
  <2>4. caveid[e] = NoCave
    BY <2>3, <1>0, FirstCave
  <2> HIDE DEF e
  <2>5. Len(cor') = 1 /\ cor'[1] = e /\ cor' \in Seq(Cells) /\ cor' # <<>>
    BY <2>1, <2>3
  <2>6. CaveCells(0)' = S
    BY <1>0 DEF CaveCells
  <2>7. CorridorJoins'
    <3>1. \E x \in CaveCells(0)' : Adjacent(x, cor'[1])
      BY <2>3, <2>5, <2>6
    <3>2. 1 .. Len(cor') - 1 = {} /\ \A j \in 1 .. Len(cor') : caveid'[cor'[j]] = NoCave
      BY <1>0, <2>4, <2>5
    <3> HIDE DEF S
    <3> QED
      BY <3>1, <3>2, <2>1 DEF CorridorJoins
  <2>8. CorInv'
    BY <2>1, <2>5, <2>7, <1>1 DEF CorInv
  <2> QED
    BY <2>2, <2>8 DEF CavesInv
<1> QED
  BY <1>3, <1>4

\* One cell more in a corridor, beside the last.
LEMMA Longer ==
    ASSUME CavesInv, phase = "corridor", Ahead \in Cells, cor' = Append(cor, Ahead),
           phase' \in {"corridor", "joined"}, UNCHANGED <<caveid, celltab, ncave>>,
           phase' = "corridor" => caveid[Ahead] = NoCave /\ dir' = dir,
           phase' = "joined" => Len(cor) > 1 /\ caveid[Ahead] \in 1 .. ncave - 1
    PROVE  CorInv'
<1> DEFINE n == Len(cor)
<1>0. cor \in Seq(Cells) /\ n \in Nat \ {0} /\ dir \in Dirs
  BY DEF CavesInv, CorInv
<1>1. /\ \E c \in CaveCells(0) : Adjacent(c, cor[1])
      /\ \A i \in 1 .. n - 1 : Adjacent(cor[i], cor[i + 1])
      /\ \A i \in 1 .. n : caveid[cor[i]] = NoCave
  BY DEF CavesInv, CorInv, CorridorJoins
<1>2. /\ cor' \in Seq(Cells) /\ Len(cor') = n + 1 /\ cor'[n + 1] = Ahead
      /\ \A i \in 1 .. n : cor'[i] = cor[i]
  BY <1>0
<1>3. Adjacent(cor[n], Ahead)
  BY <1>0 DEF Adjacent, Ahead, Last
<1> HIDE DEF n
<1>4. \A i \in 1 .. n : i = n \/ (i \in 1 .. n - 1 /\ i + 1 \in 1 .. n)
  BY <1>0
<1>5. ASSUME NEW i \in 1 .. n PROVE Adjacent(cor'[i], cor'[i + 1])
  <2>1. CASE i = n
    BY <2>1, <1>2, <1>3
  <2>2. CASE i \in 1 .. n - 1 /\ i + 1 \in 1 .. n
    BY <2>2, <1>1, <1>2
  <2> QED
    BY <1>4, <2>1, <2>2
<1>6. CaveCells(0)' = CaveCells(0) /\ cor'[1] = cor[1]
  BY <1>0, <1>2 DEF CaveCells
<1>7. \A i \in 1 .. n + 1 : i = n + 1 \/ i \in 1 .. n
  BY <1>0
<1>8. CorridorJoins'
  <2>1. \E c \in CaveCells(0)' : Adjacent(c, cor'[1])
    BY <1>1, <1>6
  <2>2. \A i \in 1 .. n + 1 - 1 : Adjacent(cor'[i], cor'[i + 1])
    <3>1. n + 1 - 1 = n
      BY <1>0
    <3> QED
      BY <3>1, <1>5
  <2>3. phase' = "joined" => n + 1 > 2 /\ caveid'[cor'[n + 1]] \in 1 .. ncave' - 1
    BY <1>0, <1>2 DEF n
  <2>4. \A i \in 1 .. n : caveid'[cor'[i]] = NoCave
    BY <1>1, <1>2
  <2>5. phase' = "corridor" => \A i \in 1 .. n + 1 : caveid'[cor'[i]] = NoCave
    BY <1>2, <1>7, <2>4
  <2>6. phase' = "joined" => \A i \in 1 .. n + 1 - 1 : caveid'[cor'[i]] = NoCave
    <3>1. n + 1 - 1 = n
      BY <1>0
    <3> QED
      BY <3>1, <2>4
  <2>7. Len(cor') = n + 1 /\ cor' # <<>>
    BY <1>0, <1>2
  <2>8. CASE phase' = "corridor"
    <3>0. Len(cor') - 1 = n + 1 - 1
      BY <2>7, <1>0
    <3>1. \A i \in 1 .. Len(cor') - 1 : Adjacent(cor'[i], cor'[i + 1])
      BY <2>2, <3>0, Zenon
    <3>2. \A i \in 1 .. Len(cor') : caveid'[cor'[i]] = NoCave
      BY <2>5, <2>7, <2>8
    <3> QED
      BY <3>1, <3>2, <2>1, <2>8 DEF CorridorJoins
  <2>9. CASE phase' = "joined"
    <3>0. Len(cor') - 1 = n + 1 - 1
      BY <2>7, <1>0
    <3>1. \A i \in 1 .. Len(cor') - 1 : Adjacent(cor'[i], cor'[i + 1]) /\ caveid'[cor'[i]] = NoCave
      BY <2>2, <2>6, <3>0, <2>9, Zenon
    <3>2. Len(cor') > 2 /\ caveid'[cor'[Len(cor')]] \in 1 .. ncave' - 1
      BY <2>3, <2>7, <2>9
    <3> QED
      BY <3>1, <3>2, <2>1, <2>9 DEF CorridorJoins
  <2> QED
    BY <2>8, <2>9
<1> QED
  BY <1>0, <1>2, <1>8 DEF CorInv

LEMMA DoCorJoin == ASSUME CavesInv, CorJoin PROVE CavesInv'
<1>0. /\ phase = "corridor" /\ Ahead \in Cells /\ caveid[Ahead] \notin {NoCave, 0} /\ Len(cor) > 1
      /\ cor' = Append(cor, Ahead) /\ phase' = "joined"
      /\ UNCHANGED <<count, mapvars, room, frames>> /\ UNCHANGED <<caveid, celltab, ncave>>
  BY DEF CorJoin, InCorridor, mapvars
<1>1. MapInv'
  BY <1>0, SameMap
<1>2. caveid[Ahead] \in 1 .. ncave - 1
  <2>1. caveid[Ahead] \in 0 .. ncave - 1 /\ ncave \in Nat
    BY <1>0, FirstCave DEF CavesInv, MapInv, MapTypes
  <2> QED
    BY <2>1, <1>0
<1>3. CorInv'
  BY <1>0, <1>2, Longer
<1> QED
  BY <1>1, <1>3 DEF CavesInv

LEMMA DoCorAdvance == ASSUME CavesInv, CorAdvance PROVE CavesInv'
<1>0. /\ phase = "corridor" /\ Ahead \in Cells /\ caveid[Ahead] = NoCave
      /\ cor' = Append(cor, Ahead) /\ phase' = "corridor" /\ dir' = dir
      /\ UNCHANGED <<count, mapvars, room, frames>> /\ UNCHANGED <<caveid, celltab, ncave>>
  BY DEF CorAdvance, InCorridor, mapvars
<1>1. MapInv'
  BY <1>0, SameMap
<1>2. CorInv'
  BY <1>0, Longer
<1> QED
  BY <1>1, <1>2 DEF CavesInv

LEMMA DoGiveUp == ASSUME CavesInv, phase = "corridor", GiveUp PROVE CavesInv'
<1>0. phase' = "connect" /\ cor' = <<>> /\ UNCHANGED <<count, mapvars, room, frames>>
  BY DEF GiveUp
<1>1. MapInv'
  BY <1>0, SameMap
<1>2. CorInv'
  BY <1>0 DEF CorInv, CorridorJoins
<1> QED
  BY <1>1, <1>2 DEF CavesInv

LEMMA DoCorTurn == ASSUME CavesInv, CorTurn PROVE CavesInv'
<1>0. /\ phase = "corridor" /\ phase' = "corridor" /\ cor' = cor /\ (dir' = dir \/ dir' \in Dirs)
      /\ UNCHANGED <<count, mapvars, room, frames>> /\ UNCHANGED <<caveid, celltab, ncave>>
  BY DEF CorTurn, mapvars
<1>1. MapInv'
  BY <1>0, SameMap
<1>2. CaveCells(0)' = CaveCells(0)
  BY <1>0 DEF CaveCells
<1>3. CorInv'
  BY <1>0, <1>2 DEF CavesInv, CorInv, CorridorJoins
<1> QED
  BY <1>1, <1>3 DEF CavesInv

LEMMA DoDrawCorridor == ASSUME CavesInv, DrawCorridor PROVE CavesInv'
<1>0. /\ MapTypes /\ frames = <<>> /\ phase' = "wild"
      /\ UNCHANGED <<count, closed, caveid, ncave, celltab, room, frames, cor>>
  BY DEF CavesInv, MapInv, DrawCorridor, mapvars
<1>1. MapTypes'
  BY <1>0 DEF MapTypes
<1>2. MapInv'
  BY <1>0, <1>1 DEF MapInv, Phases, TablesHold
<1>3. CorInv'
  BY <1>0, NoCorridor DEF CavesInv
<1> QED
  BY <1>2, <1>3 DEF CavesInv

LEMMA CavesStep == ASSUME CavesInv, [CavesNext]_cavevars PROVE CavesInv'
<1>1. CASE UNCHANGED cavevars
  <2>1. UNCHANGED <<phase, count, closed, caveid, ncave, celltab, room, frames, cor, dir>>
    BY <1>1 DEF cavevars
  <2>2. MapTypes = MapTypes' /\ TablesHold' = TablesHold /\ Room' = Room
    BY <2>1 DEF MapTypes, TablesHold, Room
  <2>3. Searched' = Searched
    BY <2>1 DEF Searched, Complete, Listed, Owned, Alone
  <2>4. Calling' = Calling
    BY <2>1 DEF Calling, Listed, Owned, NoFresh, Fresh
  <2>5. MapInv' = MapInv
    BY <2>1, <2>2, <2>3, <2>4 DEF MapInv
  <2>6. CorInv' = CorInv
    BY <2>1 DEF CorInv, CorridorJoins, CaveCells
  <2> QED
    BY <2>5, <2>6 DEF CavesInv
<1>2. CASE Automaton \/ Smooth \/ ScanFind \/ ScanSkip
  BY <1>2, DoAutomaton, DoSmooth, DoScanFind, DoScanSkip
<1>3. CASE FindEnter \/ FindPass \/ FindReturn
  BY <1>3, DoFindEnter, DoFindPass, DoFindReturn
<1>4. CASE FoundNone \/ FoundCave \/ RemoveCave \/ Connect
  BY <1>4, DoFoundNone, DoFoundCave, DoRemoveCave, DoConnect
<1>5. CASE FindEdge \/ CorJoin \/ CorAdvance \/ CorTurn \/ DrawCorridor
  BY <1>5, DoFindEdge, DoCorJoin, DoCorAdvance, DoCorTurn, DoDrawCorridor
<1>6. CASE CorFail \/ CorOver
  BY <1>6, DoGiveUp DEF CorFail, CorOver, InCorridor
<1> QED
  BY <1>1, <1>2, <1>3, <1>4, <1>5, <1>6 DEF CavesNext

\* When the search is over every cave is a region of closed cells, and whom no cave
\* has stands alone.
LEMMA SearchIsSound == ASSUME CavesInv PROVE CavesSound
<1> SUFFICES ASSUME phase \in {"connect", "corridor", "joined", "done"} PROVE CavesSound
  BY DEF CavesSound
<1>0. MapTypes /\ Searched /\ count = NCells /\ phase # "find" /\ closed \subseteq Cells
  BY DEF CavesInv, MapInv, MapTypes
<1>1. ASSUME NEW i \in 0 .. ncave - 1
      PROVE  /\ RightSize(Len(celltab[i]))
             /\ \A j, k \in 1 .. Len(celltab[i]) : celltab[i][j] = celltab[i][k] => j = k
             /\ \A c \in CaveCells(i) : Component(c) = CaveCells(i)
             /\ CaveCells(i) = {c \in Cells : caveid[c] = i}
  <2>1. Complete(i) /\ i # NoCave
    BY <1>0 DEF Searched, NoCave, MapTypes
  <2>2. CaveCells(i) = Owned(i)
    BY <2>1 DEF Complete, Listed, CaveCells, Of
  <2>3. Owned(i) \in SUBSET closed
    BY <1>0, <2>1 DEF Owned, Searched
  <2>4. \A c \in Owned(i), d \in closed : Adjacent(c, d) => d \in Owned(i)
    BY <1>0, <2>1 DEF Complete, Owned
  <2>5. \A c \in Owned(i) : Component(c) = Owned(i)
    BY <1>0, <2>1, <2>3, <2>4, ComponentIs DEF Complete, Listed
  <2> QED
    BY <2>1, <2>2, <2>5 DEF Complete, Listed, Once, Owned
<1>2. \A c \in Cells : caveid[c] # NoCave => caveid[c] < ncave
  BY <1>0 DEF Searched, MapTypes
<1>3. ASSUME NEW c \in closed, caveid[c] = NoCave PROVE Component(c) = {c}
  <2>1. Alone(c)
    <3>1. PICK j \in 0 .. NCells - 1 : CellAt(j) = c
      BY <1>0, CellHasPlace
    <3> QED
      BY <3>1, <1>0, <1>3 DEF Searched
  <2>2. HangsTogether({c})
    BY DEF HangsTogether
  <2>3. {c} \in SUBSET closed /\ c \in {c} /\ \A e \in {c}, d \in closed : Adjacent(e, d) => d \in {c}
    BY <2>1 DEF Alone
  <2> QED
    BY <1>0, <2>2, <2>3, ComponentIs
<1> QED
  BY <1>1, <1>2, <1>3 DEF CavesSound

\* Caves are the connected regions of the right size, each listed once and complete;
\* tables are written within their size while a cave is not larger than twice its
\* first; and a corridor leads from the first cave through free cells to another
\* (dngbuildcaves, dngfindcave, dngrmcave, dngtrycor).
THEOREM CavesRight == CavesSpec => []DungeonSound
<1>1. CavesInit => CavesInv
  BY CavesStart
<1>2. CavesInv /\ [CavesNext]_cavevars => CavesInv'
  BY CavesStep
<1>3. CavesInv => DungeonSound
  BY SearchIsSound DEF DungeonSound, CavesInv, MapInv, CorInv
<1> QED
  BY <1>1, <1>2, <1>3, PTL DEF CavesSpec
---------------------------------------------------------------------------
(* Blocks and strings.                                                     *)

Mem == [Addresses -> Int]

\* A copy of k + u bytes is one of k and then one of u, read from what the first left.
LEMMA CopiedUp ==
    ASSUME NEW m \in Mem, NEW d \in Nat, NEW s \in Nat, NEW k \in Nat, NEW u \in Nat,
           d <= s \/ s + k + u <= d, s + k + u <= MemSize
    PROVE  /\ Copied(m, d, s, k) \in Mem
           /\ Copied(Copied(m, d, s, k), d + k, s + k, u) = Copied(m, d, s, k + u)
<1> DEFINE c == Copied(m, d, s, k)
<1>0. MemSize \in Nat
  BY StringsAssumption
<1>1. \A a \in Addresses : c[a] = IF a \in d .. d + k - 1 THEN m[a - d + s] ELSE m[a]
  BY DEF Copied
<1>2. ASSUME NEW a \in Addresses, a \in d .. d + k - 1 PROVE a - d + s \in Addresses
  BY <1>0, <1>2 DEF Addresses
<1>3. c \in Mem
  <2>1. \A a \in Addresses : c[a] \in Int
    BY <1>1, <1>2 DEF Mem
  <2>2. c = [a \in Addresses |-> c[a]]
    BY DEF Copied
  <2> QED
    BY <2>1, <2>2 DEF Mem
<1>4. ASSUME NEW a \in Addresses
      PROVE  (IF a \in d .. d + (k + u) - 1 THEN m[a - d + s] ELSE m[a])
                = (IF a \in d + k .. d + k + u - 1 THEN c[a - (d + k) + (s + k)] ELSE c[a])
  <2>1. CASE a \in d + k .. d + k + u - 1
    <3>1. /\ a - d + s \in Addresses /\ a - d + s \notin d .. d + k - 1 /\ a \in d .. d + (k + u) - 1
          /\ a - (d + k) + (s + k) = a - d + s
      BY <1>0, <2>1 DEF Addresses
    <3> HIDE DEF c
    <3> QED
      BY <3>1, <2>1, <1>1
  <2>2. CASE a \notin d + k .. d + k + u - 1
    <3>1. a \in d .. d + (k + u) - 1 <=> a \in d .. d + k - 1
      BY <2>2, <1>0 DEF Addresses
    <3> HIDE DEF c
    <3> QED
      BY <3>1, <2>2, <1>1
  <2> QED
    BY <2>1, <2>2
<1> QED
  BY <1>3, <1>4 DEF Copied

\* The same from the end.
LEMMA CopiedDown ==
    ASSUME NEW m \in Mem, NEW d \in Nat, NEW s \in Nat, NEW k \in Nat, NEW u \in Nat,
           s <= d \/ d + k + u <= s, s + k + u <= MemSize
    PROVE  /\ Copied(m, d + u, s + u, k) \in Mem
           /\ Copied(Copied(m, d + u, s + u, k), d, s, u) = Copied(m, d, s, k + u)
<1> DEFINE c == Copied(m, d + u, s + u, k)
<1>0. MemSize \in Nat
  BY StringsAssumption
<1>1. \A a \in Addresses : c[a] = IF a \in d + u .. d + u + k - 1 THEN m[a - (d + u) + (s + u)] ELSE m[a]
  BY DEF Copied
<1>2. ASSUME NEW a \in Addresses, a \in d + u .. d + u + k - 1
      PROVE a - (d + u) + (s + u) = a - d + s /\ a - d + s \in Addresses
  BY <1>0, <1>2 DEF Addresses
<1>3. c \in Mem
  <2>1. \A a \in Addresses : c[a] \in Int
    BY <1>1, <1>2 DEF Mem
  <2>2. c = [a \in Addresses |-> c[a]]
    BY DEF Copied
  <2> QED
    BY <2>1, <2>2 DEF Mem
<1>4. ASSUME NEW a \in Addresses
      PROVE  (IF a \in d .. d + (k + u) - 1 THEN m[a - d + s] ELSE m[a])
                = (IF a \in d .. d + u - 1 THEN c[a - d + s] ELSE c[a])
  <2>1. CASE a \in d .. d + u - 1
    <3>1. a - d + s \in Addresses /\ a - d + s \notin d + u .. d + u + k - 1 /\ a \in d .. d + (k + u) - 1
      BY <1>0, <2>1 DEF Addresses
    <3> HIDE DEF c
    <3> QED
      BY <3>1, <2>1, <1>1
  <2>2. CASE a \notin d .. d + u - 1
    <3>1. a \in d .. d + (k + u) - 1 <=> a \in d + u .. d + u + k - 1
      BY <2>2, <1>0 DEF Addresses
    <3> HIDE DEF c
    <3> QED
      BY <3>1, <2>2, <1>1, <1>2
  <2> QED
    BY <2>1, <2>2
<1> QED
  BY <1>3, <1>4 DEF Copied

LEMMA CopiedNone == ASSUME NEW m \in Mem, NEW d \in Nat, NEW s \in Nat PROVE Copied(m, d, s, 0) = m
<1>1. d .. d + 0 - 1 = {}
  OBVIOUS
<1>2. \A a \in Addresses : Copied(m, d, s, 0)[a] = m[a]
  BY <1>1 DEF Copied
<1> QED
  BY <1>1 DEF Copied, Mem

\* Multiples of the width of a unit.
LEMMA Units ==
    ASSUME NEW n \in Nat, NEW i \in 1 .. n, NEW u \in Nat
    PROVE  /\ n * u \in Nat /\ i * u \in Nat /\ (i - 1) * u \in Nat
           /\ i * u = (i - 1) * u + u /\ i * u <= n * u /\ 0 * u = 0 /\ 1 * n = n /\ n * 1 = n
<1>1. i - 1 \in Nat /\ (i - 1) + 1 = i /\ i <= n /\ i \in Nat
  OBVIOUS
<1>2. n * u \in Nat /\ i * u \in Nat /\ (i - 1) * u \in Nat /\ i * u <= n * u
  BY <1>1, Times
<1>3. ((i - 1) + 1) * u = (i - 1) * u + u
  BY <1>1, Times
<1> QED
  BY <1>1, <1>2, <1>3

\* Units copied upwards are the block, if what is read is not yet written.
LEMMA CopyUpIs ==
    ASSUME NEW m \in Mem, NEW d \in Nat, NEW s \in Nat, NEW n \in Nat, NEW u \in Nat,
           d <= s \/ s + n * u <= d, s + n * u <= MemSize
    PROVE  CopyUp(m, d, s, n, u) = Copied(m, d, s, n * u)
<1> DEFINE Turn(i, c) == [a \in Addresses |-> IF a \in d + (i - 1) * u .. d + i * u - 1
                                              THEN c[a - d + s] ELSE c[a]]
           Body(f) == [i \in 0 .. n |-> IF i = 0 THEN m ELSE Turn(i, f[i - 1])]
           f == [i \in 0 .. n |-> Copied(m, d, s, i * u)]
           g == CHOOSE h : h = Body(h)
<1>0. MemSize \in Nat
  BY StringsAssumption
<1>1. f[0] = m
  <2>1. f[0] = Copied(m, d, s, 0 * u) /\ 0 * u = 0
    OBVIOUS
  <2> QED
    BY <2>1, CopiedNone
<1>2. ASSUME NEW i \in 1 .. n PROVE f[i] = Turn(i, f[i - 1])
  <2> DEFINE k == (i - 1) * u
  <2>1. k \in Nat /\ i * u = k + u /\ k + u <= n * u /\ n * u \in Nat
    BY Units
  <2>2. f[i] = Copied(m, d, s, k + u) /\ f[i - 1] = Copied(m, d, s, k)
    BY <2>1
  <2>3. Turn(i, f[i - 1]) = [a \in Addresses |-> IF a \in d + k .. d + (k + u) - 1
                                              THEN Copied(m, d, s, k)[a - d + s] ELSE Copied(m, d, s, k)[a]]
    BY <2>1, <2>2
  <2> HIDE DEF k, f, Turn
  <2>4. d <= s \/ s + k + u <= d
    BY <2>1
  <2>5. s + k + u <= MemSize
    BY <2>1, <1>0
  <2>6. d + (k + u) - 1 = d + k + u - 1
    BY <2>1
  <2>7. Copied(Copied(m, d, s, k), d + k, s + k, u) = Copied(m, d, s, k + u)
    BY <2>1, <2>4, <2>5, CopiedUp
  <2>8. \A a \in Addresses : a - (d + k) + (s + k) = a - d + s
    BY <2>1, <1>0 DEF Addresses
  <2>9. Turn(i, f[i - 1]) = Copied(Copied(m, d, s, k), d + k, s + k, u)
    BY <2>3, <2>6, <2>8 DEF Copied
  <2> QED
    BY <2>2, <2>7, <2>9
<1>3. f = Body(f)
  <2>1. ASSUME NEW i \in 0 .. n PROVE f[i] = IF i = 0 THEN m ELSE Turn(i, f[i - 1])
    <3>1. i = 0 \/ i \in 1 .. n
      OBVIOUS
    <3> HIDE DEF f, Turn
    <3> QED
      BY <3>1, <1>1, <1>2
  <2>2. f = [i \in 0 .. n |-> f[i]]
    OBVIOUS
  <2> HIDE DEF f, Turn
  <2> QED
    BY <2>1, <2>2
<1> HIDE DEF f
<1>4. g = Body(g)
  <2> HIDE DEF Body
  <2> QED
    BY <1>3
<1>5. g[0] = m /\ \A i \in 1 .. n : g[i] = Turn(i, g[i - 1])
  <2>1. \A i \in 0 .. n : g[i] = IF i = 0 THEN m ELSE Turn(i, g[i - 1])
    <3> HIDE DEF Turn, g
    <3> QED
      BY <1>4
  <2>2. 0 \in 0 .. n /\ \A i \in 1 .. n : i \in 0 .. n /\ i # 0
    OBVIOUS
  <2> HIDE DEF Turn, g
  <2> QED
    BY <2>1, <2>2
<1>6. g[n] = f[n]
  <2> DEFINE S == {i \in 0 .. n : f[i] = g[i]}
  <2> HIDE DEF Turn, g, Body
  <2>1. 0 \in S
    BY <1>1, <1>5
  <2>2. ASSUME NEW i \in 1 .. n, i - 1 \in S PROVE i \in S
    <3>1. f[i - 1] = g[i - 1] /\ i \in 0 .. n
      BY <2>2
    <3> QED
      BY <3>1, <1>2, <1>5
  <2> HIDE DEF S
  <2>3. n \in S
    BY <2>1, <2>2, Reaches
  <2> QED
    BY <2>3 DEF S
<1>7. CopyUp(m, d, s, n, u) = g[n]
  BY DEF CopyUp
<1> QED
  BY <1>6, <1>7 DEF f

\* Units copied downwards, likewise; d and s are the ends.
LEMMA CopyDownIs ==
    ASSUME NEW m \in Mem, NEW d \in Nat, NEW s \in Nat, NEW n \in Nat, NEW u \in Nat,
           n * u <= d, n * u <= s, s <= d \/ d <= s - n * u, s <= MemSize
    PROVE  CopyDown(m, d, s, n, u) = Copied(m, d - n * u, s - n * u, n * u)
<1> DEFINE Turn(i, c) == [a \in Addresses |-> IF a \in d - i * u .. d - (i - 1) * u - 1
                                              THEN c[a - d + s] ELSE c[a]]
           Body(f) == [i \in 0 .. n |-> IF i = 0 THEN m ELSE Turn(i, f[i - 1])]
           f == [i \in 0 .. n |-> Copied(m, d - i * u, s - i * u, i * u)]
           g == CHOOSE h : h = Body(h)
<1>0. MemSize \in Nat
  BY StringsAssumption
<1>1. f[0] = m
  <2>1. f[0] = Copied(m, d - 0 * u, s - 0 * u, 0 * u) /\ 0 * u = 0 /\ d - 0 = d /\ s - 0 = s
    OBVIOUS
  <2> HIDE DEF f
  <2> QED
    BY <2>1, CopiedNone
<1>2. ASSUME NEW i \in 1 .. n PROVE f[i] = Turn(i, f[i - 1])
  <2> DEFINE k == (i - 1) * u
             d1 == d - (k + u)
             s1 == s - (k + u)
  <2>1. k \in Nat /\ i * u = k + u /\ k + u <= n * u /\ n * u \in Nat
    BY Units
  <2>2. f[i] = Copied(m, d1, s1, k + u) /\ f[i - 1] = Copied(m, d - k, s - k, k)
    BY <2>1
  <2>3. Turn(i, f[i - 1]) = [a \in Addresses |-> IF a \in d - (k + u) .. d - k - 1
                                              THEN Copied(m, d - k, s - k, k)[a - d + s]
                                              ELSE Copied(m, d - k, s - k, k)[a]]
    BY <2>1, <2>2
  <2> HIDE DEF k, f, Turn
  <2>4. d1 \in Nat /\ s1 \in Nat /\ d1 + u = d - k /\ s1 + u = s - k /\ s1 + k + u <= MemSize
    BY <2>1, <1>0
  <2>5. s1 <= d1 \/ d1 + k + u <= s1
    BY <2>1
  <2>6. d1 + u - 1 = d - k - 1 /\ \A a \in Addresses : a - d1 + s1 = a - d + s
    BY <2>1, <1>0 DEF Addresses
  <2> HIDE DEF d1, s1
  <2>7. Copied(Copied(m, d1 + u, s1 + u, k), d1, s1, u) = Copied(m, d1, s1, k + u)
    BY <2>1, <2>4, <2>5, CopiedDown
  <2>8. d1 = d - (k + u)
    BY DEF d1
  <2>9. Turn(i, f[i - 1]) = Copied(Copied(m, d - k, s - k, k), d1, s1, u)
    BY <2>3, <2>6, <2>8 DEF Copied
  <2> QED
    BY <2>2, <2>4, <2>7, <2>9
<1>3. f = Body(f)
  <2>1. ASSUME NEW i \in 0 .. n PROVE f[i] = IF i = 0 THEN m ELSE Turn(i, f[i - 1])
    <3>1. i = 0 \/ i \in 1 .. n
      OBVIOUS
    <3> HIDE DEF f, Turn
    <3> QED
      BY <3>1, <1>1, <1>2
  <2>2. f = [i \in 0 .. n |-> f[i]]
    OBVIOUS
  <2> HIDE DEF f, Turn
  <2> QED
    BY <2>1, <2>2
<1> HIDE DEF f
<1>4. g = Body(g)
  <2> HIDE DEF Body
  <2> QED
    BY <1>3
<1>5. g[0] = m /\ \A i \in 1 .. n : g[i] = Turn(i, g[i - 1])
  <2>1. \A i \in 0 .. n : g[i] = IF i = 0 THEN m ELSE Turn(i, g[i - 1])
    <3> HIDE DEF Turn, g
    <3> QED
      BY <1>4
  <2>2. 0 \in 0 .. n /\ \A i \in 1 .. n : i \in 0 .. n /\ i # 0
    OBVIOUS
  <2> HIDE DEF Turn, g
  <2> QED
    BY <2>1, <2>2
<1>6. g[n] = f[n]
  <2> DEFINE S == {i \in 0 .. n : f[i] = g[i]}
  <2> HIDE DEF Turn, g, Body
  <2>1. 0 \in S
    BY <1>1, <1>5
  <2>2. ASSUME NEW i \in 1 .. n, i - 1 \in S PROVE i \in S
    <3>1. f[i - 1] = g[i - 1] /\ i \in 0 .. n
      BY <2>2
    <3> QED
      BY <3>1, <1>2, <1>5
  <2> HIDE DEF S
  <2>3. n \in S
    BY <2>1, <2>2, Reaches
  <2> QED
    BY <2>3 DEF S
<1>7. CopyDown(m, d, s, n, u) = g[n]
  BY DEF CopyDown
<1> QED
  BY <1>6, <1>7 DEF f

LEMMA LongIs == Long \in Nat /\ Long >= 2 /\ Block \in Nat /\ Block = 8 * Long
BY StringsAssumption DEF Block

\* The bytes up to a boundary, and how many words fit behind them.
LEMMA LeadIs == ASSUME NEW p \in Nat PROVE Lead(p) \in 0 .. Long - 1 /\ (p + Lead(p)) % Long = 0
<1> DEFINE r == p % Long
           q == p \div Long
<1>1. Long \in Nat \ {0}
  BY LongIs
<1>2. r \in 0 .. Long - 1 /\ q \in Nat /\ p = q * Long + r
  BY <1>1, SMT
<1> HIDE DEF r, q
<1>3. CASE r = 0
  <2>1. Lead(p) = Long % Long
    BY <1>1, <1>3 DEF Lead, r
  <2>2. Long % Long = 0
    BY <1>1, SMT
  <2>3. p + 0 = p /\ p % Long = 0
    BY <1>3 DEF r
  <2> QED
    BY <1>1, <2>1, <2>2, <2>3
<1>4. CASE r # 0
  <2>1. Long - r \in 0 .. Long - 1
    BY <1>1, <1>2, <1>4
  <2>2. (Long - r) % Long = Long - r
    BY <1>1, <2>1, SMT
  <2>3. Lead(p) = Long - r
    BY <2>2 DEF Lead, r
  <2>4. p + (Long - r) = (q + 1) * Long
    BY <1>1, <1>2, Times
  <2>5. ((q + 1) * Long) % Long = 0
    BY <1>1, <1>2, SMT
  <2> QED
    BY <2>1, <2>3, <2>4, <2>5
<1> QED
  BY <1>3, <1>4

CanFollow(m, d, s, k, u) ==
    /\ m \in Mem /\ d \in Nat /\ s \in Nat /\ k \in Nat /\ u \in Nat
    /\ d <= s \/ s + k + u <= d
    /\ s + k + u <= MemSize
LEMMA CopiedUpBy ==
    ASSUME NEW m, NEW d, NEW s, NEW k, NEW u, CanFollow(m, d, s, k, u)
    PROVE  /\ Copied(m, d, s, k) \in Mem
           /\ Copied(Copied(m, d, s, k), d + k, s + k, u) = Copied(m, d, s, k + u)
BY CopiedUp DEF CanFollow

\* memcpy copies, whichever way its length takes it.
LEMMA MemcpyIs ==
    ASSUME NEW m \in Mem, NEW d \in Nat, NEW s \in Nat, NEW total \in Nat,
           d <= s \/ s + total <= d, s + total <= MemSize
    PROVE  memcpy(m, d, s, total) = Copied(m, d, s, total)
<1> DEFINE fast == total > Block /\ total % Long = d % Long
           head == Lead(d)
           w == (total - head) \div Block
           n == w * Block
           m1 == Copied(m, d, s, head)
           m2 == Copied(m, d, s, head + n)
<1>0. MemSize \in Nat
  BY StringsAssumption
<1>1. CASE ~fast
  <2>1. total * 1 = total
    OBVIOUS
  <2>2. CopyUp(m, d, s, total, 1) = Copied(m, d, s, total)
    BY <2>1, CopyUpIs
  <2> QED
    BY <1>1, <2>2 DEF memcpy
<1>2. CASE fast
  <2>1. head \in 0 .. Long - 1 /\ head \in Nat
    <3>1. head \in 0 .. Long - 1
      BY LeadIs, Zenon
    <3> HIDE DEF head
    <3> QED
      BY <3>1, LongIs
  <2>2. total > Block
    BY <1>2
  <2> HIDE DEF fast, head
  <2>3. total - head \in Nat /\ Block \in Nat \ {0}
    BY <2>1, <2>2, LongIs
  <2>4. w \in Nat /\ n <= total - head /\ n \in Nat
    BY <2>3, Divided, Times
  <2>5. (8 * w) * Long = n
    BY <2>4, LongIs, SMT
  <2> HIDE DEF n, w
  <2> DEFINE rest == total - (head + n)
  <2>6. rest \in Nat /\ head + n + rest = total /\ head + n <= total /\ head + n \in Nat
    BY <2>1, <2>4
  <2> HIDE DEF rest
  <2>7. head * 1 = head /\ rest * 1 = rest
    BY <2>1, <2>6
  <2>8. CopyUp(m, d, s, head, 1) = m1
    <3>1. d <= s \/ s + head * 1 <= d
      BY <2>1, <2>4, <2>6, <2>7
    <3>2. s + head * 1 <= MemSize
      BY <2>1, <2>4, <2>6, <2>7, <1>0
    <3> QED
      BY <3>1, <3>2, <2>1, <2>7, CopyUpIs
  <2>9. m1 \in Mem /\ Copied(m1, d + head, s + head, n) = m2
    <3>1. d <= s \/ s + head + n <= d
      BY <2>1, <2>4, <2>6
    <3>2. s + head + n <= MemSize
      BY <2>1, <2>4, <2>6, <1>0
    <3>3. CanFollow(m, d, s, head, n)
      BY <3>1, <3>2, <2>1, <2>4 DEF CanFollow
    <3> QED
      BY <3>3, CopiedUpBy
  <2>10. m2 \in Mem /\ Copied(m2, d + (head + n), s + (head + n), rest) = Copied(m, d, s, total)
    <3> DEFINE k == head + n
    <3>0. k \in Nat /\ k + rest = total
      BY <2>6
    <3> HIDE DEF k
    <3>1. d <= s \/ s + k + rest <= d
      BY <2>6, <3>0
    <3>2. s + k + rest <= MemSize
      BY <2>6, <3>0, <1>0
    <3>3. /\ Copied(m, d, s, k) \in Mem
          /\ Copied(Copied(m, d, s, k), d + k, s + k, rest) = Copied(m, d, s, k + rest)
      <4>1. CanFollow(m, d, s, k, rest)
        BY <3>0, <3>1, <3>2, <2>6 DEF CanFollow
      <4> QED
        BY <4>1, CopiedUpBy
    <3> QED
      BY <3>3, <3>0 DEF k
  <2> HIDE DEF m1, m2
  <2>11. CopyUp(m1, d + head, s + head, 8 * w, Long) = m2
    <3>1. 8 * w \in Nat /\ d + head \in Nat /\ s + head \in Nat /\ Long \in Nat
      BY <2>1, <2>4, LongIs
    <3>2. d + head <= s + head \/ s + head + n <= d + head
      BY <2>1, <2>4, <2>6
    <3>3. s + head + n <= MemSize
      BY <2>1, <2>4, <2>6, <1>0
    <3>4. CopyUp(m1, d + head, s + head, 8 * w, Long) = Copied(m1, d + head, s + head, (8 * w) * Long)
      BY <3>1, <3>2, <3>3, <2>5, <2>9, CopyUpIs
    <3> QED
      BY <3>4, <2>5, <2>9
  <2>12. CopyUp(m2, d + (head + n), s + (head + n), rest, 1) = Copied(m, d, s, total)
    <3>1. d + (head + n) \in Nat /\ s + (head + n) \in Nat
      BY <2>6
    <3>2. d + (head + n) <= s + (head + n) \/ s + (head + n) + rest * 1 <= d + (head + n)
      BY <2>1, <2>4, <2>6, <2>7
    <3>3. s + (head + n) + rest * 1 <= MemSize
      BY <2>1, <2>4, <2>6, <2>7, <1>0
    <3>4. CopyUp(m2, d + (head + n), s + (head + n), rest, 1)
            = Copied(m2, d + (head + n), s + (head + n), rest * 1)
      BY <3>1, <3>2, <3>3, <2>6, <2>10, CopyUpIs
    <3> QED
      BY <3>4, <2>7, <2>10
  <2>13. memcpy(m, d, s, total)
          = CopyUp(CopyUp(CopyUp(m, d, s, head, 1), d + head, s + head, 8 * w, Long),
                   d + (head + (8 * w) * Long), s + (head + (8 * w) * Long), total - (head + (8 * w) * Long), 1)
    BY <1>2 DEF memcpy, fast, head, w
  <2>14. total - (head + n) = rest
    BY DEF rest
  <2> QED
    BY <2>5, <2>8, <2>11, <2>12, <2>13, <2>14
<1> QED
  BY <1>1, <1>2

CanCopyDown(m, d, s, n, u) ==
    /\ m \in Mem /\ d \in Nat /\ s \in Nat /\ n \in Nat /\ u \in Nat
    /\ n * u <= d /\ n * u <= s /\ s <= MemSize
    /\ s <= d \/ d <= s - n * u
LEMMA CopyDownBy ==
    ASSUME NEW m, NEW d, NEW s, NEW n, NEW u, CanCopyDown(m, d, s, n, u)
    PROVE  CopyDown(m, d, s, n, u) = Copied(m, d - n * u, s - n * u, n * u)
BY CopyDownIs DEF CanCopyDown

\* The ends of a block that memcpybk copies: nothing but them is wrong, and only
\* those of a long block that does not end on a word.
LEMMA MemcpybkIs ==
    ASSUME NEW m \in Mem, NEW d \in Nat, NEW s \in Nat, NEW total \in Nat,
           s <= d, d + total + 1 <= MemSize
    PROVE  \/ memcpybk(m, d, s, total) = Copied(m, d, s, total)
           \/ /\ s < d /\ total > Block /\ (d + total) % Long # 0
              /\ Wrong(memcpybk(m, d, s, total), Copied(m, d, s, total))
                    \subseteq {d + total, (d + total) - ((d + total) % Long)}
<1> DEFINE de == d + total
           se == s + total
           odd == de % Long
           fast == total > Block /\ odd = se % Long
           w == (total - odd) \div Long
           n == w * Long
           all == Copied(m, d, s, total)
           r == memcpybk(m, d, s, total)
<1>0. MemSize \in Nat /\ Long \in Nat /\ Long >= 2 /\ Block = 8 * Long /\ Block \in Nat
  BY StringsAssumption, LongIs
<1>1. de \in Nat /\ se \in Nat /\ se <= de /\ odd \in 0 .. Long - 1
  BY <1>0, SMT
<1>2. CASE ~fast
  <2>1. total * 1 = total /\ de - total = d /\ se - total = s
    BY <1>0
  <2>2. CopyDown(m, de, se, total, 1) = Copied(m, de - total * 1, se - total * 1, total * 1)
    <3>1. total * 1 <= de /\ total * 1 <= se /\ se <= de /\ se <= MemSize
      BY <1>0, <1>1, <2>1
    <3> HIDE DEF de, se
    <3> QED
      BY <1>1, <3>1, CopyDownIs
  <2>3. r = CopyDown(m, de, se, total, 1)
    BY <1>2 DEF memcpybk
  <2> HIDE DEF de, se, r
  <2>4. r = all
    BY <2>1, <2>2, <2>3
  <2> QED
    BY <2>4 DEF r
<1>3. CASE fast
  <2>1. total > Block
    BY <1>3
  <2> HIDE DEF odd, fast
  <2>2. total - odd \in Nat /\ Long \in Nat \ {0}
    BY <1>0, <1>1, <2>1
  <2>3. w \in Nat /\ n <= total - odd /\ n \in Nat
    BY <2>2, Divided, Times
  <2> HIDE DEF w, n
  <2> DEFINE rest == total - (odd + n)
  <2>4. rest \in Nat /\ odd * 1 = odd /\ rest * 1 = rest /\ odd \in Nat /\ odd <= total
    BY <1>1, <2>2, <2>3, <1>0
  <2> DEFINE m1 == Copied(m, de + 1 - odd, se + 1 - odd, odd)
             m2 == Copied(m1, de - odd - n, se - odd - n, n)
             m3 == Copied(m2, d, s, rest)
  <2>5. /\ de + 1 \in Nat /\ se + 1 \in Nat /\ de + 1 - odd \in Nat /\ se + 1 - odd \in Nat
        /\ de - odd \in Nat /\ se - odd \in Nat /\ de - odd - n \in Nat /\ se - odd - n \in Nat
        /\ de - odd - n - rest = d /\ se - odd - n - rest = s
        /\ se + 1 <= MemSize /\ de + 1 <= MemSize
    <3>1. d <= de /\ s <= se /\ de = d + total /\ se = s + total /\ odd + n + rest = total
      BY <1>0, <2>3, <2>4
    <3> HIDE DEF de, se, rest
    <3>2. /\ de + 1 \in Nat /\ se + 1 \in Nat /\ de + 1 - odd \in Nat /\ se + 1 - odd \in Nat
          /\ de - odd \in Nat /\ se - odd \in Nat /\ de - odd - n \in Nat /\ se - odd - n \in Nat
      BY <3>1, <1>0, <1>1, <2>3, <2>4
    <3>3. de - odd - n - rest = d /\ se - odd - n - rest = s
      BY <3>1, <1>0, <1>1, <2>3, <2>4
    <3>4. se + 1 <= MemSize /\ de + 1 <= MemSize
      BY <3>1, <1>0, <1>1
    <3> QED
      BY <3>2, <3>3, <3>4
  <2>6. CopyDown(m, de + 1, se + 1, odd, 1) = m1
    <3> DEFINE p == de + 1
               q == se + 1
               one == 1
    <3>0. /\ p \in Nat /\ q \in Nat /\ q <= MemSize /\ q <= p /\ odd <= p /\ odd <= q
          /\ one \in Nat /\ odd * one = odd
      BY <1>0, <1>1, <2>4, <2>5
    <3> HIDE DEF p, q, one
    <3>1. CanCopyDown(m, p, q, odd, one)
      BY <3>0, <2>4 DEF CanCopyDown
    <3>2. CopyDown(m, p, q, odd, one) = Copied(m, p - odd * one, q - odd * one, odd * one)
      BY <3>1, CopyDownBy
    <3>3. CopyDown(m, p, q, odd, one) = Copied(m, p - odd, q - odd, odd)
      BY <3>0, <3>2
    <3>4. p = de + 1 /\ q = se + 1 /\ one = 1
      BY DEF p, q, one
    <3> HIDE DEF de, se
    <3>5. m1 = Copied(m, p - odd, q - odd, odd)
      <4> HIDE DEF de, se
      <4> QED
        BY <3>4, <3>0, <2>4, <1>1
    <3> HIDE DEF m1
    <3>6. CopyDown(m, p, q, odd, one) = m1
      BY <3>3, <3>5
    <3> QED
      BY <3>4, <3>6
  <2>7. m1 \in Mem /\ m2 \in Mem
    <3> HIDE DEF de, se
    <3>1. \A f \in Mem, x \in Nat, y \in Nat, k \in Nat : y + k <= MemSize /\ y <= x => Copied(f, x, y, k) \in Mem
      <4> SUFFICES ASSUME NEW f \in Mem, NEW x \in Nat, NEW y \in Nat, NEW k \in Nat, y + k <= MemSize, y <= x
                   PROVE  Copied(f, x, y, k) \in Mem
        OBVIOUS
      <4>1. ASSUME NEW a \in Addresses PROVE (IF a \in x .. x + k - 1 THEN f[a - x + y] ELSE f[a]) \in Int
        <5>1. a \in x .. x + k - 1 => a - x + y \in Addresses
          BY <1>0 DEF Addresses
        <5> QED
          BY <5>1 DEF Mem
      <4> QED
        BY <4>1 DEF Copied, Mem
    <3>2. m1 \in Mem
      <4>1. se + 1 - odd + odd <= MemSize /\ se + 1 - odd <= de + 1 - odd
        BY <1>0, <1>1, <2>4, <2>5
      <4> QED
        BY <3>1, <4>1, <2>4, <2>5
    <3> HIDE DEF m1
    <3>3. m2 \in Mem
      <4>1. se - odd - n + n <= MemSize /\ se - odd - n <= de - odd - n
        BY <1>0, <1>1, <2>3, <2>4, <2>5
      <4> QED
        BY <3>1, <3>2, <4>1, <2>3, <2>5
    <3> QED
      BY <3>2, <3>3
  <2>8. CopyDown(m1, de - odd, se - odd, w, Long) = m2
    <3> HIDE DEF de, se, m1
    <3>1. w * Long = n
      BY DEF n
    <3>2. w * Long <= de - odd /\ w * Long <= se - odd /\ se - odd <= de - odd /\ se - odd <= MemSize
      BY <3>1, <1>0, <1>1, <2>3, <2>4, <2>5
    <3>3. CopyDown(m1, de - odd, se - odd, w, Long) = Copied(m1, de - odd - w * Long, se - odd - w * Long, w * Long)
      <4>1. /\ de - odd \in Nat /\ se - odd \in Nat /\ w \in Nat /\ Long \in Nat /\ m1 \in Mem
            /\ w * Long <= de - odd /\ w * Long <= se - odd /\ se - odd <= MemSize
            /\ se - odd <= de - odd \/ de - odd <= se - odd - w * Long
        BY <3>2, <1>0, <2>3, <2>5, <2>7
      <4>2. CanCopyDown(m1, de - odd, se - odd, w, Long)
        BY <4>1 DEF CanCopyDown
      <4> QED
        BY <4>2, CopyDownBy
    <3> QED
      BY <3>1, <3>3
  <2>9. CopyDown(m2, de - (odd + n), se - (odd + n), rest, 1) = m3
    <3> HIDE DEF de, se, m1, m2
    <3>0. de - (odd + n) = de - odd - n /\ se - (odd + n) = se - odd - n
      BY <1>1, <2>3, <2>4
    <3>1. rest * 1 <= de - odd - n /\ rest * 1 <= se - odd - n /\ se - odd - n <= de - odd - n /\ se - odd - n <= MemSize
      <4> HIDE DEF rest
      <4> QED
        BY <1>0, <1>1, <2>3, <2>4, <2>5
    <3> HIDE DEF rest
    <3> DEFINE p == de - odd - n
               q == se - odd - n
               one == 1
    <3>2. /\ p \in Nat /\ q \in Nat /\ one \in Nat /\ rest * one = rest
          /\ p - rest = d /\ q - rest = s
      BY <2>4, <2>5
    <3>3. CanCopyDown(m2, p, q, rest, one)
      BY <3>1, <3>2, <2>4, <2>7 DEF CanCopyDown
    <3> HIDE DEF p, q, one
    <3>4. CopyDown(m2, p, q, rest, one) = Copied(m2, p - rest * one, q - rest * one, rest * one)
      BY <3>3, CopyDownBy
    <3>5. CopyDown(m2, p, q, rest, one) = Copied(m2, d, s, rest)
      BY <3>2, <3>4
    <3> QED
      BY <3>0, <3>5 DEF p, q, one
  <2>10. r = m3
    <3>1. r = CopyDown(CopyDown(CopyDown(m, de + 1, se + 1, odd, 1), de - odd, se - odd, w, Long),
                       de - (odd + w * Long), se - (odd + w * Long), total - (odd + w * Long), 1)
      BY <1>3 DEF memcpybk, fast, odd, w
    <3>2. w * Long = n /\ total - (odd + n) = rest
      BY DEF n
    <3> HIDE DEF r, m1, m2, m3, de, se, rest
    <3> QED
      BY <3>1, <3>2, <2>6, <2>8, <2>9
  <2> HIDE DEF r
  <2>11. /\ \A a \in Addresses : m1[a] = IF a \in de + 1 - odd .. de THEN m[a - d + s] ELSE m[a]
         /\ \A a \in Addresses : m2[a] = IF a \in de - odd - n .. de - odd - 1 THEN m1[a - d + s] ELSE m1[a]
         /\ \A a \in Addresses : m3[a] = IF a \in d .. d + rest - 1 THEN m2[a - d + s] ELSE m2[a]
         /\ \A a \in Addresses : all[a] = IF a \in d .. de - 1 THEN m[a - d + s] ELSE m[a]
    <3>1. ASSUME NEW a \in Addresses
          PROVE  /\ a - (de + 1 - odd) + (se + 1 - odd) = a - d + s /\ de + 1 - odd + odd - 1 = de
                 /\ a - (de - odd - n) + (se - odd - n) = a - d + s /\ de - odd - n + n - 1 = de - odd - 1
      BY <1>0, <1>1, <2>3, <2>4 DEF Addresses
    <3> HIDE DEF de, se, rest
    <3>2. \A a \in Addresses : m1[a] = IF a \in de + 1 - odd .. de THEN m[a - d + s] ELSE m[a]
      BY <3>1 DEF Copied
    <3>3. \A a \in Addresses : m2[a] = IF a \in de - odd - n .. de - odd - 1 THEN m1[a - d + s] ELSE m1[a]
      <4> HIDE DEF m1
      <4> QED
        BY <3>1 DEF Copied
    <3>4. \A a \in Addresses : m3[a] = IF a \in d .. d + rest - 1 THEN m2[a - d + s] ELSE m2[a]
      <4> HIDE DEF m2
      <4> QED
        BY DEF Copied
    <3>5. \A a \in Addresses : all[a] = IF a \in d .. de - 1 THEN m[a - d + s] ELSE m[a]
      BY DEF Copied, de
    <3> QED
      BY <3>2, <3>3, <3>4, <3>5
  <2> HIDE DEF m1, m2, m3, all
  <2>12. ASSUME NEW a \in Addresses PROVE a \in d .. de => a - d + s \in Addresses /\ a - d + s <= a
    BY <1>0, <1>1 DEF Addresses
  <2>13. ASSUME NEW a \in Addresses, a # de \/ odd = 0 \/ s = d, a # de - odd \/ odd = 0 \/ s = d
         PROVE m3[a] = all[a]
    <3> DEFINE b == a - d + s
    <3>1. CASE a \in de + 1 - odd .. de
      <4>1. a \notin de - odd - n .. de - odd - 1 /\ a \notin d .. d + rest - 1 /\ a \in d .. de
        BY <3>1, <1>0, <1>1, <2>3, <2>4 DEF Addresses
      <4>2. m3[a] = m[b]
        BY <4>1, <3>1, <2>11
      <4>3. a = de => s = d /\ b = a
        BY <2>13, <3>1, <1>1, <2>4 DEF Addresses
      <4>4. a # de => a \in d .. de - 1
        BY <4>1, <1>1
      <4>5. a = de => a \notin d .. de - 1
        BY <1>1
      <4> HIDE DEF b
      <4> QED
        BY <4>2, <4>3, <4>4, <4>5, <2>11 DEF b
    <3>2. CASE a \in de - odd - n .. de - odd - 1
      <4>1. a \notin d .. d + rest - 1 /\ a \in d .. de - 1 /\ a \in d .. de
        BY <3>2, <1>0, <1>1, <2>3, <2>4 DEF Addresses
      <4>2. b \in Addresses /\ b \notin de + 1 - odd .. de
        BY <3>2, <4>1, <2>12, <1>0, <1>1, <2>3, <2>4 DEF Addresses
      <4> HIDE DEF b
      <4>3. m3[a] = m1[b] /\ m1[b] = m[b] /\ all[a] = m[b]
        BY <4>1, <4>2, <3>2, <2>11 DEF b
      <4> QED
        BY <4>3
    <3>3. CASE a \in d .. d + rest - 1
      <4>1. a \in d .. de - 1 /\ a \in d .. de /\ a < de - odd - n
        BY <3>3, <1>0, <1>1, <2>3, <2>4 DEF Addresses
      <4>2. b \in Addresses /\ b \notin de + 1 - odd .. de /\ b \notin de - odd - n .. de - odd - 1
        BY <3>3, <4>1, <2>12, <1>0, <1>1, <2>3, <2>4 DEF Addresses
      <4> HIDE DEF b
      <4>3. m3[a] = m2[b] /\ m2[b] = m1[b] /\ m1[b] = m[b] /\ all[a] = m[b]
        BY <4>1, <4>2, <3>3, <2>11 DEF b
      <4> QED
        BY <4>3
    <3>4. CASE a \notin de + 1 - odd .. de /\ a \notin de - odd - n .. de - odd - 1 /\ a \notin d .. d + rest - 1
      <4>1. m3[a] = m[a]
        BY <3>4, <2>11
      <4>2. a \in d .. de - 1 => a = de - odd /\ s = d /\ b = a
        BY <3>4, <2>13, <1>0, <1>1, <2>3, <2>4 DEF Addresses
      <4> HIDE DEF b
      <4> QED
        BY <4>1, <4>2, <2>11 DEF b
    <3> QED
      BY <3>1, <3>2, <3>3, <3>4
  <2>14. Wrong(m3, all) \subseteq {de, de - odd}
    BY <2>13 DEF Wrong
  <2>15. ASSUME odd = 0 \/ s = d PROVE m3 = all
    <3>1. \A a \in Addresses : m3[a] = all[a]
      BY <2>13, <2>15
    <3>2. m3 = [a \in Addresses |-> m3[a]] /\ all = [a \in Addresses |-> all[a]]
      BY DEF m3, all, Copied
    <3> QED
      BY <3>1, <3>2
  <2>16. odd = 0 \/ s = d \/ (s < d /\ odd # 0)
    OBVIOUS
  <2> QED
    <3>1. r = all \/ (s < d /\ odd # 0 /\ Wrong(r, all) \subseteq {de, de - odd})
      BY <2>10, <2>14, <2>15, <2>16
    <3>2. odd = (d + total) % Long
      BY DEF odd
    <3>3. odd # 0 => (d + total) % Long # 0
      BY <3>2
    <3>4. {de, de - odd} = {d + total, (d + total) - ((d + total) % Long)}
      BY Zenon DEF odd, de
    <3> HIDE DEF odd, de
    <3>5. r = memcpybk(m, d, s, total) /\ all = Copied(m, d, s, total)
      BY DEF r, all
    <3>6. CASE r = all
      BY <3>6, <3>5
    <3>7. CASE s < d /\ odd # 0 /\ Wrong(r, all) \subseteq {de, de - odd}
      <4>1. Wrong(r, all) \subseteq {d + total, (d + total) - ((d + total) % Long)}
        BY <3>7, <3>4
      <4> QED
        BY <4>1, <3>7, <3>3, <3>5, <2>1, Zenon
    <3> QED
      BY <3>1, <3>6, <3>7
<1> QED
  BY <1>2, <1>3

\* memmove: what memcpy or memcpybk does.
LEMMA MemmoveIs ==
    ASSUME NEW m \in Mem, NEW d \in Nat, NEW s \in Nat, NEW total \in Nat,
           d + total + 1 <= MemSize, s + total <= MemSize
    PROVE  \/ memmove(m, d, s, total) = Copied(m, d, s, total)
           \/ /\ s < d /\ total > Block /\ (d + total) % Long # 0
              /\ Wrong(memmove(m, d, s, total), Copied(m, d, s, total))
                    \subseteq {d + total, (d + total) - ((d + total) % Long)}
<1>0. MemSize \in Nat
  BY StringsAssumption
<1>1. CASE total = 0
  BY <1>1, CopiedNone DEF memmove
<1>2. CASE total # 0 /\ (d < s \/ s + total < d)
  <2>1. d <= s \/ s + total <= d
    BY <1>2
  <2>2. memmove(m, d, s, total) = memcpy(m, d, s, total)
    BY <1>2 DEF memmove
  <2> QED
    BY <2>1, <2>2, MemcpyIs
<1>3. CASE total # 0 /\ ~(d < s \/ s + total < d)
  <2>1. s <= d
    BY <1>3
  <2>2. memmove(m, d, s, total) = memcpybk(m, d, s, total)
    BY <1>3 DEF memmove
  <2> QED
    BY <2>1, <2>2, MemcpybkIs
<1> QED
  BY <1>1, <1>2, <1>3

LEMMA MinIs ==
    ASSUME NEW T \in SUBSET Nat, NEW e \in T
    PROVE  Min(T) \in T /\ Min(T) \in Nat /\ Min(T) <= e /\ \A k \in T : Min(T) <= k
<1>1. \E x \in T : \A y \in T : x <= y
  BY LeastIn
<1> QED
  BY <1>1 DEF Min

LEMMA MinIsIt ==
    ASSUME NEW T \in SUBSET Nat, NEW e \in T, \A k \in T : e <= k
    PROVE  Min(T) = e
<1>1. Min(T) \in T /\ Min(T) \in Nat /\ Min(T) <= e
  BY MinIs
<1>2. e <= Min(T) /\ e \in Nat
  BY <1>1
<1> QED
  BY <1>1, <1>2

\* A string of e bytes at s, and the bytes of one.
IsText(m, s, e) ==
    /\ m \in Mem /\ s \in Nat /\ e \in Nat /\ s + e < MemSize
    /\ m[s + e] = 0 /\ \A k \in 0 .. e - 1 : m[s + k] # 0
BytesAt(m, s, n) == {m[s + k] : k \in 0 .. n - 1}

\* The first offset with a property that the end of the string has: nothing
\* before it has the property, and the string goes on up to it.
LEMMA ScanIs ==
    ASSUME NEW m, NEW s, NEW e, IsText(m, s, e),
           NEW T \in SUBSET Offsets(s), e \in T
    PROVE  /\ Min(T) \in T /\ Min(T) \in 0 .. e /\ Min(T) \in Offsets(s)
           /\ \A k \in 0 .. Min(T) - 1 : k \in Offsets(s) /\ k \notin T /\ m[s + k] # 0
           /\ m[s + Min(T)] = 0 <=> Min(T) = e
<1> DEFINE at == Min(T)
<1>0. MemSize \in Nat /\ s \in Nat /\ e \in Nat
  BY StringsAssumption DEF IsText
<1>1. T \in SUBSET Nat
  BY <1>0 DEF Offsets
<1>2. at \in T /\ at \in Nat /\ at <= e /\ \A k \in T : at <= k
  BY <1>1, MinIs
<1> HIDE DEF at
<1>3. at \in 0 .. e /\ at \in Offsets(s)
  BY <1>2
<1>4. ASSUME NEW k \in 0 .. at - 1 PROVE k \in Offsets(s) /\ k \notin T /\ m[s + k] # 0
  <2>1. k \in Nat /\ k < at /\ k \in 0 .. e - 1
    BY <1>0, <1>2
  <2>2. k \in Offsets(s)
    BY <2>1, <1>0, <1>3 DEF Offsets
  <2>3. k \notin T
    BY <2>1, <1>2
  <2> QED
    BY <2>1, <2>2, <2>3 DEF IsText
<1>5. m[s + at] = 0 <=> at = e
  <2>1. at # e => at \in 0 .. e - 1
    BY <1>0, <1>3
  <2> QED
    BY <2>1 DEF IsText
<1> QED
  BY <1>2, <1>3, <1>4, <1>5 DEF at

LEMMA EndsIn == ASSUME NEW m, NEW s, NEW e, IsText(m, s, e) PROVE e \in Offsets(s) /\ m[s + e] = 0
BY StringsAssumption DEF IsText, Offsets

LEMMA StrlenIs == ASSUME NEW m, NEW s, NEW e, IsText(m, s, e) PROVE strlen(m, s) = e
<1> DEFINE T == {i \in Offsets(s) : m[s + i] = 0}
<1>1. e \in T
  BY EndsIn
<1>2. Min(T) \in T
  BY <1>1, ScanIs
<1>3. m[s + Min(T)] = 0 <=> Min(T) = e
  BY <1>1, ScanIs
<1>4. Min(T) = e
  BY <1>2, <1>3
<1> QED
  BY <1>4 DEF strlen

\* strchrnul: the first c, or the end.
LEMMA StrchrnulIs ==
    ASSUME NEW m, NEW s, NEW e, IsText(m, s, e), NEW c
    PROVE  \E at \in 0 .. e : /\ strchrnul(m, s, c) = s + at /\ m[s + at] \in {0, c}
                              /\ \A k \in 0 .. at - 1 : m[s + k] \notin {0, c}
                              /\ m[s + at] = 0 <=> at = e
<1> DEFINE T == {i \in Offsets(s) : m[s + i] \in {0, c}}
           at == Min(T)
<1>1. e \in T
  BY EndsIn
<1>2. /\ at \in T /\ at \in 0 .. e
      /\ \A k \in 0 .. at - 1 : k \in Offsets(s) /\ k \notin T
      /\ m[s + at] = 0 <=> at = e
  <2> HIDE DEF T
  <2>1. T \in SUBSET Offsets(s)
    BY DEF T
  <2> QED
    BY <1>1, <2>1, ScanIs
<1>3. strchrnul(m, s, c) = s + at
  BY DEF strchrnul
<1> HIDE DEF at
<1>4. m[s + at] \in {0, c} /\ \A k \in 0 .. at - 1 : m[s + k] \notin {0, c}
  BY <1>2
<1> QED
  BY <1>2, <1>3, <1>4

\* strchr finds c where it is.
LEMMA StrchrIs ==
    ASSUME NEW m, NEW s, NEW e, IsText(m, s, e), NEW c
    PROVE  LET r == strchr(m, s, c)
           IN  IF r = NULL THEN c \notin BytesAt(m, s, e + 1) ELSE m[r] = c
<1>1. PICK at \in 0 .. e : /\ strchrnul(m, s, c) = s + at /\ m[s + at] \in {0, c}
                           /\ \A k \in 0 .. at - 1 : m[s + k] \notin {0, c}
                           /\ m[s + at] = 0 <=> at = e
  BY StrchrnulIs
<1>2. CASE m[s + at] = c
  <2>1. strchr(m, s, c) = s + at
    BY <1>1, <1>2 DEF strchr
  <2>2. s + at # NULL
    BY DEF IsText, NULL
  <2> QED
    BY <2>1, <2>2, <1>2
<1>3. CASE m[s + at] # c
  <2>1. strchr(m, s, c) = NULL
    BY <1>1, <1>3 DEF strchr
  <2>2. at = e /\ c # 0
    BY <1>1, <1>3
  <2>3. ASSUME NEW k \in 0 .. (e + 1) - 1 PROVE m[s + k] # c
    <3>1. e \in Nat
      BY DEF IsText
    <3>2. k \in 0 .. at - 1 \/ k = at
      BY <2>2, <3>1
    <3> QED
      BY <3>2, <1>1, <1>3
  <2>4. c \notin BytesAt(m, s, e + 1)
    BY <2>3 DEF BytesAt
  <2> QED
    BY <2>1, <2>4
<1> QED
  BY <1>2, <1>3

\* The search for a byte in a string of separators stops at zero if it is none of them.
LEMMA StopIs ==
    ASSUME NEW m, NEW t, NEW e, IsText(m, t, e), NEW c, c # 0
    PROVE  Stop(m, t, c) # 0 <=> c \in BytesAt(m, t, e)
<1>1. PICK at \in 0 .. e : /\ strchrnul(m, t, c) = t + at /\ m[t + at] \in {0, c}
                           /\ \A k \in 0 .. at - 1 : m[t + k] \notin {0, c}
                           /\ m[t + at] = 0 <=> at = e
  BY StrchrnulIs
<1>2. Stop(m, t, c) = m[t + at]
  BY <1>1 DEF Stop
<1>3. e \in Nat
  BY DEF IsText
<1>4. CASE at = e
  <2>1. \A k \in 0 .. e - 1 : m[t + k] # c
    BY <1>1, <1>4
  <2> QED
    BY <2>1, <1>1, <1>2, <1>4 DEF BytesAt
<1>5. CASE at # e
  <2>1. at \in 0 .. e - 1 /\ m[t + at] = c
    BY <1>1, <1>3, <1>5
  <2>2. c \in BytesAt(m, t, e)
    BY <2>1 DEF BytesAt
  <2> QED
    BY <2>1, <2>2, <1>2
<1> QED
  BY <1>4, <1>5

\* strcspn and strspn: as many bytes as are none, or some, of the separators.
LEMMA StrcspnIs ==
    ASSUME NEW m, NEW s, NEW e, IsText(m, s, e), NEW t, NEW z, IsText(m, t, z)
    PROVE  /\ strcspn(m, s, t) \in 0 .. e
           /\ \A k \in 0 .. strcspn(m, s, t) - 1 : m[s + k] # 0 /\ m[s + k] \notin BytesAt(m, t, z)
           /\ strcspn(m, s, t) # e => m[s + strcspn(m, s, t)] \in BytesAt(m, t, z)
<1> DEFINE T == {i \in Offsets(s) : m[s + i] = 0 \/ Stop(m, t, m[s + i]) # 0}
           at == Min(T)
<1>1. e \in T
  BY EndsIn
<1>2. /\ at \in T /\ at \in 0 .. e
      /\ \A k \in 0 .. at - 1 : k \in Offsets(s) /\ k \notin T /\ m[s + k] # 0
      /\ m[s + at] = 0 <=> at = e
  <2> HIDE DEF T
  <2>1. T \in SUBSET Offsets(s)
    BY DEF T
  <2> QED
    BY <1>1, <2>1, ScanIs
<1>3. strcspn(m, s, t) = at
  BY DEF strcspn
<1> HIDE DEF at
<1>4. ASSUME NEW k \in 0 .. at - 1 PROVE m[s + k] # 0 /\ m[s + k] \notin BytesAt(m, t, z)
  <2>1. m[s + k] # 0 /\ Stop(m, t, m[s + k]) = 0
    BY <1>2
  <2> QED
    BY <2>1, StopIs
<1>5. ASSUME at # e PROVE m[s + at] \in BytesAt(m, t, z)
  <2>1. m[s + at] # 0 /\ Stop(m, t, m[s + at]) # 0
    BY <1>2, <1>5
  <2> QED
    BY <2>1, StopIs
<1> QED
  BY <1>2, <1>3, <1>4, <1>5

LEMMA StrspnIs ==
    ASSUME NEW m, NEW s, NEW e, IsText(m, s, e), NEW t, NEW z, IsText(m, t, z)
    PROVE  /\ strspn(m, s, t) \in 0 .. e
           /\ \A k \in 0 .. strspn(m, s, t) - 1 : m[s + k] \in BytesAt(m, t, z)
           /\ strspn(m, s, t) # e => m[s + strspn(m, s, t)] \notin BytesAt(m, t, z)
<1> DEFINE T == {i \in Offsets(s) : m[s + i] = 0 \/ Stop(m, t, m[s + i]) = 0}
           at == Min(T)
<1>1. e \in T
  BY EndsIn
<1>2. /\ at \in T /\ at \in 0 .. e
      /\ \A k \in 0 .. at - 1 : k \in Offsets(s) /\ k \notin T /\ m[s + k] # 0
      /\ m[s + at] = 0 <=> at = e
  <2> HIDE DEF T
  <2>1. T \in SUBSET Offsets(s)
    BY DEF T
  <2> QED
    BY <1>1, <2>1, ScanIs
<1>3. strspn(m, s, t) = at
  BY DEF strspn
<1> HIDE DEF at
<1>4. ASSUME NEW k \in 0 .. at - 1 PROVE m[s + k] \in BytesAt(m, t, z)
  <2>1. m[s + k] # 0 /\ Stop(m, t, m[s + k]) # 0
    BY <1>2
  <2> QED
    BY <2>1, StopIs
<1>5. ASSUME at # e PROVE m[s + at] \notin BytesAt(m, t, z)
  <2>1. m[s + at] # 0 /\ Stop(m, t, m[s + at]) = 0
    BY <1>2, <1>5
  <2> QED
    BY <2>1, StopIs
<1> QED
  BY <1>2, <1>3, <1>4, <1>5

\* strpbrk finds the first separator, if there is one.
LEMMA StrpbrkIs ==
    ASSUME NEW m, NEW e, IsText(m, 0, e), NEW t, NEW z, IsText(m, t, z)
    PROVE  LET r == strpbrk(m, 0, t)
               set == BytesAt(m, t, z)
           IN  IF BytesAt(m, 0, e) \cap set = {} THEN r = NULL
               ELSE m[r] \in set /\ BytesAt(m, 0, r) \cap set = {}
<1> DEFINE set == BytesAt(m, t, z)
           T == {i \in Offsets(0) : m[0 + i] \in set \cup {0}}
           at == Min(T)
<1>1. e \in T
  BY EndsIn
<1>2. /\ at \in T /\ at \in 0 .. e
      /\ \A k \in 0 .. at - 1 : k \in Offsets(0) /\ k \notin T
      /\ m[0 + at] = 0 <=> at = e
  <2> HIDE DEF T
  <2>1. T \in SUBSET Offsets(0)
    BY DEF T
  <2> QED
    BY <1>1, <2>1, ScanIs
<1>3. strlen(m, t) = z
  BY StrlenIs
<1>4. strpbrk(m, 0, t) = IF m[0 + at] = 0 THEN NULL ELSE 0 + at
  BY <1>3 DEF strpbrk, BytesAt
<1> HIDE DEF at
<1>5. \A k \in 0 .. at - 1 : m[0 + k] \notin set
  <2> HIDE DEF set
  <2> QED
    BY <1>2
<1>6. BytesAt(m, 0, at) \cap set = {}
  BY <1>5 DEF BytesAt
<1>7. CASE at = e
  BY <1>2, <1>4, <1>6, <1>7
<1>8. CASE at # e
  <2>1. m[0 + at] # 0 /\ e \in Nat
    BY <1>2, <1>8 DEF IsText
  <2>2. 0 + at = at /\ at \in 0 .. e - 1
    BY <1>2, <1>8, <2>1
  <2> HIDE DEF set
  <2>3. m[0 + at] \in set
    BY <1>2, <2>1
  <2>4. m[0 + at] \in BytesAt(m, 0, e)
    BY <2>2 DEF BytesAt
  <2>5. BytesAt(m, 0, e) \cap set # {}
    BY <2>3, <2>4
  <2>6. strpbrk(m, 0, t) = at
    BY <1>4, <2>1, <2>2
  <2> QED
    BY <2>2, <2>3, <2>5, <2>6, <1>6 DEF set
<1> QED
  BY <1>7, <1>8

\* Where the strings are.
LEMMA PlacesAre ==
    /\ TextLen \in Nat /\ Place2 \in Nat /\ Place3 \in Nat
    /\ Place2 = TextLen + 1 /\ Place3 = Place2 + Place2 /\ Place3 + Place3 <= MemSize /\ MemSize \in Nat
BY StringsAssumption DEF Place2, Place3

\* strcmp, of bytes that are no more than 127.
LEMMA StrcmpIs ==
    ASSUME NEW m, NEW e, IsText(m, 0, e), e + Place2 < MemSize, \A a \in Addresses : m[a] \in 0 .. 127
    PROVE  LET r == strcmp(m, 0, Place2)
           IN  IF \E k \in 0 .. e - 1 : m[k] # m[Place2 + k]
               THEN \E k \in 0 .. e - 1 : /\ \A l \in 0 .. k - 1 : m[l] = m[Place2 + l]
                                          /\ m[k] # m[Place2 + k] /\ r = m[k] - m[Place2 + k]
               ELSE r = 0
<1> DEFINE T == {k \in Offsets(0) : m[0 + k] = 0 \/ m[0 + k] # Char(m[Place2 + k])}
           at == Min(T)
<1>1. e \in T
  BY EndsIn
<1>2. /\ at \in T /\ at \in 0 .. e
      /\ \A k \in 0 .. at - 1 : k \in Offsets(0) /\ k \notin T
      /\ m[0 + at] = 0 <=> at = e
  <2> HIDE DEF T
  <2>1. T \in SUBSET Offsets(0)
    BY DEF T
  <2> QED
    BY <1>1, <2>1, ScanIs
<1>3. strcmp(m, 0, Place2) = IF m[0 + at] = 0 THEN 0 ELSE m[0 + at] - Char(m[Place2 + at])
  BY DEF strcmp
<1> HIDE DEF at
<1>4. ASSUME NEW k \in 0 .. e PROVE Char(m[Place2 + k]) = m[Place2 + k] /\ 0 + k = k
  <2>1. Place2 + k \in Addresses
    BY PlacesAre DEF IsText, Addresses
  <2>2. m[Place2 + k] \in 0 .. 127
    BY <2>1
  <2> QED
    BY <2>2 DEF Char
<1>5. ASSUME NEW k \in 0 .. at - 1 PROVE m[k] = m[Place2 + k]
  <2>1. k \in 0 .. e
    BY <1>2 DEF IsText
  <2>2. k \in Offsets(0) /\ k \notin T
    BY <1>2
  <2>3. m[0 + k] = Char(m[Place2 + k])
    BY <2>2
  <2> QED
    BY <2>1, <2>3, <1>4
<1>6. CASE at = e
  BY <1>2, <1>3, <1>5, <1>6
<1>7. CASE at # e
  <2>1. at \in 0 .. e - 1 /\ m[0 + at] # 0
    BY <1>2, <1>7 DEF IsText
  <2>2. m[0 + at] # Char(m[Place2 + at])
    BY <1>2, <2>1
  <2>3. m[at] # m[Place2 + at] /\ strcmp(m, 0, Place2) = m[at] - m[Place2 + at]
    BY <1>2, <1>3, <1>4, <2>1, <2>2
  <2> QED
    BY <2>1, <2>3, <1>5
<1> QED
  BY <1>6, <1>7

\* The largest of a bounded set of numbers.
LEMMA MaxIs ==
    ASSUME NEW n \in Nat, NEW T \in SUBSET (0 .. n), NEW e \in T
    PROVE  Max(T) \in T
<1> DEFINE U == {n - x : x \in T}
<1>1. PICK y \in U : \A z \in U : y <= z
  <2>1. U \in SUBSET Nat /\ n - e \in U
    OBVIOUS
  <2> QED
    BY <2>1, LeastIn
<1>2. PICK x \in T : y = n - x
  OBVIOUS
<1>3. \A z \in T : z <= x
  <2> TAKE z \in T
  <2>1. y <= n - z
    BY <1>1
  <2> QED
    BY <2>1, <1>2
<1> QED
  BY <1>3 DEF Max

\* strrchr finds a byte that is not c.
LEMMA StrrchrIs ==
    ASSUME NEW m, NEW e, IsText(m, 0, e), NEW c
    PROVE  strrchr(m, 0, c) # NULL => strrchr(m, 0, c) \in 0 .. e - 1 /\ m[strrchr(m, 0, c)] # c
<1> DEFINE others == {i \in 0 .. e - 1 : m[0 + i] # c}
<1>1. strrchr(m, 0, c) = IF others = {} THEN NULL ELSE 0 + Max(others)
  BY StrlenIs DEF strrchr
<1>2. ASSUME others # {} PROVE Max(others) \in others
  <2>1. PICK x : x \in others
    BY <1>2
  <2>2. others \in SUBSET (0 .. e) /\ e \in Nat
    BY DEF IsText
  <2> HIDE DEF others
  <2> QED
    BY <2>1, <2>2, MaxIs
<1>3. ASSUME others # {} PROVE strrchr(m, 0, c) = Max(others) /\ 0 + Max(others) = Max(others)
  <2>1. Max(others) \in 0 .. e - 1
    BY <1>2, <1>3
  <2> QED
    BY <2>1, <1>1, <1>3
<1> QED
  BY <1>1, <1>2, <1>3

\* A string is copied with its end.
LEMMA StrcpyIs ==
    ASSUME NEW m, NEW s, NEW e, IsText(m, s, e), NEW d \in Nat,
           d <= s \/ s + e + 1 <= d
    PROVE  strcpy(m, d, s) = Copied(m, d, s, e + 1)
<1>1. strlen(m, s) = e
  BY StrlenIs
<1>2. m \in Mem /\ s \in Nat /\ e + 1 \in Nat /\ (e + 1) * 1 = e + 1 /\ s + (e + 1) <= MemSize
  BY StringsAssumption DEF IsText
<1>3. d <= s \/ s + (e + 1) <= d
  BY DEF IsText
<1> DEFINE n == e + 1
<1> HIDE DEF n
<1>4. n = e + 1
  BY DEF n
<1>5. CopyUp(m, d, s, n, 1) = Copied(m, d, s, n * 1)
  BY <1>2, <1>3, <1>4, CopyUpIs
<1> QED
  BY <1>1, <1>2, <1>4, <1>5 DEF strcpy

LEMMA WrongWhere ==
    ASSUME NEW m \in Mem, NEW d \in Nat, NEW s \in Nat, NEW n \in Nat
    PROVE  Wrong(Copied(m, d, s, n), m) \subseteq d .. d + n - 1
BY DEF Wrong, Copied

\* strncpy writes no more than one byte behind the n, and ends a shorter string.
LEMMA StrncpyIs ==
    ASSUME NEW m, NEW s, NEW e, IsText(m, s, e), NEW d \in Nat, NEW n \in Nat,
           s + e + 1 <= d, d + e < MemSize
    PROVE  Wrong(strncpy(m, d, s, n), m) \subseteq d .. d + n
           /\ (e < n => strncpy(m, d, s, n)[d + e] = 0)
<1>0. m \in Mem /\ s \in Nat /\ e \in Nat /\ MemSize \in Nat /\ s + e < MemSize /\ m[s + e] = 0
  BY StringsAssumption DEF IsText
<1>1. strlen(m, s) = e
  BY StrlenIs
<1>2. CASE n = 0
  <2>1. strncpy(m, d, s, n) = m
    BY <1>2 DEF strncpy
  <2> QED
    BY <1>0, <1>2, <2>1 DEF Wrong
<1>3. ASSUME NEW k \in Nat, k <= e + 1
      PROVE  CopyUp(m, d, s, k, 1) = Copied(m, d, s, k)
  <2>1. k * 1 = k /\ s + k <= d /\ s + k <= MemSize
    BY <1>0, <1>3
  <2>2. CopyUp(m, d, s, k, 1) = Copied(m, d, s, k * 1)
    BY <1>0, <2>1, CopyUpIs
  <2> QED
    BY <2>1, <2>2
<1>4. CASE n # 0 /\ e = n
  <2>1. strncpy(m, d, s, n) = Copied(m, d, s, n)
    BY <1>1, <1>3, <1>4 DEF strncpy
  <2>2. Wrong(strncpy(m, d, s, n), m) \subseteq d .. d + n - 1
    BY <2>1, <1>0, WrongWhere
  <2>3. d .. d + n - 1 \subseteq d .. d + n
    OBVIOUS
  <2> QED
    BY <1>4, <2>2, <2>3
<1>5. CASE n # 0 /\ e # n
  <2> DEFINE k == (IF e < n THEN e ELSE n) + 1
  <2>1. k \in Nat /\ k <= e + 1 /\ k <= n + 1 /\ (e < n => k = e + 1)
    BY <1>0
  <2>2. strncpy(m, d, s, n) = CopyUp(m, d, s, k, 1)
    BY <1>1, <1>5 DEF strncpy
  <2> HIDE DEF k
  <2>3. strncpy(m, d, s, n) = Copied(m, d, s, k)
    BY <2>1, <2>2, <1>3
  <2>4. Wrong(strncpy(m, d, s, n), m) \subseteq d .. d + k - 1
    BY <2>1, <2>3, <1>0, WrongWhere
  <2>5. d .. d + k - 1 \subseteq d .. d + n
    BY <2>1
  <2>6. ASSUME e < n PROVE Copied(m, d, s, k)[d + e] = 0
    <3>1. d + e \in Addresses /\ d + e \in d .. d + k - 1 /\ (d + e) - d + s = s + e
      BY <2>1, <2>6, <1>0 DEF Addresses
    <3> QED
      BY <3>1, <1>0 DEF Copied
  <2> QED
    BY <2>3, <2>4, <2>5, <2>6
<1> QED
  BY <1>2, <1>4, <1>5

\* A copy of the first bytes of a string, with an end of its own.
IsCopy(r, m, d, s, n) ==
    r[1] # NULL => /\ r[1] = d /\ n > 0 /\ r[2][d + n] = 0
                   /\ [r[2] EXCEPT ![d + n] = m[d + n]] = Copied(m, d, s, n)

LEMMA StrndupIs ==
    ASSUME NEW m, NEW s, NEW e, IsText(m, s, e), NEW d \in Nat, NEW n \in Nat, NEW given \in BOOLEAN,
           s + e <= d, d + e < MemSize
    PROVE  IsCopy(strndup(m, d, s, n, given), m, d, s, IF n < e THEN n ELSE e)
<1>0. m \in Mem /\ s \in Nat /\ e \in Nat /\ MemSize \in Nat /\ s + e < MemSize
  BY StringsAssumption DEF IsText
<1>1. strlen(m, s) = e
  BY StrlenIs
<1> DEFINE k == IF e < n THEN e ELSE n
           c == Copied(m, d, s, k)
           r == strndup(m, d, s, n, given)
<1>2. k \in Nat /\ k <= e /\ k = IF n < e THEN n ELSE e
  BY <1>0
<1>3. r = IF k = 0 \/ ~given THEN <<NULL, m>> ELSE <<d, Fill(memcpy(m, d, s, k), d + k, 1, 0)>>
  BY <1>1 DEF strndup
<1> HIDE DEF k, r
<1>4. CASE k = 0 \/ ~given
  <2>1. r[1] = NULL
    BY <1>3, <1>4
  <2> QED
    BY <2>1 DEF IsCopy, r
<1>5. CASE k # 0 /\ given
  <2>1. s + k <= d /\ s + k <= MemSize
    BY <1>0, <1>2
  <2>2. memcpy(m, d, s, k) = c
    BY <2>1, <1>0, <1>2, MemcpyIs
  <2>3. r = <<d, Fill(c, d + k, 1, 0)>>
    BY <1>3, <1>5, <2>2
  <2>4. r[1] = d /\ r[2] = Fill(c, d + k, 1, 0)
    BY <2>3
  <2>5. d + k \in Addresses
    BY <1>0, <1>2 DEF Addresses
  <2>6. r[2][d + k] = 0
    <3>1. d + k \in d + k .. d + k + 1 - 1
      BY <1>2
    <3> QED
      BY <2>4, <2>5, <3>1 DEF Fill
  <2>7. [r[2] EXCEPT ![d + k] = m[d + k]] = c
    <3>1. ASSUME NEW a \in Addresses PROVE [r[2] EXCEPT ![d + k] = m[d + k]][a] = c[a]
      <4>1. CASE a = d + k
        <5>1. a \notin d .. d + k - 1
          BY <4>1, <1>2
        <5>2. c[a] = m[a]
          BY <5>1 DEF Copied
        <5> HIDE DEF c
        <5> QED
          BY <4>1, <5>2, <2>4 DEF Fill
      <4>2. CASE a # d + k
        <5>1. a \notin d + k .. d + k + 1 - 1
          BY <4>2, <1>0, <1>2 DEF Addresses
        <5> HIDE DEF c
        <5> QED
          BY <4>2, <5>1, <2>4 DEF Fill
      <4> QED
        BY <4>1, <4>2
    <3>2. c = [a \in Addresses |-> c[a]] /\ DOMAIN r[2] = Addresses
      BY <2>4 DEF Copied, Fill
    <3> HIDE DEF c
    <3> QED
      BY <3>1, <3>2
  <2> HIDE DEF c
  <2>8. k > 0
    BY <1>2, <1>5
  <2>9. IsCopy(r, m, d, s, k)
    BY <2>4, <2>6, <2>7, <2>8 DEF IsCopy, c
  <2> QED
    BY <2>9, <1>2 DEF r
<1> QED
  BY <1>4, <1>5

LEMMA StrdupIs ==
    ASSUME NEW m, NEW s, NEW e, IsText(m, s, e), NEW d \in Nat, NEW given \in BOOLEAN,
           s + e <= d, d + e < MemSize
    PROVE  IsCopy(strdup(m, d, s, given), m, d, s, e)
<1>1. e \in Nat /\ (IF e < e THEN e ELSE e) = e
  BY DEF IsText
<1>2. strdup(m, d, s, given) = strndup(m, d, s, e, given)
  BY StrlenIs DEF strdup
<1> QED
  BY <1>1, <1>2, StrndupIs

\* A fill followed by another of the same byte, and by one of the end with another.
LEMMA FilledUp ==
    ASSUME NEW m, NEW p \in Nat, NEW k \in Nat, NEW u \in Nat, NEW b
    PROVE  Fill(Fill(m, p, k, b), p + k, u, b) = Fill(m, p, k + u, b)
<1> DEFINE c == Fill(m, p, k, b)
<1>1. \A a \in Addresses : c[a] = IF a \in p .. p + k - 1 THEN b ELSE m[a]
  BY DEF Fill
<1>2. ASSUME NEW a \in Addresses
      PROVE  (IF a \in p + k .. p + k + u - 1 THEN b ELSE c[a])
                = IF a \in p .. p + (k + u) - 1 THEN b ELSE m[a]
  <2>1. a \in p .. p + (k + u) - 1 <=> a \in p .. p + k - 1 \/ a \in p + k .. p + k + u - 1
    BY StringsAssumption DEF Addresses
  <2> HIDE DEF c
  <2> QED
    BY <2>1, <1>1
<1> HIDE DEF c
<1>3. Fill(c, p + k, u, b) = Fill(m, p, k + u, b)
  BY <1>2 DEF Fill
<1> QED
  BY <1>3 DEF c

LEMMA FilledOver ==
    ASSUME NEW m, NEW p \in Nat, NEW k \in Nat, NEW u \in Nat, NEW b, NEW z
    PROVE  Fill(Fill(m, p, k, b), p + k, u, z) = Fill(Fill(m, p, k + u, b), p + k, u, z)
<1> DEFINE c == Fill(m, p, k, b)
           f == Fill(m, p, k + u, b)
<1>1. /\ \A a \in Addresses : c[a] = IF a \in p .. p + k - 1 THEN b ELSE m[a]
      /\ \A a \in Addresses : f[a] = IF a \in p .. p + (k + u) - 1 THEN b ELSE m[a]
  BY DEF Fill
<1>2. ASSUME NEW a \in Addresses, a \notin p + k .. p + k + u - 1 PROVE c[a] = f[a]
  <2>1. a \in p .. p + (k + u) - 1 <=> a \in p .. p + k - 1
    BY <1>2, StringsAssumption DEF Addresses
  <2> HIDE DEF c, f
  <2> QED
    BY <2>1, <1>1
<1> HIDE DEF c, f
<1>3. Fill(c, p + k, u, z) = Fill(f, p + k, u, z)
  BY <1>2 DEF Fill
<1> QED
  BY <1>3 DEF c, f

LEMMA RestIs ==
    ASSUME NEW q \in Nat, NEW t \in 0 .. Long - 1
    PROVE  (q * Long + t) % Long = t
BY LongIs, SMT

\* memset fills the block, all but what follows its last word, which is cleared.
LEMMA MemsetIs ==
    ASSUME NEW m, NEW p \in Nat, NEW byte, NEW total \in Nat
    PROVE  memset(m, p, byte, total)
             = IF total < Lead(p) THEN Wild
               ELSE Fill(Fill(m, p, total, byte), (p + total) - ((p + total) % Long), (p + total) % Long, 0)
<1> DEFINE h == Lead(p)
           rest == total - h
           rounds == rest \div Block
           k1 == rounds * Block
           rest2 == rest - k1
           words == rest2 \div Long
           k2 == words * Long
           t == rest2 - k2
           odd == (p + total) % Long
<1>1. CASE total < h
  BY <1>1 DEF memset
<1>2. CASE ~(total < h)
  <2>0. Long \in Nat \ {0} /\ Block \in Nat \ {0} /\ Block = 8 * Long
    BY LongIs
  <2>1. h \in Nat /\ rest \in Nat /\ h + rest = total /\ (p + h) % Long = 0
    <3>1. h \in 0 .. Long - 1 /\ (p + h) % Long = 0
      BY LeadIs
    <3> HIDE DEF h
    <3> QED
      BY <2>0, <3>1, <1>2
  <2>2. memset(m, p, byte, total)
          = Fill(Fill(Fill(Fill(m, p, h, byte), p + h, k1, byte), p + h + k1, k2, byte),
                 p + h + k1 + k2, t, 0)
    BY <1>2 DEF memset
  <2> HIDE DEF h, rest
  <2>3. rounds \in Nat /\ k1 \in Nat /\ k1 <= rest
    <3>1. rounds \in Nat /\ rounds * Block <= rest
      BY <2>0, <2>1, Divided
    <3> HIDE DEF rounds
    <3>2. rounds * Block \in Nat
      BY <2>0, <3>1, Times
    <3> QED
      BY <3>1, <3>2
  <2>4. k1 = (8 * rounds) * Long
    BY <2>0, <2>3, SMT
  <2> HIDE DEF rounds, k1
  <2>5. rest2 \in Nat /\ k1 + rest2 = rest
    BY <2>1, <2>3
  <2> HIDE DEF rest2
  <2>6. words \in Nat /\ k2 \in Nat /\ k2 <= rest2 /\ rest2 < k2 + Long
    BY <2>0, <2>5, Divided, Times
  <2>7. k2 = words * Long
    OBVIOUS
  <2> HIDE DEF words, k2
  <2>8. t \in 0 .. Long - 1 /\ k2 + t = rest2 /\ t \in Nat
    BY <2>0, <2>5, <2>6
  <2> HIDE DEF t
  <2>9. h + k1 + k2 \in Nat /\ (h + k1 + k2) + t = total /\ h + k1 \in Nat
        /\ p + h + k1 = p + (h + k1) /\ p + h + k1 + k2 = p + (h + k1 + k2)
    BY <2>1, <2>3, <2>5, <2>6, <2>8
  <2>10. odd = t
    <3> DEFINE q == (p + h) \div Long
               n == q + 8 * rounds + words
    <3>1. q \in Nat /\ q * Long = p + h
      BY <2>0, <2>1, SMT
    <3> HIDE DEF q
    <3>2. n \in Nat /\ n * Long = q * Long + (8 * rounds) * Long + words * Long
      BY <2>0, <2>3, <2>6, <3>1, SMT
    <3> HIDE DEF n
    <3>3. p + total = n * Long + t
      BY <2>1, <2>4, <2>5, <2>7, <2>8, <2>9, <3>1, <3>2
    <3>4. (n * Long + t) % Long = t
      BY <2>8, <3>2, RestIs
    <3> QED
      BY <3>3, <3>4
  <2> HIDE DEF odd
  <2>11. Fill(Fill(m, p, h, byte), p + h, k1, byte) = Fill(m, p, h + k1, byte)
    BY <2>1, <2>3, FilledUp
  <2>12. Fill(Fill(m, p, h + k1, byte), p + (h + k1), k2, byte) = Fill(m, p, h + k1 + k2, byte)
    BY <2>6, <2>9, FilledUp
  <2> DEFINE k == h + k1 + k2
  <2>13. k \in Nat /\ k + t = total /\ p + h + k1 + k2 = p + k
    BY <2>9
  <2>14. memset(m, p, byte, total) = Fill(Fill(m, p, k, byte), p + k, t, 0)
    BY <2>2, <2>9, <2>11, <2>12
  <2> HIDE DEF k
  <2>15. Fill(Fill(m, p, k, byte), p + k, t, 0) = Fill(Fill(m, p, k + t, byte), p + k, t, 0)
    BY <2>8, <2>13, FilledOver
  <2>16. p + k = (p + total) - odd
    BY <2>8, <2>10, <2>13
  <2>17. memset(m, p, byte, total) = Fill(Fill(m, p, total, byte), (p + total) - odd, odd, 0)
    BY <2>10, <2>13, <2>14, <2>15, <2>16
  <2> QED
    BY <2>17, <1>2 DEF odd, h
<1> QED
  BY <1>1, <1>2

\* Where the first difference is.
DifferAt(m, p, q, k) == m[p + k] # m[q + k] /\ \A j \in 0 .. k - 1 : m[p + j] = m[q + j]

LEMMA FirstDiffIs ==
    ASSUME NEW m, NEW p, NEW q, NEW n \in Nat, NEW k \in 0 .. n - 1, DifferAt(m, p, q, k)
    PROVE  FirstDiff(m, p, q, n) = k
<1> DEFINE Good(i) == (i = n \/ m[p + i] # m[q + i]) /\ \A j \in 0 .. i - 1 : m[p + j] = m[q + j]
           f == CHOOSE i \in 0 .. n : Good(i)
<1>1. k \in 0 .. n /\ Good(k)
  BY DEF DifferAt
<1>2. f \in 0 .. n /\ Good(f)
  <2> HIDE DEF Good
  <2> QED
    BY <1>1
<1>3. f = FirstDiff(m, p, q, n)
  BY DEF FirstDiff
<1> HIDE DEF f
<1>4. ~(f < k)
  BY <1>2 DEF DifferAt
<1>5. ~(k < f)
  BY <1>2 DEF DifferAt
<1> QED
  BY <1>2, <1>3, <1>4, <1>5

LEMMA FirstDiffNone ==
    ASSUME NEW m, NEW p, NEW q, NEW n \in Nat, \A j \in 0 .. n - 1 : m[p + j] = m[q + j]
    PROVE  FirstDiff(m, p, q, n) = n
<1> DEFINE Good(i) == (i = n \/ m[p + i] # m[q + i]) /\ \A j \in 0 .. i - 1 : m[p + j] = m[q + j]
           f == CHOOSE i \in 0 .. n : Good(i)
<1>1. n \in 0 .. n /\ Good(n)
  OBVIOUS
<1>2. f \in 0 .. n /\ Good(f)
  <2> HIDE DEF Good
  <2> QED
    BY <1>1
<1>3. f = FirstDiff(m, p, q, n)
  BY DEF FirstDiff
<1> HIDE DEF f
<1> QED
  BY <1>2, <1>3

\* What is compared at the beginning and by words, and what is left.
LEMMA MemcmpParts ==
    ASSUME NEW p \in Nat, NEW q \in Nat, NEW total \in Nat, ~(total < Front(p, q))
    PROVE  LET front == Front(p, q)
               words == Longs(p, q, total)
               done == words * Long
               tail == total - front - done
           IN  /\ front \in Nat /\ words \in Nat /\ done \in Nat /\ tail \in Nat
               /\ words = 0 => done = 0
               /\ words > 0 => tail < done
<1> DEFINE front == Front(p, q)
           rest == total - front
           words == Longs(p, q, total)
           done == words * Long
           tail == total - front - done
<1>1. Long \in Nat \ {0}
  BY LongIs
<1>2. front \in Nat
  <2>1. Lead(p) \in 0 .. Long - 1
    BY LeadIs
  <2> QED
    BY <1>1, <2>1 DEF Front
<1>3. rest \in Nat /\ rest = total - front
  <2> HIDE DEF front
  <2>1. ~(total < front)
    BY DEF front
  <2> QED
    BY <1>2, <2>1
<1>4. CASE ~Alike(p, q)
  <2>1. words = 0 /\ done = 0
    BY <1>1, <1>4 DEF Longs
  <2> HIDE DEF front, words, done
  <2>2. tail \in Nat
    BY <1>2, <1>3, <2>1
  <2> QED
    BY <1>2, <2>1, <2>2 DEF front, words, done
<1>5. CASE Alike(p, q)
  <2>1. words = rest \div Long
    BY <1>5 DEF Longs
  <2> HIDE DEF front, rest, words
  <2>2. words \in Nat /\ words * Long <= rest /\ rest < words * Long + Long
    BY <1>1, <1>3, <2>1, Divided
  <2>3. done \in Nat /\ (words = 0 => done = 0) /\ (words > 0 => done >= Long)
    BY <1>1, <2>2, SMT
  <2> HIDE DEF done
  <2>4. done = words * Long
    BY DEF done
  <2>5. tail \in Nat /\ tail < Long
    BY <1>1, <1>2, <1>3, <2>2, <2>3, <2>4
  <2> HIDE DEF tail
  <2>6. words > 0 => tail < done
    BY <1>1, <2>3, <2>5
  <2> QED
    BY <1>2, <2>2, <2>3, <2>5, <2>6 DEF front, words, done, tail
<1> QED
  BY <1>4, <1>5

\* What r tells of a first difference at k.
Tells(m, p, q, total, k, r) ==
    IF total < Front(p, q) \/ k < Front(p, q) + Longs(p, q, total) * Long
    THEN r = m[p + k] - m[q + k]
    ELSE IF Longs(p, q, total) > 0 THEN r \in {Hang, -1, 1}
    ELSE r = Hang \/ r = m[p + k] - m[q + k]

\* memcmp of blocks that differ in one byte: the right answer before the tail,
\* none in a tail behind words, and in a tail alone a right one or none.
LEMMA MemcmpIs ==
    ASSUME NEW m, NEW p \in Nat, NEW q \in Nat, NEW total \in Nat, NEW k \in 0 .. total - 1,
           DifferAt(m, p, q, k), NEW r \in memcmp(m, p, q, total)
    PROVE  Tells(m, p, q, total, k, r)
<1> DEFINE front == Front(p, q)
           words == Longs(p, q, total)
           done == words * Long
           tail == total - front - done
           i == FirstDiff(m, p, q, total)
           t == FirstDiff(m, p + front, q + front, tail)
           last == IF front > 0 THEN {0} ELSE {-1, 0, 1}
           diff == m[p + k] - m[q + k]
<1>1. total # 0 /\ k \in Nat
  OBVIOUS
<1>2. i = k
  BY FirstDiffIs
<1>3. CASE total < front
  <2>1. front \in Nat
    <3>1. Lead(p) \in 0 .. Long - 1
      BY LeadIs
    <3> QED
      BY <3>1, LongIs DEF Front
  <2> HIDE DEF front
  <2>2. k \in 0 .. front - 1
    BY <2>1, <1>3
  <2>3. FirstDiff(m, p, q, front) = k
    BY <2>1, <2>2, FirstDiffIs, Zenon
  <2>4. k < front
    BY <2>1, <2>2
  <2>5. memcmp(m, p, q, total) = {diff}
    BY <1>1, <1>3, <2>3, <2>4 DEF memcmp, front
  <2> QED
    BY <1>3, <2>5 DEF front, Tells
<1>4. CASE ~(total < front)
  <2>1. memcmp(m, p, q, total) =
          IF i < total - tail THEN {m[p + i] - m[q + i]}
          ELSE {IF v = 0 /\ t > 0 THEN Hang
                ELSE IF t < tail THEN m[p + front + t] - m[q + front + t]
                ELSE v : v \in last}
    BY <1>1, <1>4 DEF memcmp
  <2>2. /\ front \in Nat /\ words \in Nat /\ done \in Nat /\ tail \in Nat
        /\ words = 0 => done = 0
        /\ words > 0 => tail < done
    BY <1>4, MemcmpParts
  <2>3. last \subseteq {-1, 0, 1}
    OBVIOUS
  <2>4. tail = total - front - done
    OBVIOUS
  <2> HIDE DEF front, words, done, tail, i, last
  <2>5. CASE k < front + done
    <3>1. i < total - tail
      BY <1>1, <1>2, <2>2, <2>4, <2>5
    <3>2. r = diff
      BY <1>2, <2>1, <3>1
    <3> QED
      BY <2>5, <3>2 DEF front, words, done, Tells
  <2>6. CASE ~(k < front + done)
    <3>1. ~(i < total - tail)
      BY <1>1, <1>2, <2>2, <2>4, <2>6
    <3>2. PICK v \in last : r = IF v = 0 /\ t > 0 THEN Hang
                                ELSE IF t < tail THEN m[p + front + t] - m[q + front + t]
                                ELSE v
      BY <2>1, <3>1
    <3>3. CASE words > 0
      <4>1. \A j \in 0 .. tail - 1 : m[p + front + j] = m[q + front + j]
        <5> TAKE j \in 0 .. tail - 1
        <5>1. front + j \in 0 .. k - 1 /\ p + front + j = p + (front + j) /\ q + front + j = q + (front + j)
          BY <1>1, <2>2, <2>6, <3>3
        <5> QED
          BY <5>1 DEF DifferAt
      <4>2. t = tail
        <5>1. FirstDiff(m, p + front, q + front, tail) = tail
          BY <2>2, <4>1, FirstDiffNone
        <5> QED
          BY <5>1
      <4> HIDE DEF t
      <4>3. tail > 0
        BY <1>1, <2>2, <2>4, <2>6
      <4>4. r \in {Hang, -1, 1}
        BY <2>2, <2>3, <3>2, <4>2, <4>3
      <4> QED
        BY <1>4, <2>6, <3>3, <4>4 DEF front, words, done, Tells
    <3>4. CASE ~(words > 0)
      <4>1. done = 0 /\ tail = total - front
        BY <1>1, <2>2, <2>4, <3>4
      <4> DEFINE l == k - front
      <4>2. l \in 0 .. tail - 1 /\ front + l = k /\ p + front + l = p + k /\ q + front + l = q + k
        BY <1>1, <2>2, <2>6, <4>1
      <4>3. \A j \in 0 .. l - 1 : m[p + front + j] = m[q + front + j]
        <5> TAKE j \in 0 .. l - 1
        <5>1. front + j \in 0 .. k - 1 /\ p + front + j = p + (front + j) /\ q + front + j = q + (front + j)
          BY <1>1, <2>2
        <5> QED
          BY <5>1 DEF DifferAt
      <4> HIDE DEF l
      <4>4. DifferAt(m, p + front, q + front, l)
        <5>1. m[p + front + l] # m[q + front + l]
          BY <4>2 DEF DifferAt
        <5> QED
          BY <4>3, <5>1 DEF DifferAt
      <4>5. t = l
        BY <2>2, <4>2, <4>4, FirstDiffIs
      <4> HIDE DEF t
      <4>6. t < tail /\ m[p + front + t] - m[q + front + t] = diff
        BY <2>2, <4>2, <4>5
      <4>7. r = Hang \/ r = diff
        BY <3>2, <4>6
      <4> QED
        BY <1>4, <2>6, <3>4, <4>7 DEF front, words, done, Tells
    <3> QED
      BY <3>3, <3>4
  <2> QED
    BY <2>5, <2>6
<1> QED
  BY <1>3, <1>4

\* Memory without zeros.
LEMMA DistinctIs ==
    Distinct \in Mem /\ \A a \in Addresses : Distinct[a] \in 1 .. 255
BY StringsAssumption DEF Distinct, Mem, Addresses

LEMMA MemchrIs ==
    ASSUME NEW p \in Nat, NEW ch \in 0 .. 255, NEW n \in Nat, p + n < MemSize
    PROVE  memchr(Distinct, p, ch, n) # NULL
             => memchr(Distinct, p, ch, n) \in p .. p + n - 1 /\ Distinct[memchr(Distinct, p, ch, n)] = ch
<1> DEFINE T == {i \in 0 .. n : i = n \/ Distinct[p + i] = Char(ch)}
           at == Min(T)
<1>1. at \in T
  <2>1. n \in T /\ T \in SUBSET Nat
    OBVIOUS
  <2> HIDE DEF T
  <2> QED
    BY <2>1, MinIs
<1>2. memchr(Distinct, p, ch, n) = IF at = n THEN NULL ELSE p + at
  BY DEF memchr
<1> HIDE DEF at
<1>3. ASSUME at # n PROVE p + at \in p .. p + n - 1 /\ Distinct[p + at] = ch
  <2>1. at \in 0 .. n - 1 /\ Distinct[p + at] = Char(ch)
    BY <1>1, <1>3
  <2>2. p + at \in Addresses
    BY <2>1, StringsAssumption DEF Addresses
  <2>3. Char(ch) \in 1 .. 255
    BY <2>1, <2>2, DistinctIs
  <2>4. Char(ch) = ch
    BY <2>3 DEF Char
  <2> QED
    BY <2>1, <2>4
<1> QED
  BY <1>2, <1>3

LEMMA MemrchrIs ==
    ASSUME NEW p \in Nat, NEW ch \in 0 .. 127, NEW n \in Nat, p + n < MemSize,
           memrchr(Distinct, p, ch, n) = NULL
    PROVE  \A a \in p .. p + n - 1 : Distinct[a] # ch
<1> DEFINE T == {i \in 0 .. n : i = n \/ Distinct[p + n - 1 - i] = Char(ch)}
           at == Min(T)
<1>1. at \in T /\ \A i \in T : at <= i
  <2>1. n \in T /\ T \in SUBSET Nat
    OBVIOUS
  <2> HIDE DEF T
  <2> QED
    BY <2>1, MinIs
<1>2. memrchr(Distinct, p, ch, n) = IF at = n THEN NULL ELSE p + n - 1 - at
  BY DEF memrchr
<1> HIDE DEF at
<1>3. at = n
  <2>1. p + n - 1 - at = NULL => at = n
    BY <1>1 DEF NULL
  <2> QED
    BY <1>2, <2>1
<1>4. Char(ch) = ch
  BY DEF Char
<1>5. ASSUME NEW a \in p .. p + n - 1 PROVE Distinct[a] # ch
  <2> DEFINE i == p + n - 1 - a
  <2>1. i \in 0 .. n /\ i < n /\ p + n - 1 - i = a
    OBVIOUS
  <2> HIDE DEF i
  <2>2. i \notin T
    BY <1>1, <1>3, <2>1
  <2>3. Distinct[p + n - 1 - i] # Char(ch)
    BY <2>1, <2>2
  <2> QED
    BY <2>1, <2>3, <1>4
<1> QED
  BY <1>5

\* The two strings of the calls.
LEMMA TextIs ==
    ASSUME NEW A, NEW i \in 0 .. TextLen, NEW j \in 0 .. TextLen
    PROVE  /\ TextOf(A, i, j) \in Mem
           /\ IsText(TextOf(A, i, j), 0, i) /\ IsText(TextOf(A, i, j), Place2, j)
           /\ \A a \in Addresses : /\ TextOf(A, i, j)[a] \in 0 .. 127
                                   /\ a >= Place3 => TextOf(A, i, j)[a] = 0
<1> DEFINE m == TextOf(A, i, j)
<1>0. /\ TextLen \in Nat /\ Place2 \in Nat /\ Place3 \in Nat /\ MemSize \in Nat
      /\ Place2 = TextLen + 1 /\ Place3 = Place2 + Place2 /\ Place3 + Place3 <= MemSize
  BY PlacesAre
<1>1. \A a \in Addresses : m[a] = IF a \in {i, Place2 + j} \/ a >= Place3 THEN 0 ELSE IF a \in A THEN 97 ELSE 98
  BY DEF TextOf
<1>2. m = [a \in Addresses |-> m[a]]
  BY DEF TextOf
<1>3. /\ \A a \in Addresses : m[a] \in 0 .. 127 /\ (a >= Place3 => m[a] = 0)
      /\ \A a \in Addresses : m[a] # 0 <=> a # i /\ a # Place2 + j /\ ~(a >= Place3)
  <2> HIDE DEF m
  <2> QED
    BY <1>1
<1> HIDE DEF m
<1>4. m \in Mem
  BY <1>2, <1>3 DEF Mem
<1>5. IsText(m, 0, i)
  <2>1. 0 + i \in Addresses /\ m[0 + i] = 0
    BY <1>0, <1>3 DEF Addresses
  <2>2. ASSUME NEW k \in 0 .. i - 1 PROVE m[0 + k] # 0
    <3>1. 0 + k \in Addresses /\ 0 + k # i /\ 0 + k # Place2 + j /\ ~(0 + k >= Place3)
      BY <1>0 DEF Addresses
    <3> QED
      BY <3>1, <1>3
  <2> QED
    BY <1>0, <1>4, <2>1, <2>2 DEF IsText
<1>6. IsText(m, Place2, j)
  <2>1. Place2 + j \in Addresses /\ m[Place2 + j] = 0
    BY <1>0, <1>3 DEF Addresses
  <2>2. ASSUME NEW k \in 0 .. j - 1 PROVE m[Place2 + k] # 0
    <3>1. Place2 + k \in Addresses /\ Place2 + k # i /\ Place2 + k # Place2 + j /\ ~(Place2 + k >= Place3)
      BY <1>0 DEF Addresses
    <3> QED
      BY <3>1, <1>3
  <2> QED
    BY <1>0, <1>4, <2>1, <2>2 DEF IsText
<1> QED
  BY <1>3, <1>4, <1>5, <1>6 DEF m

\* What strtok has between two calls: memory in which zeros have been written,
\* and the place to go on at.  Inside the first string nothing has been
\* written from there on, and the byte before it is zero.
Going(m, i, st) ==
    /\ st \in [mem : Mem, ret : Int, curtok : Int]
    /\ st.mem[i] = 0 /\ \A a \in Addresses : a >= Place3 => st.mem[a] = 0
    /\ st.curtok # NULL =>
        /\ st.curtok \in 1 .. Place3 - 1 /\ st.curtok # i /\ st.ret < st.curtok
        /\ st.curtok < i => /\ \A a \in st.curtok .. Place3 - 1 : st.mem[a] = m[a]
                            /\ st.mem[st.curtok - 1] = 0

\* A token in the first string is what the caller wrote there, has no separator
\* in it and ends at one or at the end.
TokenIs(m, i, set, st) ==
    st.ret \in 0 .. i - 1 =>
        LET end == st.ret + strlen(st.mem, st.ret)
        IN  /\ \A a \in st.ret .. end - 1 : st.mem[a] = m[a] /\ m[a] \notin set
            /\ end = i \/ (end < i /\ m[end] \in set)

Cut(mem, start) ==
    LET end == start + strcspn(mem, start, Place2)
        cut == Fill(mem, end, 1, 0)
    IN  [mem |-> cut, ret |-> start, curtok |-> IF cut[end + 1] = 0 THEN NULL ELSE end + 1]

CanCut(m, i, mem, start) ==
    /\ mem \in Mem /\ start \in 0 .. Place3 - 1
    /\ mem[i] = 0 /\ \A a \in Addresses : a >= Place3 => mem[a] = 0
    /\ start < i => \A a \in start .. Place3 - 1 : mem[a] = m[a]

LEMMA CutIs ==
    ASSUME NEW m, NEW i \in 0 .. TextLen, NEW j \in 0 .. TextLen, IsText(m, 0, i), IsText(m, Place2, j),
           NEW mem, NEW start, CanCut(m, i, mem, start)
    PROVE  Going(m, i, Cut(mem, start)) /\ TokenIs(m, i, BytesAt(m, Place2, j), Cut(mem, start))
           /\ Cut(mem, start).ret = start
<1> DEFINE f == strcspn(mem, start, Place2)
           end == start + f
           cut == Fill(mem, end, 1, 0)
           st == Cut(mem, start)
           set == BytesAt(m, Place2, j)
<1>0. /\ TextLen \in Nat /\ Place2 \in Nat /\ Place3 \in Nat /\ MemSize \in Nat
      /\ Place2 = TextLen + 1 /\ Place3 = Place2 + Place2 /\ Place3 + Place3 <= MemSize
      /\ start \in 0 .. Place3 - 1 /\ mem \in Mem
  BY PlacesAre DEF CanCut
<1>1. f \in 0 .. Place3 - start
  <2> DEFINE T == {k \in Offsets(start) : mem[start + k] = 0 \/ Stop(mem, Place2, mem[start + k]) # 0}
  <2>1. start + (Place3 - start) = Place3 /\ Place3 \in Addresses /\ Place3 - start \in Offsets(start)
    BY <1>0 DEF Addresses, Offsets
  <2>2. mem[Place3] = 0
    BY <1>0, <2>1 DEF CanCut
  <2>3. Place3 - start \in T
    BY <2>1, <2>2
  <2>4. T \in SUBSET Nat
    BY DEF Offsets
  <2>5. f = Min(T)
    BY DEF strcspn
  <2> HIDE DEF T, f
  <2>6. Min(T) \in Nat /\ Min(T) <= Place3 - start
    BY <2>3, <2>4, MinIs
  <2> QED
    BY <1>0, <2>5, <2>6
<1>2. st = [mem |-> cut, ret |-> start, curtok |-> IF cut[end + 1] = 0 THEN NULL ELSE end + 1]
  BY DEF Cut
<1> HIDE DEF f, st
<1>3. end \in start .. Place3 /\ end \in Nat
  BY <1>0, <1>1
<1>4. \A a \in Addresses : cut[a] = IF a = end THEN 0 ELSE mem[a]
  <2>1. end .. end + 1 - 1 = {end}
    BY <1>3
  <2> HIDE DEF end
  <2> QED
    BY <2>1 DEF Fill
<1>5. cut \in Mem
  <2>1. cut = [a \in Addresses |-> cut[a]]
    BY DEF Fill
  <2> HIDE DEF cut, end
  <2> QED
    BY <2>1, <1>0, <1>4 DEF Mem
<1> HIDE DEF cut
<1>6. i \in Addresses /\ mem[i] = 0
  BY <1>0 DEF CanCut, Addresses
<1>7. \A a \in Addresses : a >= Place3 => cut[a] = 0
  BY <1>4 DEF CanCut
<1>8. cut[i] = 0 /\ cut[end] = 0 /\ end \in Addresses
  <2>1. end \in Addresses
    BY <1>0, <1>3 DEF Addresses
  <2> HIDE DEF end
  <2> QED
    BY <2>1, <1>4, <1>6
<1> HIDE DEF end
<1>9. st.mem = cut /\ st.ret = start /\ st.curtok = IF cut[end + 1] = 0 THEN NULL ELSE end + 1
  BY <1>2
<1>10. ASSUME start < i
       PROVE  /\ f \in 0 .. i - start
              /\ \A k \in 0 .. f - 1 : mem[start + k] # 0 /\ mem[start + k] \notin set
              /\ f # i - start => mem[start + f] \in set
  <2> DEFINE e == i - start
  <2>0. \A a \in start .. Place3 - 1 : mem[a] = m[a]
    BY <1>10 DEF CanCut
  <2>1. IsText(mem, start, e)
    <3>1. e \in Nat /\ start + e = i /\ start + e < MemSize
      BY <1>0, <1>10
    <3>2. ASSUME NEW k \in 0 .. e - 1 PROVE mem[start + k] # 0
      <4>1. start + k \in start .. Place3 - 1 /\ start + k \in 0 .. i - 1
        BY <1>0
      <4>2. m[0 + (start + k)] # 0 /\ 0 + (start + k) = start + k
        BY <4>1, <1>0 DEF IsText
      <4> QED
        BY <4>1, <4>2, <2>0
    <3> HIDE DEF e
    <3> QED
      BY <1>0, <1>6, <3>1, <3>2 DEF IsText
  <2>2. ASSUME NEW k \in 0 .. TextLen PROVE mem[Place2 + k] = m[Place2 + k]
    <3>1. Place2 + k \in start .. Place3 - 1
      BY <1>10, <1>0
    <3> QED
      BY <3>1, <2>0
  <2>3. IsText(mem, Place2, j)
    <3>1. \A k \in 0 .. j - 1 : k \in 0 .. TextLen
      BY <1>0
    <3> QED
      BY <3>1, <2>2, <1>0 DEF IsText
  <2>4. BytesAt(mem, Place2, j) = set
    <3>1. \A k \in 0 .. j - 1 : mem[Place2 + k] = m[Place2 + k]
      BY <1>0, <2>2
    <3> QED
      BY <3>1 DEF BytesAt
  <2> HIDE DEF e, set
  <2>5. /\ f \in 0 .. e
        /\ \A k \in 0 .. f - 1 : mem[start + k] # 0 /\ mem[start + k] \notin BytesAt(mem, Place2, j)
        /\ f # e => mem[start + f] \in BytesAt(mem, Place2, j)
    BY <2>1, <2>3, StrcspnIs DEF f
  <2> QED
    BY <2>4, <2>5 DEF e
<1>11. Going(m, i, st)
  <2>1. st \in [mem : Mem, ret : Int, curtok : Int]
    BY <1>0, <1>2, <1>3, <1>5 DEF NULL
  <2>2. ASSUME st.curtok # NULL PROVE st.curtok = end + 1 /\ cut[end + 1] # 0
    BY <1>9, <2>2
  <2>3. ASSUME st.curtok # NULL PROVE end + 1 \in 1 .. Place3 - 1 /\ end + 1 # i
    <3>1. end + 1 \in Addresses
      BY <1>0, <1>3 DEF Addresses
    <3>2. ~(end + 1 >= Place3)
      BY <2>2, <2>3, <3>1, <1>7
    <3> QED
      BY <3>1, <3>2, <2>2, <2>3, <1>0, <1>3, <1>8
  <2>4. ASSUME end + 1 < i PROVE \A a \in end + 1 .. Place3 - 1 : cut[a] = m[a]
    <3> TAKE a \in end + 1 .. Place3 - 1
    <3>1. a \in Addresses /\ a \in start .. Place3 - 1 /\ a # end /\ start < i
      BY <1>0, <1>3, <2>4 DEF Addresses
    <3> QED
      BY <3>1, <1>4 DEF CanCut
  <2>5. end + 1 - 1 = end /\ start < end + 1
    BY <1>0, <1>3
  <2>6. ASSUME st.curtok # NULL
        PROVE  /\ st.curtok \in 1 .. Place3 - 1 /\ st.curtok # i /\ st.ret < st.curtok
               /\ st.curtok < i => /\ \A a \in st.curtok .. Place3 - 1 : st.mem[a] = m[a]
                                   /\ st.mem[st.curtok - 1] = 0
    <3> DEFINE next == end + 1
    <3>1. next \in 1 .. Place3 - 1 /\ next # i /\ start < next
      BY <2>3, <2>5, <2>6
    <3>2. st.curtok = next /\ next - 1 = end
      BY <2>2, <2>6, <1>3
    <3>3. next < i => \A a \in next .. Place3 - 1 : cut[a] = m[a]
      BY <2>4
    <3> HIDE DEF next
    <3> QED
      BY <3>1, <3>2, <3>3, <1>8, <1>9
  <2>7. st.mem[i] = 0 /\ \A a \in Addresses : a >= Place3 => st.mem[a] = 0
    BY <1>7, <1>8, <1>9
  <2> QED
    BY <2>1, <2>6, <2>7 DEF Going
<1>12. TokenIs(m, i, set, st)
  <2> SUFFICES ASSUME start \in 0 .. i - 1
               PROVE  LET last == start + strlen(cut, start)
                      IN  /\ \A a \in start .. last - 1 : cut[a] = m[a] /\ m[a] \notin set
                          /\ last = i \/ (last < i /\ m[last] \in set)
    <3> HIDE DEF set
    <3> QED
      BY <1>9 DEF TokenIs
  <2>1. start < i /\ start \in Nat
    OBVIOUS
  <2> HIDE DEF set
  <2>2. /\ f \in 0 .. i - start
        /\ \A k \in 0 .. f - 1 : mem[start + k] # 0 /\ mem[start + k] \notin set
        /\ f # i - start => mem[start + f] \in set
    BY <1>10, <2>1
  <2>3. \A a \in start .. Place3 - 1 : mem[a] = m[a]
    BY <2>1 DEF CanCut
  <2>4. end = start + f /\ end <= i
    BY <2>1, <2>2 DEF end
  <2>5. ASSUME NEW a \in start .. end - 1 PROVE cut[a] = mem[a] /\ mem[a] # 0 /\ mem[a] \notin set /\ mem[a] = m[a]
    <3> DEFINE k == a - start
    <3>1. k \in 0 .. f - 1 /\ start + k = a /\ a \in Addresses /\ a # end /\ a \in start .. Place3 - 1
      BY <1>0, <1>1, <1>3, <2>1, <2>4 DEF Addresses
    <3> HIDE DEF k
    <3> QED
      BY <3>1, <2>2, <2>3, <1>4
  <2>6. IsText(cut, start, f)
    <3>1. f \in Nat /\ start + f < MemSize /\ cut[start + f] = 0
      BY <1>0, <1>1, <1>8, <2>4
    <3>2. ASSUME NEW k \in 0 .. f - 1 PROVE cut[start + k] # 0
      <4>1. start + k \in start .. end - 1
        BY <1>0, <1>1, <2>4
      <4> QED
        BY <4>1, <2>5
    <3> QED
      BY <3>1, <3>2, <1>5, <2>1 DEF IsText
  <2>7. start + strlen(cut, start) = end
    BY <2>4, <2>6, StrlenIs
  <2>8. end # i => end < i /\ m[end] \in set
    <3>1. end # i => f # i - start /\ end < i /\ end \in start .. Place3 - 1
      BY <1>0, <1>1, <2>1, <2>4
    <3> QED
      BY <3>1, <2>2, <2>3, <2>4
  <2>9. \A a \in start .. end - 1 : cut[a] = m[a] /\ m[a] \notin set
    BY <2>5
  <2> QED
    BY <2>7, <2>8, <2>9
<1> QED
  BY <1>9, <1>11, <1>12 DEF st

\* A further call.
LEMMA TokenNext ==
    ASSUME NEW m, NEW i \in 0 .. TextLen, NEW j \in 0 .. TextLen, IsText(m, 0, i), IsText(m, Place2, j),
           NEW st, Going(m, i, st)
    PROVE  LET next == strtok(st, NULL, Place2)
           IN  /\ Going(m, i, next) /\ TokenIs(m, i, BytesAt(m, Place2, j), next)
               /\ next.ret \in 0 .. i - 1 => st.mem[next.ret - 1] = 0 /\ next.ret > st.ret
<1> DEFINE next == strtok(st, NULL, Place2)
           set == BytesAt(m, Place2, j)
<1>1. CASE st.curtok = NULL
  <2>1. next = [st EXCEPT !.ret = NULL]
    BY <1>1 DEF strtok
  <2>2. st \in [mem : Mem, ret : Int, curtok : Int]
    BY DEF Going
  <2> HIDE DEF next, set
  <2>3. /\ next \in [mem : Mem, ret : Int, curtok : Int]
        /\ next.ret = NULL /\ next.curtok = NULL /\ next.mem = st.mem
    BY <2>1, <2>2, <1>1 DEF NULL
  <2>4. next.ret \notin 0 .. i - 1
    BY <2>3 DEF NULL
  <2>5. Going(m, i, next)
    BY <2>3 DEF Going
  <2>6. TokenIs(m, i, set, next)
    BY <2>4 DEF TokenIs
  <2> QED
    BY <2>4, <2>5, <2>6 DEF next, set
<1>2. CASE st.curtok # NULL
  <2>1. next = Cut(st.mem, st.curtok)
    BY <1>2 DEF strtok, Cut
  <2> HIDE DEF next, set
  <2>2. CanCut(m, i, st.mem, st.curtok)
    <3>1. st.mem \in Mem /\ st.curtok \in 0 .. Place3 - 1
      BY <1>2 DEF Going
    <3> QED
      BY <3>1, <1>2 DEF CanCut, Going
  <2>3. Going(m, i, next) /\ TokenIs(m, i, set, next) /\ next.ret = st.curtok
    BY <2>1, <2>2, CutIs DEF set
  <2>4. ASSUME next.ret \in 0 .. i - 1 PROVE st.mem[next.ret - 1] = 0 /\ next.ret > st.ret
    <3>1. st.curtok < i
      BY <2>3, <2>4
    <3>2. st.mem[st.curtok - 1] = 0 /\ st.ret < st.curtok /\ st.ret \in Int /\ st.curtok \in Int
      BY <3>1, <1>2 DEF Going
    <3> QED
      BY <3>2, <2>3
  <2> QED
    BY <2>3, <2>4 DEF next, set
<1> QED
  BY <1>1, <1>2

\* The first call, of the string at 0.
LEMMA TokenFirst ==
    ASSUME NEW m, NEW i \in 0 .. TextLen, NEW j \in 0 .. TextLen, IsText(m, 0, i), IsText(m, Place2, j),
           \A a \in Addresses : a >= Place3 => m[a] = 0
    PROVE  LET st == strtok([mem |-> m, curtok |-> NULL, ret |-> NULL], 0, Place2)
           IN  Going(m, i, st) /\ TokenIs(m, i, BytesAt(m, Place2, j), st)
<1> DEFINE st0 == [mem |-> m, curtok |-> NULL, ret |-> NULL]
           st == strtok(st0, 0, Place2)
           set == BytesAt(m, Place2, j)
<1>0. m \in Mem /\ m[0 + i] = 0 /\ 0 + i = i
  BY DEF IsText
<1>1. st0.mem = m /\ st0.curtok = NULL
  OBVIOUS
<1>2. CASE m[0] = 0
  <2>1. st = [mem |-> m, curtok |-> NULL, ret |-> NULL]
    BY <1>1, <1>2 DEF strtok
  <2> HIDE DEF st, set
  <2>2. st.ret \notin 0 .. i - 1 /\ st.curtok = NULL /\ st.mem = m
        /\ st \in [mem : Mem, ret : Int, curtok : Int]
    BY <2>1, <1>0 DEF NULL
  <2>3. Going(m, i, st)
    BY <2>2, <1>0 DEF Going
  <2>4. TokenIs(m, i, set, st)
    BY <2>2 DEF TokenIs
  <2> QED
    BY <2>3, <2>4 DEF st, set, st0
<1>3. CASE m[0] # 0
  <2> DEFINE start == 0 + strspn(m, 0, Place2)
  <2>1. start \in 0 .. Place3 - 1
    <3>1. strspn(m, 0, Place2) \in 0 .. i
      BY StrspnIs
    <3> HIDE DEF start
    <3>2. start = strspn(m, 0, Place2)
      BY <3>1 DEF start
    <3>3. i \in 0 .. Place3 - 1 /\ Place3 \in Nat
      BY PlacesAre
    <3> QED
      BY <3>1, <3>2, <3>3
  <2>2. start # NULL /\ 0 # NULL
    BY <2>1 DEF NULL
  <2>3. st = Cut(m, start)
    BY <1>1, <1>3, <2>2 DEF strtok, Cut
  <2> HIDE DEF start, st, set
  <2>4. CanCut(m, i, m, start)
    BY <1>0, <2>1 DEF CanCut
  <2>5. Going(m, i, st) /\ TokenIs(m, i, set, st)
    BY <2>3, <2>4, CutIs DEF set
  <2> QED
    BY <2>5 DEF st, set, st0
<1> QED
  BY <1>2, <1>3

\* The arguments of the calls.
LEMMA BlockArgs ==
    ASSUME NEW c \in Calls, c.fn \notin TextCalls
    PROVE  /\ c.fn \in {"memcpy", "memmove", "memset", "memcmp", "memchr", "memrchr"}
           /\ c.d \in Places /\ c.n \in Lengths
           /\ c.fn \in {"memcpy", "memmove"} => c.s \in Places
           /\ c.fn = "memcmp" => c.s \in Places /\ c.k \in Lengths /\ c.byte \in {3, 200}
           /\ c.fn \in {"memchr", "memrchr"} => c.byte \in {0, 3, 9, 200}
BY DEF Calls, TextCalls

LEMMA TextArgs ==
    ASSUME NEW c \in Calls, c.fn \in TextCalls
    PROVE  /\ c.i \in 0 .. TextLen /\ ("j" \in DOMAIN c => c.j \in 0 .. TextLen)
           /\ c.fn \in {"strspn", "strcspn", "strpbrk", "strlen", "strcpy", "strcat", "strcmp", "strtok",
                        "strncpy", "strncat"} => "j" \in DOMAIN c
           /\ c.fn \in {"strnlen", "strndup", "strncpy", "strncat"} => c.n \in 0 .. Place2
BY DEF Calls, TextCalls

LEMMA Inside ==
    ASSUME NEW p \in Places, NEW n \in Lengths
    PROVE  p \in Nat /\ n \in Nat /\ p + n < MemSize /\ p + n + 1 <= MemSize /\ MemSize \in Nat
<1>1. p \in Nat /\ n \in Nat /\ p + n + Block < MemSize /\ MemSize \in Nat
  BY StringsAssumption
<1>2. Block \in Nat
  BY LongIs
<1> QED
  BY <1>1, <1>2

LEMMA BlocksRight ==
    ASSUME NEW c \in Calls, Proper(c), c.fn \notin TextCalls, NEW r \in Answers(c)
    PROVE  BlockHolds(c, r)
<1>0. c.d \in Nat /\ c.n \in Nat /\ c.d + c.n < MemSize /\ c.d + c.n + 1 <= MemSize /\ MemSize \in Nat
  BY BlockArgs, Inside
<1>1. CASE c.fn = "memcpy"
  <2>1. c.s \in Nat /\ c.s + c.n < MemSize
    BY <1>1, BlockArgs, Inside
  <2>2. c.d <= c.s \/ c.s + c.n <= c.d
    BY <1>0, <1>1, <2>1 DEF Proper, Apart
  <2>3. memcpy(Distinct, c.d, c.s, c.n) = Copied(Distinct, c.d, c.s, c.n)
    BY <1>0, <2>1, <2>2, DistinctIs, MemcpyIs
  <2>4. Answers(c) = {memcpy(Distinct, c.d, c.s, c.n)}
    BY <1>1 DEF Answers
  <2> QED
    BY <1>1, <2>3, <2>4 DEF BlockHolds
<1>2. CASE c.fn = "memmove"
  <2>1. c.s \in Nat /\ c.s + c.n <= MemSize
    BY <1>2, BlockArgs, Inside
  <2> DEFINE v == memmove(Distinct, c.d, c.s, c.n)
             all == Copied(Distinct, c.d, c.s, c.n)
             end == c.d + c.n
             odd == end % Long
  <2>2. \/ v = all
        \/ c.s < c.d /\ c.n > Block /\ odd # 0 /\ Wrong(v, all) \subseteq {end, end - odd}
    BY <1>0, <2>1, DistinctIs, MemmoveIs, Zenon
  <2>3. Answers(c) = {v}
    BY <1>2 DEF Answers
  <2>4. BlockHolds(c, r) <=>
          \/ r = all
          \/ c.s < c.d /\ c.n > Block /\ odd # 0 /\ Wrong(r, all) \subseteq {end, end - odd}
    BY <1>2 DEF BlockHolds
  <2> HIDE DEF v, all, end, odd
  <2> QED
    BY <2>2, <2>3, <2>4
<1>3. CASE c.fn = "memset"
  <2> DEFINE v == memset(Distinct, c.d, 255, c.n)
             end == c.d + c.n
             odd == end % Long
             set == Fill(Fill(Distinct, c.d, c.n, 255), end - odd, odd, 0)
  <2>1. v = IF c.n < Lead(c.d) THEN Wild ELSE set
    <3> DEFINE d == c.d
               n == c.n
               b == 255
    <3>1. d \in Nat /\ n \in Nat
      BY <1>0
    <3> HIDE DEF d, n, b
    <3>2. memset(Distinct, d, b, n)
            = IF n < Lead(d) THEN Wild
              ELSE Fill(Fill(Distinct, d, n, b), (d + n) - ((d + n) % Long), (d + n) % Long, 0)
      BY <3>1, MemsetIs
    <3> QED
      BY <3>2, Zenon DEF d, n, b
  <2>2. Answers(c) = {v}
    BY <1>3 DEF Answers
  <2>3. BlockHolds(c, r) <=> IF c.n < Lead(c.d) THEN r = Wild ELSE r = set
    BY <1>3 DEF BlockHolds
  <2> HIDE DEF v, set
  <2> QED
    BY <2>1, <2>2, <2>3
<1>4. CASE c.fn = "memcmp"
  <2> DEFINE m == Twins(c.d, c.s, c.n, c.k, c.byte)
  <2>1. Answers(c) = memcmp(m, c.d, c.s, c.n)
    BY <1>4 DEF Answers
  <2> DEFINE right == Sign(r) = Sign(5 - c.byte)
             words == Longs(c.d, c.s, c.n)
             early == c.n < Front(c.d, c.s) \/ c.k < Front(c.d, c.s) + words * Long
  <2>2. BlockHolds(c, r) <=> (c.k < c.n => IF early THEN right
                                           ELSE IF words > 0 THEN r \in {Hang, -1, 1}
                                           ELSE r = Hang \/ right)
    BY <1>4 DEF BlockHolds
  <2>3. SUFFICES ASSUME c.k < c.n
                 PROVE  IF early THEN r = 5 - c.byte
                        ELSE IF words > 0 THEN r \in {Hang, -1, 1}
                        ELSE r = Hang \/ r = 5 - c.byte
    <3> HIDE DEF early, words
    <3> QED
      BY <2>2
  <2>4. c.s \in Nat /\ c.s + c.n < MemSize /\ c.k \in 0 .. c.n - 1 /\ c.byte \in {3, 200}
    <3>1. c.s \in Places /\ c.k \in Lengths /\ c.byte \in {3, 200} /\ c.n \in Lengths
      BY <1>4, BlockArgs
    <3>2. c.k \in Nat /\ c.s \in Nat /\ c.s + c.n < MemSize
      BY <3>1, Inside
    <3> QED
      BY <3>1, <3>2, <2>3, <1>0
  <2>5. c.d + c.n < c.s
    BY <1>0, <1>4, <2>4, LongIs DEF Proper
  <2>6. \A a \in Addresses : m[a] = IF a = c.k + c.s THEN c.byte ELSE 5
    BY DEF Twins
  <2> HIDE DEF m
  <2>7. ASSUME NEW j \in 0 .. c.n - 1
        PROVE  m[c.d + j] = 5 /\ m[c.s + j] = IF j = c.k THEN c.byte ELSE 5
    <3>1. c.d + j \in Addresses /\ c.s + j \in Addresses
      BY <1>0, <2>4 DEF Addresses
    <3>2. c.d + j # c.k + c.s /\ (c.s + j = c.k + c.s <=> j = c.k)
      BY <1>0, <2>4, <2>5
    <3> QED
      BY <3>1, <3>2, <2>6
  <2>8. DifferAt(m, c.d, c.s, c.k) /\ m[c.d + c.k] - m[c.s + c.k] = 5 - c.byte
    <3>1. m[c.d + c.k] = 5 /\ m[c.s + c.k] = c.byte
      BY <2>4, <2>7
    <3>2. ASSUME NEW j \in 0 .. c.k - 1 PROVE m[c.d + j] = m[c.s + j]
      <4>1. j \in 0 .. c.n - 1 /\ j # c.k
        BY <2>4, <1>0
      <4> QED
        BY <4>1, <2>7
    <3> QED
      BY <3>1, <3>2, <2>4 DEF DifferAt
  <2>9. IF early THEN r = m[c.d + c.k] - m[c.s + c.k]
        ELSE IF words > 0 THEN r \in {Hang, -1, 1}
        ELSE r = Hang \/ r = m[c.d + c.k] - m[c.s + c.k]
    <3> DEFINE d == c.d
               q == c.s
               n == c.n
               k == c.k
    <3>1. d \in Nat /\ q \in Nat /\ n \in Nat /\ k \in 0 .. n - 1 /\ DifferAt(m, d, q, k)
          /\ r \in memcmp(m, d, q, n)
      BY <1>0, <2>1, <2>4, <2>8
    <3> HIDE DEF d, q, n, k
    <3>2. Tells(m, d, q, n, k, r)
      BY <3>1, MemcmpIs, Zenon
    <3>3. Tells(m, c.d, c.s, c.n, c.k, r)
      BY <3>2, Zenon DEF d, q, n, k
    <3> QED
      BY <3>3 DEF Tells
  <2> HIDE DEF early, words
  <2> QED
    BY <2>8, <2>9
<1>5. CASE c.fn = "memchr"
  <2>1. c.byte \in 0 .. 255
    BY <1>5, BlockArgs
  <2> DEFINE v == memchr(Distinct, c.d, c.byte, c.n)
  <2>2. v # NULL => v \in c.d .. (c.d + c.n) - 1 /\ Distinct[v] = c.byte
    <3> DEFINE d == c.d
               n == c.n
               ch == c.byte
    <3>1. d \in Nat /\ n \in Nat /\ ch \in 0 .. 255 /\ d + n < MemSize
      BY <1>0, <2>1
    <3> HIDE DEF d, n, ch
    <3>2. memchr(Distinct, d, ch, n) # NULL
            => memchr(Distinct, d, ch, n) \in d .. d + n - 1 /\ Distinct[memchr(Distinct, d, ch, n)] = ch
      BY <3>1, MemchrIs, Zenon
    <3>3. d + n - 1 = (d + n) - 1
      BY <3>1
    <3> QED
      BY <3>2, <3>3, Zenon DEF d, n, ch
  <2>3. Answers(c) = {v}
    BY <1>5 DEF Answers
  <2> HIDE DEF v
  <2> QED
    BY <1>5, <2>2, <2>3 DEF BlockHolds
<1>6. CASE c.fn = "memrchr"
  <2>1. c.byte <= 127 => c.byte \in 0 .. 127
    BY <1>6, BlockArgs
  <2> DEFINE v == memrchr(Distinct, c.d, c.byte, c.n)
  <2>2. v = NULL /\ c.byte <= 127 => \A a \in c.d .. (c.d + c.n) - 1 : Distinct[a] # c.byte
    <3> DEFINE d == c.d
               n == c.n
               ch == c.byte
    <3>1. d \in Nat /\ n \in Nat /\ d + n < MemSize /\ (ch <= 127 => ch \in 0 .. 127)
      BY <1>0, <2>1
    <3> HIDE DEF d, n, ch
    <3>2. memrchr(Distinct, d, ch, n) = NULL /\ ch <= 127 => \A a \in d .. d + n - 1 : Distinct[a] # ch
      BY <3>1, MemrchrIs, Zenon
    <3>3. d + n - 1 = (d + n) - 1
      BY <3>1
    <3> QED
      BY <3>2, <3>3, Zenon DEF d, n, ch
  <2>3. Answers(c) = {v}
    BY <1>6 DEF Answers
  <2> HIDE DEF v
  <2> QED
    BY <1>6, <2>2, <2>3 DEF BlockHolds
<1> QED
  BY <1>1, <1>2, <1>3, <1>4, <1>5, <1>6, BlockArgs

LEMMA NoSecond ==
    ASSUME NEW c \in Calls, c.fn \in {"strchr", "strrchr", "strchrnul", "strnlen", "strndup", "strdup"}
    PROVE  "j" \notin DOMAIN c
BY DEF Calls

LEMMA TextsRight ==
    ASSUME NEW c \in Calls, c.fn \in TextCalls, NEW r \in Answers(c)
    PROVE  TextHolds(c, r)
<1> DEFINE i == c.i
           j == IF "j" \in DOMAIN c THEN c.j ELSE 0
           m == TextOf(c.A, i, j)
           set == BytesAt(m, Place2, j)
<1>0. /\ i \in 0 .. TextLen /\ j \in 0 .. TextLen
      /\ TextLen \in Nat /\ Place2 \in Nat /\ Place3 \in Nat /\ MemSize \in Nat
      /\ Place2 = TextLen + 1 /\ Place3 = Place2 + Place2 /\ Place3 + Place3 <= MemSize
  BY TextArgs, PlacesAre
<1>1. /\ m \in Mem /\ IsText(m, 0, i) /\ IsText(m, Place2, j)
      /\ \A a \in Addresses : m[a] \in 0 .. 127 /\ (a >= Place3 => m[a] = 0)
  <2> HIDE DEF i, j
  <2> QED
    BY <1>0, TextIs
<1>2. CASE c.fn = "strlen"
  <2>1. j = c.j
    BY <1>2, TextArgs
  <2>2. Answers(c) = {strlen(m, 0)}
    BY <1>2, <2>1 DEF Answers
  <2>3. TextHolds(c, r) <=> r = i
    BY <1>2, <2>1 DEF TextHolds, BytesAt
  <2> HIDE DEF i, j, m, set
  <2>4. strlen(m, 0) = i
    BY <1>1, StrlenIs
  <2> QED
    BY <2>2, <2>3, <2>4
<1>3. CASE c.fn = "strspn"
  <2>1. j = c.j
    BY <1>3, TextArgs
  <2>2. Answers(c) = {strspn(m, 0, Place2)}
    BY <1>3, <2>1 DEF Answers
  <2>3. TextHolds(c, r) <=> (BytesAt(m, 0, r) \subseteq set /\ (r < i => m[r] \notin set))
    BY <1>3, <2>1 DEF TextHolds, BytesAt
  <2> HIDE DEF i, j, m, set
  <2> DEFINE v == strspn(m, 0, Place2)
  <2>4. /\ v \in 0 .. i
        /\ \A k \in 0 .. v - 1 : m[0 + k] \in BytesAt(m, Place2, j)
        /\ v # i => m[0 + v] \notin BytesAt(m, Place2, j)
    BY <1>1, StrspnIs
  <2> HIDE DEF v
  <2>5. 0 + v = v /\ (v < i => v # i)
    BY <1>0, <2>4
  <2>6. BytesAt(m, 0, v) \subseteq set
    <3>1. \A k \in 0 .. v - 1 : m[0 + k] \in set
      BY <2>4 DEF set
    <3> QED
      BY <3>1 DEF BytesAt
  <2>7. v < i => m[v] \notin set
    BY <2>4, <2>5 DEF set
  <2>8. r = v
    BY <2>2 DEF v
  <2> QED
    BY <2>3, <2>5, <2>6, <2>7, <2>8
<1>4. CASE c.fn = "strcspn"
  <2>1. j = c.j
    BY <1>4, TextArgs
  <2>2. Answers(c) = {strcspn(m, 0, Place2)}
    BY <1>4, <2>1 DEF Answers
  <2>3. TextHolds(c, r) <=> (BytesAt(m, 0, r) \cap set = {} /\ (r < i => m[r] \in set))
    BY <1>4, <2>1 DEF TextHolds, BytesAt
  <2> HIDE DEF i, j, m, set
  <2> DEFINE v == strcspn(m, 0, Place2)
  <2>4. /\ v \in 0 .. i
        /\ \A k \in 0 .. v - 1 : m[0 + k] # 0 /\ m[0 + k] \notin BytesAt(m, Place2, j)
        /\ v # i => m[0 + v] \in BytesAt(m, Place2, j)
    BY <1>1, StrcspnIs
  <2> HIDE DEF v
  <2>5. 0 + v = v /\ (v < i => v # i)
    BY <1>0, <2>4
  <2>6. BytesAt(m, 0, v) \cap set = {}
    <3>1. \A k \in 0 .. v - 1 : m[0 + k] \notin set
      BY <2>4 DEF set
    <3> QED
      BY <3>1 DEF BytesAt
  <2>7. v < i => m[v] \in set
    BY <2>4, <2>5 DEF set
  <2>8. r = v
    BY <2>2 DEF v
  <2> QED
    BY <2>3, <2>6, <2>7, <2>8
<1>5. CASE c.fn = "strpbrk"
  <2>1. j = c.j
    BY <1>5, TextArgs
  <2>2. Answers(c) = {strpbrk(m, 0, Place2)}
    BY <1>5, <2>1 DEF Answers
  <2>3. TextHolds(c, r) <=> (IF BytesAt(m, 0, i) \cap set = {} THEN r = NULL ELSE m[r] \in set /\ BytesAt(m, 0, r) \cap set = {})
    BY <1>5, <2>1 DEF TextHolds, BytesAt
  <2> HIDE DEF i, j, m, set
  <2> DEFINE v == strpbrk(m, 0, Place2)
  <2>4. IF BytesAt(m, 0, i) \cap set = {} THEN v = NULL ELSE m[v] \in set /\ BytesAt(m, 0, v) \cap set = {}
    BY <1>1, StrpbrkIs DEF set
  <2>5. r = v
    BY <2>2
  <2> HIDE DEF v
  <2> QED
    BY <2>3, <2>4, <2>5
<1>6. CASE c.fn = "strchr"
  <2>1. j = 0
    BY <1>6, NoSecond
  <2>2. Answers(c) = {strchr(m, 0, c.byte)}
    BY <1>6, <2>1 DEF Answers
  <2>3. TextHolds(c, r) <=> (IF r = NULL THEN c.byte \notin BytesAt(m, 0, i + 1) ELSE m[r] = c.byte)
    BY <1>6, <2>1 DEF TextHolds, BytesAt
  <2> HIDE DEF i, j, m, set
  <2> DEFINE v == strchr(m, 0, c.byte)
  <2>4. IF v = NULL THEN c.byte \notin BytesAt(m, 0, i + 1) ELSE m[v] = c.byte
    BY <1>1, StrchrIs
  <2>5. r = v
    BY <2>2
  <2> HIDE DEF v
  <2> QED
    BY <2>3, <2>4, <2>5
<1>7. CASE c.fn = "strcpy"
  <2>1. j = c.j
    BY <1>7, TextArgs
  <2>2. Answers(c) = {strcpy(m, Place3, Place2)}
    BY <1>7, <2>1 DEF Answers
  <2>3. TextHolds(c, r) <=> r = Copied(m, Place3, Place2, j + 1)
    BY <1>7, <2>1 DEF TextHolds, BytesAt
  <2> HIDE DEF i, j, m, set
  <2>4. Place2 + j + 1 <= Place3
    BY <1>0
  <2>5. strcpy(m, Place3, Place2) = Copied(m, Place3, Place2, j + 1)
    BY <1>0, <1>1, <2>4, StrcpyIs
  <2> QED
    BY <2>2, <2>3, <2>5
<1>8. CASE c.fn = "strcat"
  <2>1. j = c.j
    BY <1>8, TextArgs
  <2>2. Answers(c) = {strcat(m, Place2, 0)}
    BY <1>8, <2>1 DEF Answers
  <2>3. TextHolds(c, r) <=> r = Copied(m, Place2 + j, 0, i + 1)
    BY <1>8, <2>1 DEF TextHolds, BytesAt
  <2> HIDE DEF i, j, m, set
  <2> DEFINE d == Place2 + j
  <2>4. 0 + i + 1 <= d /\ d \in Nat
    BY <1>0
  <2>5. strcat(m, Place2, 0) = strcpy(m, d, 0)
    BY <1>1, StrlenIs DEF strcat
  <2> HIDE DEF d
  <2>6. strcpy(m, d, 0) = Copied(m, d, 0, i + 1)
    BY <1>0, <1>1, <2>4, StrcpyIs
  <2> QED
    BY <2>2, <2>3, <2>5, <2>6 DEF d
<1>9. CASE c.fn = "strcmp"
  <2>1. j = c.j
    BY <1>9, TextArgs
  <2>2. Answers(c) = {strcmp(m, 0, Place2)}
    BY <1>9, <2>1 DEF Answers
  <2>3. TextHolds(c, r) <=> (IF \E k \in 0 .. i - 1 : m[k] # m[Place2 + k]
                           THEN \E k \in 0 .. i - 1 : /\ \A l \in 0 .. k - 1 : m[l] = m[Place2 + l]
                                                      /\ m[k] # m[Place2 + k] /\ r = m[k] - m[Place2 + k]
                           ELSE r = 0)
    BY <1>9, <2>1 DEF TextHolds, BytesAt
  <2> HIDE DEF i, j, m, set
  <2> DEFINE v == strcmp(m, 0, Place2)
  <2>4. IF \E k \in 0 .. i - 1 : m[k] # m[Place2 + k]
        THEN \E k \in 0 .. i - 1 : /\ \A l \in 0 .. k - 1 : m[l] = m[Place2 + l]
                                   /\ m[k] # m[Place2 + k] /\ v = m[k] - m[Place2 + k]
        ELSE v = 0
    <3>1. i + Place2 < MemSize /\ \A a \in Addresses : m[a] \in 0 .. 127
      BY <1>0, <1>1
    <3> QED
      BY <1>1, <3>1, StrcmpIs
  <2>5. r = v
    BY <2>2
  <2> HIDE DEF v
  <2> QED
    BY <2>3, <2>4, <2>5
<1>10. CASE c.fn = "strrchr"
  <2>1. j = 0
    BY <1>10, NoSecond
  <2>2. Answers(c) = {strrchr(m, 0, c.byte)}
    BY <1>10, <2>1 DEF Answers
  <2>3. TextHolds(c, r) <=> (r # NULL => r \in 0 .. i - 1 /\ m[r] # c.byte)
    BY <1>10, <2>1 DEF TextHolds, BytesAt
  <2> HIDE DEF i, j, m, set
  <2> DEFINE v == strrchr(m, 0, c.byte)
  <2>4. v # NULL => v \in 0 .. i - 1 /\ m[v] # c.byte
    BY <1>1, StrrchrIs
  <2>5. r = v
    BY <2>2
  <2> HIDE DEF v
  <2> QED
    BY <2>3, <2>4, <2>5
<1>11. CASE c.fn = "strchrnul"
  <2>1. j = 0
    BY <1>11, NoSecond
  <2>2. Answers(c) = {strchrnul(m, 0, c.byte)}
    BY <1>11, <2>1 DEF Answers
  <2>3. TextHolds(c, r) <=> (m[r] \in {0, c.byte} /\ c.byte \notin BytesAt(m, 0, r))
    BY <1>11, <2>1 DEF TextHolds, BytesAt
  <2> HIDE DEF i, j, m, set
  <2>4. PICK at \in 0 .. i : /\ strchrnul(m, 0, c.byte) = 0 + at /\ m[0 + at] \in {0, c.byte}
                            /\ \A k \in 0 .. at - 1 : m[0 + k] \notin {0, c.byte}
    BY <1>1, StrchrnulIs
  <2>5. r = at /\ 0 + at = at
    BY <2>2, <2>4, <1>0
  <2>6. c.byte \notin BytesAt(m, 0, at)
    BY <2>4 DEF BytesAt
  <2> QED
    BY <2>3, <2>4, <2>5, <2>6
<1>12. CASE c.fn = "strnlen"
  <2>1. j = 0
    BY <1>12, NoSecond
  <2>2. Answers(c) = {strnlen(m, 0, c.n)}
    BY <1>12, <2>1 DEF Answers
  <2>3. TextHolds(c, r) <=> r <= c.n
    BY <1>12, <2>1 DEF TextHolds, BytesAt
  <2> HIDE DEF i, j, m, set
  <2>4. c.n \in 0 .. Place2
    BY <1>12, TextArgs
  <2>5. strnlen(m, 0, c.n) <= c.n
    BY <2>4 DEF strnlen
  <2> QED
    BY <2>2, <2>3, <2>5
<1>13. CASE c.fn = "strndup"
  <2>1. j = 0
    BY <1>13, NoSecond
  <2>2. Answers(c) = {strndup(m, Place3, 0, c.n, g) : g \in BOOLEAN}
    BY <1>13, <2>1 DEF Answers
  <2>3. TextHolds(c, r) <=> IsCopy(r, m, Place3, 0, IF c.n < i THEN c.n ELSE i)
    BY <1>13, <2>1 DEF TextHolds, BytesAt, IsCopy
  <2> HIDE DEF i, j, m, set
  <2>4. PICK g \in BOOLEAN : r = strndup(m, Place3, 0, c.n, g)
    BY <2>2
  <2> DEFINE n == c.n
  <2>5. n \in Nat /\ 0 + i <= Place3 /\ Place3 + i < MemSize
    BY <1>0, <1>13, TextArgs
  <2> HIDE DEF n
  <2>6. IsCopy(strndup(m, Place3, 0, n, g), m, Place3, 0, IF n < i THEN n ELSE i)
    BY <1>0, <1>1, <2>5, StrndupIs
  <2> QED
    BY <2>3, <2>4, <2>6 DEF n
<1>14. CASE c.fn = "strdup"
  <2>1. j = 0
    BY <1>14, NoSecond
  <2>2. Answers(c) = {strdup(m, Place3, 0, g) : g \in BOOLEAN}
    BY <1>14, <2>1 DEF Answers
  <2>3. TextHolds(c, r) <=> IsCopy(r, m, Place3, 0, i)
    BY <1>14, <2>1 DEF TextHolds, BytesAt, IsCopy
  <2> HIDE DEF i, j, m, set
  <2>4. PICK g \in BOOLEAN : r = strdup(m, Place3, 0, g)
    BY <2>2
  <2>5. 0 + i <= Place3 /\ Place3 + i < MemSize
    BY <1>0
  <2>6. IsCopy(strdup(m, Place3, 0, g), m, Place3, 0, i)
    BY <1>0, <1>1, <2>5, StrdupIs
  <2> QED
    BY <2>3, <2>4, <2>6
<1>15. CASE c.fn = "strncpy"
  <2>1. j = c.j
    BY <1>15, TextArgs
  <2>2. Answers(c) = {strncpy(m, Place3, Place2, c.n)}
    BY <1>15, <2>1 DEF Answers
  <2>3. TextHolds(c, r) <=> (Wrong(r, m) \subseteq Place3 .. Place3 + c.n /\ (j < c.n => r[Place3 + j] = 0))
    BY <1>15, <2>1 DEF TextHolds, BytesAt
  <2> HIDE DEF i, j, m, set
  <2> DEFINE n == c.n
             v == strncpy(m, Place3, Place2, n)
  <2>4. n \in Nat /\ Place2 + j + 1 <= Place3 /\ Place3 + j < MemSize
    BY <1>0, <1>15, TextArgs
  <2> HIDE DEF n
  <2>5. Place2 + j + 1 <= Place3 /\ Place3 \in Nat
    BY <1>0, <2>4
  <2>6. Wrong(v, m) \subseteq Place3 .. Place3 + n /\ (j < n => v[Place3 + j] = 0)
    BY <1>1, <2>4, <2>5, StrncpyIs
  <2>7. r = v
    BY <2>2 DEF n
  <2> HIDE DEF v
  <2> QED
    BY <2>3, <2>6, <2>7 DEF n
<1>16. CASE c.fn = "strncat"
  <2>1. j = c.j
    BY <1>16, TextArgs
  <2>2. Answers(c) = {strncat(m, Place2, 0, c.n)}
    BY <1>16, <2>1 DEF Answers
  <2>3. TextHolds(c, r) <=> Wrong(r, m) \subseteq Place2 + j .. Place2 + j + c.n
    BY <1>16, <2>1 DEF TextHolds, BytesAt
  <2> HIDE DEF i, j, m, set
  <2> DEFINE n == c.n
             d == Place2 + j
             v == strncpy(m, d, 0, n)
  <2>4. n \in Nat /\ 0 + i + 1 <= d /\ d + i < MemSize /\ d \in Nat
    BY <1>0, <1>16, TextArgs
  <2>5. r = v
    BY <1>1, <2>2, StrlenIs DEF strncat
  <2> HIDE DEF n, d
  <2>6. Wrong(v, m) \subseteq d .. d + n
    BY <1>1, <2>4, StrncpyIs
  <2> HIDE DEF v
  <2> QED
    BY <2>3, <2>5, <2>6 DEF n, d
<1>17. CASE c.fn = "strtok"
  <2>1. j = c.j
    BY <1>17, TextArgs
  <2> DEFINE st0 == [mem |-> m, curtok |-> NULL, ret |-> NULL]
             a == strtok(st0, 0, Place2)
             b == strtok(a, NULL, Place2)
             d == strtok(b, NULL, Place2)
             After(prev, st) == st.ret \in 0 .. i - 1 => prev.mem[st.ret - 1] = 0 /\ st.ret > prev.ret
  <2>2. r = <<a, b, d>>
    BY <1>17, <2>1 DEF Answers, Tokens
  <2>3. TextHolds(c, r) <=>
          \A n \in 1 .. 3 : r[n].ret \in 0 .. i - 1 =>
              LET end == r[n].ret + strlen(r[n].mem, r[n].ret)
              IN  /\ \A x \in r[n].ret .. end - 1 : r[n].mem[x] = m[x] /\ m[x] \notin set
                  /\ end = i \/ (end < i /\ m[end] \in set)
                  /\ n > 1 => r[n - 1].mem[r[n].ret - 1] = 0 /\ r[n].ret > r[n - 1].ret
    BY <1>17, <2>1 DEF TextHolds, BytesAt
  <2> HIDE DEF i, j, m
  <2>4. Going(m, i, a) /\ TokenIs(m, i, set, a)
    BY <1>0, <1>1, TokenFirst
  <2> HIDE DEF a
  <2>5. Going(m, i, b) /\ TokenIs(m, i, set, b) /\ After(a, b)
    BY <1>0, <1>1, <2>4, TokenNext
  <2> HIDE DEF b
  <2>6. TokenIs(m, i, set, d) /\ After(b, d)
    BY <1>0, <1>1, <2>5, TokenNext
  <2> HIDE DEF d, set
  <2>7. r[1] = a /\ r[2] = b /\ r[3] = d
    BY <2>2
  <2>8. \A n \in 1 .. 3 : TokenIs(m, i, set, r[n]) /\ (n > 1 => After(r[n - 1], r[n]))
    <3>1. \A n \in 1 .. 3 : TokenIs(m, i, set, r[n])
      <4> TAKE n \in 1 .. 3
      <4>1. n = 1 \/ n = 2 \/ n = 3
        OBVIOUS
      <4> QED
        BY <4>1, <2>4, <2>5, <2>6, <2>7
    <3>2. \A n \in 1 .. 3 : n > 1 => After(r[n - 1], r[n])
      <4> HIDE DEF After
      <4> TAKE n \in 1 .. 3
      <4>1. n > 1 => (n = 2 /\ n - 1 = 1) \/ (n = 3 /\ n - 1 = 2)
        OBVIOUS
      <4> QED
        BY <4>1, <2>5, <2>6, <2>7
    <3> QED
      BY <3>1, <3>2
  <2> QED
    BY <2>3, <2>8 DEF TokenIs
<1> QED
  BY <1>2, <1>3, <1>4, <1>5, <1>6, <1>7, <1>8, <1>9, <1>10, <1>11, <1>12, <1>13, <1>14, <1>15,
     <1>16, <1>17 DEF TextCalls

StringsInv ==
    /\ call \in Calls /\ Proper(call)
    /\ outcome # <<>> => \E r \in Answers(call) : outcome = <<r>>

LEMMA StringsStep == ASSUME StringsInv, [Call]_stringvars PROVE StringsInv'
<1>1. CASE Call
  <2>1. call' = call /\ \E r \in Answers(call) : outcome' = <<r>>
    BY <1>1 DEF Call
  <2>2. call' \in Calls /\ Proper(call')
    BY <2>1 DEF StringsInv
  <2>3. \E r \in Answers(call') : outcome' = <<r>>
    BY <2>1
  <2> QED
    BY <2>2, <2>3 DEF StringsInv
<1>2. CASE UNCHANGED stringvars
  BY <1>2 DEF StringsInv, stringvars
<1> QED
  BY <1>1, <1>2

\* Blocks are copied and filled, and strings copied and searched, as StringsHold
\* says, wherever the blocks are and however long they and a word are; of two
\* blocks that differ in one byte the comparison is right before the bytes behind
\* the words, and tells nothing of these
\* (memcpy, memmove, memset, memcmp, memchr, strspn, strtok, strncpy, ...).
THEOREM StringsRight == StringsSpec => []StringsHold
<1>1. StringsInit => StringsInv
  BY DEF StringsInit, StringsInv
<1>2. StringsInv /\ [Call]_stringvars => StringsInv'
  BY StringsStep
<1>3. ASSUME StringsInv PROVE StringsHold
  <2> SUFFICES ASSUME NEW r \in Answers(call), outcome = <<r>>
               PROVE  IF call.fn \in TextCalls THEN TextHolds(call, r) ELSE BlockHolds(call, r)
    BY <1>3 DEF StringsInv, StringsHold
  <2>1. call \in Calls /\ Proper(call)
    BY <1>3 DEF StringsInv
  <2> QED
    BY <2>1, BlocksRight, TextsRight
<1> QED
  BY <1>1, <1>2, <1>3, PTL DEF StringsSpec
============================================================================
