----------------------------- MODULE MarsProofs -----------------------------
(***************************************************************************)
(* Theorems about the machine of the Core War game, for every size of the  *)
(* core and of the queues, every number of turns and every two programs,   *)
(* whatever they do to themselves and to each other.  All handlers but DAT *)
(* end in Finish with a core, a queue and a next address of their own;     *)
(* Handled says what these have in common, and the rest follows from it.   *)
(***************************************************************************)
EXTENDS Mars, SequenceTheorems, TLAPS

Cores == [Cells -> Instrs]
Words == 0 .. Word - 1

\* What the queues hold, and what the operands of a jump may be.
Slots == Cells \cup {CWNONE}

MarsType ==
    /\ core \in Cores
    /\ runq \in [Pids -> Seq(Slots)]
    /\ cur \in [Pids -> Nat]
    /\ \A p \in Pids : Len(runq[p]) \in 1 .. NProc /\ cur[p] \in 1 .. Len(runq[p])
    /\ nturn \in [Pids -> 0 .. NTurn]
    /\ curpid \in Pids
    /\ status \in {"running", "won", "tie", "outside"}

IInv == MarsType /\ EvenTurns

\* The queue q is that of p with at most the running and the last process
\* changed, and perhaps one more.
Queued(p, q) ==
    /\ q \in Seq(Slots) /\ Len(q) \in 1 .. NProc /\ Len(q) >= Len(runq[p])
    /\ \A i \in 1 .. Len(runq[p]) : q[i] = runq[p][i] \/ i = cur[p] \/ i = Len(runq[p])

\* What every handler but DAT does.
Handled(p) ==
    \E c \in Cores, q \in Seq(Slots), next \in Slots :
        /\ Queued(p, q)
        /\ next = CWNONE => q = Dragged(p, CWNONE)
        /\ Finish(p, c, q, next)

-----------------------------------------------------------------------------
\* Every remainder is an address.
LEMMA Address == \A x \in Int : x % CoreSize \in Cells
BY SizesAssumption, SMT DEF Cells

\* Every remainder is a value of an operand.
LEMMA Value == \A x \in Int : x % CoreSize \in Words /\ x % Word \in Words
BY SizesAssumption, SMT DEF Words

\* Remainders of numbers less than a core away from the addresses.
LEMMA Near ==
    ASSUME NEW y \in Int, -CoreSize <= y, y < 2 * CoreSize
    PROVE  /\ y < 0 => y % CoreSize = y + CoreSize
           /\ y >= 0 /\ y < CoreSize => y % CoreSize = y
           /\ y >= CoreSize => y % CoreSize = y - CoreSize
BY SizesAssumption, SMTT(30)

\* A remainder of what is at least -1 is an address or CWNONE.
LEMMA Remainder == \A x \in Int : Rem(x) \in Int /\ (x >= -1 => Rem(x) \in Slots)
<1> TAKE x \in Int
<1>1. x % CoreSize \in Cells /\ (-x) % CoreSize \in Cells /\ Cells \subseteq Int
  BY Address DEF Cells
<1>2. 1 % CoreSize \in {0, 1} /\ 0 \in Cells
  <2>1. 1 % CoreSize \in Cells /\ 1 \in Int /\ 0 \in Cells
    BY Address, SizesAssumption DEF Cells
  <2>2. CASE CoreSize = 1
    BY <2>1, <2>2 DEF Cells
  <2>3. CASE CoreSize > 1
    <3>1. -CoreSize <= 1 /\ 1 < 2 * CoreSize /\ 1 >= 0 /\ 1 < CoreSize
      BY <2>3, SizesAssumption
    <3>2. 1 % CoreSize = 1
      BY <2>1, <3>1, Near
    <3> QED
      BY <2>1, <3>2
  <2> QED
    BY <2>2, <2>3, SizesAssumption
<1> DEFINE k == x % CoreSize
           m == (-x) % CoreSize
<1>3. (x >= 0 => Rem(x) = k) /\ (x < 0 => Rem(x) = -m)
  BY DEF Rem
<1>4. x = -1 => m = 1 % CoreSize
  OBVIOUS
<1>5. k \in Cells /\ m \in Cells /\ Cells \subseteq Int
  BY <1>1
<1> HIDE DEF k, m
<1>6. CASE x >= 0
  BY <1>3, <1>5, <1>6 DEF Slots
<1>7. CASE x < -1
  BY <1>3, <1>5, <1>7
<1>8. CASE x = -1
  <2>1. Rem(x) = -m /\ m \in {0, 1}
    BY <1>2, <1>3, <1>4, <1>8
  <2> QED
    BY <1>2, <2>1 DEF Slots, CWNONE
<1> QED
  BY <1>6, <1>7, <1>8

\* An address is a value.
LEMMA CellsAreWords == Cells \subseteq Words
BY SizesAssumption, SMT DEF Cells, Words

\* Storing in one operand, or in both, leaves a core.
LEMMA Stored ==
    ASSUME NEW c \in Cores, NEW d \in Cells, NEW v \in Words, NEW w \in Words
    PROVE  /\ [c EXCEPT ![d].b = v] \in Cores
           /\ [c EXCEPT ![d].a = w, ![d].b = v] \in Cores
<1>1. c \in [Cells -> Instrs] /\ c[d] \in Instrs
  BY DEF Cores
<1>2. [c[d] EXCEPT !.b = v] \in Instrs
  BY <1>1 DEF Instrs, Words
<1>3. [[c[d] EXCEPT !.a = w] EXCEPT !.b = v] \in Instrs
  BY <1>1 DEF Instrs, Words
<1>4. [c EXCEPT ![d].b = v] = [c EXCEPT ![d] = [c[d] EXCEPT !.b = v]]
  BY <1>1
<1>5. [c EXCEPT ![d].a = w, ![d].b = v] = [c EXCEPT ![d] = [[c[d] EXCEPT !.a = w] EXCEPT !.b = v]]
  BY <1>1
<1> QED
  BY <1>1, <1>2, <1>3, <1>4, <1>5 DEF Cores

\* An operand leaves a core, and an address or CWNONE.
LEMMA OperandTyped ==
    ASSUME NEW c \in Cores, NEW pc \in Cells, NEW mode \in Modes, NEW v \in Words
    PROVE  /\ Operand(c, pc, mode, v).core \in Cores
           /\ Operand(c, pc, mode, v).arg \in Slots
<1> DEFINE via == (pc + v) % CoreSize
<1>1. pc \in Nat /\ v \in Int /\ via \in Cells /\ v % CoreSize \in Cells
  <2>1. pc \in Nat /\ v \in Int
    BY SizesAssumption DEF Cells, Words
  <2> QED
    BY <2>1, Address
<1>2. c[via].b \in Nat /\ (c[via].b - 1) % Word \in Words
  <2>1. c[via] \in Instrs
    BY <1>1 DEF Cores
  <2>2. c[via].b \in Nat
    BY <2>1, SizesAssumption DEF Instrs
  <2> QED
    BY <2>2, Value
<1>3. [c EXCEPT ![via].b = (c[via].b - 1) % Word] \in Cores
  BY <1>1, <1>2, Stored
<1>4. Rem(c[via].b + pc) \in Slots /\ Rem(c[via].b - 1 + pc) \in Slots
  <2>1. ASSUME NEW b \in Nat PROVE /\ b + pc \in Int /\ b + pc >= -1
                                   /\ b - 1 + pc \in Int /\ b - 1 + pc >= -1
    BY <1>1
  <2> QED
    BY <1>2, <2>1, Remainder
<1>5. Cells \subseteq Slots
  BY DEF Slots
<1>6. CASE mode = "imm"
  BY <1>1, <1>5, <1>6 DEF Operand
<1>7. CASE mode = "rel"
  BY <1>1, <1>5, <1>7 DEF Operand
<1>8. CASE mode = "ind"
  BY <1>4, <1>8 DEF Operand
<1>9. CASE mode = "dec"
  BY <1>3, <1>4, <1>9 DEF Operand
<1> QED
  BY <1>6, <1>7, <1>8, <1>9 DEF Modes

\* What a handler finds that does not leave the core: its arguments, the
\* instructions that it reads or writes, and the addresses behind it.
LEMMA ArgsTyped ==
    ASSUME MarsType, NEW p \in Pids, InCore(p)
    PROVE  /\ Args(Pc(p)).core \in Cores
           /\ Args(Pc(p)).src \in Slots /\ Args(Pc(p)).dst \in Slots
           /\ Pc(p) \in Cells /\ After(Pc(p)) \in Cells /\ After(After(Pc(p))) \in Cells
           /\ Indices(Pc(p)) \subseteq Cells
           /\ Cells \subseteq Slots /\ Slots \subseteq Int /\ CWNONE \notin Cells
<1> DEFINE pc == Pc(p)
           x == Operand(core, pc, core[pc].amode, core[pc].a)
           y == Operand(x.core, pc, x.core[pc].bmode, x.core[pc].b)
<1>1. pc \in Cells /\ Indices(pc) \subseteq Cells /\ core \in Cores
  BY DEF InCore, MarsType
<1>2. core[pc].amode \in Modes /\ core[pc].a \in Words
  BY <1>1 DEF Cells, Cores, Instrs, Words
<1>3. x.core \in Cores /\ x.arg \in Slots
  BY <1>1, <1>2, OperandTyped
<1>4. x.core[pc].bmode \in Modes /\ x.core[pc].b \in Words
  BY <1>1, <1>3 DEF Cores, Instrs, Words
<1>5. y.core \in Cores /\ y.arg \in Slots
  BY <1>1, <1>3, <1>4, OperandTyped
<1>6. Args(pc).core = y.core /\ Args(pc).src = x.arg /\ Args(pc).dst = y.arg
  BY DEF Args
<1>7. \A d \in Cells : After(d) \in Cells
  BY Address DEF After, Cells
<1>8. Cells \subseteq Slots /\ Slots \subseteq Int /\ CWNONE \notin Cells
  BY DEF Cells, Slots, CWNONE
<1> QED
  BY <1>1, <1>3, <1>5, <1>6, <1>7, <1>8

-----------------------------------------------------------------------------
\* The queue as it is, with a jump's target in its last slot, and with a new
\* process behind it.
LEMMA Queues ==
    ASSUME MarsType, NEW p \in Pids, NEW target \in Slots, NEW n \in Slots
    PROVE  LET q == [runq[p] EXCEPT ![cur[p]] = n]
           IN  /\ Queued(p, runq[p])
               /\ Queued(p, Dragged(p, target))
               /\ Queued(p, IF Len(q) < NProc THEN Append(q, target) ELSE q)
<1> DEFINE q == [runq[p] EXCEPT ![cur[p]] = n]
<1>1. /\ runq[p] \in Seq(Slots) /\ Len(runq[p]) \in 1 .. NProc
      /\ cur[p] \in 1 .. Len(runq[p]) /\ Len(runq[p]) \in 1 .. Len(runq[p])
  BY SizesAssumption DEF MarsType
<1>2. Queued(p, runq[p])
  BY <1>1 DEF Queued
<1>3. Queued(p, Dragged(p, target))
  BY <1>1, ExceptSeq DEF Queued, Dragged
<1>4. Queued(p, q)
  BY <1>1, ExceptSeq DEF Queued
<1>5. ASSUME Len(q) < NProc PROVE Queued(p, Append(q, target))
  <2>1. q \in Seq(Slots) /\ Len(q) = Len(runq[p])
    BY <1>1, ExceptSeq
  <2>2. /\ Append(q, target) \in Seq(Slots) /\ Len(Append(q, target)) = Len(q) + 1
        /\ \A i \in 1 .. Len(q) : Append(q, target)[i] = q[i]
    BY <2>1, AppendProperties
  <2> QED
    BY <1>1, <1>4, <1>5, <2>1, <2>2, SizesAssumption DEF Queued
<1> QED
  BY <1>2, <1>3, <1>4, <1>5

\* A branch is handled, wherever it leads.
LEMMA Branched ==
    ASSUME MarsType, NEW p \in Pids, NEW c \in Cores, NEW taken,
           NEW target \in Slots, NEW next \in Cells, Branch(p, c, taken, target, next)
    PROVE  Handled(p)
<1>1. Queued(p, runq[p]) /\ Queued(p, Dragged(p, target))
  BY Queues, next \in Slots DEF Slots
<1>2. runq[p] \in Seq(Slots) /\ Dragged(p, target) \in Seq(Slots)
  BY <1>1 DEF Queued
<1>3. CASE taken
  <2>1. Finish(p, c, Dragged(p, target), target)
    BY <1>3 DEF Branch
  <2> QED
    BY <1>1, <1>2, <2>1 DEF Handled
<1>4. CASE ~taken
  <2>1. Finish(p, c, runq[p], next)
    BY <1>4 DEF Branch
  <2>2. next \in Slots /\ next # CWNONE
    BY DEF Slots, Cells, CWNONE
  <2> QED
    BY <1>1, <1>2, <2>1, <2>2 DEF Handled
<1> QED
  BY <1>3, <1>4

\* A handler that goes on without changing the queue.
LEMMA Straight ==
    ASSUME MarsType, NEW p \in Pids, NEW c \in Cores, NEW next \in Cells,
           Finish(p, c, runq[p], next)
    PROVE  Handled(p)
<1>1. next \in Slots /\ next # CWNONE
  BY DEF Slots, Cells, CWNONE
<1>2. Queued(p, runq[p])
  BY <1>1, Queues
<1> QED
  BY <1>1, <1>2 DEF Handled, Queued

\* A value that a handler stores, of words found in the core.
LEMMA Found ==
    ASSUME NEW c \in Cores, NEW d \in Cells
    PROVE  c[d] \in Instrs /\ c[d].a \in Words /\ c[d].b \in Words /\ c[d].a \in Int /\ c[d].b \in Int
BY SizesAssumption DEF Cores, Instrs, Words

\* The handlers, one by one.
LEMMA MovHandled == ASSUME MarsType, NEW p \in Pids, Mov(p) PROVE Handled(p)
<1> DEFINE pc == Pc(p)
           x == Args(pc)
<1>1. InCore(p)
  BY DEF Mov, Finish
<1>2. /\ x.core \in Cores /\ x.src \in Slots /\ x.dst \in Slots
      /\ pc \in Cells /\ After(pc) \in Cells /\ After(After(pc)) \in Cells
  BY <1>1, ArgsTyped
<1>a. x.src \in Cells /\ x.dst \in Cells
  <2>1. core[pc].op = "MOV" /\ Indices(pc) \subseteq Cells
    BY <1>1, ArgsTyped DEF Mov, Turn
  <2>2. Indices(pc) = {x.src, x.dst}
    BY <2>1 DEF Indices
  <2> QED
    BY <2>1, <2>2
<1> DEFINE c == IF x.core[pc].amode = "imm" /\ x.core[pc].bmode # "imm"
                 THEN [x.core EXCEPT ![x.dst].b = x.src]
                 ELSE [x.core EXCEPT ![x.dst] = x.core[x.src]]
<1>3. c \in Cores
  <2>1. [x.core EXCEPT ![x.dst].b = x.src] \in Cores
    BY <1>2, <1>a, Stored, CellsAreWords
  <2>2. [x.core EXCEPT ![x.dst] = x.core[x.src]] \in Cores
    BY <1>2, <1>a DEF Cores
  <2> QED
    BY <2>1, <2>2
<1>4. Finish(p, c, runq[p], After(pc))
  BY DEF Mov
<1> QED
  BY <1>2, <1>3, <1>4, Straight

LEMMA AddHandled == ASSUME MarsType, NEW p \in Pids, Add(p) PROVE Handled(p)
<1> DEFINE pc == Pc(p)
           x == Args(pc)
<1>1. InCore(p)
  BY DEF Add, Finish
<1>2. /\ x.core \in Cores /\ x.src \in Slots /\ x.dst \in Slots
      /\ pc \in Cells /\ After(pc) \in Cells /\ After(After(pc)) \in Cells
      /\ Slots \subseteq Int /\ Cells \subseteq Int
  BY <1>1, ArgsTyped
<1>3. x.core[pc].bmode # "imm" => x.src \in Cells /\ x.dst \in Cells
  <2>1. core[pc].op = "ADD" /\ Indices(pc) \subseteq Cells
    BY <1>1, ArgsTyped DEF Add, Turn
  <2>2. x.core[pc].bmode # "imm" => Indices(pc) = {x.src, x.dst}
    BY <2>1 DEF Indices
  <2> QED
    BY <2>1, <2>2
<1> DEFINE Sum(v, w) == (v + w) % CoreSize
           c == IF x.core[pc].bmode = "imm"
                THEN [x.core EXCEPT ![pc].b = Rem(x.src + x.dst) % Word]
                ELSE IF x.core[pc].amode = "imm"
                THEN [x.core EXCEPT ![x.dst].b = Sum(x.src, @)]
                ELSE [x.core EXCEPT ![x.dst].a = Sum(x.core[x.src].a, @),
                                    ![x.dst].b = Sum(x.core[x.src].b, @)]
<1>4. c \in Cores
  <2>1. CASE x.core[pc].bmode = "imm"
    <3>1. Rem(x.src + x.dst) % Word \in Words
      <4>1. x.src + x.dst \in Int
        <5>1. x.src \in Int /\ x.dst \in Int
          BY <1>2
        <5>2. \A v, w \in Int : v + w \in Int
          OBVIOUS
        <5> QED
          BY <5>1, <5>2
      <4>2. Rem(x.src + x.dst) \in Int
        BY <4>1, Remainder
      <4> QED
        BY <4>2, Value
    <3>2. [x.core EXCEPT ![pc].b = Rem(x.src + x.dst) % Word] \in Cores
      BY <1>2, <3>1, Stored
    <3> QED
      BY <2>1, <3>2
  <2>2. CASE x.core[pc].bmode # "imm"
    <3>1. x.src \in Cells /\ x.dst \in Cells
      BY <1>3, <2>2
    <3>2. \A v, w \in Int : Sum(v, w) \in Words
      BY Value
    <3>3. /\ Sum(x.src, x.core[x.dst].b) \in Words
          /\ Sum(x.core[x.src].a, x.core[x.dst].a) \in Words
          /\ Sum(x.core[x.src].b, x.core[x.dst].b) \in Words
      BY <1>2, <3>1, <3>2, Found
    <3> HIDE DEF Sum
    <3>4. [x.core EXCEPT ![x.dst].b = Sum(x.src, x.core[x.dst].b)] \in Cores
      BY <1>2, <3>1, <3>3, Stored
    <3>5. [x.core EXCEPT ![x.dst].a = Sum(x.core[x.src].a, x.core[x.dst].a),
                         ![x.dst].b = Sum(x.core[x.src].b, x.core[x.dst].b)] \in Cores
      BY <1>2, <3>1, <3>3, Stored
    <3>6. /\ [x.core EXCEPT ![x.dst].b = Sum(x.src, @)] =
                 [x.core EXCEPT ![x.dst].b = Sum(x.src, x.core[x.dst].b)]
          /\ [x.core EXCEPT ![x.dst].a = Sum(x.core[x.src].a, @), ![x.dst].b = Sum(x.core[x.src].b, @)] =
                 [x.core EXCEPT ![x.dst].a = Sum(x.core[x.src].a, x.core[x.dst].a),
                                ![x.dst].b = Sum(x.core[x.src].b, x.core[x.dst].b)]
      BY <1>2, <3>1 DEF Cores, Instrs
    <3> QED
      BY <2>2, <3>4, <3>5, <3>6
  <2> QED
    BY <2>1, <2>2
<1>5. Finish(p, c, runq[p], After(pc))
  BY DEF Add
<1> QED
  BY <1>2, <1>4, <1>5, Straight

LEMMA SubHandled == ASSUME MarsType, NEW p \in Pids, Sub(p) PROVE Handled(p)
<1> DEFINE pc == Pc(p)
           x == Args(pc)
<1>1. InCore(p)
  BY DEF Sub, Finish
<1>2. /\ x.core \in Cores /\ x.src \in Slots /\ x.dst \in Slots
      /\ pc \in Cells /\ After(pc) \in Cells /\ After(After(pc)) \in Cells
  BY <1>1, ArgsTyped
<1>a. x.src \in Cells /\ x.dst \in Cells
  <2>1. core[pc].op = "SUB" /\ Indices(pc) \subseteq Cells
    BY <1>1, ArgsTyped DEF Sub, Turn
  <2>2. Indices(pc) = {x.src, x.dst}
    BY <2>1 DEF Indices
  <2> QED
    BY <2>1, <2>2
<1> DEFINE Diff(v, w) == (IF v < w THEN v - w + CoreSize ELSE v - w) % Word
           c == IF x.core[pc].amode = "imm"
                THEN [x.core EXCEPT ![x.dst].b = Diff(@, x.src)]
                ELSE [x.core EXCEPT ![x.dst].a = Diff(x.core[x.src].a, @),
                                    ![x.dst].b = Diff(x.core[x.src].b, @)]
<1>3. c \in Cores
  <2>1. \A v, w \in Int : Diff(v, w) \in Words
    <3>1. \A v, w \in Int : (IF v < w THEN v - w + CoreSize ELSE v - w) \in Int
      BY SizesAssumption
    <3> QED
      BY <3>1, Value
  <2>2. x.src \in Int
    BY <1>a DEF Cells
  <2>3. /\ Diff(x.core[x.dst].b, x.src) \in Words
        /\ Diff(x.core[x.src].a, x.core[x.dst].a) \in Words
        /\ Diff(x.core[x.src].b, x.core[x.dst].b) \in Words
    BY <1>2, <1>a, <2>1, <2>2, Found
  <2> HIDE DEF Diff
  <2>4. [x.core EXCEPT ![x.dst].b = Diff(x.core[x.dst].b, x.src)] \in Cores
    BY <1>2, <1>a, <2>3, Stored
  <2>5. [x.core EXCEPT ![x.dst].a = Diff(x.core[x.src].a, x.core[x.dst].a),
                       ![x.dst].b = Diff(x.core[x.src].b, x.core[x.dst].b)] \in Cores
    BY <1>2, <1>a, <2>3, Stored
  <2>6. /\ [x.core EXCEPT ![x.dst].b = Diff(@, x.src)] =
               [x.core EXCEPT ![x.dst].b = Diff(x.core[x.dst].b, x.src)]
        /\ [x.core EXCEPT ![x.dst].a = Diff(x.core[x.src].a, @), ![x.dst].b = Diff(x.core[x.src].b, @)] =
               [x.core EXCEPT ![x.dst].a = Diff(x.core[x.src].a, x.core[x.dst].a),
                              ![x.dst].b = Diff(x.core[x.src].b, x.core[x.dst].b)]
    BY <1>2, <1>a DEF Cores, Instrs
  <2> QED
    BY <2>4, <2>5, <2>6
<1>4. Finish(p, c, runq[p], After(pc))
  BY DEF Sub
<1> QED
  BY <1>2, <1>3, <1>4, Straight

LEMMA JmpHandled == ASSUME MarsType, NEW p \in Pids, Jmp(p) PROVE Handled(p)
<1> DEFINE pc == Pc(p)
           x == Args(pc)
<1>1. InCore(p)
  BY DEF Jmp, Finish, Branch
<1>2. /\ x.core \in Cores /\ x.src \in Slots /\ x.dst \in Slots
      /\ pc \in Cells /\ After(pc) \in Cells /\ After(After(pc)) \in Cells
  BY <1>1, ArgsTyped
<1>3. Branch(p, x.core, Len(runq[p]) < NProc, x.dst, pc)
  BY DEF Jmp
<1> QED
  BY <1>2, <1>3, Branched

LEMMA JmzHandled == ASSUME MarsType, NEW p \in Pids, Jmz(p) PROVE Handled(p)
<1> DEFINE pc == Pc(p)
           x == Args(pc)
<1>1. InCore(p)
  BY DEF Jmz, Finish, Branch
<1>2. /\ x.core \in Cores /\ x.src \in Slots /\ x.dst \in Slots
      /\ pc \in Cells /\ After(pc) \in Cells /\ After(After(pc)) \in Cells
  BY <1>1, ArgsTyped
<1>3. Branch(p, x.core, x.core[x.dst].b = 0, x.src, After(pc))
  BY DEF Jmz
<1> QED
  BY <1>2, <1>3, Branched

LEMMA JmnHandled == ASSUME MarsType, NEW p \in Pids, Jmn(p) PROVE Handled(p)
<1> DEFINE pc == Pc(p)
           x == Args(pc)
<1>1. InCore(p)
  BY DEF Jmn, Finish, Branch
<1>2. /\ x.core \in Cores /\ x.src \in Slots /\ x.dst \in Slots
      /\ pc \in Cells /\ After(pc) \in Cells /\ After(After(pc)) \in Cells
  BY <1>1, ArgsTyped
<1>3. Branch(p, x.core, x.core[x.dst].b # 0, x.src, After(pc))
  BY DEF Jmn
<1> QED
  BY <1>2, <1>3, Branched

LEMMA CmpHandled == ASSUME MarsType, NEW p \in Pids, Cmp(p) PROVE Handled(p)
<1> DEFINE pc == Pc(p)
           x == Args(pc)
<1>1. InCore(p)
  BY DEF Cmp, Finish
<1>2. /\ x.core \in Cores /\ x.src \in Slots /\ x.dst \in Slots
      /\ pc \in Cells /\ After(pc) \in Cells /\ After(After(pc)) \in Cells
  BY <1>1, ArgsTyped
<1>3. Finish(p, x.core, runq[p], After(After(pc))) \/ Finish(p, x.core, runq[p], After(pc))
  BY DEF Cmp
<1> QED
  BY <1>2, <1>3, Straight

LEMMA SltHandled == ASSUME MarsType, NEW p \in Pids, Slt(p) PROVE Handled(p)
<1> DEFINE pc == Pc(p)
           x == Args(pc)
<1>1. InCore(p)
  BY DEF Slt, Finish
<1>2. /\ x.core \in Cores /\ x.src \in Slots /\ x.dst \in Slots
      /\ pc \in Cells /\ After(pc) \in Cells /\ After(After(pc)) \in Cells
  BY <1>1, ArgsTyped
<1>3. Finish(p, x.core, runq[p], After(After(pc))) \/ Finish(p, x.core, runq[p], After(pc))
  BY DEF Slt
<1> QED
  BY <1>2, <1>3, Straight

LEMMA DjnHandled == ASSUME MarsType, NEW p \in Pids, Djn(p) PROVE Handled(p)
<1> DEFINE pc == Pc(p)
           x == Args(pc)
<1>1. InCore(p)
  BY DEF Djn, Finish, Branch
<1>2. /\ x.core \in Cores /\ x.src \in Slots /\ x.dst \in Slots
      /\ pc \in Cells /\ After(pc) \in Cells /\ After(After(pc)) \in Cells
  BY <1>1, ArgsTyped
<1> DEFINE counter == IF x.core[pc].bmode = "imm" THEN x.src ELSE x.dst
           b == IF x.core[counter].b = 0 THEN CoreSize - 1 ELSE x.core[counter].b - 1
<1>3. counter \in Cells
  <2>1. core[pc].op = "DJN" /\ Indices(pc) \subseteq Cells
    BY <1>1, ArgsTyped DEF Djn, Turn
  <2>2. Indices(pc) = {counter}
    BY <2>1 DEF Indices
  <2> QED
    BY <2>1, <2>2
<1>4. b \in Words
  <2>1. x.core[counter].b \in Words
    BY <1>2, <1>3, Found
  <2> QED
    BY <2>1, SizesAssumption DEF Words
<1>5. [x.core EXCEPT ![counter].b = b] \in Cores
  <2> HIDE DEF b, counter
  <2> QED
    BY <1>2, <1>3, <1>4, Stored
<1>6. Branch(p, [x.core EXCEPT ![counter].b = b], b # 0, x.src, pc)
  BY DEF Djn
<1> QED
  BY <1>2, <1>5, <1>6, Branched

LEMMA SplHandled == ASSUME MarsType, NEW p \in Pids, Spl(p) PROVE Handled(p)
<1> DEFINE pc == Pc(p)
           x == Args(pc)
<1>1. InCore(p)
  BY DEF Spl, Finish
<1>2. /\ x.core \in Cores /\ x.src \in Slots /\ x.dst \in Slots
      /\ pc \in Cells /\ After(pc) \in Cells /\ After(After(pc)) \in Cells
  BY <1>1, ArgsTyped
<1> DEFINE q == [runq[p] EXCEPT ![cur[p]] = After(pc)]
           r == IF Len(q) < NProc THEN Append(q, x.dst) ELSE q
<1>3. Queued(p, r)
  BY <1>1, <1>2, ArgsTyped, Queues
<1>4. Finish(p, x.core, r, After(pc))
  BY DEF Spl
<1>5. After(pc) \in Slots /\ After(pc) # CWNONE
  BY <1>1, ArgsTyped
<1> QED
  BY <1>2, <1>3, <1>4, <1>5 DEF Handled, Queued

-----------------------------------------------------------------------------
\* A queue without one of its slots.
LEMMA WithoutSlot ==
    ASSUME NEW q \in Seq(Slots), Len(q) > 1, NEW i \in 1 .. Len(q)
    PROVE  /\ Without(q, i) \in Seq(Slots) /\ Len(Without(q, i)) = Len(q) - 1
           /\ \A j \in 1 .. Len(q) - 1 : Without(q, i)[j] = IF j < i THEN q[j] ELSE q[j + 1]
<1>1. Len(q) \in Nat /\ Len(q) - 1 \in Nat
  BY LenProperties
<1>2. \A j \in 1 .. Len(q) - 1 : j \in 1 .. Len(q) /\ j + 1 \in 1 .. Len(q)
  BY <1>1
<1>3. \A j \in 1 .. Len(q) : q[j] \in Slots
  BY ElementOfSeq
<1>4. Without(q, i) \in [1 .. Len(q) - 1 -> Slots]
  BY <1>2, <1>3 DEF Without
<1>5. Without(q, i) \in Seq(Slots)
  BY <1>1, <1>4, IsASeq
<1> QED
  BY <1>1, <1>4, <1>5, LenProperties DEF Without

\* What is left of the types and of OnlyLastDragged when a process has died.
LEMMA DieTyped ==
    ASSUME MarsType, NEW p \in Pids, Die(p, Dragged(p, CWNONE))
    PROVE  /\ status' \in {status, "won"}
           /\ \A r \in Pids \ {p} : runq'[r] = runq[r] /\ cur'[r] = cur[r]
           /\ runq' \in [Pids -> Seq(Slots)] /\ cur' \in [Pids -> Nat]
           /\ Len(runq'[p]) \in 1 .. NProc /\ cur'[p] \in 1 .. Len(runq'[p])
           /\ (Len(runq'[p]) >= Len(runq[p]) /\ OthersStay(p)) \/ OthersMoveUp(p)
<1> DEFINE q == Dragged(p, CWNONE)
           n == Len(runq[p])
<1>1. /\ runq \in [Pids -> Seq(Slots)] /\ cur \in [Pids -> Nat] /\ NProc \in Nat
      /\ n \in 1 .. NProc /\ cur[p] \in 1 .. n /\ runq[p] \in Seq(Slots) /\ CWNONE \in Slots
  BY SizesAssumption DEF MarsType, Slots
<1>2. /\ q \in Seq(Slots) /\ Len(q) = n /\ q[n] = CWNONE
      /\ \A i \in 1 .. n : i # n => q[i] = runq[p][i]
  <2>1. n \in 1 .. n
    BY <1>1
  <2> QED
    BY <1>1, <2>1, ExceptSeq DEF Dragged
<1> HIDE DEF q
<1>3. CASE n > 1
  <2> DEFINE w == Without(q, cur[p])
  <2>1. /\ runq' = [runq EXCEPT ![p] = w] /\ status' = status
        /\ cur' = [cur EXCEPT ![p] = IF @ = Len(q) THEN 1 ELSE @]
    BY <1>2, <1>3 DEF Die, q
  <2>2. /\ w \in Seq(Slots) /\ Len(w) = n - 1
        /\ \A j \in 1 .. n - 1 : w[j] = IF j < cur[p] THEN q[j] ELSE q[j + 1]
    BY <1>1, <1>2, <1>3, WithoutSlot
  <2> HIDE DEF w
  <2>3. /\ runq' \in [Pids -> Seq(Slots)] /\ runq'[p] = w
        /\ \A r \in Pids \ {p} : runq'[r] = runq[r] /\ cur'[r] = cur[r]
    BY <1>1, <2>1, <2>2
  <2>4. cur' \in [Pids -> Nat] /\ cur'[p] \in 1 .. n - 1
    BY <1>1, <1>2, <1>3, <2>1
  <2>5. ASSUME NEW j \in 1 .. n - 1
        PROVE  w[j] = LET old == IF j < cur[p] THEN j ELSE j + 1
                      IN  IF old = n THEN CWNONE ELSE runq[p][old]
    BY <1>1, <1>2, <2>2
  <2>6. OthersMoveUp(p)
    BY <2>2, <2>3, <2>5 DEF OthersMoveUp
  <2> QED
    BY <1>1, <1>3, <2>1, <2>2, <2>3, <2>4, <2>6
<1>4. CASE ~(n > 1)
  <2>1. runq' = [runq EXCEPT ![p] = q] /\ status' = "won" /\ cur' = cur
    BY <1>2, <1>4 DEF Die, q
  <2>2. runq'[p] = q /\ runq' \in [Pids -> Seq(Slots)]
    BY <1>1, <1>2, <2>1
  <2>3. OthersStay(p)
    BY <1>2, <2>2 DEF OthersStay
  <2> QED
    BY <1>1, <1>2, <2>1, <2>2, <2>3
<1> QED
  BY <1>3, <1>4

\* The same when a handler has finished.
LEMMA HandledTyped ==
    ASSUME MarsType, NEW p \in Pids, Handled(p)
    PROVE  /\ core' \in Cores /\ status' \in {status, "won"}
           /\ runq' \in [Pids -> Seq(Slots)] /\ cur' \in [Pids -> Nat]
           /\ \A r \in Pids : Len(runq'[r]) \in 1 .. NProc /\ cur'[r] \in 1 .. Len(runq'[r])
           /\ \A r \in Pids \ {p} : runq'[r] = runq[r]
           /\ (Len(runq'[p]) >= Len(runq[p]) /\ OthersStay(p)) \/ OthersMoveUp(p)
<1>1. PICK c \in Cores, q \in Seq(Slots), next \in Slots :
         /\ Queued(p, q)
         /\ next = CWNONE => q = Dragged(p, CWNONE)
         /\ Finish(p, c, q, next)
  BY DEF Handled
<1>2. /\ runq \in [Pids -> Seq(Slots)] /\ cur \in [Pids -> Nat]
      /\ \A r \in Pids : Len(runq[r]) \in 1 .. NProc /\ cur[r] \in 1 .. Len(runq[r])
  BY DEF MarsType
<1>3. core' = c
  BY <1>1 DEF Finish
<1>4. cur[p] \in 1 .. Len(q) /\ Len(q) \in 1 .. NProc /\ Len(q) >= Len(runq[p])
  BY <1>1, <1>2, SizesAssumption DEF Queued
<1>5. CASE next = CWNONE
  <2>1. Die(p, Dragged(p, CWNONE))
    BY <1>1, <1>5 DEF Finish
  <2> QED
    BY <1>2, <1>3, <2>1, DieTyped
<1>6. CASE next # CWNONE /\ c[Pc(p)].op = "SPL"
  <2>1. runq' = [runq EXCEPT ![p] = q] /\ cur' = cur /\ status' = status
    BY <1>1, <1>6 DEF Finish, GoOn
  <2>2. /\ runq' \in [Pids -> Seq(Slots)] /\ runq'[p] = q
        /\ \A r \in Pids \ {p} : runq'[r] = runq[r]
    BY <1>2, <2>1
  <2>3. OthersStay(p)
    BY <1>1, <2>2 DEF OthersStay, Queued
  <2> QED
    BY <1>2, <1>3, <1>4, <2>1, <2>2, <2>3
<1>7. CASE next # CWNONE /\ c[Pc(p)].op # "SPL"
  <2> DEFINE r == [q EXCEPT ![cur[p]] = next]
  <2>1. /\ runq' = [runq EXCEPT ![p] = r] /\ status' = status
        /\ cur' = [cur EXCEPT ![p] = IF @ = Len(q) THEN 1 ELSE @ + 1]
    BY <1>1, <1>7 DEF Finish, GoOn
  <2>2. /\ r \in Seq(Slots) /\ Len(r) = Len(q)
        /\ \A i \in 1 .. Len(q) : i # cur[p] => r[i] = q[i]
    BY <1>4, ExceptSeq
  <2> HIDE DEF r
  <2>3. /\ runq' \in [Pids -> Seq(Slots)] /\ runq'[p] = r
        /\ \A u \in Pids \ {p} : runq'[u] = runq[u] /\ cur'[u] = cur[u]
    BY <1>2, <2>1, <2>2
  <2>4. cur' \in [Pids -> Nat] /\ cur'[p] \in 1 .. Len(q)
    BY <1>2, <1>4, <2>1
  <2>5. \A i \in 1 .. Len(runq[p]) : r[i] = runq[p][i] \/ i = cur[p] \/ i = Len(runq[p])
    BY <1>1, <1>2, <1>4, <2>2 DEF Queued
  <2>6. OthersStay(p)
    BY <2>3, <2>5 DEF OthersStay
  <2> QED
    BY <1>2, <1>3, <1>4, <2>1, <2>2, <2>3, <2>4, <2>6
<1> QED
  BY <1>5, <1>6, <1>7

\* Every action but DAT, FallOff and Tie is a turn of a handler.
LEMMA ExecIs ==
    ASSUME MarsType, NEW p \in Pids, Exec(p)
    PROVE  /\ TakeTurn(p)
           /\ Handled(p) \/ (status' \in {"won", "outside"} /\ UNCHANGED <<core, runq, cur>>)
<1>1. TakeTurn(p)
  BY DEF Exec, Dat, Mov, Add, Sub, Jmp, Jmz, Jmn, Cmp, Slt, Djn, Spl, FallOff, Turn
<1>2. ASSUME Dat(p) \/ FallOff(p)
      PROVE  status' \in {"won", "outside"} /\ UNCHANGED <<core, runq, cur>>
  BY <1>2 DEF Dat, FallOff
<1> QED
  BY <1>1, <1>2, MovHandled, AddHandled, SubHandled, JmpHandled, JmzHandled, JmnHandled, CmpHandled,
     SltHandled, DjnHandled, SplHandled DEF Exec

\* A turn costs one of the player's turns and passes to the other.
LEMMA TurnCounts ==
    ASSUME MarsType, EvenTurns, NEW p \in Pids, TakeTurn(p)
    PROVE  /\ nturn' \in [Pids -> 0 .. NTurn] /\ curpid' \in Pids
           /\ nturn'[curpid'] - nturn'[1 - curpid'] \in {0, 1}
           /\ status = "running" /\ curpid = p
<1>1. p \in {0, 1} /\ 1 - p \in {0, 1} /\ 1 - (1 - p) = p /\ p # 1 - p
  BY DEF Pids
<1>2. nturn[0] \in Nat /\ nturn[1] \in Nat /\ nturn \in [{0, 1} -> 0 .. NTurn] /\ NTurn \in Nat
  BY SizesAssumption DEF MarsType, Pids
<1>3. nturn[p] - nturn[1 - p] \in {0, 1} /\ nturn[p] > 0
  BY DEF TakeTurn, EvenTurns
<1> QED
  BY <1>1, <1>2, <1>3 DEF TakeTurn, Pids

-----------------------------------------------------------------------------
\* An address a program was loaded at holds one of its instructions.
LEMMA LoadedFrom ==
    ASSUME NEW w \in Warriors, NEW base \in Bases, NEW c \in Loaded(w, base)
    PROVE  w[1 + ((c - base) % CoreSize)] \in Instrs
<1>1. w \in Seq(Instrs) /\ Len(w) \in Nat
  BY WarriorsAssumption
<1>2. PICK i \in 1 .. Len(w) : c = (base + i - 1) % CoreSize
  BY DEF Loaded
<1>3. base \in 0 .. CoreSize - 1 /\ CoreSize \in Nat \ {0} /\ i \in Nat \ {0}
  BY <1>1, SizesAssumption
<1> DEFINE m == (c - base) % CoreSize
<1>4. c \in 0 .. CoreSize - 1 /\ m \in 0 .. CoreSize - 1
  <2>1. base + i - 1 \in Int
    BY <1>3
  <2>2. c \in Cells
    BY <1>2, <2>1, Address
  <2>3. c - base \in Int
    BY <1>3, <2>2 DEF Cells
  <2> QED
    BY <2>2, <2>3, Address DEF Cells
<1>5. CASE i <= CoreSize
  <2>1. c = IF base + i - 1 < CoreSize THEN base + i - 1 ELSE base + i - 1 - CoreSize
    <3> DEFINE y == base + i - 1
    <3>1. y \in Int /\ -CoreSize <= y /\ y < 2 * CoreSize /\ y >= 0 /\ c = y % CoreSize
      BY <1>2, <1>3, <1>5
    <3>2. y < CoreSize \/ y >= CoreSize
      BY <1>3, <3>1
    <3> HIDE DEF y
    <3>3. c = IF y < CoreSize THEN y ELSE y - CoreSize
      BY <1>3, <3>1, <3>2, Near
    <3> QED
      BY <1>3, <3>1, <3>3 DEF y
  <2>2. m = IF c - base < 0 THEN c - base + CoreSize ELSE c - base
    <3> DEFINE y == c - base
    <3>1. y \in Int /\ -CoreSize <= y /\ y < 2 * CoreSize /\ y < CoreSize /\ m = y % CoreSize
      BY <1>3, <1>4
    <3>2. y < 0 \/ y >= 0
      BY <3>1
    <3> HIDE DEF y, m
    <3>3. m = IF y < 0 THEN y + CoreSize ELSE y
      BY <1>3, <3>1, <3>2, Near
    <3> QED
      BY <3>3 DEF y
  <2>3. m = i - 1
    <3> HIDE DEF m
    <3> QED
      BY <1>3, <1>5, <2>1, <2>2
  <2> HIDE DEF m
  <2>4. 1 + m = i
    BY <1>3, <2>3
  <2> QED
    BY <1>1, <2>4, ElementOfSeq DEF m
<1>6. CASE i > CoreSize
  <2> HIDE DEF m
  <2>1. 1 + m \in 1 .. Len(w)
    BY <1>1, <1>3, <1>4, <1>6
  <2> QED
    BY <1>1, <2>1, ElementOfSeq DEF m
<1> QED
  BY <1>3, <1>5, <1>6

\* A program starts at an address.
LEMMA StartTyped == ASSUME NEW w \in Warriors, NEW base \in Bases PROVE Start(w, base) \in Cells
<1> DEFINE first == CHOOSE k \in 1 .. Len(w) : w[k].op # "DAT" /\ \A j \in 1 .. k - 1 : w[j].op = "DAT"
<1>1. first \in 1 .. Len(w)
  BY WarriorsAssumption
<1> HIDE DEF first
<1>2. base - 1 + first \in Int
  BY <1>1, SizesAssumption, WarriorsAssumption
<1>3. Start(w, base) = (base - 1 + first) % CoreSize
  BY DEF Start, first
<1> QED
  BY <1>2, <1>3, Address

\* The loader leaves a core, and two queues of one process.
LEMMA InitInv == Init => IInv
<1> SUFFICES ASSUME Init PROVE IInv
  OBVIOUS
<1>1. PICK w0 \in Warriors, w1 \in Warriors, b0 \in Bases, b1 \in Bases :
        /\ core = [c \in Cells |->
                     IF c \in Loaded(w0, b0) THEN w0[1 + ((c - b0) % CoreSize)]
                     ELSE IF c \in Loaded(w1, b1) THEN w1[1 + ((c - b1) % CoreSize)]
                     ELSE Empty]
        /\ runq = [p \in Pids |-> <<IF p = 0 THEN Start(w0, b0) ELSE Start(w1, b1)>>]
  BY DEF Init
<1>2. Empty \in Instrs
  BY SizesAssumption DEF Empty, Instrs, Ops, Modes
<1>3. core \in Cores
  BY <1>1, <1>2, LoadedFrom DEF Cores
<1>4. Start(w0, b0) \in Cells /\ Start(w1, b1) \in Cells
  BY StartTyped
<1>5. runq \in [Pids -> Seq(Slots)] /\ \A p \in Pids : Len(runq[p]) = 1
  BY <1>1, <1>4 DEF Slots
<1>6. cur = [p \in Pids |-> 1] /\ nturn = [p \in Pids |-> NTurn] /\ curpid \in Pids /\ status = "running"
  BY DEF Init
<1>7. MarsType
  <2>1. NTurn \in 0 .. NTurn /\ 1 \in 1 .. NProc
    BY SizesAssumption
  <2>2. nturn \in [Pids -> 0 .. NTurn] /\ cur \in [Pids -> Nat]
    BY <1>6, <2>1, 1 \in Nat
  <2>3. \A p \in Pids : Len(runq[p]) \in 1 .. NProc /\ cur[p] \in 1 .. Len(runq[p])
    <3>1. \A p \in Pids : Len(runq[p]) = 1 /\ cur[p] = 1
      BY <1>5, <1>6
    <3>2. 1 \in 1 .. 1
      OBVIOUS
    <3> QED
      BY <2>1, <3>1, <3>2
  <2> QED
    BY <1>3, <1>5, <1>6, <2>2, <2>3 DEF MarsType
<1>8. EvenTurns
  BY <1>6, SizesAssumption DEF EvenTurns, Pids
<1> QED
  BY <1>7, <1>8 DEF IInv

\* The invariant is kept by every turn and by the end of the game.
LEMMA StepInv == IInv /\ [Next]_vars => IInv'
<1> SUFFICES ASSUME IInv, [Next]_vars PROVE IInv'
  OBVIOUS
<1>0. MarsType /\ EvenTurns
  BY DEF IInv
<1>1. ASSUME NEW p \in Pids, Exec(p) PROVE IInv'
  <2>1. /\ nturn' \in [Pids -> 0 .. NTurn] /\ curpid' \in Pids
        /\ nturn'[curpid'] - nturn'[1 - curpid'] \in {0, 1} /\ status = "running"
    BY <1>0, <1>1, ExecIs, TurnCounts
  <2>2. CASE Handled(p)
    BY <1>0, <2>1, <2>2, HandledTyped DEF IInv, MarsType, EvenTurns
  <2>3. CASE status' \in {"won", "outside"} /\ UNCHANGED <<core, runq, cur>>
    BY <1>0, <2>1, <2>3 DEF IInv, MarsType, EvenTurns
  <2> QED
    BY <1>0, <1>1, <2>2, <2>3, ExecIs
<1>2. ASSUME Tie PROVE IInv'
  <2>1. nturn[curpid] = 0 /\ nturn[1 - curpid] = 0
    BY <1>0, <1>2, SizesAssumption DEF Tie, MarsType, EvenTurns, Pids
  <2>2. nturn = [p \in Pids |-> 0]
    BY <1>0, <2>1 DEF MarsType, Pids
  <2> QED
    BY <1>0, <1>2, <2>2 DEF Tie, IInv, MarsType, EvenTurns
<1>3. ASSUME UNCHANGED vars PROVE IInv'
  BY <1>0, <1>3 DEF vars, IInv, MarsType, EvenTurns
<1> QED
  BY <1>1, <1>2, <1>3 DEF Next

-----------------------------------------------------------------------------
\* The inductive invariant.
THEOREM Invariance == Spec => []IInv
BY InitInv, StepInv, PTL DEF Spec

\* Core, queues and cursors keep their shape, whatever the programs overwrite
\* and whoever dies: no queue runs empty, no cursor leaves its queue, and what a
\* queue holds is an address or CWNONE (cwexec and its handlers).
THEOREM TypeCorrect == Spec => []TypeOK
<1>1. IInv => TypeOK
  <2> SUFFICES ASSUME IInv PROVE TypeOK
    OBVIOUS
  <2>1. \A p \in Pids : \A i \in 1 .. Len(runq[p]) : runq[p][i] \in Slots
    BY ElementOfSeq DEF IInv, MarsType
  <2> QED
    BY <2>1 DEF IInv, MarsType, TypeOK, Cores, Slots
<1> QED
  BY <1>1, Invariance, PTL

\* The programs get the same number of turns (cwloop).
THEOREM TurnsEven == Spec => []EvenTurns
<1>1. IInv => EvenTurns
  BY DEF IInv
<1> QED
  BY <1>1, Invariance, PTL

\* A turn moves the running process, and perhaps the last of the same program;
\* who dies by a jump to CWNONE takes the last one along (cwjmpop, cwexec).
THEOREM LastDragged == Spec => OnlyLastDragged
<1> DEFINE A == \A p \in Pids :
                  \/ runq'[p] = runq[p]
                  \/ curpid = p /\ Len(runq'[p]) >= Len(runq[p]) /\ OthersStay(p)
                  \/ curpid = p /\ OthersMoveUp(p)
<1>1. IInv /\ [Next]_vars => [A]_vars
  <2> SUFFICES ASSUME IInv, Next PROVE A
    OBVIOUS
  <2>0. MarsType /\ EvenTurns
    BY DEF IInv
  <2>1. ASSUME NEW p \in Pids, Exec(p) PROVE A
    <3>1. curpid = p
      BY <2>0, <2>1, ExecIs DEF TakeTurn
    <3>2. CASE Handled(p)
      BY <2>0, <3>1, <3>2, HandledTyped
    <3>3. CASE UNCHANGED <<core, runq, cur>>
      BY <3>3
    <3> QED
      BY <2>0, <2>1, <3>2, <3>3, ExecIs
  <2>2. ASSUME Tie PROVE A
    BY <2>2 DEF Tie
  <2> QED
    BY <2>1, <2>2 DEF Next
<1> QED
  BY <1>1, Invariance, PTL DEF Spec, OnlyLastDragged
=============================================================================
