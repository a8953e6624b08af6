-------------------------------- MODULE Mars --------------------------------
(***************************************************************************)
(* The virtual machine of the Core War game (corewar/cw.c): two programs   *)
(* in one circular core take turns, one instruction each; a program has a  *)
(* queue of processes and a cursor into it.  The programs modify their own *)
(* and each other's instructions.                                          *)
(*                                                                         *)
(* A pre-decrement of a zero operand at address 0 makes the index -1,      *)
(* which is also CWNONE, the answer of a handler whose process is dead.  A *)
(* jump there takes the process out of the queue; what the C program does  *)
(* when it reads or writes an instruction at -1, or runs a process there,  *)
(* is undefined, and the model stops with status "outside".                *)
(***************************************************************************)
EXTENDS Integers, Sequences

CONSTANTS CoreSize,  \* CWCORESIZE
          Word,      \* the operands a and b are unsigned below Word
          NProc,     \* CWNPROC, the most processes of a program
          NTurn,     \* CWNTURN, the turns of a program
          Warriors,  \* the programs to choose from, sequences of instructions
          Bases      \* where the loader may put them

ASSUME SizesAssumption ==
    /\ CoreSize \in Nat \ {0} /\ NProc \in Nat \ {0} /\ NTurn \in Nat
    /\ Word \in Nat /\ Word > CoreSize
    /\ Bases \subseteq 0 .. CoreSize - 1

Pids == {0, 1}
Ops == {"DAT", "MOV", "ADD", "SUB", "JMP", "JMZ", "JMN", "CMP", "SLT", "DJN", "SPL"}
Modes == {"rel", "imm", "ind", "dec"}
Instrs == [op : Ops, amode : Modes, a : 0 .. Word - 1, bmode : Modes, b : 0 .. Word - 1]
Cells == 0 .. CoreSize - 1
CWNONE == -1

\* A program has a first instruction that is not a DAT.
ASSUME WarriorsAssumption ==
    \A w \in Warriors :
        /\ w \in Seq(Instrs)
        /\ \E i \in 1 .. Len(w) : w[i].op # "DAT" /\ \A j \in 1 .. i - 1 : w[j].op = "DAT"

VARIABLES core,    \* g_cwmars.optab
          runq,    \* runqtab[pid][0 .. proccnt[pid] - 1]
          cur,     \* curproc[pid], counted from 1
          nturn,   \* nturn[pid], the turns left
          curpid,  \* whose turn it is
          status   \* "running", or how the game ended

vars == <<core, runq, cur, nturn, curpid, status>>

\* calloc: all bits zero.
Empty == [op |-> "DAT", amode |-> "rel", a |-> 0, bmode |-> "rel", b |-> 0]
---------------------------------------------------------------------------
(* rcxlate: load a program at its base, start at its first instruction     *)
(* that is not a DAT, and refuse programs that overlap.                    *)

Loaded(w, base) == {(base + i - 1) % CoreSize : i \in 1 .. Len(w)}
Start(w, base) ==
    (base - 1 + CHOOSE i \in 1 .. Len(w) :
                    w[i].op # "DAT" /\ \A j \in 1 .. i - 1 : w[j].op = "DAT") % CoreSize

Init ==
    \E w0, w1 \in Warriors, b0, b1 \in Bases :
        /\ Loaded(w0, b0) \cap Loaded(w1, b1) = {}
        /\ core = [c \in Cells |->
                     IF c \in Loaded(w0, b0) THEN w0[1 + ((c - b0) % CoreSize)]
                     ELSE IF c \in Loaded(w1, b1) THEN w1[1 + ((c - b1) % CoreSize)]
                     ELSE Empty]
        /\ runq = [p \in Pids |-> <<IF p = 0 THEN Start(w0, b0) ELSE Start(w1, b1)>>]
        /\ cur = [p \in Pids |-> 1]
        /\ nturn = [p \in Pids |-> NTurn]
        /\ curpid \in Pids
        /\ status = "running"
---------------------------------------------------------------------------
(* cwgetargs                                                               *)

\* The remainder of C keeps the sign of its operand.
Rem(x) == IF x < 0 THEN -((-x) % CoreSize) ELSE x % CoreSize

\* One operand of the instruction at pc: its value, and the core after a
\* pre-decrement.  The word that is decremented wraps, the value does not.
Operand(c, pc, mode, v) ==
    LET via == (pc + v) % CoreSize
        b == IF mode = "dec" THEN c[via].b - 1 ELSE c[via].b
    IN  CASE mode = "imm" -> [core |-> c, arg |-> v % CoreSize]
          [] mode = "rel" -> [core |-> c, arg |-> via]
          [] mode = "ind" -> [core |-> c, arg |-> Rem(b + pc)]
          [] mode = "dec" -> [core |-> [c EXCEPT ![via].b = b % Word], arg |-> Rem(b + pc)]

\* The second operand is read after the first may have decremented it.
Args(pc) ==
    LET x == Operand(core, pc, core[pc].amode, core[pc].a)
        y == Operand(x.core, pc, x.core[pc].bmode, x.core[pc].b)
    IN  [core |-> y.core, src |-> x.arg, dst |-> y.arg]
---------------------------------------------------------------------------
(* cwexec and cwloop around the instruction handlers.                      *)

Pc(p) == runq[p][cur[p]]
After(pc) == (pc + 1) % CoreSize

\* The indices at which the handler of the instruction at pc reads or writes
\* the core: not the target of a jump.
Indices(pc) ==
    LET op == core[pc].op  x == Args(pc)  bmode == x.core[pc].bmode
    IN  CASE op \in {"DAT", "JMP", "SPL"} -> {}
          [] op \in {"JMZ", "JMN", "SLT"} -> {x.dst}
          [] op = "DJN" -> {IF bmode = "imm" THEN x.src ELSE x.dst}
          [] op = "ADD" /\ bmode = "imm" -> {}
          [] OTHER -> {x.src, x.dst}

InCore(p) == Pc(p) \in Cells /\ Indices(Pc(p)) \subseteq Cells

\* Mutant: a SPL does not end the turn of its program.
TurnKept(p) ==
    /\ status = "running"
    /\ curpid = p
    /\ nturn[p] > 0
    /\ nturn' = [nturn EXCEPT ![p] = @ - 1]
    /\ curpid' = IF Pc(p) \in Cells /\ core[Pc(p)].op = "SPL" THEN p ELSE 1 - p

\* Mutant: the turns are not counted.
TurnUncounted(p) ==
    /\ status = "running"
    /\ curpid = p
    /\ nturn[p] > 0
    /\ curpid' = 1 - p
    /\ UNCHANGED nturn

\* while (g_cwmars.nturn[pid]--) { cwexec(pid); pid++; pid &= 0x01; }
TakeTurn(p) ==
    /\ status = "running"
    /\ curpid = p
    /\ nturn[p] > 0
    /\ nturn' = [nturn EXCEPT ![p] = @ - 1]
    /\ curpid' = 1 - p

\* A turn whose instruction is an op.
Turn(p, op) == TakeTurn(p) /\ Pc(p) \in Cells /\ core[Pc(p)].op = op

\* The queue q without its slot i: those behind it move up.
Without(q, i) == [j \in 1 .. Len(q) - 1 |-> IF j < i THEN q[j] ELSE q[j + 1]]

\* A process has died.  It leaves the queue, and the game is over when it was
\* the only one.
Die(p, q) ==
    IF Len(q) > 1
    THEN /\ runq' = [runq EXCEPT ![p] = Without(q, cur[p])]
         /\ cur' = [cur EXCEPT ![p] = IF @ = Len(q) THEN 1 ELSE @]
         /\ UNCHANGED status
    ELSE /\ runq' = [runq EXCEPT ![p] = q]
         /\ status' = "won"
         /\ UNCHANGED cur

\* A process goes on at next.  The opcode is read again: what is a SPL by now
\* keeps the cursor where it is.
GoOn(p, c, q, next) ==
    /\ IF c[Pc(p)].op = "SPL"
       THEN runq' = [runq EXCEPT ![p] = q] /\ UNCHANGED cur
       ELSE /\ runq' = [runq EXCEPT ![p] = [q EXCEPT ![cur[p]] = next]]
            /\ cur' = [cur EXCEPT ![p] = IF @ = Len(q) THEN 1 ELSE @ + 1]
    /\ UNCHANGED status

\* The handler has left core c and queue q and returned next.
Finish(p, c, q, next) ==
    /\ InCore(p)
    /\ core' = c
    /\ IF next = CWNONE THEN Die(p, q) ELSE GoOn(p, c, q, next)

\* Mutant: the target goes to the first slot of the queue.
DraggedFirst(p, target) == [runq[p] EXCEPT ![1] = target]

\* A jump also stores its target in the last slot of the queue.
Dragged(p, target) == [runq[p] EXCEPT ![Len(runq[p])] = target]

\* Jump to target if the condition holds, else go on at next.
Branch(p, c, taken, target, next) ==
    IF taken THEN Finish(p, c, Dragged(p, target), target)
             ELSE Finish(p, c, runq[p], next)
---------------------------------------------------------------------------
(* The instruction handlers.                                               *)

\* The game is over and the other program has won.
Dat(p) ==
    /\ Turn(p, "DAT")
    /\ status' = "won"
    /\ UNCHANGED <<core, runq, cur>>

\* Only an immediate source with another destination moves a mere value.
Mov(p) ==
    LET pc == Pc(p)  x == Args(pc)  op == x.core[pc]
    IN  /\ Turn(p, "MOV")
        /\ Finish(p,
                  IF op.amode = "imm" /\ op.bmode # "imm"
                  THEN [x.core EXCEPT ![x.dst].b = x.src]
                  ELSE [x.core EXCEPT ![x.dst] = x.core[x.src]],
                  runq[p], After(pc))

Add(p) ==
    LET pc == Pc(p)  x == Args(pc)  op == x.core[pc]
        Sum(v, w) == (v + w) % CoreSize
    IN  /\ Turn(p, "ADD")
        /\ Finish(p,
                  IF op.bmode = "imm"
                  THEN [x.core EXCEPT ![pc].b = Rem(x.src + x.dst) % Word]
                  ELSE IF op.amode = "imm"
                  THEN [x.core EXCEPT ![x.dst].b = Sum(x.src, @)]
                  ELSE [x.core EXCEPT ![x.dst].a = Sum(x.core[x.src].a, @),
                                      ![x.dst].b = Sum(x.core[x.src].b, @)],
                  runq[p], After(pc))

\* Without an immediate source this is source minus destination.
Sub(p) ==
    LET pc == Pc(p)  x == Args(pc)  op == x.core[pc]
        Diff(v, w) == (IF v < w THEN v - w + CoreSize ELSE v - w) % Word
    IN  /\ Turn(p, "SUB")
        /\ Finish(p,
                  IF op.amode = "imm"
                  THEN [x.core EXCEPT ![x.dst].b = Diff(@, x.src)]
                  ELSE [x.core EXCEPT ![x.dst].a = Diff(x.core[x.src].a, @),
                                      ![x.dst].b = Diff(x.core[x.src].b, @)],
                  runq[p], After(pc))

\* A program with NProc processes does not jump: it stays at the JMP.
Jmp(p) ==
    LET pc == Pc(p)  x == Args(pc)
    IN  Turn(p, "JMP") /\ Branch(p, x.core, Len(runq[p]) < NProc, x.dst, pc)

Jmz(p) ==
    LET pc == Pc(p)  x == Args(pc)
    IN  Turn(p, "JMZ") /\ Branch(p, x.core, x.core[x.dst].b = 0, x.src, After(pc))

Jmn(p) ==
    LET pc == Pc(p)  x == Args(pc)
    IN  Turn(p, "JMN") /\ Branch(p, x.core, x.core[x.dst].b # 0, x.src, After(pc))

Cmp(p) ==
    LET pc == Pc(p)  x == Args(pc)
        equal == IF x.core[pc].amode = "imm" THEN x.src = x.core[x.dst].b
                 ELSE /\ x.core[x.src].a = x.core[x.dst].a
                      /\ x.core[x.src].b = x.core[x.dst].b
    IN  /\ Turn(p, "CMP")
        /\ Finish(p, x.core, runq[p], IF equal THEN After(After(pc)) ELSE After(pc))

\* Without an immediate source b is compared with itself: no skip.
Slt(p) ==
    LET pc == Pc(p)  x == Args(pc)
        less == x.core[pc].amode = "imm" /\ x.src < x.core[x.dst].b
    IN  /\ Turn(p, "SLT")
        /\ Finish(p, x.core, runq[p], IF less THEN After(After(pc)) ELSE After(pc))

\* When the count reaches zero the program stays at the DJN.
Djn(p) ==
    LET pc == Pc(p)  x == Args(pc)
        counter == IF x.core[pc].bmode = "imm" THEN x.src ELSE x.dst
        b == IF x.core[counter].b = 0 THEN CoreSize - 1 ELSE x.core[counter].b - 1
    IN  /\ Turn(p, "DJN")
        /\ Branch(p, [x.core EXCEPT ![counter].b = b], b # 0, x.src, pc)

\* The new process goes to the end of the queue, if there is room.
Spl(p) ==
    LET pc == Pc(p)  x == Args(pc)
        q == [runq[p] EXCEPT ![cur[p]] = After(pc)]
    IN  /\ Turn(p, "SPL")
        /\ Finish(p, x.core, IF Len(q) < NProc THEN Append(q, x.dst) ELSE q, After(pc))

\* An index or a process outside the core: undefined from here on.
FallOff(p) ==
    /\ TakeTurn(p)
    /\ ~InCore(p)
    /\ status' = "outside"
    /\ UNCHANGED <<core, runq, cur>>

\* The program whose turn it is has used up its turns.
Tie ==
    /\ status = "running"
    /\ nturn[curpid] = 0
    /\ status' = "tie"
    /\ UNCHANGED <<core, runq, cur, nturn, curpid>>
---------------------------------------------------------------------------
Exec(p) ==
    \/ Dat(p) \/ Mov(p) \/ Add(p) \/ Sub(p) \/ Jmp(p) \/ Jmz(p) \/ Jmn(p)
    \/ Cmp(p) \/ Slt(p) \/ Djn(p) \/ Spl(p) \/ FallOff(p)

Next == (\E p \in Pids : Exec(p)) \/ Tie

Spec == Init /\ [][Next]_vars

\* The main loop does nothing else.
FairSpec == Spec /\ WF_vars(Next)
---------------------------------------------------------------------------
TypeOK ==
    /\ core \in [Cells -> Instrs]
    /\ \A p \in Pids :
          /\ Len(runq[p]) \in 1 .. NProc
          /\ cur[p] \in 1 .. Len(runq[p])
          /\ \A i \in 1 .. Len(runq[p]) : runq[p][i] \in Cells \cup {CWNONE}
    /\ nturn \in [Pids -> 0 .. NTurn]
    /\ curpid \in Pids
    /\ status \in {"running", "won", "tie", "outside"}

\* The processes of p that a turn leaves in their slots: all but the running
\* one and, by the slot that a jump stores to, the last one.
OthersStay(p) ==
    \A i \in 1 .. Len(runq[p]) :
        i \in {cur[p], Len(runq[p])} \/ runq'[p][i] = runq[p][i]

\* The running process of p has died: those behind it move up, and the last one
\* has been sent out of the core.
OthersMoveUp(p) ==
    /\ Len(runq'[p]) = Len(runq[p]) - 1
    /\ \A i \in 1 .. Len(runq'[p]) :
          runq'[p][i] = LET old == IF i < cur[p] THEN i ELSE i + 1
                        IN  IF old = Len(runq[p]) THEN CWNONE ELSE runq[p][old]

\* A turn moves no process of the other program, and of the own ones at most
\* the running one and the last one; a process dies only together with the last.
OnlyLastDragged ==
    [][\A p \in Pids :
          \/ runq'[p] = runq[p]
          \/ curpid = p /\ Len(runq'[p]) >= Len(runq[p]) /\ OthersStay(p)
          \/ curpid = p /\ OthersMoveUp(p)]_vars

\* The programs get the same number of turns, whatever they do to the queues
\* and to the core: the one to move is at most one turn behind, and a tie is
\* declared only when neither has a turn left.
EvenTurns ==
    /\ status = "running" => nturn[curpid] - nturn[1 - curpid] \in {0, 1}
    /\ status = "tie" => nturn = [p \in Pids |-> 0]

\* Every game ends.
GameEnds == <>(status # "running")

\* "DAT: kills the process": a program that has other processes goes on.
DatKillsProcess ==
    [][\A p \in Pids : Dat(p) /\ Len(runq[p]) > 1 => status' = "running"]_vars
===========================================================================
