------------------------------- MODULE Caves -------------------------------
(***************************************************************************)
(* The cave generator of mjolnir (games/mjolnir/cell.c): random closing of *)
(* cells, the cellular automaton, smoothing and filling, the recursive     *)
(* search for caves with its growing tables, the removal of caves of the   *)
(* wrong size, and the corridors that are to join the caves.               *)
(*                                                                         *)
(* The recursion of dngfindcave is a stack of frames, each with its own    *)
(* copy of the size of the cell table, which a deeper call may have        *)
(* enlarged since.  A write past a table, and the use of a corridor after  *)
(* it has been freed, end the behaviour in the phase "wild".               *)
(***************************************************************************)
EXTENDS Integers, Sequences, FiniteSets

CONSTANTS GridW, GridH,   \* the size of the map
          Fills,          \* the sets of cells that the random start closes
          NIter,          \* steps of the automaton (caveparm.niter)
          MinSize,        \* caveparm.minsize
          MaxSize,        \* caveparm.maxsize
          CellTabInit,    \* the cells a new table has room for (16)
          CaveTabInit,    \* the caves the first table has room for (16)
          MinLen, MaxLen, \* corparm.minlen and maxlen
          MaxTurn,        \* corparm.maxturn
          Spacing         \* corparm.spacing

Cells == (0 .. GridW - 1) \X (0 .. GridH - 1)
NCells == GridW * GridH
CellAt(i) == <<i % GridW, i \div GridW>>      \* in the order of the scans

ASSUME CavesAssumption ==
    /\ GridW \in Nat \ {0} /\ GridH \in Nat \ {0}
    /\ Fills \subseteq SUBSET Cells
    /\ NIter \in Nat /\ MinSize \in Nat /\ MaxSize \in Nat
    /\ CellTabInit \in Nat \ {0} /\ CaveTabInit \in Nat \ {0}
    /\ MinLen \in Nat \ {0} /\ MaxLen \in Nat /\ MinLen <= MaxLen
    /\ MaxTurn \in Nat /\ Spacing \in Nat

VARIABLES phase,     \* where cellbuilddng is
          count,     \* of the automaton and the passes; the position of the scan
          closed,    \* dng->map: the cells whose bit is set
          caveid,    \* dng->caveidtab
          ncave,     \* dng->ncave
          ncavemax,  \* dng->ncavemax
          celltab,   \* the cells of each cave in dng->cavetab
          room,      \* cave->ncellmax of the cave being searched
          frames,    \* the calls of dngfindcave, the innermost last
          cormap,    \* dng->cormap: the cells of the finished corridor
          cor,       \* the cells of the corridor being tried
          dir,       \* the direction of the corridor
          dir1,      \* the direction it began with
          len,       \* what remains of its current leg
          nturn      \* what remains of its turns

cavevars == <<phase, count, closed, caveid, ncave, ncavemax, celltab, room, frames,
              cormap, cor, dir, dir1, len, nturn>>
mapvars == <<closed, caveid, ncave, ncavemax, celltab>>
corvars == <<cormap, cor, dir, dir1, len, nturn>>

NoCave == -1
NoDir == -1
Dirs == 0 .. 3                   \* north, south, east, west (DNG_NDIR2)
Reverse(d) == CASE d = 0 -> 1 [] d = 1 -> 0 [] d = 2 -> 3 [] d = 3 -> 2

\* dngdirofstab; the entry of the south-west is that of the north-west.
Offset == <<<<0, -1>>, <<0, 1>>, <<1, 0>>, <<-1, 0>>, <<1, -1>>, <<-1, -1>>, <<-1, -1>>, <<1, 1>>>>
Move(c, d) == <<c[1] + Offset[d + 1][1], c[2] + Offset[d + 1][2]>>

\* How many of the first lim neighbours of c lie in S (dngcountnbors1 and 0).
Neighbours(c, S, lim) == Cardinality({k \in 0 .. lim - 1 : Move(c, k) \in S})

CavesInit ==
    /\ phase = "automaton" /\ count = 0
    /\ closed \in Fills
    /\ caveid = [c \in Cells |-> NoCave]
    /\ ncave = 0 /\ ncavemax = CaveTabInit
    /\ celltab = [i \in 0 .. NCells |-> <<>>]
    /\ room = 0 /\ frames = <<>>
    /\ cormap = {} /\ cor = <<>> /\ dir = NoDir /\ dir1 = NoDir /\ len = 0 /\ nturn = 0

\* A random cell is closed if more than four of its neighbours are.
Automaton ==
    /\ phase = "automaton" /\ count < NIter
    /\ \E c \in Cells :
        closed' = IF Neighbours(c, closed, 8) > 4 THEN closed \cup {c} ELSE closed \ {c}
    /\ count' = count + 1
    /\ UNCHANGED <<phase, caveid, ncave, ncavemax, celltab, room, frames, corvars>>

\* One pass over the map in the order of its cells, each cell seeing what the
\* pass has done to those before it.
Pass(S, Cell(_, _)) ==
    LET upto[n \in 0 .. NCells] == IF n = 0 THEN S ELSE Cell(upto[n - 1], CellAt(n - 1))
    IN  upto[NCells]

SmoothCell(S, c) == IF c \in S /\ Neighbours(c, Cells \ S, 4) >= 3 THEN S \ {c} ELSE S
FillCell(S, c) == IF c \notin S /\ Neighbours(c, S, 4) >= 2 THEN S \cup {c} ELSE S

\* Three passes open cells with three open neighbours; one closes open cells
\* with two closed ones.
Smooth ==
    /\ phase = "automaton" /\ count = NIter
    /\ closed' = Pass(Pass(Pass(Pass(closed, SmoothCell), SmoothCell), SmoothCell), FillCell)
    /\ phase' = "scan" /\ count' = 0
    /\ UNCHANGED <<caveid, ncave, ncavemax, celltab, room, frames, corvars>>

---------------------------------------------------------------------------
\* A call of dngfindcave: at cell c, about to look in direction ndx, with its
\* own copy of the size of the cell table.
Frame(c, max) == [cell |-> c, ndx |-> 0, max |-> max]

\* dngbuildcaves comes to a closed cell without an owner: a new cave, for
\* which the table of caves may have to grow.
ScanFind ==
    /\ phase = "scan" /\ count < NCells
    /\ CellAt(count) \in closed /\ caveid[CellAt(count)] = NoCave
    /\ ncavemax' = IF ncave = ncavemax THEN 2 * ncavemax ELSE ncavemax
    /\ celltab' = [celltab EXCEPT ![ncave] = <<>>]
    /\ room' = CellTabInit
    /\ frames' = <<Frame(CellAt(count), CellTabInit)>>
    /\ phase' = "find"
    /\ UNCHANGED <<count, closed, caveid, ncave, corvars>>

ScanSkip ==
    /\ phase = "scan" /\ count < NCells
    /\ ~(CellAt(count) \in closed /\ caveid[CellAt(count)] = NoCave)
    /\ count' = count + 1
    /\ UNCHANGED <<phase, mapvars, room, frames, corvars>>

Top == frames[Len(frames)]
Seen == Move(Top.cell, Top.ndx)          \* the neighbour the call looks at
Below(f) == [i \in 1 .. Len(frames) |-> IF i = Len(frames) THEN f ELSE frames[i]]

\* A closed cell without an owner.
Fresh(c) == c \in closed /\ caveid[c] = NoCave

Full(n, max) == n = max

\* The neighbour joins the cave and is searched in turn.  The table grows if
\* its number of cells is the size this call knows of.
FindEnter ==
    /\ phase = "find" /\ Top.ndx < 4
    /\ Fresh(Seen)
    /\ LET n == Len(celltab[ncave])
           max == IF Full(n, Top.max) THEN 2 * Top.max ELSE Top.max
           size == IF Full(n, Top.max) THEN max ELSE room
       IN  /\ room' = size
           /\ \/ n < size /\ UNCHANGED phase
              \/ n >= size /\ phase' = "wild"
           /\ frames' = Append(Below([Top EXCEPT !.ndx = @ + 1, !.max = max]), Frame(Seen, size))
    /\ caveid' = [caveid EXCEPT ![Seen] = ncave]
    /\ celltab' = [celltab EXCEPT ![ncave] = Append(@, Seen)]
    /\ UNCHANGED <<count, closed, ncave, ncavemax, corvars>>

FindPass ==
    /\ phase = "find" /\ Top.ndx < 4
    /\ ~Fresh(Seen)
    /\ frames' = Below([Top EXCEPT !.ndx = @ + 1])
    /\ UNCHANGED <<phase, count, mapvars, room, corvars>>

FindReturn ==
    /\ phase = "find" /\ Top.ndx = 4 /\ Len(frames) > 1
    /\ frames' = SubSeq(frames, 1, Len(frames) - 1)
    /\ UNCHANGED <<phase, count, mapvars, room, corvars>>

RightSize(n) == n > MinSize /\ n <= MaxSize

\* The first call is over: a cell without neighbours makes no cave.
FoundNone ==
    /\ phase = "find" /\ Top.ndx = 4 /\ Len(frames) = 1
    /\ celltab[ncave] = <<>>
    /\ frames' = <<>> /\ phase' = "scan" /\ count' = count + 1 /\ room' = 0
    /\ UNCHANGED <<mapvars, corvars>>

FoundCave ==
    /\ phase = "find" /\ Top.ndx = 4 /\ Len(frames) = 1
    /\ celltab[ncave] # <<>> /\ RightSize(Len(celltab[ncave]))
    /\ ncave' = ncave + 1
    /\ frames' = <<>> /\ phase' = "scan" /\ count' = count + 1 /\ room' = 0
    /\ UNCHANGED <<closed, caveid, ncavemax, celltab, corvars>>

\* Mutant: a removed cave leaves its number in the cells.
RemoveHalf ==
    /\ phase = "find" /\ Top.ndx = 4 /\ Len(frames) = 1
    /\ celltab[ncave] # <<>> /\ ~RightSize(Len(celltab[ncave]))
    /\ LET gone == {celltab[ncave][i] : i \in 1 .. Len(celltab[ncave])}
       IN  closed' = closed \ gone
    /\ celltab' = [celltab EXCEPT ![ncave] = <<>>]
    /\ phase' = IF ncave + 1 >= ncavemax THEN "wild" ELSE "scan"
    /\ frames' = <<>> /\ count' = count + 1 /\ room' = 0
    /\ UNCHANGED <<ncave, ncavemax, caveid, corvars>>

\* dngrmcave opens the cells of a cave of the wrong size.  The entry it
\* clears is the one after the cave's, which may lie past the table.
RemoveCave ==
    /\ phase = "find" /\ Top.ndx = 4 /\ Len(frames) = 1
    /\ celltab[ncave] # <<>> /\ ~RightSize(Len(celltab[ncave]))
    /\ LET gone == {celltab[ncave][i] : i \in 1 .. Len(celltab[ncave])}
       IN  /\ closed' = closed \ gone
           /\ caveid' = [c \in Cells |-> IF c \in gone THEN NoCave ELSE caveid[c]]
    /\ celltab' = [celltab EXCEPT ![ncave] = <<>>]
    /\ phase' = IF ncave + 1 >= ncavemax THEN "wild" ELSE "scan"
    /\ frames' = <<>> /\ count' = count + 1 /\ room' = 0
    /\ UNCHANGED <<ncave, ncavemax, corvars>>

---------------------------------------------------------------------------
\* dngconncaves: without caves there is nothing to join.
Connect ==
    /\ phase = "scan" /\ count = NCells
    /\ phase' = IF ncave = 0 THEN "done" ELSE "connect"
    /\ UNCHANGED <<count, mapvars, room, frames, corvars>>

NoCell == <<-1, -1>>
Last(s) == s[Len(s)]

\* The first open cell in direction d from c, unless the map ends before it.
Along(c, d, n) == <<c[1] + n * Offset[d + 1][1], c[2] + n * Offset[d + 1][2]>>
Edge(c, d) ==
    LET n == CHOOSE n \in 1 .. GridW + GridH :
                 /\ Along(c, d, n) \notin closed
                 /\ \A m \in 1 .. n - 1 : Along(c, d, m) \in closed
    IN  IF Along(c, d, n) \in Cells THEN Along(c, d, n) ELSE NoCell

\* dngturncor: any direction but back (and not the second one, if there is one).
Turned(d, from, not) == d # not /\ (from \in Dirs => d # Reverse(from))

\* dngtrycor begins at cell e in direction d.
StartCorridor(e, d) ==
    /\ phase' = "corridor" /\ cor' = <<e>> /\ dir1' = d
    /\ len' \in MinLen .. MaxLen /\ nturn' = MaxTurn

\* dngfindedge from a cell of the cave; caves have the id 0 in their
\* structures, so it is always the first one.  The corridor begins at the
\* open cell it comes to; the edge of the map sends it to another try.
FindEdge ==
    /\ phase = "connect"
    /\ \E i \in 1 .. Len(celltab[0]), d \in Dirs :
        /\ Turned(d, dir, NoDir)
        /\ dir' = d
        /\ LET e == Edge(celltab[0][i], d)
           IN  \/ e = NoCell /\ UNCHANGED <<phase, cor, dir1, len, nturn>>
               \/ e # NoCell /\ StartCorridor(e, d)
    /\ UNCHANGED <<count, mapvars, room, frames, cormap>>

\* dngtrycor gives up: the next try goes on from the direction it began with.
GiveUp ==
    /\ phase' = "connect" /\ cor' = <<>> /\ len' = 0 /\ nturn' = 0
    /\ dir' = dir1 /\ dir1' = NoDir
    /\ UNCHANGED <<count, mapvars, room, frames, cormap>>

Ahead == Move(Last(cor), dir)

\* dngchkcorcell(corx, corx): a closed cell to one side, at the distance of
\* the spacing, is too near.  The row is the column's number.
TooNear(x, y) ==
    \/ Offset[dir + 1][1] = 0 /\ <<x + Spacing, y>> \in closed
    \/ Offset[dir + 1][2] = 0 /\ <<x, y + Spacing>> \in closed

InCorridor == phase = "corridor" /\ len > 0

\* Mutant: the cave the corridor comes from is not told from the others.
CorJoinAny ==
    /\ InCorridor /\ Ahead \in Cells
    /\ caveid[Ahead] # NoCave
    /\ Len(cor) > 1
    /\ cor' = Append(cor, Ahead) /\ phase' = "joined"
    /\ UNCHANGED <<count, mapvars, room, frames, cormap, dir, dir1, len, nturn>>

\* Another cave: the corridor is complete, unless it has no length.
CorJoin ==
    /\ InCorridor /\ Ahead \in Cells
    /\ caveid[Ahead] \notin {NoCave, 0}
    /\ Len(cor) > 1
    /\ cor' = Append(cor, Ahead) /\ phase' = "joined"
    /\ UNCHANGED <<count, mapvars, room, frames, cormap, dir, dir1, len, nturn>>

CorAdvance ==
    /\ InCorridor /\ Ahead \in Cells
    /\ caveid[Ahead] = NoCave /\ ~TooNear(Ahead[1], Ahead[1])
    /\ cor' = Append(cor, Ahead) /\ len' = len - 1
    /\ UNCHANGED <<phase, count, mapvars, room, frames, cormap, dir, dir1, nturn>>

CorFail ==
    /\ InCorridor
    /\ \/ Ahead \notin Cells
       \/ Ahead \in Cells /\ caveid[Ahead] = 0
       \/ Ahead \in Cells /\ caveid[Ahead] \notin {NoCave, 0} /\ Len(cor) = 1
       \/ Ahead \in Cells /\ caveid[Ahead] = NoCave /\ TooNear(Ahead[1], Ahead[1])
    /\ GiveUp

\* The leg is over: the last two legs go straight on, the others turn, never
\* back and never into the first direction.
CorTurn ==
    /\ phase = "corridor" /\ len = 0 /\ nturn > 0
    /\ nturn' = nturn - 1
    /\ len' \in MinLen .. MaxLen
    /\ \/ nturn > 2 /\ \E d \in Dirs : Turned(d, dir, dir1) /\ dir' = d
       \/ nturn <= 2 /\ UNCHANGED dir
    /\ UNCHANGED <<phase, count, mapvars, room, frames, cormap, cor, dir1>>

CorOver == phase = "corridor" /\ len = 0 /\ nturn = 0 /\ GiveUp

\* The corridor is drawn.  The table that should lead to its other cave is
\* never filled, so the corridor is freed; the loop goes on with it.
DrawCorridor ==
    /\ phase = "joined"
    /\ cormap' = {cor[i] : i \in 1 .. Len(cor)}
    /\ phase' = "wild"
    /\ UNCHANGED <<count, mapvars, room, frames, cor, dir, dir1, len, nturn>>

\* cellbuilddng
CavesNext ==
    \/ Automaton \/ Smooth
    \/ ScanFind \/ ScanSkip \/ FindEnter \/ FindPass \/ FindReturn
    \/ FoundNone \/ FoundCave \/ RemoveCave
    \/ Connect \/ FindEdge \/ CorJoin \/ CorAdvance \/ CorFail \/ CorTurn \/ CorOver
    \/ DrawCorridor

CavesSpec == CavesInit /\ [][CavesNext]_cavevars
---------------------------------------------------------------------------
Adjacent(c, d) == \E k \in Dirs : d = Move(c, k)

\* The closed cells that c hangs together with.
Component(c) ==
    LET upto[n \in 0 .. NCells] ==
            IF n = 0 THEN {c} \cap closed
            ELSE LET near == upto[n - 1]
                 IN  near \cup {d \in closed : \E e \in near : Adjacent(e, d)}
    IN  upto[NCells]

CaveCells(i) == {celltab[i][j] : j \in 1 .. Len(celltab[i])}

\* When the search is over, the numbered caves are exactly the connected
\* regions of closed cells of the right size, each listed once and complete;
\* what is closed and has no number is a single cell (dngbuildcaves,
\* dngfindcave, dngrmcave).
CavesSound ==
    phase \in {"connect", "corridor", "joined", "done"} =>
        /\ \A i \in 0 .. ncave - 1 :
            /\ RightSize(Len(celltab[i]))
            /\ \A j, k \in 1 .. Len(celltab[i]) : celltab[i][j] = celltab[i][k] => j = k
            /\ \A c \in CaveCells(i) : Component(c) = CaveCells(i)
            /\ CaveCells(i) = {c \in Cells : caveid[c] = i}
        /\ \A c \in Cells : caveid[c] # NoCave => caveid[c] < ncave
        /\ \A c \in closed : caveid[c] = NoCave => Component(c) = {c}

\* A call that returns to a table that deeper calls have enlarged does not
\* write past it as long as the cave has no more cells than twice the first
\* table (dngfindcave).
TablesHold == phase = "wild" /\ frames # <<>> => Len(celltab[ncave]) > 2 * CellTabInit

\* A corridor leads from the edge of the first cave through cells without an
\* owner, one beside the other, into another cave (dngfindedge, dngtrycor).
CorridorJoins ==
    phase \in {"corridor", "joined"} =>
        LET n == Len(cor)
            inner == IF phase = "joined" THEN n - 1 ELSE n
        IN  /\ \E c \in CaveCells(0) : Adjacent(c, cor[1])
            /\ \A i \in 1 .. n - 1 : Adjacent(cor[i], cor[i + 1])
            /\ \A i \in 1 .. inner : caveid[cor[i]] = NoCave
            /\ phase = "joined" => n > 2 /\ caveid[cor[n]] \in 1 .. ncave - 1

\* The caves of a map, the tables they are kept in and the corridors between them
\* (dngrmcave, dngfindcave, dngtrycor).
DungeonSound == CavesSound /\ TablesHold /\ CorridorJoins
===========================================================================
