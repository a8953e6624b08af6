-------------------------------- MODULE Rooms --------------------------------
(***************************************************************************)
(* How mjolnir makes the rooms of a level (mjolnir/room.c): the level is   *)
(* halved again and again into eight parts, a room is placed in each part, *)
(* and a line is drawn from every room to the next.                        *)
(*                                                                         *)
(* The objects that stand for walls, doors and corridors are NULL in this  *)
(* build (the macros of mjol.h), so that the cells a line meets never stop *)
(* it; what is left of the drawing is which cells of the level it reaches. *)
(* A column or row is whatever the C expression gives, also outside the    *)
(* level.  mjolrand is any of a few values.                                *)
(***************************************************************************)
EXTENDS Integers, Sequences, FiniteSets

CONSTANTS LevelSizes,      \* <<width, height>> of a level
          RoomDraws,  \* the four values of mjolrand that mjolmkroom gets
          LineDraws,  \* the values of mjolrand that mjolconnrooms gets
          Junk        \* what an uninitialised column may hold

\* A level is 80 by 24 if no option says otherwise.  Options are not checked: with less
\* than 16 a part has less than 4, and a room in it no extent.
ASSUME RoomsAssumption ==
    /\ \A s \in LevelSizes : s \in Nat \X Nat /\ s[1] >= 16 /\ s[2] >= 16
    /\ RoomDraws \subseteq Nat \X Nat \X Nat \X Nat
    /\ LineDraws \subseteq Nat \X Nat \X Nat

MIN_WIDTH == 8
MIN_HEIGHT == 6
MAX_WIDTH == 16
MAX_HEIGHT == 12
NLVL == 3
NParts == 2 ^ NLVL

Greater(a, b) == IF a >= b THEN a ELSE b
Lesser(a, b) == IF a <= b THEN a ELSE b

VARIABLES lvlsize,   \* width and height of the level
          parts,  \* tab: the parts, each before the two it was halved into
          rooms,  \* the rooms, in the order of ret
          conn,   \* the last line: what it divided by and the cells it reached
          stray,  \* its column was not initialised
          nroom,  \* the number of rooms the caller is told, 0 before
          dead    \* the program has divided by zero

roomvars == <<lvlsize, parts, rooms, conn, stray, nroom, dead>>

NoLine == [src |-> 0, mods |-> {}, cells |-> {}]

RoomsInit ==
    /\ lvlsize \in LevelSizes
    /\ \E v \in BOOLEAN :
          parts = <<[x |-> 0, y |-> 0, w |-> lvlsize[1], h |-> lvlsize[2], vertical |-> v]>>
    /\ rooms = <<>>
    /\ conn = NoLine
    /\ stray = FALSE
    /\ nroom = 0
    /\ dead = FALSE
---------------------------------------------------------------------------
(* mjolsplitroom: the two halves of a part, halved the other way next.     *)

Halves(p) ==
    IF p.vertical
    THEN LET pos == p.w \div 2
         IN <<[p EXCEPT !.w = pos, !.vertical = FALSE],
              [p EXCEPT !.x = @ + pos, !.w = @ - pos, !.vertical = FALSE]>>
    ELSE LET pos == p.h \div 2
         IN <<[p EXCEPT !.h = pos, !.vertical = TRUE],
              [p EXCEPT !.y = @ + pos, !.h = @ - pos, !.vertical = TRUE]>>

\* The parts are halved in the order of the table, seven in all, and each
\* halving appends two to the table.
Split ==
    /\ ~dead /\ Len(parts) < 2 * NParts - 1
    /\ parts' = parts \o Halves(parts[(Len(parts) + 1) \div 2])
    /\ UNCHANGED <<lvlsize, rooms, conn, stray, nroom, dead>>
---------------------------------------------------------------------------
(* mjolmkroom: a place at the upper left of the part, and a size.          *)

Place(d, len, least) == Greater(Lesser(d % Greater(len \div 4, 2), len - least - 2), 1)

\* Mutant: the size is not limited by where the room begins.
ExtentFree(d, len, at, least, most) ==
    Lesser(Lesser(Greater(least + (d % Greater(len - 2, 1)), least), len), most)

Extent(d, len, at, least, most) ==
    Lesser(Lesser(Greater(least + (d % Greater(len - 2, 1)), least), len - at - 2), most)

mjolmkroom(p, d) ==
    LET x == Place(d[1], p.w, MIN_WIDTH)
        y == Place(d[2], p.h, MIN_HEIGHT)
    IN [x |-> p.x + x, y |-> p.y + y,
        w |-> Extent(d[3], p.w, x, MIN_WIDTH, MAX_WIDTH),
        h |-> Extent(d[4], p.h, y, MIN_HEIGHT, MAX_HEIGHT)]

\* The last eight parts get a room, from the last to the first.
MakeRoom ==
    /\ ~dead /\ Len(parts) = 2 * NParts - 1 /\ Len(rooms) < NParts
    /\ \E d \in RoomDraws :
          rooms' = Append(rooms, mjolmkroom(parts[Len(parts) - Len(rooms)], d))
    /\ UNCHANGED <<lvlsize, parts, conn, stray, nroom, dead>>

RightEdge(r) == r.x + r.w - 1
BottomEdge(r) == r.y + r.h - 1
---------------------------------------------------------------------------
(* mjolconnrooms.  A draw is reduced by a modulus, with C's remainder, and *)
(* raised to one.  A line starts at its first cell, goes on below its      *)
(* limit and ends one cell further: at the limit, or next to where it      *)
(* began if the limit was not ahead.                                       *)

Step(d, m) == IF m = 0 THEN 1 ELSE Greater(d % (IF m < 0 THEN -m ELSE m), 1)

\* max evaluates its greater argument twice: two draws.
StepTwice(d, e, m) ==
    IF m = 0 THEN 1
    ELSE IF d % (IF m < 0 THEN -m ELSE m) >= 1 THEN e % (IF m < 0 THEN -m ELSE m) ELSE 1

End(from, lim) == Greater(from + 1, lim)
Down(x, from, lim) == {<<x, y>> : y \in from .. End(from, lim)}
Across(y, from, lim) == {<<x, y>> : x \in from .. End(from, lim)}
Short(x, from, lim) == {<<x, y>> : y \in from .. End(from, lim) - 1}

Drawn(mods, cells) == [mods |-> mods, cells |-> cells]

\* src begins above dest or level with it, and to its left.
LeftAbove(s, t, d, junk) ==
    IF t.x <= RightEdge(s)
    THEN Drawn({s.x + s.w - t.x - 1}, Down(junk, BottomEdge(s), t.y))
    ELSE IF t.y <= BottomEdge(s)
    THEN LET delta == s.y + s.h - t.y - 1
         IN Drawn({delta}, Across(t.y + Step(d[1], delta), RightEdge(s), t.x))
    ELSE LET y == t.y + Step(d[1], t.h - 1)
             x == s.x + Step(d[2], s.w - 1)
         IN Drawn({t.h - 1, s.w - 1},
                  Down(x, BottomEdge(s), y) \cup Across(End(BottomEdge(s), y), x, t.x))

\* src begins above dest or level with it, and to its right.
RightAbove(s, t, d) ==
    IF s.x <= RightEdge(t)
    THEN LET delta == t.x + t.w - s.x - 1
         IN Drawn({delta}, Down(s.x + Step(d[1], delta), BottomEdge(s), t.y))
    ELSE IF t.y <= BottomEdge(s)
    THEN LET delta == s.y + s.h - t.y - 1
         IN Drawn({delta}, Across(t.y + Step(d[1], delta), RightEdge(t), s.x))
    ELSE LET val == Step(d[1], t.h - 1)
         IN Drawn({t.h - 1},
                  Short(s.x + val, BottomEdge(s), t.y + val)
                      \cup Across(End(BottomEdge(s), t.y + val), RightEdge(t), s.x + val))

\* src begins beside dest, below its top.
Beside(s, t, d) ==
    IF s.x <= t.x
    THEN LET delta == Lesser(t.y + t.h - s.y - 1, s.h - 1)
         IN Drawn({delta}, Across(s.y + Step(d[1], delta), RightEdge(s), t.x))
    ELSE LET delta == Lesser(t.y + t.h - s.y, s.h - 1)
         IN Drawn({delta}, Across(s.y + Step(d[1], delta), RightEdge(t), s.x))

\* src is below dest and begins to its left.
LeftBelow(s, t, d) ==
    IF t.x <= RightEdge(s)
    THEN LET delta == s.x + s.w - t.x - 1
         IN Drawn({delta}, Down(t.x + Step(d[2], delta), BottomEdge(t), BottomEdge(t)))
    ELSE LET y == s.y + Step(d[1], s.h - 1)
             lim == t.x + StepTwice(d[2], d[3], t.w - 1)
         IN Drawn({s.h - 1, t.w - 1},
                  Across(y, RightEdge(s), lim) \cup Short(End(RightEdge(s), lim), BottomEdge(t), y))

\* src is below dest and begins to its right.
RightBelow(s, t, d) ==
    IF s.x <= RightEdge(t)
    THEN LET delta == t.x + t.w - s.x - 1
         IN Drawn({delta}, Down(s.x + Step(d[1], delta), BottomEdge(t), s.y))
    ELSE LET lim == s.y + Step(d[1], s.h - 1)
             x == t.x + Step(d[2], t.w - 1)
         IN Drawn({s.h - 1, t.w - 1},
                  Down(x, BottomEdge(t), lim) \cup Across(End(BottomEdge(t), lim), x, s.x))

mjolconnrooms(s, t, d, junk) ==
    IF s.y <= t.y
    THEN IF s.x <= t.x THEN LeftAbove(s, t, d, junk) ELSE RightAbove(s, t, d)
    ELSE IF s.y <= BottomEdge(t) THEN Beside(s, t, d)
    ELSE IF s.x <= t.x THEN LeftBelow(s, t, d)
    ELSE RightBelow(s, t, d)

Uninitialised(s, t) == s.y <= t.y /\ s.x <= t.x /\ t.x <= RightEdge(s)

\* Each room, from the second, is the source of a line to the one before.
ConnectRooms ==
    /\ ~dead /\ Len(rooms) = NParts /\ nroom = 0 /\ conn.src < NParts
    /\ LET k == Greater(conn.src + 1, 2)
           s == rooms[k]
           t == rooms[k - 1]
       IN \E d \in LineDraws, junk \in IF Uninitialised(s, t) THEN Junk ELSE {0} :
            LET l == mjolconnrooms(s, t, d, junk)
            IN /\ conn' = [src |-> k, mods |-> l.mods, cells |-> l.cells]
               /\ stray' = Uninitialised(s, t)
               /\ dead' = (0 \in l.mods)
    /\ UNCHANGED <<lvlsize, parts, rooms, nroom>>

\* mjolinitrooms tells its caller how many rooms there are.
Finish ==
    /\ ~dead /\ conn.src = NParts /\ nroom = 0
    /\ nroom' = 2 * NLVL
    /\ UNCHANGED <<lvlsize, parts, rooms, conn, stray, dead>>

RoomsNext == Split \/ MakeRoom \/ ConnectRooms \/ Finish

RoomsSpec == RoomsInit /\ [][RoomsNext]_roomvars
---------------------------------------------------------------------------
\* The table of parts grows to its fifteen entries, one room is made for each
\* of the last eight, and a line joins rooms that have been made.
RoomsTypeOK ==
    /\ lvlsize \in LevelSizes
    /\ Len(parts) \in 1 .. 2 * NParts - 1
    /\ \A i \in 1 .. Len(parts) :
          parts[i] \in [x : Nat, y : Nat, w : Nat, h : Nat, vertical : BOOLEAN]
    /\ Len(rooms) \in 0 .. NParts
    /\ \A i \in 1 .. Len(rooms) : rooms[i] \in [x : Nat, y : Nat, w : Nat \ {0}, h : Nat \ {0}]
    /\ conn.src \in 0 .. Len(rooms)
    /\ nroom \in {0, 2 * NLVL}
    /\ stray \in BOOLEAN /\ dead \in BOOLEAN

\* p and q have no cell in common.
NoneShared(p, q) ==
    \/ p.x + p.w <= q.x \/ q.x + q.w <= p.x
    \/ p.y + p.h <= q.y \/ q.y + q.h <= p.y

\* The parts of a table that are not halved yet, and how many cells they have.
Leaves(tab) == (Len(tab) + 1) \div 2 .. Len(tab)
Covered(tab) ==
    LET area[i \in 0 .. Len(tab)] ==
            IF i = 0 THEN 0
            ELSE area[i - 1] + (IF i \in Leaves(tab) THEN tab[i].w * tab[i].h ELSE 0)
    IN  area[Len(tab)]

\* Halving (mjolsplitroom) loses no cell of the level and gives none to two
\* parts: at every moment the parts not halved yet cover it.
PartsTile ==
    /\ \A i, j \in Leaves(parts) : i < j => NoneShared(parts[i], parts[j])
    /\ \A i \in Leaves(parts) :
          parts[i].x + parts[i].w <= lvlsize[1] /\ parts[i].y + parts[i].h <= lvlsize[2]
    /\ Covered(parts) = lvlsize[1] * lvlsize[2]

\* Rooms do not touch the edge of the level and have a free row or column
\* between them, whatever mjolmkroom drew.
RoomsApart ==
    \A i \in 1 .. Len(rooms) :
        /\ rooms[i].x > 0 /\ rooms[i].x + rooms[i].w < lvlsize[1]
        /\ rooms[i].y > 0 /\ rooms[i].y + rooms[i].h < lvlsize[2]
        /\ \A j \in 1 .. i - 1 :
              NoneShared([rooms[i] EXCEPT !.w = @ + 1, !.h = @ + 1],
                    [rooms[j] EXCEPT !.w = @ + 1, !.h = @ + 1])

\* A line whose column was set stays in the level: mjolconnrooms indexes
\* objtab with every cell of it.  In a level of fewer than 52 columns, which only an
\* option makes, a line to the lower left can leave it: its column is raised by a
\* number drawn for a height (RightAbove).
LinesInside ==
    lvlsize[1] < 52 \/ stray \/ dead \/ \A c \in conn.cells : c[1] \in 0 .. lvlsize[1] - 1 /\ c[2] \in 0 .. lvlsize[2] - 1

\* The parts of a level, the rooms in them and the lines between those
\* (mjolsplitroom, mjolmkroom, mjolconnrooms).
LevelSound == RoomsTypeOK /\ PartsTile /\ RoomsApart /\ LinesInside
=============================================================================
