-------------------------------- MODULE Zeus --------------------------------
(***************************************************************************)
(* Zeus, the display of the Core War game (corewar/x11.c) and cwexec of    *)
(* corewar/cw.c under it.  The game runs inside the handler of a button;   *)
(* before an instruction is executed all events that have arrived are      *)
(* handled, and so a handler may start while another is at work.           *)
(*                                                                         *)
(* The picture of the core is modelled by the cells whose drawing is out   *)
(* of date and by those that are drawn as selected.  What an instruction   *)
(* does to the core is left open here; Mars models it.                     *)
(***************************************************************************)
EXTENDS Integers, Sequences, FiniteSets

CONSTANTS SimCells,    \* the size of the core, CWCORESIZE
          SimTurns,    \* CWNTURN
          Second,      \* the cells program 2 was loaded to, g_cwmars.pidmap
          Rows,        \* lines in a listing, ZEUSDBNROW, 16
          SimCols,     \* cells in a row of the picture, ZEUSSIMNCOL, 160
          SimRows,     \* rows of the picture, ZEUSSIMNROW, 50
          DbCols,      \* letters in a line of a listing, ZEUSDBNCOL, 40
          ButtonW, ButtonH, \* pixels of a button, 64 and 48
          FontW, FontH, \* pixels of a letter: the font of the X server
          DrawEvery,   \* instructions between two drawings, 32
          MaxEvents,   \* bound: the events of a session, releases aside
          MaxDebt      \* bound: turns below none that are followed

ASSUME ZeusAssumption ==
    /\ SimCells \in Nat \ {0} /\ SimTurns \in Nat \ {0}
    /\ Second \subseteq 0 .. SimCells - 1 /\ Rows \in Nat \ {0}
    /\ DrawEvery \in Nat \ {0} /\ MaxEvents \in Nat /\ MaxDebt \in Nat
    /\ SimCols \in Nat \ {0} /\ SimRows \in Nat \ {0} /\ SimCells = SimRows * SimCols

\* With 40 letters and 800 pixels the font may be 10 pixels wide, and with the
\* buttons of this program 3 high; the one it loads is 6 by 13.
ASSUME FontAssumption ==
    /\ DbCols \in Nat \ {0} /\ FontW \in Nat \ {0} /\ FontH \in Nat \ {0}
    /\ ButtonW \in Nat \ {0} /\ ButtonH \in Nat \ {0}
    /\ 2 * (DbCols * FontW) <= 5 * SimCols
    /\ 6 * ButtonH <= 5 * SimRows + Rows * FontH

\* The buttons LOAD, EDIT and SAVE do what STEP does.
Buttons == {"RUN", "STOP", "STEP"}
SimPcs == 0 .. SimCells - 1

VARIABLES calls,     \* the handlers at work: [fn, pid], the innermost last
          playing,   \* g_cwmars.running
          mover,     \* g_cwmars.curpid
          turns,     \* g_cwmars.nturn
          ref,       \* the counter of cwexec
          stale,     \* cells whose drawing is out of date
          marked,    \* cells that are drawn as selected
          lost,      \* cells that the window has lost and pixbuf has not
          exposures, \* Expose events of the window that are to come
          listing,   \* rows in the windows of the programs: pairs of a row and a cell
          sel,       \* g_zeussel.bmap
          last,      \* g_zeussel.last
          pointed,     \* the cell pressed last, not in the code
          look,      \* how each button looks
          pressed,   \* the button the pointer has pressed
          ended,     \* "no", or how the program ended
          events,    \* events so far
          history    \* [moves, ties: Nat, mover: the last], not in the code

zeusvars == <<calls, playing, mover, turns, ref, stale, marked, lost, exposures, listing, sel,
              last, pointed, look, pressed, ended, events, history>>
game == <<playing, mover, turns, ref, history>>
picture == <<stale, marked, lost>>
screen == <<exposures, listing, sel, last, pointed>>
---------------------------------------------------------------------------
\* main draws the core, and then takes one event after the other.
ZeusInit ==
    /\ calls = <<>> /\ playing = FALSE /\ mover \in {0, 1}
    /\ turns = <<SimTurns, SimTurns>> /\ ref = 0
    /\ stale = {} /\ marked = {} /\ lost = {} /\ exposures = 0
    /\ listing = <<{}, {}>> /\ sel = {} /\ last = -1 /\ pointed = -1
    /\ look = [b \in Buttons |-> "none"] /\ pressed = "none"
    /\ ended = "no" /\ events = 0
    /\ history = [moves |-> 0, ties |-> 0, mover |-> -1]

\* zeusdrawsimop, for some cells: into pixbuf, and from there into the window.
zeusdrawsimop(cells, selected) ==
    /\ stale' = stale \ cells
    /\ marked' = (marked \ cells) \cup (cells \cap selected)
    /\ lost' = lost \ cells

\* The turns of a program, which the code counts from 0.
Left(t, p) == t[p + 1]
Spend(t, p) == [t EXCEPT ![p + 1] = @ - 1]

Innermost == calls[Len(calls)]
Outer == SubSeq(calls, 1, Len(calls) - 1)

\* zeusclickx11button: the look changes when the function of the button is done.
Clicked(b) == look' = [look EXCEPT ![b] = "click"]
---------------------------------------------------------------------------
(* The windows.  A cell is a square of five pixels, of which four are      *)
(* drawn; the rest is the gap to the next cell.                            *)

Win(x, y, w, h) == [x |-> x, y |-> y, w |-> w, h |-> h]

SimWidth == SimCols * 5
SimHeight == SimRows * 5
MainWin == Win(0, 0, SimWidth + ButtonW, SimHeight + Rows * FontH)

\* The windows in the main one: the picture, the column of the six buttons to its
\* right, and the two listings below it, side by side.
zeusinitx11win ==
    LET dbw == DbCols * FontW
        dbh == Rows * FontH
    IN  [sim |-> Win(0, 0, SimWidth, SimHeight),
         button |-> Win(SimWidth, 0, ButtonW, 6 * ButtonH),
         db1 |-> Win(0, SimHeight, dbw, dbh),
         db2 |-> Win(dbw, SimHeight, dbw, dbh)]

\* The picture is drawn here and copied to its window: as large as the main one.
Pixbuf == Win(0, 0, MainWin.w, MainWin.h)

\* Mutant: the pixels of a row are those of the main window.
CellUnderMain(x, y) == (y \div 5) * (MainWin.w \div 5) + x \div 5

\* The cell under a pixel of the picture: simw, not w, is the width of a row.
CellUnder(x, y) == (y \div 5) * (SimWidth \div 5) + x \div 5

\* The upper left pixel of a cell, and its square.
CellArea(pc) ==
    LET row == pc \div SimCols
        col == pc - row * SimCols
    IN  Win(col * 5, row * 5, 4, 4)

\* The pixels the pointer may be at, and the cells it may press.
Pixels0 == (0 .. SimWidth - 1) \X (0 .. SimHeight - 1)
UnderPointer == {CellUnder(p[1], p[2]) : p \in Pixels0}

\* The colours the program asks for; black and white are the screen's.
Inks == [background |-> "black", selected |-> "white", button |-> "orange", dat |-> "blue",
         prog1 |-> "green", prog1dat |-> "darkgreen", prog2 |-> "orange", prog2dat |-> "gold"]

\* What a cell holds: what is all zero is data, and of program 1.
CellKinds ==
    {op \in [data : BOOLEAN, zero : BOOLEAN, pid : {0, 1}] : op.zero => op.data /\ op.pid = 0}

\* What a cell looks like: op holds whether it is data, all zero, and whose it is.
CellInk(op, selected) ==
    IF selected THEN Inks.selected
    ELSE IF op.data THEN IF op.zero THEN Inks.dat ELSE IF op.pid = 1 THEN Inks.prog2dat ELSE Inks.prog1dat
    ELSE IF op.pid = 1 THEN Inks.prog2 ELSE Inks.prog1
---------------------------------------------------------------------------
(* The events.                                                             *)

\* XNextEvent in main, and zeusprocev in cwexec.
Event ==
    /\ ended = "no" /\ events < MaxEvents
    /\ events' = events + 1

\* zeusrun up to its first cwexec.
ClickRun ==
    /\ Event /\ pressed = "none" /\ pressed' = "RUN"
    /\ playing' = TRUE
    /\ IF Left(turns, mover) # 0
       THEN calls' = Append(calls, [fn |-> "RUN", pid |-> mover]) /\ UNCHANGED ended
       ELSE ended' = "tie" /\ UNCHANGED calls
    /\ UNCHANGED <<mover, turns, ref, history, look, picture, screen>>

ClickStop ==
    /\ Event /\ pressed = "none" /\ pressed' = "STOP"
    /\ playing' = FALSE
    /\ Clicked("STOP")
    /\ UNCHANGED <<calls, mover, turns, ref, history, ended, picture, screen>>

\* zeusstep up to its cwexec.  A program without turns gets a message and one
\* turn less than none.
ClickStep ==
    /\ Event /\ pressed = "none" /\ pressed' = "STEP"
    /\ playing' = FALSE
    /\ turns' = Spend(turns, mover)
    /\ IF Left(turns, mover) # 0
       THEN /\ calls' = Append(calls, [fn |-> "STEP", pid |-> mover])
            /\ UNCHANGED <<history, look>>
       ELSE /\ history' = [history EXCEPT !.ties = @ + 1]
            /\ Clicked("STEP")
            /\ UNCHANGED calls
    /\ UNCHANGED <<mover, ref, ended, picture, screen>>

\* zeusreleasex11button, zeusenterx11button and zeusleavex11button.
Release ==
    /\ ended = "no" /\ pressed # "none" /\ pressed' = "none"
    /\ look' = [look EXCEPT ![pressed] = "hover"]
    /\ UNCHANGED <<calls, game, ended, events, picture, screen>>
Cross(b) ==
    /\ Event /\ pressed = "none"
    /\ look' = [look EXCEPT ![b] = IF @ = "hover" THEN "norm" ELSE "hover"]
    /\ UNCHANGED <<calls, game, pressed, ended, picture, screen>>

\* zeusexposex11button: the first time the button gets its picture.
ExposeButton(b) ==
    /\ Event /\ look[b] = "none"
    /\ look' = [look EXCEPT ![b] = "norm"]
    /\ UNCHANGED <<calls, game, pressed, ended, picture, screen>>

\* zeusprintdb, which follows every press: the window of the program the cell
\* belongs to is cleared, and Rows cells from there on are listed, each in the
\* window of its own program.
zeusprintdb(pc) ==
    LET window(c) == IF c \in Second THEN 2 ELSE 1
        cell(i) == (pc + i) % SimCells
        rows(w) == {i \in 0 .. Rows - 1 : window(cell(i)) = w}
    IN  /\ listing' = [w \in 1 .. 2 |->
                         (IF w = window(pc) THEN {} ELSE listing[w])
                         \cup {<<i, cell(i)>> : i \in rows(w)}]
        /\ pointed' = pc

Press(pc) ==
    /\ Event /\ zeusprintdb(pc)
    /\ UNCHANGED <<calls, game, look, pressed, ended, exposures, sel, last, picture>>

\* zeustogglesel
Toggle(pc) ==
    /\ Event /\ zeusprintdb(pc)
    /\ sel' = IF pc \in sel THEN sel \ {pc} ELSE sel \cup {pc}
    /\ last' = pc
    /\ zeusdrawsimop({pc}, sel')
    /\ UNCHANGED <<calls, game, look, pressed, ended, exposures>>

\* zeusaddsel: from the last cell to the one before pc, or from pc to the
\* last cell.  The place after these is the last from now on.
AddSel(pc) ==
    LET first == IF pc < last THEN pc ELSE last + 1
        lim == IF pc < last THEN last + 1 ELSE pc
    IN  /\ Event /\ last >= 0 /\ zeusprintdb(pc)
        /\ last' = IF first < lim THEN lim ELSE first
        /\ IF lim > SimCells
           THEN ended' = "outside" /\ UNCHANGED <<sel, picture>>
           ELSE /\ sel' = sel \cup (first .. lim - 1)
                /\ zeusdrawsimop(first .. lim - 1, sel')
                /\ UNCHANGED ended
        /\ UNCHANGED <<calls, game, look, pressed, exposures>>

\* The server: the window is lost, and two events announce it.
Damage ==
    /\ Event /\ exposures = 0
    /\ lost' = SimPcs
    /\ exposures' = 2
    /\ UNCHANGED <<calls, game, look, pressed, ended, stale, marked, listing, sel, last, pointed>>

\* The last of the events, whose count is zero, copies pixbuf to the window.
ExposeSim ==
    /\ ended = "no" /\ exposures > 0
    /\ exposures' = exposures - 1
    /\ lost' = IF exposures = 1 THEN {} ELSE lost
    /\ UNCHANGED <<calls, game, look, pressed, ended, events, stale, marked, listing, sel,
                   last, pointed>>

ZeusEvent ==
    \/ ClickRun \/ ClickStop \/ ClickStep \/ Release \/ Damage \/ ExposeSim
    \/ \E b \in Buttons : Cross(b) \/ ExposeButton(b)
    \/ \E pc \in UnderPointer : Press(pc) \/ Toggle(pc) \/ AddSel(pc)
---------------------------------------------------------------------------
(* cwexec, when no event waits.                                            *)

\* Mutant: a stopped game is drawn no more often than a running one.
DueLater(n) == n = DrawEvery
Due(n) == ~playing \/ n = DrawEvery

\* The instruction changes some cells; then the core may be drawn.
Execute(changed) ==
    /\ ref' = IF Due(ref + 1) THEN 0 ELSE ref + 1
    /\ history' = [history EXCEPT !.moves = @ + 1, !.mover = Innermost.pid]
    /\ IF Due(ref + 1)
       THEN stale' = {} /\ marked' = sel /\ lost' = {}
       ELSE stale' = stale \cup changed /\ UNCHANGED <<marked, lost>>

\* The rest of zeusrun: the other program is to move, and has a turn less.
\* When that leaves it without one the game ends, stopped or not; one that
\* had none goes on below zero.
RunTurn(changed) ==
    LET other == 1 - Innermost.pid
    IN  /\ ended = "no" /\ calls # <<>> /\ Innermost.fn = "RUN"
        /\ Left(turns, other) > -MaxDebt
        /\ Execute(changed)
        /\ mover' = other
        /\ turns' = Spend(turns, other)
        /\ IF Left(turns', other) = 0 THEN ended' = "tie" /\ UNCHANGED <<calls, look>>
           ELSE /\ IF playing
                   THEN calls' = Append(Outer, [fn |-> "RUN", pid |-> other]) /\ UNCHANGED look
                   ELSE calls' = Outer /\ Clicked("RUN")
                /\ UNCHANGED ended
        /\ UNCHANGED <<playing, pressed, events, screen>>

\* The rest of zeusstep.
StepTurn(changed) ==
    /\ ended = "no" /\ calls # <<>> /\ Innermost.fn = "STEP"
    /\ Execute(changed)
    /\ mover' = 1 - Innermost.pid
    /\ calls' = Outer
    /\ Clicked("STEP")
    /\ UNCHANGED <<playing, turns, pressed, events, ended, screen>>

\* A program without a process: the core is drawn, and the game is over.
Won ==
    /\ ended = "no" /\ calls # <<>>
    /\ ended' = "won"
    /\ stale' = {} /\ marked' = sel /\ lost' = {}
    /\ UNCHANGED <<calls, game, look, pressed, events, screen>>

ZeusNext ==
    \/ ZeusEvent \/ Won
    \/ \E changed \in SUBSET SimPcs : RunTurn(changed) \/ StepTurn(changed)

ZeusSpec == ZeusInit /\ [][ZeusNext]_zeusvars
---------------------------------------------------------------------------
Idle == ended = "no" /\ calls = <<>>

ZeusTypeOK ==
    /\ calls \in Seq([fn : {"RUN", "STEP"}, pid : {0, 1}])
    /\ playing \in BOOLEAN /\ mover \in {0, 1} /\ turns \in [1 .. 2 -> Int]
    /\ ref \in 0 .. DrawEvery - 1
    /\ stale \subseteq SimPcs /\ marked \subseteq SimPcs /\ lost \subseteq SimPcs
    /\ \A w \in 1 .. 2 : listing[w] \subseteq (0 .. Rows - 1) \X SimPcs
    /\ pointed \in SimPcs \cup {-1}
    /\ exposures \in 0 .. 2 /\ sel \subseteq SimPcs /\ last \in Int
    /\ look \in [Buttons -> {"none", "norm", "hover", "click"}]
    /\ pressed \in Buttons \cup {"none"}
    /\ ended \in {"no", "tie", "won", "outside"} /\ events \in 0 .. MaxEvents

\* When no handler is at work the picture is that of the core: a game that
\* was stopped is drawn as it stands, however the buttons were pressed
\* (cwexec); at all times what is drawn as selected is selected (zeustogglesel,
\* zeusaddsel), and what the window has lost is still to be announced.
PictureTrue ==
    /\ Idle => stale = {}
    /\ ended # "outside" => marked = sel /\ last <= SimCells
    /\ exposures = 0 => lost = {}

\* Whatever handlers interrupted each other, each move and each tie has cost
\* a turn, and it is the other program that moves next (zeusrun, zeusstep).
TurnsKept ==
    Idle =>
        /\ 2 * SimTurns - (turns[1] + turns[2]) = history.moves + history.ties
        /\ history.mover >= 0 => mover = 1 - history.mover

\* The window of the program whose cell was pressed last is legible: it lists
\* the cell on top, and no row is printed over another (zeusprintdb).
ListingLegible ==
    pointed >= 0 =>
        LET mine == listing[IF pointed \in Second THEN 2 ELSE 1]
        IN  <<0, pointed>> \in mine /\ \A p, q \in mine : p[1] = q[1] => p = q

\* The STOP button looks pressed only while it is (zeusclickx11button).
StopLooksPressed == look["STOP"] = "click" => pressed = "STOP"

\* Two windows have no pixel in common, and one is all in another.
Apart0(a, b) == a.x + a.w <= b.x \/ b.x + b.w <= a.x \/ a.y + a.h <= b.y \/ b.y + b.h <= a.y
LiesIn(a, b) == b.x <= a.x /\ a.x + a.w <= b.x + b.w /\ b.y <= a.y /\ a.y + a.h <= b.y + b.h

\* Every cell can be pressed and no other: a press on what is drawn of a cell is a
\* press of that cell, and all of it is in the picture (zeusdrawsimop, zeustogglesel,
\* zeusaddsel, zeusprintdb).
PressedAsDrawn ==
    /\ UnderPointer = SimPcs
    /\ \A pc \in SimPcs :
          /\ LiesIn(CellArea(pc), zeusinitx11win.sim)
          /\ \A i, j \in 0 .. 3 : CellUnder(CellArea(pc).x + i, CellArea(pc).y + j) = pc

\* No window hides another or sticks out of the main one, and the buffer holds the
\* whole picture (zeusinitx11win, zeusinitx11buf).
WindowsApart ==
    /\ \A v \in DOMAIN zeusinitx11win :
          /\ LiesIn(zeusinitx11win[v], MainWin)
          /\ \A w \in DOMAIN zeusinitx11win : v = w \/ Apart0(zeusinitx11win[v], zeusinitx11win[w])
    /\ LiesIn(zeusinitx11win.sim, Pixbuf)

\* The colour of a cell tells whether it is selected, and otherwise whether it is
\* empty, or data or code, and whose (zeusinitx11gc, zeusdrawsimop).
ColoursTell ==
    \A a, b \in CellKinds, s, t \in BOOLEAN :
        CellInk(a, s) = CellInk(b, t) => s = t /\ (s \/ a = b)

\* The picture of a game, its turns under buttons pressed at any time, and the
\* look of those (cwexec, zeusrun, zeusstep, zeustogglesel, zeusclickx11button);
\* the places and colours of what is drawn.
DisplaySound ==
    /\ ZeusTypeOK /\ PictureTrue /\ TurnsKept /\ StopLooksPressed /\ ListingLegible
    /\ PressedAsDrawn /\ WindowsApart /\ ColoursTell
=============================================================================
