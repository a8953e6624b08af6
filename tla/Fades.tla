-------------------------------- MODULE Fades --------------------------------
(***************************************************************************)
(* The loops of the graphics pipe that last a given time (gfx/pipe.h): a   *)
(* picture that fades in or out, and one that comes through another.  Each *)
(* turn draws a frame if the brightness has changed, and then sets the     *)
(* brightness from the clock, which says what it likes but never goes      *)
(* back.  What a frame shows is left open; Pixels has it.                  *)
(***************************************************************************)
EXTENDS Integers, Sequences

CONSTANTS Pictures,            \* what is shown and what is behind it
          FilmFrame(_, _, _),  \* the canvas after a frame of a film at a level
          LastFrame(_, _),     \* and after the one that is drawn when time is up
          FullAlpha,   \* the largest alpha
          Shades,      \* rows of the table of brightness
          Limits,      \* how long the loops last
          MaxTime,     \* the latest time the clock shows
          Alphas       \* the constant alpha of a fade; 0 is none

ASSUME FadeAssumption ==
    /\ Shades \in Nat \ {0} /\ FullAlpha \in Nat \ {0} /\ MaxTime \in Nat
    /\ Limits \subseteq 0 .. MaxTime /\ Alphas \subseteq 0 .. FullAlpha

VARIABLES film,      \* what is shown: direction, picture, the one behind it, how long, alpha
          shade,     \* brightness or alpha of the next frame
          lastshade, \* and of the last one drawn
          used,      \* the time gone by
          canvas,    \* what the destination holds
          shots,     \* the frames drawn: shade and what was on the canvas then
          turn       \* "look" at the shade, read the "clock", or "done"

filmvars == <<film, shade, lastshade, used, canvas, shots, turn>>
---------------------------------------------------------------------------
\* The last shade is one below the number of them; the nearest shade is taken.
Nearest(top, time, limit) == (2 * top * time + limit) \div (2 * limit)
FadeLevel(dir, time, limit) ==
    CASE dir = "in" -> Nearest(Shades - 1, time, limit)
      [] dir = "out" -> Shades - 1 - Nearest(Shades - 1, time, limit)
      [] dir = "cross" -> Nearest(FullAlpha, time, limit)

FirstLevel(dir) == CASE dir = "in" -> 0 [] dir = "out" -> Shades - 1 [] dir = "cross" -> FullAlpha
FirstLast(dir) == CASE dir = "in" -> Shades - 1 [] OTHER -> 0

FilmInit ==
    /\ \E dir \in {"in", "out", "cross"}, s, d \in Pictures,
          t \in Limits, a \in Alphas :
          film = [dir |-> dir, src |-> s, limit |-> t, alpha |-> IF dir = "cross" THEN 0 ELSE a,
                  behind |-> d]
    /\ shade = FirstLevel(film.dir) /\ lastshade = FirstLast(film.dir) /\ used = 0
    /\ canvas = film.behind /\ shots = <<>> /\ turn = "look"

\* Mutant: the level that was drawn is not remembered.
DrawFrameAgain ==
    /\ turn = "look" /\ used < film.limit /\ shade # lastshade
    /\ canvas' = FilmFrame(film, shade, canvas)
    /\ shots' = Append(shots, [shade |-> shade, shown |-> canvas'])
    /\ turn' = "clock" /\ UNCHANGED <<film, shade, lastshade, used>>

DrawFrame ==
    /\ turn = "look" /\ used < film.limit /\ shade # lastshade
    /\ lastshade' = shade /\ canvas' = FilmFrame(film, shade, canvas)
    /\ shots' = Append(shots, [shade |-> shade, shown |-> canvas'])
    /\ turn' = "clock" /\ UNCHANGED <<film, shade, used>>

KeepFrame ==
    /\ turn = "look" /\ used < film.limit /\ shade = lastshade
    /\ turn' = "clock" /\ UNCHANGED <<film, shade, lastshade, used, canvas, shots>>

ReadClock ==
    /\ turn = "clock"
    /\ used' \in used .. MaxTime /\ shade' = FadeLevel(film.dir, used', film.limit)
    /\ turn' = "look" /\ UNCHANGED <<film, lastshade, canvas, shots>>

FinishFilm ==
    /\ turn = "look" /\ used >= film.limit
    /\ canvas' = LastFrame(film, canvas)
    /\ turn' = "done" /\ UNCHANGED <<film, shade, lastshade, used, shots>>

FilmNext == DrawFrame \/ KeepFrame \/ ReadClock \/ FinishFilm
FilmSpec == FilmInit /\ [][FilmNext]_filmvars
---------------------------------------------------------------------------
\* No frame is drawn that its table has no row for, or of an alpha above the
\* largest, and none twice: what fades in gets brighter from frame to frame and
\* what fades out darker, and the first level of a crossfade aside, which is the
\* largest, its alpha rises (_GFX_FADE_COPY_LOOP, _GFX_CROSSFADE_COPY_LOOP).
FramesInOrder ==
    LET n == Len(shots)
    IN  /\ film.dir # "cross" => \A i \in 1 .. n : shots[i].shade \in 0 .. Shades - 1
        /\ film.dir = "in" => \A i \in 2 .. n : shots[i - 1].shade < shots[i].shade
        /\ film.dir = "out" => \A i \in 2 .. n : shots[i].shade < shots[i - 1].shade
        /\ film.dir = "cross" => /\ \A i \in 1 .. n : shots[i].shade \in 0 .. FullAlpha
                                 /\ \A i \in 3 .. n : shots[i - 1].shade < shots[i].shade
                                 /\ n > 0 => shots[1].shade = FullAlpha
==============================================================================
