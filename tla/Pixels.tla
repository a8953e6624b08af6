------------------------------- MODULE Pixels -------------------------------
(***************************************************************************)
(* Pictures of the graphics library: the operations on pixels, blending    *)
(* and fading (gfx/rgb.h, alpha.h, fade.h, xfade.h, swap.h), and the loops *)
(* that copy one picture into another (gfx/pipe.h).  What the frames of    *)
(* Fades show is here, too: its loops give _GFX_COPY_LOOP arguments that   *)
(* it does not take; it is read as meant, one pixel for the picture:       *)
(* filter, blend, store.                                                   *)
(*                                                                         *)
(* A component has PixelBits bits, 8 in the code, and a pixel is a word of *)
(* four: alpha, red, green and blue, the blue one lowest.  The headers do  *)
(* not agree on names: gfxredval in alpha.h and fade.h is the gfxgetred of *)
(* rgb.h, div255 its gfxdiv255, and the masks of gfx/argb.h, which is not  *)
(* there, are those of rgb.h.  The type gfxargb32 of a pixel is declared   *)
(* nowhere; it is a word, with or without a sign, and both are examined.   *)
(* What cannot be read so is left out: gfxalphablendloq, which takes three *)
(* names from nowhere.                                                     *)
(***************************************************************************)
EXTENDS Fades
LOCAL INSTANCE Bitwise
LOCAL INSTANCE SequencesExt

CONSTANTS PixelBits,     \* bits of a component
          Colours,       \* the red, green and blue of the pixels that are blended
          Shapes         \* widths, heights and places of the areas that are copied

ASSUME PixelAssumption ==
    /\ PixelBits \in Nat \ {0} /\ FullAlpha = 2 ^ PixelBits - 1
    /\ Colours \subseteq (0 .. 2 ^ PixelBits - 1) \X (0 .. 2 ^ PixelBits - 1) \X (0 .. 2 ^ PixelBits - 1)

VARIABLES draw,    \* the operation and its operands
          drawn    \* what it gave

pixelvars == <<draw, drawn>>

Byte0 == 2 ^ PixelBits
Brightest == Byte0 - 1
Word4 == Byte0 ^ 4
---------------------------------------------------------------------------
\* Pixels and their components.

gfxgetalpha(pix) == pix \div Byte0 ^ 3
gfxgetred(pix) == (pix \div Byte0 ^ 2) % Byte0
gfxgetgreen(pix) == (pix \div Byte0) % Byte0
gfxgetblue(pix) == pix % Byte0

\* The parts are or'd, not added: one too large for its place runs into the next.
Shifted(c, n) == (c * Byte0 ^ n) % Word4
gfxmkpix(a, r, g, b) == Shifted(a, 3) | (Shifted(r, 2) | (Shifted(g, 1) | Shifted(b, 0)))

\* The pipe's names for the same; its masks and shifts are in a header that is missing.
_GFX_ARGB_ALPHA_VALUE(u) == gfxgetalpha(u)
_GFX_ARGB_SET_VALUE(a, r, g, b) == gfxmkpix(a, r, g, b)

\* Half words: the components in even and in odd places.
EvenOf(pix) == gfxgetred(pix) * Byte0 ^ 2 + gfxgetblue(pix)
OddOf(pix) == gfxgetalpha(pix) * Byte0 ^ 3 + gfxgetgreen(pix) * Byte0

\* To fewer bits, from components of eight: both shifts lead the wrong way, so
\* that little more than nothing is left under the mask.
Right(c, s) == c \div 2 ^ s
gfxtoc(c, mask, s) == IF s > 0 THEN Right(c, s) & mask ELSE (c * 2 ^ (-s)) & mask
gfxtorgb555(r, g, b) == gfxtoc(r, 31744, 7) | (gfxtoc(g, 992, 2) | gfxtoc(b, 31, -3))
gfxtorgb565(r, g, b) == gfxtoc(r, 63488, 8) | (gfxtoc(g, 2016, 3) | gfxtoc(b, 31, -3))
gfxtorgb444(r, g, b) == gfxtoc(r, 3840, 4) | (gfxtoc(g, 240, 4) | gfxtoc(b, 15, 4))

\* As the pipe does it; masks and shifts are those of its missing header.
DitherComponent(u, m, s) == IF s >= 0 THEN (u & m) * 2 ^ s ELSE Right(u & m, -s)
_GFX_DITHER_RGB_565(r, g, b) ==
    DitherComponent(r, 248, 8) | (DitherComponent(g, 252, 3) | DitherComponent(b, 248, -3))
_GFX_DITHER_RGB_555(r, g, b) ==
    DitherComponent(r, 248, 7) | (DitherComponent(g, 248, 2) | DitherComponent(b, 248, -3))

\* Three bytes in memory, by the order of bytes of the machine; the fourth stays.
gfxsetrgb888(mem, r, g, b, lsb) ==
    IF lsb THEN [mem EXCEPT ![1] = b, ![2] = g, ![3] = r]
    ELSE [mem EXCEPT ![1] = r, ![2] = g, ![3] = b]
GFX_RGB_RENDER(mem, r, g, b, lsb) ==
    IF lsb THEN [mem EXCEPT ![1] = b, ![2] = g, ![3] = r]
    ELSE [mem EXCEPT ![2] = r, ![3] = g, ![4] = b]
_GFX_RGB_RENDER_LSB(mem, r, g, b) == GFX_RGB_RENDER(mem, r, g, b, TRUE)
_GFX_RGB_RENDER_MSB(mem, r, g, b) == GFX_RGB_RENDER(mem, r, g, b, FALSE)

\* The iterators start at the pointer in either order, one byte before the red of
\* the other order.
_GFX_RGB_ITER_VALUE(mem, r, g, b, lsb) ==
    IF lsb THEN <<b, g, r, mem[4]>> ELSE <<r, g, b, mem[4]>>

\* The format of a picture: by its order of bytes and the machine's, or by the masks
\* of a visual, whose own order does not matter and where 555 is taken for 565.
_GFX_NATIVE_RGB_FORMAT(lsb) == IF lsb THEN "lsb" ELSE "msb"
_GFX_SWAP_RGB_FORMAT(lsb) == IF lsb THEN "msb" ELSE "lsb"
_GFX_RGB_FORMAT(order, lsb) ==
    IF order = _GFX_NATIVE_RGB_FORMAT(lsb) THEN _GFX_NATIVE_RGB_FORMAT(lsb)
    ELSE _GFX_SWAP_RGB_FORMAT(lsb)
_GFX_RENDER_FORMAT(masks, lsb) ==
    CASE masks = "888" -> _GFX_NATIVE_RGB_FORMAT(lsb)
      [] masks \in {"565", "555"} -> "565"
      [] OTHER -> "generic"

\* The pixel as its renderer stores it: bytes of memory, or one half word.
Rendering(format, mem, c) ==
    CASE format = "lsb" -> _GFX_RGB_RENDER_LSB(mem, c[1], c[2], c[3])
      [] format = "msb" -> _GFX_RGB_RENDER_MSB(mem, c[1], c[2], c[3])
      [] format = "565" -> <<_GFX_DITHER_RGB_565(c[1], c[2], c[3])>>
      [] OTHER -> <<>>
---------------------------------------------------------------------------
\* Orders of bytes and bits.

bswap(bytes) == Reverse(bytes)
bswaprgb(bytes) == [bytes EXCEPT ![1] = bytes[3], ![3] = bytes[1]]

\* The table is asked for all of a masked word, which has no entry past the
\* lowest byte; and one byte of a longer word goes to the place of another.
BitsOf(n) == [i \in 1 .. PixelBits |-> (n \div 2 ^ (i - 1)) % 2]
NumberOf(bits) == FoldLeft(LAMBDA n, b : 2 * n + b, 0, bits)
bitswap_8(n) == NumberOf(BitsOf(n))
Outside == -1
bitswap_16(u) == IF u >= Byte0 THEN Outside ELSE bitswap_8(0) \div Byte0 | bitswap_8(u) * Byte0
bitswap_32(u) == IF u >= Byte0 THEN Outside ELSE bitswap_8(u) * Byte0
bitswap_64(u) == IF u >= Byte0 THEN Outside ELSE bitswap_8(u) * Byte0 ^ 7
---------------------------------------------------------------------------
\* Blending.  Fit is what a word holds; >> shifts the sign in where there is one.

Fit(n, signed) == IF signed THEN n ELSE n % Word4

gfxdiv255(c, signed) == Fit(c * Byte0 + c + Byte0, signed) \div Byte0 ^ 2
gfxdiv256(c) == c \div Byte0
gfxalphablendc(s, d, a, signed) == Fit(d + gfxdiv255(Fit((s - d) * a, signed), signed), signed)
gfxalphablendc2(s, d, a, signed) == Fit(d + gfxdiv256(Fit((s - d) * a, signed)), signed)

\* Blend(_, _, _) of the components red, green and blue of two pixels.
Each(Blend(_, _), src, dest) ==
    gfxmkpix(0, Blend(gfxgetred(src), gfxgetred(dest)), Blend(gfxgetgreen(src), gfxgetgreen(dest)),
             Blend(gfxgetblue(src), gfxgetblue(dest)))

gfxalphablend_hiq_const(src, dest, a, signed) ==
    Each(LAMBDA s, d : gfxalphablendc(s, d, a, signed), src, dest)
gfxalphablendfast_const(src, dest, a, signed) ==
    Each(LAMBDA s, d : gfxalphablendc2(s, d, a, signed), src, dest)

\* Blue is blended from red.
gfxalphablend_hiq_const2(src, dest, a, signed) ==
    LET red == gfxalphablendc(gfxgetred(src), gfxgetred(dest), a, signed)
        green == gfxalphablendc(gfxgetgreen(src), gfxgetgreen(dest), a, signed)
    IN  gfxmkpix(0, red, green, red)

\* Nothing is assigned for alpha zero: then the pixel is anything.
gfxalphablendhiq(src, dest, a, signed) ==
    IF a = Brightest THEN {Each(LAMBDA s, d : s, src, dest)}
    ELSE IF a # 0 THEN {gfxalphablend_hiq_const(src, dest, a, signed)}
    ELSE {gfxmkpix(0, c, c, c) : c \in 0 .. Brightest}

\* Mutant: the even components are added without the mask.
gfxalphablend_nodivBare(src, dest, a) ==
    LET OddSrc == OddOf(src) \div Byte0  OddDest == OddOf(dest) \div Byte0
        odd == OddOf(((OddSrc - OddDest) * a + OddOf(dest)) % Word4)
        even == ((((EvenOf(src) - EvenOf(dest)) * a) % Word4) \div Byte0 + EvenOf(dest)) % Word4
    IN  (odd + even) % Word4
\* Two components in one multiplication; the masks take away what one component
\* leaves in the other's place.
gfxalphablend_nodiv(src, dest, a) ==
    LET OddSrc == OddOf(src) \div Byte0  OddDest == OddOf(dest) \div Byte0
        odd == OddOf(((OddSrc - OddDest) * a + OddOf(dest)) % Word4)
        even == EvenOf(((((EvenOf(src) - EvenOf(dest)) * a) % Word4) \div Byte0 + EvenOf(dest)) % Word4)
    IN  (odd + even) % Word4

\* The same in more steps.
gfxalphablendfast_const2(src, dest, a) == gfxalphablend_nodiv(src, dest, a)

\* Each component in a lane of twice the width: products lose what is above the
\* lane, shifts bring in zeros, bytes are added without a carry.
gfxalphablendloq_mmx(src, dest, a) ==
    LET Lane(s, d) == (((((s - d) * a) % Byte0 ^ 2) \div Byte0) + d) % Byte0
    IN  gfxmkpix(Lane(gfxgetalpha(src), gfxgetalpha(dest)), 0, 0, 0) + Each(Lane, src, dest)

\* The blender of the pipe: alpha comes from the source, nothing of it gives the
\* source and all of it the destination.
_GFX_ALPHA_BLEND(s, d) ==
    LET a == _GFX_ARGB_ALPHA_VALUE(s)
    IN  IF a = 0 THEN s ELSE IF a = Brightest THEN d ELSE gfxalphablend_hiq_const(s, d, a, FALSE)
_GFX_ALPHA_BLEND_CONST(s, d, a) ==
    IF a = 0 THEN s ELSE IF a = Brightest THEN d ELSE gfxalphablend_hiq_const(s, d, a, FALSE)

\* Two pixels at a time, each with its own alpha; what is darker than the
\* destination leaves it alone, since differences end at zero.
_GFX_ALPHA_BLEND_MMX_X2(s, d) ==
    LET Lane(i) == LET a == gfxgetalpha(s[i])
                       Mix(x, y) == ((IF x > y THEN x - y ELSE 0) * a) \div Byte0 + y
                   IN  Each(Mix, s[i], d[i])
    IN  <<Lane(1), Lane(2)>>

\* A component of eight bits from one that was computed with a sign: bit 8 tells.
_GFX_CLIP_YUV(i) == IF (i \div 256) % 2 = 1 THEN -(i \div 1024) - 1 ELSE i

GFX_ADD_BLEND(s, d) ==
    LET Sum2(x, y) == IF x + y > Brightest THEN Brightest ELSE x + y IN Each(Sum2, s, d)

gfxxfade2(src1, src2, dest, val) ==
    gfxalphablendfast_const2(src2, gfxalphablendfast_const2(src1, dest, Brightest - val), val)
gfxxfade1_mmx(src1, src2, dest, val) ==
    gfxalphablendloq_mmx(src2, gfxalphablendloq_mmx(src1, dest, Brightest - val), val)

\* Fading by a table, whose fractions are rounded down; and the table of the pipe,
\* which has as many rows as there are shades of brightness, the last of them not
\* quite bright.
gfxinitfade1 == [l \in 0 .. Brightest |-> [m \in 0 .. Brightest |-> (l * m) \div Brightest]]
gfxfadein2(src, val) == Each(LAMBDA s, d : gfxinitfade1[val][s], src, 0)
gfxfadeout2(src, val) == Each(LAMBDA s, d : gfxinitfade1[Brightest - val][s], src, 0)
_GFX_GENERATE_RGB_FADE_TABLE(shades) ==
    [l \in 0 .. shades - 1 |-> [m \in 0 .. Brightest |-> (m * l) \div shades]]
_GFX_FADE(src, val, table) ==
    _GFX_ARGB_SET_VALUE(0, table[val][gfxgetred(src)], table[val][gfxgetgreen(src)], table[val][gfxgetblue(src)])

\* The curve of brightness and contrast, in halves of Brightest, of gamma 1: the
\* result is made at least, not at most, the largest.
_GFX_GENERATE_RGB_MAP_VALUE(u, b, c) ==
    IF (2 * u - Brightest) * c + Brightest * (2 * b - 1) > 0 THEN "at least full" ELSE "none"
_GFX_GENERATE_RGB_MAP(b, c) == [u \in 0 .. Brightest |-> _GFX_GENERATE_RGB_MAP_VALUE(u, b, c)]
---------------------------------------------------------------------------
\* Raster operations, plane by plane.

Not0(n) == Brightest - n
Rasters ==
    [copy |-> <<0, 0, 1, 1>>, copyinverted |-> <<1, 1, 0, 0>>, clear |-> <<0, 0, 0, 0>>,
     set |-> <<1, 1, 1, 1>>, no |-> <<0, 1, 0, 1>>, invert |-> <<1, 0, 1, 0>>,
     and |-> <<0, 0, 0, 1>>, andreverse |-> <<0, 0, 1, 0>>, andinverted |-> <<0, 1, 0, 0>>,
     or |-> <<0, 1, 1, 1>>, orinverted |-> <<1, 1, 0, 1>>, orreverse |-> <<1, 0, 1, 1>>,
     xor |-> <<0, 1, 1, 0>>, nor |-> <<1, 0, 0, 0>>, equiv |-> <<1, 0, 0, 1>>,
     nand |-> <<1, 1, 1, 0>>]
Raster(op, s, d) ==
    CASE op = "copy" -> s                       [] op = "copyinverted" -> Not0(s)
      [] op = "clear" -> 0                      [] op = "set" -> Brightest
      [] op = "no" -> d                         [] op = "invert" -> Not0(d)
      [] op = "and" -> s & d                    [] op = "andreverse" -> s & Not0(d)
      [] op = "andinverted" -> Not0(s) & d      [] op = "or" -> s | d
      [] op = "orinverted" -> Not0(s) | d       [] op = "orreverse" -> s | Not0(d)
      [] op = "xor" -> s ^^ d                   [] op = "nor" -> Not0(s) & Not0(d)
      [] op = "equiv" -> Not0(s) ^^ d           [] op = "nand" -> Not0(s & d)
_GFX_COMBINE_PLANES(s, d, m, op) == (Raster(op, s, d) & m) | (d & Not0(m))
---------------------------------------------------------------------------
\* Copying an area.  A picture is its words of memory; a shape gives the sizes of
\* both, the place in each and the mask, if there is one.  Of the areas only the
\* places are read, and nothing is cut at the edges of the destination.

MIN(a, b) == IF a < b THEN a ELSE b
MAX(a, b) == IF a > b THEN a ELSE b

Clip(s) ==
    LET destx == IF s.mask THEN MAX(s.dx, s.mx) ELSE s.dx
        desty == IF s.mask THEN MAX(s.dy, s.my) ELSE s.dy
        \* The row's distance is taken from the column.
        srcx == IF s.mask THEN s.sx + MAX(destx - s.dx, destx - s.sx) ELSE s.sx
        srcy == IF s.mask THEN s.sy + MAX(desty - s.dx, desty - s.sy) ELSE s.sy
    IN  [destx |-> destx, desty |-> desty, srcx |-> srcx, srcy |-> srcy,
         w |-> MIN(MIN(s.sw, s.sw - srcx), IF s.mask THEN s.mw - s.mx ELSE s.sw),
         h |-> MIN(MIN(s.sh, s.sh - srcy), IF s.mask THEN s.mh - s.my ELSE s.sh)]

\* The words read and written, in their order: n of them from each of two places.
Run(from, to, n) == [i \in 1 .. n |-> [from |-> from + i - 1, to |-> to + i - 1]]
Runs(From(_), To(_), n, rows) == FoldLeft(LAMBDA all, r : all \o Run(From(r), To(r), n), <<>>,
                                          [r \in 1 .. rows |-> r - 1])

\* The pitch is what is left of a row behind the area.
_GFX_COPY_LOOP(s) ==
    LET c == Clip(s)
        src == c.srcy * s.sw + c.srcx  dest == c.desty * s.dw + c.destx
    IN  IF c.w <= 0 THEN <<>>
        ELSE Runs(LAMBDA r : src + r * s.sw, LAMBDA r : dest + r * s.dw, c.w, c.h)

\* With a mask the rows are never counted, so that both pointers run past the
\* pictures; and the mask is read where a pointer that was never set leads.
Masked(s) == s.mask /\ Clip(s).w > 0 /\ Clip(s).h > 0

\* The loop for two rows at a time finds places and limits as the other does.  Both
\* pointers go on by twice the pitch, one width short of two rows; of an odd row the
\* first word is copied.
ClipNew(s) == Clip(s)
_GFX_COPY_LOOP_NEW(s) ==
    LET c == ClipNew(s)
        src == c.srcy * s.sw + c.srcx  dest == c.desty * s.dw + c.destx
        From(k) == src + k * (2 * s.sw - c.w)  To(k) == dest + k * (2 * s.dw - c.w)
        Pair(k) == [i \in 1 .. 2 * c.w |->
                       LET row == (i - 1) % 2  col == (i - 1) \div 2
                       IN  [from |-> From(k) + row * s.sw + col, to |-> To(k) + row * s.dw + col]]
        pairs == c.h \div 2
    IN  IF c.w <= 0 THEN <<>>
        ELSE FoldLeft(LAMBDA all, k : all \o Pair(k), <<>>, [k \in 1 .. pairs |-> k - 1])
             \o Run(From(pairs), To(pairs), c.h % 2)

\* What the destination holds afterwards: the word of the source last written to
\* a place, or what was there; and whether anything beyond it was written.
Result(moves, s) ==
    [image |-> [p \in 0 .. s.dw * s.dh - 1 |->
                   FoldLeft(LAMBDA v, m : IF m.to = p THEN m.from ELSE v, Outside, moves)],
     beyond |-> \E i \in DOMAIN moves : moves[i].to \notin 0 .. s.dw * s.dh - 1]
---------------------------------------------------------------------------
\* The frames of films.

FadeTable == _GFX_GENERATE_RGB_FADE_TABLE(Shades)

\* One frame at a level: a fade filters the picture by its table and blends with
\* the constant alpha, if there is one; a crossfade blends with the level.
FrameShown(f, l, shown0) ==
    IF f.dir = "cross" THEN _GFX_ALPHA_BLEND_CONST(f.src, shown0, l)
    ELSE LET filtered == _GFX_FADE(f.src, l, FadeTable)
         IN  IF f.alpha # 0 THEN _GFX_ALPHA_BLEND_CONST(filtered, shown0, f.alpha) ELSE filtered

\* The frame that is drawn when time is up: no filter for what came in, darkness
\* for what went out, the picture itself after a crossfade.
LastShown(f, shown0) ==
    LET whole == IF f.dir = "out" THEN _GFX_FADE(f.src, 0, FadeTable) ELSE f.src
    IN  IF f.dir # "cross" /\ f.alpha # 0
        THEN _GFX_ALPHA_BLEND_CONST(whole, shown0, f.alpha) ELSE whole
---------------------------------------------------------------------------
\* The operations, one at a time.

Solid(alphas) == {gfxmkpix(a, c[1], c[2], c[3]) : a \in alphas, c \in Colours}

\* What a blend gives: anything, where it assigns nothing.
Blended(kind, s, d, a) ==
    CASE kind = "hiq" -> {gfxalphablend_hiq_const(s, d, a, TRUE)}
      [] kind = "hiq unsigned" -> {gfxalphablend_hiq_const(s, d, a, FALSE)}
      [] kind = "hiq2" -> {gfxalphablend_hiq_const2(s, d, a, TRUE)}
      [] kind = "hiq0" -> gfxalphablendhiq(s, d, a, TRUE)
      [] kind = "fast" -> {gfxalphablendfast_const(s, d, a, TRUE)}
      [] kind = "fast unsigned" -> {gfxalphablendfast_const(s, d, a, FALSE)}
      [] kind = "nodiv" -> {gfxalphablend_nodiv(s, d, a)}
      [] kind = "mmx" -> {gfxalphablendloq_mmx(s, d, a)}
      [] kind = "const" -> {_GFX_ALPHA_BLEND_CONST(s, d, a)}
Blends == {"hiq", "hiq unsigned", "hiq2", "hiq0", "fast", "fast unsigned", "nodiv", "mmx", "const"}

PixelInit ==
    /\ drawn = <<>>
    /\ \/ \E k \in Blends, s, d \in Solid({1}), a \in 0 .. Brightest :
             draw = [op |-> "blend", kind |-> k, s |-> s, d |-> d, a |-> a]
       \/ \E s \in Solid({0, 1, Brightest}), d \in Solid({1}) : draw = [op |-> "pipe", s |-> s, d |-> d]
       \/ \E s, d \in Solid({1}), val \in 0 .. Brightest :
             draw = [op |-> "cross", s |-> s, d |-> d, val |-> val]
       \/ \E s \in Solid({1}), val \in 0 .. Brightest : draw = [op |-> "fade", s |-> s, val |-> val]
       \/ \E k \in DOMAIN Rasters, s, d \in {3, 5, 6}, m \in 0 .. Brightest :
             draw = [op |-> "raster", kind |-> k, s |-> s, d |-> d, m |-> m]
       \/ \E r, g, b \in {0, 1, 127, 128, 200, 255} : draw = [op |-> "convert", r |-> r, g |-> g, b |-> b]
       \/ \E u \in 0 .. Byte0 + 1 : draw = [op |-> "swap", u |-> u]
       \/ \E c \in Colours : draw = [op |-> "bytes", c |-> c]
       \/ \E o \in {"lsb", "msb"}, m \in {"888", "565", "555", "other"}, c \in {<<200, 100, 55>>, <<255, 9, 130>>},
             l \in BOOLEAN : draw = [op |-> "format", order |-> o, masks |-> m, c |-> c, lsb |-> l]
       \/ \E s \in Solid({0, 3, Brightest}), d \in Solid({1}) : draw = [op |-> "two", s |-> s, d |-> d]
       \/ \E i \in -384 .. 639 : draw = [op |-> "clip", i |-> i]
       \/ \E b, c \in 0 .. 2 : draw = [op |-> "map", b |-> b, c |-> c]
       \/ \E s \in Shapes : draw = [op |-> "copy", shape |-> s]

\* With a mask: of no rows, what is left of one was never counted.
Copies(s) ==
    IF Masked(s) THEN {<<"runs off">>}
    ELSE IF s.mask /\ Clip(s).w > 0 THEN {<<"nothing">>, <<"reads anywhere">>}
    ELSE {<<Result(_GFX_COPY_LOOP(s), s), Result(_GFX_COPY_LOOP_NEW(s), s)>>}

Given(q) ==
    CASE q.op = "blend" -> {<<p>> : p \in Blended(q.kind, q.s, q.d, q.a)}
      [] q.op = "pipe" -> {<<_GFX_ALPHA_BLEND(q.s, q.d), GFX_ADD_BLEND(q.s, q.d)>>}
      [] q.op = "cross" -> {<<gfxxfade2(q.s, q.d, 0, q.val), gfxxfade1_mmx(q.s, q.d, 0, q.val)>>}
      [] q.op = "fade" -> {<<gfxfadein2(q.s, q.val), gfxfadeout2(q.s, q.val), _GFX_FADE(q.s, q.val, _GFX_GENERATE_RGB_FADE_TABLE(Byte0)),
                             _GFX_GENERATE_RGB_MAP_VALUE(q.val, 1, 1)>>}
      [] q.op = "raster" -> {<<_GFX_COMBINE_PLANES(q.s, q.d, q.m, q.kind)>>}
      [] q.op = "convert" -> {<<_GFX_DITHER_RGB_565(q.r, q.g, q.b), _GFX_DITHER_RGB_555(q.r, q.g, q.b),
                                gfxtorgb565(q.r, q.g, q.b), gfxtorgb555(q.r, q.g, q.b),
                                gfxtorgb444(q.r, q.g, q.b)>>}
      [] q.op = "swap" -> {<<bitswap_16(q.u), bitswap_32(q.u), bitswap_64(q.u)>>}
      [] q.op = "bytes" ->
            LET mem == <<-1, -2, -3, -4>>
                Packed(lsb) == gfxsetrgb888(mem, q.c[1], q.c[2], q.c[3], lsb)
                Rendered(lsb) == GFX_RGB_RENDER(mem, q.c[1], q.c[2], q.c[3], lsb)
            IN  {<<bswaprgb(Packed(TRUE)), Packed(FALSE), bswap(Rendered(TRUE)), Rendered(FALSE)>>}
      [] q.op = "format" ->
            LET Lay(format) == Rendering(format, <<-1, -2, -3, -4>>, q.c)
            IN  {<<_GFX_RGB_FORMAT(q.order, q.lsb), Lay(_GFX_RENDER_FORMAT(q.masks, q.lsb)),
                   _GFX_RGB_ITER_VALUE(<<-1, -2, -3, -4>>, q.c[1], q.c[2], q.c[3], q.lsb)>>}
      [] q.op = "two" -> {_GFX_ALPHA_BLEND_MMX_X2(<<q.s, q.d>>, <<q.d, q.s>>)}
      [] q.op = "clip" -> {<<_GFX_CLIP_YUV(q.i) % 256>>}
      [] q.op = "map" -> {<<_GFX_GENERATE_RGB_MAP(q.b, q.c)>>}
      [] q.op = "copy" -> Copies(q.shape)

Draw == drawn = <<>> /\ drawn' \in Given(draw) /\ UNCHANGED draw

PixelSpec == PixelInit /\ [][Draw]_pixelvars
---------------------------------------------------------------------------
(* Properties.                                                             *)

Rgb(p) == <<gfxgetred(p), gfxgetgreen(p), gfxgetblue(p)>>

\* Between the two components, and by less than two from the exact mean.
Mean(r, s, d, a) ==
    /\ MIN(s, d) <= r /\ r <= MAX(s, d)
    /\ LET off == Brightest * r - (Brightest * d + (s - d) * a)
       IN  -2 * Brightest < off /\ off < 2 * Brightest
Means(p, s, d, a, which) == \A i \in which : Mean(Rgb(p)[i], Rgb(s)[i], Rgb(d)[i], a)
Brighter(s, d) == \A i \in 1 .. 3 : Rgb(s)[i] >= Rgb(d)[i]

\* A blend mixes each component with its own, whether it goes through them one by
\* one, two in a word or four in lanes: of a word with a sign in any case, of one
\* without where the source is the brighter one, and at its ends where it has the
\* case right (gfxalphablend_nodiv, gfxalphablend_hiq_const, _GFX_ALPHA_BLEND).
BlendsTrue ==
    LET a == draw.a  s == draw.s  d == draw.d
    IN  drawn # <<>> =>
        CASE draw.op = "blend" ->
                /\ draw.kind \in {"hiq", "fast", "nodiv", "mmx"} => Means(drawn[1], s, d, a, 1 .. 3)
                /\ draw.kind \in {"hiq unsigned", "fast unsigned"} /\ Brighter(s, d) =>
                      Means(drawn[1], s, d, a, 1 .. 3)
                /\ draw.kind = "hiq2" => Means(drawn[1], s, d, a, {1, 2})
                /\ draw.kind = "hiq0" /\ a # 0 => Means(drawn[1], s, d, a, 1 .. 3)
                /\ draw.kind = "const" /\ Brighter(s, d) /\ a \in 1 .. Brightest - 1 =>
                      Means(drawn[1], s, d, a, 1 .. 3)
          [] draw.op = "pipe" ->
                LET alpha == gfxgetalpha(s)
                IN  /\ Brighter(s, d) /\ alpha \in 1 .. Brightest - 1 => Means(drawn[1], s, d, alpha, 1 .. 3)
                    /\ \A i \in 1 .. 3 : Rgb(drawn[2])[i] = MIN(Rgb(s)[i] + Rgb(d)[i], Brightest)
          [] draw.op = "cross" -> drawn[1] = drawn[2]
          [] draw.op = "two" ->
                \A i \in 1 .. 3 : LET x == Rgb(s)[i]  y == Rgb(d)[i]
                                  IN  /\ x <= y => Rgb(drawn[1])[i] = y
                                      /\ x > y => Rgb(drawn[1])[i] \in y .. x - 1
                                      /\ y <= x => Rgb(drawn[2])[i] = x
          [] OTHER -> TRUE

\* What fades in and what fades out of a pixel make it whole, but for rounding;
\* a raster operation is its table on the planes of the mask, and leaves the others;
\* and what a machine of one order of bytes stores is what one of the other order
\* does, swapped.  A picture's format is found on either machine, and what was
\* rendered for the masks of a visual can be read with them; -256 to 511 is clipped
\* to a byte; a map does not turn darker for brighter (_GFX_RENDER_FORMAT, gfxfadein2,
\* gfxfadeout2, _GFX_COMBINE_PLANES, gfxsetrgb888).
ShadesTrue ==
    drawn # <<>> =>
    CASE draw.op = "fade" ->
            \A i \in 1 .. 3 : LET sum == Rgb(drawn[1])[i] + Rgb(drawn[2])[i]  whole == Rgb(draw.s)[i]
                              IN  /\ sum \in whole - 1 .. whole
                                  /\ draw.val \in {0, Brightest} => sum = whole
                                  /\ Rgb(drawn[3])[i] <= Rgb(drawn[1])[i]
                                  /\ drawn[4] = "none" <=> draw.val = 0
      [] draw.op = "raster" ->
            \A i \in 1 .. PixelBits :
                BitsOf(drawn[1])[i] = IF BitsOf(draw.m)[i] = 0 THEN BitsOf(draw.d)[i]
                                      ELSE Rasters[draw.kind][2 * BitsOf(draw.s)[i] + BitsOf(draw.d)[i] + 1]
      [] draw.op = "convert" ->
            /\ drawn[1] = (draw.r \div 8) * 2048 + (draw.g \div 4) * 32 + draw.b \div 8
            /\ drawn[2] = (draw.r \div 8) * 1024 + (draw.g \div 8) * 32 + draw.b \div 8
      [] draw.op = "swap" ->
            draw.u < Byte0 => drawn[1] = NumberOf([i \in 1 .. 2 * PixelBits |-> (draw.u \div 2 ^ (i - 1)) % 2])
      [] draw.op = "bytes" ->
            drawn[1] = drawn[2] /\ \A i \in 2 .. 4 : drawn[3][i] = drawn[4][i]
      [] draw.op = "format" ->
            LET c == draw.c  mem == drawn[2]
            IN  /\ drawn[1] = draw.order
                /\ draw.masks = "888" =>
                      IF draw.lsb THEN mem = drawn[3] ELSE SubSeq(mem, 2, 4) = SubSeq(drawn[3], 1, 3)
                /\ draw.masks = "565" =>
                      <<mem[1] \div 2048, (mem[1] \div 32) % 64, mem[1] % 32>>
                          = <<c[1] \div 8, c[2] \div 4, c[3] \div 8>>
      [] draw.op = "clip" ->
            draw.i \in -256 .. 511 => drawn[1] = MIN(MAX(draw.i, 0), 255)
      [] draw.op = "map" ->
            \A u, v \in 0 .. Brightest :
                u < v /\ drawn[1][u] = "at least full" => drawn[1][v] = "at least full"
      [] OTHER -> TRUE

\* Where the area fits behind its place in the destination, each word of it comes
\* from its own place in the source and the rest is as it was; two rows at a time
\* do the same for one pair of rows (_GFX_COPY_LOOP, _GFX_COPY_LOOP_NEW).
CopiesTrue ==
    drawn # <<>> /\ draw.op = "copy" /\ ~draw.shape.mask =>
    LET s == draw.shape  w == s.sw - s.sx  h == s.sh - s.sy
        Source(x, y) == IF x - s.dx \in 0 .. w - 1 /\ y - s.dy \in 0 .. h - 1
                        THEN (s.sy + y - s.dy) * s.sw + s.sx + x - s.dx ELSE Outside
        whole == [image |-> [p \in 0 .. s.dw * s.dh - 1 |-> Source(p % s.dw, p \div s.dw)],
                  beyond |-> FALSE]
    IN  s.dx + w <= s.dw /\ s.dy + h <= s.dh =>
           drawn[1] = whole /\ (h = 2 \/ (w = 1 /\ h = 1) => drawn[2] = whole)

\* The first frame of a crossfade, of the largest alpha, shows what was there
\* (_GFX_CROSSFADE_COPY_LOOP).
FirstShown == film.dir = "cross" /\ shots # <<>> => shots[1].shown = film.behind

\* When time is up what came in is there, what went out is black, and a crossfade
\* shows its picture, whatever the clock showed and even if there was no time at all.
\* Without alpha no component is ever brighter than the picture's.
FilmEnds ==
    /\ turn = "done" /\ film.alpha = 0 => canvas = IF film.dir = "out" THEN 0 ELSE film.src
    /\ film.dir # "cross" /\ film.alpha = 0 =>
          \A i \in DOMAIN shots : \A k \in 1 .. 3 : Rgb(shots[i].shown)[k] <= Rgb(film.src)[k]

\* A picture that is brighter everywhere comes through without a step back.  A frame
\* of alpha zero, which the blend takes for the whole picture, shows it at once,
\* and the later frames, blended with what is there, leave it so.
CrossfadeApproaches ==
    film.dir = "cross" /\ Brighter(film.src, film.behind) =>
        /\ \A i \in 2 .. Len(shots), k \in 1 .. 3 :
              Rgb(shots[i - 1].shown)[k] <= Rgb(shots[i].shown)[k]
        /\ \A i \in 1 .. Len(shots) :
              (\E j \in 1 .. i : shots[j].shade = 0) => shots[i].shown = film.src

FadesTrue == FirstShown /\ FilmEnds /\ CrossfadeApproaches
===========================================================================
