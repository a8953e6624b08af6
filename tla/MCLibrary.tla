----------------------------- MODULE MCLibrary -----------------------------
(* The sequential parts, one at a time: which part runs is chosen at the     *)
(* start, and the others stay in one of their initial states.               *)
EXTENDS Trix, Caves, Strings, Qsort, Ule, Redcode, FastDiv, Rooms, AtomicCalls, Hash, Zeus,
        VelhoBits, Slab, Pixels, Generators, Checksum, TLC

CONSTANTS t1, t2, t3, t4

VARIABLE part

\* The initial state of a part that does not run.
StillCaves ==
    /\ phase = "automaton" /\ count = 0 /\ closed = {}
    /\ caveid = [c \in Cells |-> NoCave] /\ ncave = 0 /\ ncavemax = CaveTabInit
    /\ celltab = [i \in 0 .. NCells |-> <<>>] /\ room = 0 /\ frames = <<>>
    /\ cormap = {} /\ cor = <<>> /\ dir = NoDir /\ dir1 = NoDir /\ len = 0 /\ nturn = 0
StillSort ==
    /\ given = <<>> /\ size = 1 /\ item = [i \in 0 .. -1 |-> 0] /\ step = "start"
    /\ low = 0 /\ high = 0 /\ pivot = 0 /\ lptr = 0 /\ rptr = 0 /\ stk = <<>> /\ run = 0
StillUle ==
    /\ queue = [table \in Tables |-> [q \in QueuesOf(table) |-> <<>>]]
    /\ map = [table \in Tables |-> {}]
    /\ running = [c \in Cores |-> NoTask] /\ at = [c \in Cores |-> "wait"]
    /\ away = [slept |-> Tasks, gone |-> {}]
    /\ level = [k \in Keys |-> NoLevel]
    /\ listed = [k \in Keys \X Keys |-> [j \in Keys |-> <<>>]]
    /\ halted = FALSE
StillRc ==
    /\ source = <<<<>>, <<>>>> /\ origin = <<0, 0>>
    /\ reading = 1 /\ line = 1 /\ nread = <<0, 0>> /\ wrap = FALSE
    /\ optab = [c \in 0 .. CWCORESIZE - 1 |-> Zero]
    /\ entry = <<-1, -1>> /\ loading = "yes"

StillRooms ==
    /\ lvlsize = <<80, 24>>
    /\ parts = <<[x |-> 0, y |-> 0, w |-> 80, h |-> 24, vertical |-> TRUE]>>
    /\ rooms = <<>> /\ conn = NoLine /\ stray = FALSE /\ nroom = 0 /\ dead = FALSE

StillFilm ==
    /\ film = [dir |-> "none", alpha |-> 1] /\ shade = 0 /\ lastshade = 0 /\ used = 0
    /\ canvas = 0 /\ shots = <<>> /\ turn = "done"

LibInit ==
    /\ part \in {"words", "caves", "strings", "sort", "scheduler", "assembler", "division",
                "rooms", "atomics", "hash", "display", "tricks", "slab", "pictures",
                "velho", "films", "numbers", "network"}
    /\ DivInit /\ AtomInit /\ ZeusInit /\ (part # "display" => mover = 0)
    /\ IF part = "words" THEN TrixInit ELSE asked = [op |-> "none"] /\ answer = <<>>
    /\ IF part = "caves" THEN CavesInit ELSE StillCaves
    /\ IF part = "strings" THEN StringsInit ELSE call = [fn |-> "none"] /\ outcome = <<>>
    /\ IF part = "sort" THEN SortInit ELSE StillSort
    /\ IF part = "scheduler" THEN UleInit ELSE StillUle
    /\ IF part = "assembler" THEN RcInit ELSE StillRc
    /\ IF part = "rooms" THEN RoomsInit ELSE StillRooms
    /\ IF part = "hash" THEN HashInit ELSE hashcall = [op |-> "none"] /\ hashed = <<>>
    /\ IF part = "tricks" THEN TricksInit ELSE trick = [op |-> "none"] /\ told = <<>>
    /\ IF part = "velho" THEN VelhoInit ELSE velhocall = [op |-> "none"] /\ velhoret = <<>>
    /\ SlabInit
    /\ IF part = "pictures" THEN PixelInit ELSE draw = [op |-> "none"] /\ drawn = <<>>
    /\ IF part = "films" THEN FilmInit ELSE StillFilm
    /\ IF part = "numbers" THEN GenInit ELSE gen = [kind |-> "none"] /\ outs = <<>>
    /\ IF part = "network" THEN ChkInit ELSE packet = <<0>> /\ chksum = <<>>

LibNext ==
    \/ /\ part = "words" /\ Return
       /\ UNCHANGED <<part, cavevars, stringvars, sortvars, ulevars, rcvars, divvars,
                       roomvars, atomvars, hashvars, zeusvars, trickvars, slabvars,
                       pixelvars, velhovars, filmvars, genvars, chkvars>>
    \/ /\ part = "caves" /\ CavesNext
       /\ UNCHANGED <<part, trixvars, stringvars, sortvars, ulevars, rcvars, divvars,
                       roomvars, atomvars, hashvars, zeusvars, trickvars, slabvars,
                       pixelvars, velhovars, filmvars, genvars, chkvars>>
    \/ /\ part = "strings" /\ Call
       /\ UNCHANGED <<part, trixvars, cavevars, sortvars, ulevars, rcvars, divvars,
                       roomvars, atomvars, hashvars, zeusvars, trickvars, slabvars,
                       pixelvars, velhovars, filmvars, genvars, chkvars>>
    \/ /\ part = "sort" /\ SortNext
       /\ UNCHANGED <<part, trixvars, cavevars, stringvars, ulevars, rcvars, divvars,
                       roomvars, atomvars, hashvars, zeusvars, trickvars, slabvars,
                       pixelvars, velhovars, filmvars, genvars, chkvars>>
    \/ /\ part = "scheduler" /\ UleNext
       /\ UNCHANGED <<part, trixvars, cavevars, stringvars, sortvars, rcvars, divvars,
                       roomvars, atomvars, hashvars, zeusvars, trickvars, slabvars,
                       pixelvars, velhovars, filmvars, genvars, chkvars>>
    \/ /\ part = "assembler" /\ RcNext
       /\ UNCHANGED <<part, trixvars, cavevars, stringvars, sortvars, ulevars, divvars,
                       roomvars, atomvars, hashvars, zeusvars, trickvars, slabvars,
                       pixelvars, velhovars, filmvars, genvars, chkvars>>
    \/ /\ part = "division" /\ DivNext
       /\ UNCHANGED <<part, trixvars, cavevars, stringvars, sortvars, ulevars, rcvars,
                       roomvars, atomvars, hashvars, zeusvars, trickvars, slabvars,
                       pixelvars, velhovars, filmvars, genvars, chkvars>>
    \/ /\ part = "rooms" /\ RoomsNext
       /\ UNCHANGED <<part, trixvars, cavevars, stringvars, sortvars, ulevars, rcvars,
                       divvars, atomvars, hashvars, zeusvars, trickvars, slabvars,
                       pixelvars, velhovars, filmvars, genvars, chkvars>>
    \/ /\ part = "atomics" /\ AtomNext
       /\ UNCHANGED <<part, trixvars, cavevars, stringvars, sortvars, ulevars, rcvars,
                       divvars, roomvars, hashvars, zeusvars, trickvars, slabvars,
                       pixelvars, velhovars, filmvars, genvars, chkvars>>
    \/ /\ part = "hash" /\ HashReturn
       /\ UNCHANGED <<part, trixvars, cavevars, stringvars, sortvars, ulevars, rcvars,
                       divvars, roomvars, atomvars, zeusvars, trickvars, slabvars,
                       pixelvars, velhovars, filmvars, genvars, chkvars>>
    \/ /\ part = "display" /\ ZeusNext
       /\ UNCHANGED <<part, trixvars, cavevars, stringvars, sortvars, ulevars, rcvars,
                       divvars, roomvars, atomvars, hashvars, trickvars, slabvars,
                       pixelvars, velhovars, filmvars, genvars, chkvars>>
    \/ /\ part = "tricks" /\ Perform
       /\ UNCHANGED <<part, trixvars, cavevars, stringvars, sortvars, ulevars, rcvars,
                       divvars, roomvars, atomvars, hashvars, zeusvars, slabvars, pixelvars,
                       velhovars, filmvars, genvars, chkvars>>
    \/ /\ part = "slab" /\ SlabNext
       /\ UNCHANGED <<part, trixvars, cavevars, stringvars, sortvars, ulevars, rcvars,
                       divvars, roomvars, atomvars, hashvars, zeusvars, trickvars,
                       pixelvars, velhovars, filmvars, genvars, chkvars>>
    \/ /\ part = "pictures" /\ Draw
       /\ UNCHANGED <<part, trixvars, cavevars, stringvars, sortvars, ulevars, rcvars,
                       divvars, roomvars, atomvars, hashvars, zeusvars, trickvars, slabvars,
                       velhovars, filmvars, genvars, chkvars>>
    \/ /\ part = "velho" /\ VelhoReturn
       /\ UNCHANGED <<part, trixvars, cavevars, stringvars, sortvars, ulevars, rcvars,
                       divvars, roomvars, atomvars, hashvars, zeusvars, trickvars, slabvars,
                       pixelvars, filmvars, genvars, chkvars>>
    \/ /\ part = "films" /\ FilmNext
       /\ UNCHANGED <<part, trixvars, cavevars, stringvars, sortvars, ulevars, rcvars,
                       divvars, roomvars, atomvars, hashvars, zeusvars, trickvars, slabvars,
                       pixelvars, velhovars, genvars, chkvars>>
    \/ /\ part = "numbers" /\ GenNext
       /\ UNCHANGED <<part, trixvars, cavevars, stringvars, sortvars, ulevars, rcvars,
                       divvars, roomvars, atomvars, hashvars, zeusvars, trickvars, slabvars,
                       pixelvars, velhovars, filmvars, chkvars>>
    \/ /\ part = "network" /\ TakeSum
       /\ UNCHANGED <<part, trixvars, cavevars, stringvars, sortvars, ulevars, rcvars,
                       divvars, roomvars, atomvars, hashvars, zeusvars, trickvars, slabvars,
                       pixelvars, velhovars, filmvars, genvars>>

LibSpec ==
    /\ LibInit
    /\ [][LibNext]_<<part, trixvars, cavevars, stringvars, sortvars, ulevars, rcvars,
                    divvars, roomvars, atomvars, hashvars, zeusvars, trickvars, slabvars,
                    pixelvars, velhovars, filmvars, genvars, chkvars>>
---------------------------------------------------------------------------
(* The properties of small modules together, by what they are about.        *)

\* Scans of bits, results at the edge of a word, quotients from the table,
\* hashes of words and keys, and the other tricks with bits (tzero32b, sataddu32,
\* chkmulrng32, fastu16divu16, tmhash2, mprimod, fanom32permstr, min2, uavg, ctzu32,
\* divcu10); the sums of packets (ip4chksum64); what the atomic operations leave in
\* memory and return (m_cmpxchg32, m_bsf32); and the numbers that pass for random
\* (randmt32, randk).
WordsExact ==
    /\ ScansExact /\ EdgesHeld /\ DivisionsExact /\ HashesApart /\ KeyRead /\ RemainderBelow
    /\ TricksHold /\ VelhoHolds /\ SumsAgree
    /\ MemorySaid /\ ResultSaid
    /\ NumbersSound

\* Pixels blended, faded, taken apart and copied, and pictures that fade and come
\* through others as time goes by (gfxalphablend, gfxfadein, GFX_COPY_LOOP,
\* _GFX_CROSSFADE_COPY_LOOP).
PicturesTrue == BlendsTrue /\ ShadesTrue /\ CopiesTrue /\ (part = "films" => FadesTrue)
---------------------------------------------------------------------------
(* The instances.                                                           *)

\* Words near powers of two and their first odd multiples, small ones, and
\* multiples of 65535; bits in all pairs of places and in rows.
MCWords ==
    LET near == {m * 2 ^ k + e : m \in {1, 3, 5, 7}, k \in 0 .. 28, e \in -2 .. 2}
        long == {65535 * k + e : k \in {1, 2, 100, 32767}, e \in -1 .. 1}
    IN  {x \in near \cup long \cup (0 .. 130) \cup {1900, 2000, 2023, 2100, 2147483647} : x >= 0}
MCBitsets ==
    {{}} \cup {{i, j} : i, j \in 0 .. 31} \cup {0 .. k : k \in 0 .. 31}
    \cup {{i, j, k} : i, j, k \in {0, 1, 2, 3, 4, 7, 8, 15, 16, 23, 30, 31}}

MCHalfPairs == {0, 1, 32767, 32768, 65535} \X ((0 .. 450) \cup (64530 .. 65535))

MCGarbage == {0, 1, 4, 254, 255}
MCArgs == {0, 1, 2, 5, 127, 128, 129, 255}
MCMems == {256 * h + l : h \in {0, 64, 255}, l \in MCArgs}
MCOps == Alone \cup Valued \cup Swaps \cup Doubles \cup BitOps

MCFills == SUBSET Cells

\* Every room is one of two: small at the upper left, or further in and drawn too
\* large for its part, so that it is cut.  A line draws zero, small or large values.
MCLevels == {<<80, 24>>, <<60, 30>>, <<40, 16>>}
MCRoomDraws == {<<0, 0, 0, 0>>, <<8, 2, 9, 8>>}
MCLineDraws == {<<0, 0, 0>>, <<97, 61, 35>>, <<6, 5, 3>>, <<13, 2, 8>>}

\* Keys around the sizes of words and blocks.
MCKeys == (0 .. 18) \cup {23, 24, 25, 31, 32, 33}

MCPlaces == (0 .. 8) \cup {24, 25, 26}
MCLengths == 0 .. 21
MCTexts == SUBSET {0, 1, 2, 4, 5, 6}

\* Short arrays of few keys, and longer ones that are permuted or repeat.
MCInputs ==
    (UNION {[1 .. n -> 0 .. 2] : n \in 0 .. 6})
    \cup {[i \in 1 .. 13 |-> (a * i + b) % 13] : a \in 1 .. 12, b \in 0 .. 12}
    \cup {[i \in 1 .. 18 |-> (a * i * i + b * i) % 19] : a \in 0 .. 12, b \in 0 .. 18}

MCClass == (t1 :> "realtimerr") @@ (t2 :> "normal") @@ (t3 :> "deadline") @@ (t4 :> "idle")

Operand(mode, neg, val) == [mode |-> mode, neg |-> neg, val |-> val]
MCOperands == {Operand(m, s, v) : m \in {"#", "@", "<", "$", "none"}, s \in BOOLEAN, v \in {0, 3, 8}}
Line(kind) == [kind |-> kind]
Code(word, fields) == [kind |-> "instr", word |-> word, fields |-> fields]
Dat == Mnemonics[1]
Mov == Mnemonics[2]
Jump == Code(Mnemonics[5], <<Operand("none", TRUE, 1)>>)
DatZero == Code(Dat, <<Operand("$", FALSE, 0)>>)
\* Every pair of operands; all kinds of lines in the first program; and a first
\* program that is longer than the core.
MCSources ==
    {<< <<Code(Mov, <<x, y>>), Jump>>, <<Code(Dat, <<x>>), Jump>> >> : x, y \in MCOperands}
    \cup {<< <<a, b, c>>, <<Jump, DatZero>> >> :
            a \in {Line("comment"), Line("blank"), Line("other"), DatZero,
                   Code(<<"D", "A", "X">>, <<>>)},
            b \in {Line("other"), Line("blank"), Code(Dat, <<>>), Code(<<"X", "Y", "Z">>, <<>>),
                   Code(Mov, <<Operand("#", FALSE, 1)>>), Jump},
            c \in {Jump, Line("other"), DatZero}}
    \cup {<< <<Jump, Jump>>, <<Jump, Line("blank"), Jump>> >>}
    \cup {<< <<DatZero, Jump, Jump, Jump, Jump, Jump, DatZero, Jump>>, <<Jump>> >>}
MCOrigins == {<<a, b>> : a \in {0, 5}, b \in {0, 2, 3, 4}}
MCRemains == {Operand("<", FALSE, 2)}

\* The items of the table give exact quotients for every half word; the
\* requests are those that tell a wrong item from a right one.
ASSUME \A n \in 0 .. Limit, d \in 2 .. Limit :
    Quotient(Item(d), Item(d).magic % 2 ^ Bits, n) = n \div d
MCRequests == {<<13, 1>>, <<15, 4>>, <<13, 7>>, <<15, 7>>, <<15, 11>>, <<13, 15>>}

\* Blocks of every class and of two pages, and none; alignments of a line, to which
\* smaller ones are raised, of a page and of two.
MCBlocks == {<<n, 1>> : n \in {0, 9, 20, 32, 140}} \cup {<<n, a>> : n \in {9, 140}, a \in {32, 64}}

\* The corners of the cube of colours and some inside.
MCColours ==
    {0, Brightest} \X {0, Brightest} \X {0, Brightest}
    \cup {<<3, 4, 1>>, <<5, 0, 6>>, <<4, 5, 3>>, <<1, 6, 2>>}
\* Areas at the edges of either picture, with odd and even widths and heights,
\* and with a mask in and beside the picture.
MCShapes ==
    {[sw |-> sw, sh |-> sh, dw |-> dw, dh |-> dh, sx |-> sx, sy |-> sy, dx |-> dx, dy |-> dy,
      mask |-> FALSE] :
        sw \in {2, 3}, sh \in 1 .. 4, dw \in {3, 4}, dh \in {3, 5}, sx, sy, dx, dy \in {0, 1}}
    \cup {[sw |-> 3, sh |-> 3, dw |-> 4, dh |-> 4, sx |-> 0, sy |-> 0, dx |-> dx, dy |-> dy,
            mask |-> TRUE, mx |-> x, my |-> y, mw |-> 2, mh |-> 2] :
                dx, dy, x, y \in {0, 1, 2}}

MCPictures == {gfxmkpix(0, c[1], c[2], c[3]) : c \in {<<0, 0, 0>>, <<7, 7, 7>>, <<5, 0, 6>>}}

\* Keys shorter than the table and longer; buffers without a pattern, and one in order.
MCKeys1 == UNION {[1 .. n -> {0, 1, 17, 31}] : n \in {1, 3}} \cup {[i \in 1 .. 7 |-> i]}
MCLagFills ==
    {[i \in 0 .. 7 |-> (a * i * i + b) % 8] : a, b \in {1, 3, 5}} \cup {[i \in 0 .. 7 |-> i]}
MCLags == <<1, 2, 4, 6>>
MCLags2 == <<5, 11>>
MCDraws == [mt |-> 12, randk |-> 60, lfg |-> 10, lfg2 |-> 10]

\* Packets of 0 to 19 bytes in many patterns, and all short ones.
MCPackets ==
    UNION {{[i \in 1 .. n |-> (a * i * i + b * i + c) % 4] : a, b, c \in 0 .. 3} : n \in 1 .. 20}
    \cup [1 .. 3 -> 0 .. 3] \cup [1 .. 4 -> 0 .. 3]
===========================================================================
