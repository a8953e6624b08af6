----------------------------- MODULE Generators -----------------------------
(***************************************************************************)
(* The generators of random numbers (prng/randmt32.c, randk.c, randlfg.c,  *)
(* randlfg2.c, randklc.c, qrand.c) and the dice that are rolled with them  *)
(* (mjolnir/dice.c).                                                       *)
(*                                                                         *)
(* randk is as large as in the code.  The others have shorter words and    *)
(* tables, with their constants cut to the word: randmt32 has MtN words of *)
(* MtBits bits, the lagged generators have LagN items, and the words of    *)
(* the congruential ones have LcgBits bits.  rand() of the C library may   *)
(* give anything.                                                          *)
(***************************************************************************)
EXTENDS Integers, Sequences, TLC
LOCAL INSTANCE Bitwise
LOCAL INSTANCE SequencesExt

CONSTANTS MtBits, MtN, MtM,      \* 32, 624 and 397 in the code
          MtSeeds, MtKeys,       \* what the twister is seeded with
          KSeeds,                \* seeds of randk
          LagN, LagFills,        \* 16384 items, and what rand() may fill them with
          Lags, Lags2,           \* how far back the lagged generators look
          LcgBits,               \* 32; a long has twice as many
          DiceCounts, DiceRands, \* how many dice of a kind; what rand() gives
          SeedAfter,             \* how many numbers are drawn before a new seed
          MaxDraws               \* numbers drawn after a seed, for each generator

ASSUME GeneratorAssumption ==
    /\ MtBits \in Nat \ {0, 1, 2, 3} /\ MtN \in Nat /\ MtM \in 1 .. MtN - 1
    /\ LagN \in Nat \ {0} /\ LcgBits \in Nat \ {0, 1}

VARIABLES gen,    \* the generator and its state
          outs    \* what it gave since it was seeded

genvars == <<gen, outs>>
---------------------------------------------------------------------------
(* The Mersenne twister.  A constant of 32 bits is cut to its low ones, but *)
(* for the masks, which keep their highest.                                *)

MtWord == 2 ^ MtBits
RANDMT32HIMASK == 2 ^ (MtBits - 1)
RANDMT32LOMASK == RANDMT32HIMASK - 1
RANDMT32MATRIX == RANDMT32HIMASK + (45279 % RANDMT32HIMASK)
RANDMT32SHIFT == MtBits - 2
MtMixed(multiplier, tmp) == ((multiplier % MtWord) * (tmp ^^ (tmp \div 2 ^ RANDMT32SHIFT))) % MtWord

\* An array of the words 0 to MtN - 1, and the next one, one past the last when
\* none is left and two past it when the generator was never seeded.
Unseeded == [words |-> [i \in 0 .. MtN - 1 |-> 0], curndx |-> MtN + 1]

srandmt32(seed) ==
    LET word[i \in 0 .. MtN - 1] ==
            IF i = 0 THEN seed % MtWord ELSE (MtMixed(1812433253, word[i - 1]) + i) % MtWord
    IN  [words |-> [i \in 0 .. MtN - 1 |-> word[i]], curndx |-> MtN]

\* One step of stirring: word l is changed, and behind the last comes word 1.
Stir(st, new) ==
    LET w == [st.words EXCEPT ![st.l] = new]
    IN  IF st.l + 1 >= MtN THEN [st EXCEPT !.words = [w EXCEPT ![0] = w[MtN - 1]], !.l = 1, !.tmp = w[MtN - 1]]
        ELSE [st EXCEPT !.words = w, !.l = @ + 1, !.tmp = new]

\* The first round goes through the key, again and again if it is short.
srandmt32tab(key) ==
    LET start == [words |-> srandmt32(19650218).words, l |-> 1, tmp |-> srandmt32(19650218).words[0]]
        Keyed(st, n) ==
            LET m == (n - 1) % Len(key)
            IN  Stir(st, ((st.words[st.l] ^^ MtMixed(1664525, st.tmp)) + key[m + 1] + m) % MtWord)
        Unkeyed(st, n) ==
            Stir(st, ((st.words[st.l] ^^ MtMixed(1566083941, st.tmp)) - st.l) % MtWord)
        long == IF Len(key) > MtN THEN Len(key) ELSE MtN
        once == FoldLeft(Keyed, start, [n \in 1 .. long |-> n])
        twice == FoldLeft(Unkeyed, [once EXCEPT !.tmp = once.words[once.l - 1]], [n \in 1 .. MtN - 1 |-> n])
    IN  [words |-> [twice.words EXCEPT ![0] = RANDMT32HIMASK], curndx |-> MtN]

Twist(high, low) ==
    LET val == (high & RANDMT32HIMASK) | (low & RANDMT32LOMASK)
    IN  (val \div 2) ^^ (IF val % 2 = 1 THEN RANDMT32MATRIX ELSE 0)

\* In place: a word in front reads old ones ahead, one behind reads new ones.
_randmt32buf(words) ==
    LET ahead(w, l) == [w EXCEPT ![l] = w[l + MtM] ^^ Twist(w[l], w[l + 1])]
        back(w, l) == [w EXCEPT ![l] = w[l + MtM - MtN] ^^ Twist(w[l], w[l + 1])]
        front == FoldLeft(ahead, words, [n \in 1 .. MtN - MtM |-> n - 1])
        most == FoldLeft(back, front, [n \in 1 .. MtM - 1 |-> MtN - MtM + n - 1])
    IN  [most EXCEPT ![MtN - 1] = most[MtM - 1] ^^ Twist(most[MtN - 1], most[0])]

\* Mutant: the last word takes the second of the words it has replaced.
_randmt32bufOld(words) ==
    LET ahead(w, l) == [w EXCEPT ![l] = w[l + MtM] ^^ Twist(w[l], w[l + 1])]
        back(w, l) == [w EXCEPT ![l] = w[l + MtM - MtN] ^^ Twist(w[l], w[l + 1])]
        front == FoldLeft(ahead, words, [n \in 1 .. MtN - MtM |-> n - 1])
        most == FoldLeft(back, front, [n \in 1 .. MtM - 1 |-> MtN - MtM + n - 1])
    IN  [most EXCEPT ![MtN - 1] = most[MtM - 1] ^^ Twist(most[MtN - 1], words[0])]

Temper(x0) ==
    LET x1 == x0 ^^ (x0 \div 4)
        x2 == x1 ^^ ((x1 * 2) & (2 ^ (MtBits - 1) + 2 ^ (MtBits - 3) + 2))
        x3 == x2 ^^ ((x2 * 4) & (MtWord - 2 ^ (MtBits - 2)))
    IN  x3 ^^ (x3 \div 8)

\* The state from which the next word is taken.
Ready(mt) ==
    IF mt.curndx < MtN THEN mt
    ELSE LET seeded == IF mt.curndx = MtN + 1 THEN srandmt32(5489) ELSE mt
         IN  [words |-> _randmt32buf(seeded.words), curndx |-> 0]
randmt32(mt) == Temper(Ready(mt).words[Ready(mt).curndx])
---------------------------------------------------------------------------
(* Knuth's subtractive generator, with its table of 56 longs.  The place of *)
(* an item is the remainder less one, so that one lands before the table.  *)

RANDKMBIG == 1000000000
RANDKNTAB == 56
Wrapped(n) == IF n < 0 THEN n + RANDKMBIG ELSE n
AbsOf(n) == IF n < 0 THEN -n ELSE n

\* The table as it was; what lies before it is zero as long as nobody else has it.
EmptyTable == [i \in -1 .. RANDKNTAB - 1 |-> 0]

srandk(old, seed) ==
    LET mj0 == AbsOf(161803398 - (IF seed = 0 THEN 1 ELSE seed)) % RANDKMBIG
        Scatter(s, i) == [tab |-> [s.tab EXCEPT ![((21 * i) % RANDKNTAB) - 1] = s.mk],
                          mk |-> Wrapped(s.mj - s.mk), mj |-> s.mk]
        scattered == FoldLeft(Scatter, [tab |-> [old EXCEPT ![RANDKNTAB - 1] = mj0], mk |-> 1, mj |-> mj0],
                              [i \in 1 .. RANDKNTAB - 2 |-> i])
        Warm(tab, i) == [tab EXCEPT ![i] = Wrapped(@ - tab[((31 + i) % RANDKNTAB) - 1])]
        Round(tab) == FoldLeft(Warm, tab, [i \in 1 .. 55 |-> i])
        once == Round(scattered.tab)  twice == Round(once)  thrice == Round(twice)
    IN  [tab |-> <<scattered.tab, once, twice, thrice, Round(thrice)>>[5],
         inext |-> 0, inextp |-> 31, initialized |-> TRUE]

NextPlace(i) == IF i + 1 = RANDKNTAB THEN 1 ELSE i + 1
Started(k) == IF k.initialized THEN k ELSE srandk(k.tab, 0)
randk(k) ==
    LET inext == NextPlace(k.inext)  inextp == NextPlace(k.inextp)
    IN  [k EXCEPT !.tab = [@ EXCEPT ![inext] = Wrapped(@ - k.tab[inextp])],
                  !.inext = inext, !.inextp = inextp]
---------------------------------------------------------------------------
(* Lagged Fibonacci generators: the buffer is filled with rand(), the places *)
(* wrap at its size, which one lag of the second generator exceeds.        *)

XorOf(s) == FoldLeft(LAMBDA x, y : x ^^ y, 0, s)
Lagged(g, lags) ==
    LET ndx == g.ndx + 1
        val == XorOf([i \in DOMAIN lags |-> g.buf[(ndx - lags[i]) % LagN]])
    IN  [buf |-> [g.buf EXCEPT ![ndx % LagN] = val], ndx |-> ndx, val |-> val]
randlfg(g) == Lagged(g, Lags)
randlfg2(g) == Lagged(g, Lags2)

(* Congruential generators.  The word that keeps the state of the long one is *)
(* half as long, so that both cut what they return to a word; qrand's numbers *)
(* have signs, which are the highest bit.                                  *)

LcgWord == 2 ^ LcgBits
randklc32(seed) == ((69069 % LcgWord) * seed + 1234567) % LcgWord
randklc64(seed) ==
    LET long == LcgWord ^ 2
        val == ((32557 % long) * seed + (33103 % long)) % long   \* the constants' low 16 bits
    IN  val % LcgWord
qrand32(seed) == ((69069 % LcgWord) * seed + 1) % LcgWord
Lcg(kind, x) ==
    CASE kind = "klc32" -> randklc32(x) [] kind = "klc64" -> randklc64(x) [] kind = "qrand" -> qrand32(x)
---------------------------------------------------------------------------
(* Dice.                                                                   *)

Faces == <<4, 6, 8, 10, 12, 20>>
Option(die) == [die |-> die, num |-> 0]
DiceNumber(n) == [die |-> 0, num |-> n]

\* An option takes the next argument for its number, which another option is not:
\* it counts as zero.  The last argument has no next one.
diceparsecmd(buf, args) ==
    LET parse[l \in 1 .. Len(args) + 2, b \in [1 .. 6 -> DiceCounts]] ==
            IF l > Len(args) THEN [left |-> b, ends |-> FALSE]
            ELSE IF args[l].die = 0 THEN parse[l + 1, b]
            ELSE IF l = Len(args) THEN [left |-> b, ends |-> TRUE]
            ELSE parse[l + 2, [b EXCEPT ![args[l].die] = args[l + 1].num]]
    IN  parse[1, buf]

diceroll(rand, faces) == (rand % faces) + 1
diceinit(seed) == srandmt32(IF seed = 0 THEN MtWord - 1 ELSE seed)
---------------------------------------------------------------------------
(* The generators, one at a time.  origin is the state when it was seeded. *)

DiceArgs ==
    LET arg == {Option(1), Option(2), Option(6)} \cup {DiceNumber(n) : n \in DiceCounts}
    IN  UNION {[1 .. n -> arg] : n \in {0, 2, 3}}

GenInit ==
    /\ outs = <<>>
    /\ \/ gen = [kind |-> "mt", origin |-> srandmt32(5489).words] @@ Unseeded
       \/ gen = [kind |-> "randk", seeds |-> 0, origin |-> EmptyTable,
                 tab |-> EmptyTable, inext |-> 0, inextp |-> 0, initialized |-> FALSE]
       \/ \E k \in {"lfg", "lfg2"} : gen = [kind |-> k, buf |-> <<>>, ndx |-> 0, origin |-> <<>>]
       \/ \E k \in {"klc32", "klc64", "qrand"}, seed \in 0 .. LcgWord - 1 :
             gen = [kind |-> k, x |-> seed, origin |-> seed, count |-> 0]
       \/ \E args \in DiceArgs, n \in {0, 1} :
             LET p == diceparsecmd([i \in 1 .. 6 |-> n], args)
             IN  gen = [kind |-> IF p.ends THEN "ended" ELSE "dice", left |-> p.left, origin |-> p.left,
                        first |-> n, args |-> args]

More == Len(outs) < MaxDraws[gen.kind]
Seeding == Len(outs) \in SeedAfter
SeedMt(mt) == gen' = [kind |-> "mt", origin |-> mt.words] @@ mt /\ outs' = <<>>
MtSeed == gen.kind = "mt" /\ Seeding /\ \E seed \in MtSeeds : SeedMt(srandmt32(seed))
DiceSeed == gen.kind = "mt" /\ Seeding /\ \E seed \in MtSeeds : SeedMt(diceinit(seed))
MtSeedTab == gen.kind = "mt" /\ Seeding /\ \E key \in MtKeys : SeedMt(srandmt32tab(key))
MtDraw ==
    /\ gen.kind = "mt" /\ More
    /\ LET mt == Ready(gen)
       IN  gen' = [gen EXCEPT !.words = mt.words, !.curndx = mt.curndx + 1]
    /\ outs' = Append(outs, randmt32(gen))

\* A second seed finds the table as it is: seeding writes few of its items.
KSeed ==
    /\ gen.kind = "randk" /\ gen.seeds < 2 /\ Seeding
    /\ \E seed \in KSeeds :
          LET k == srandk(gen.tab, seed)
          IN  gen' = [kind |-> "randk", seeds |-> gen.seeds + 1, origin |-> k.tab] @@ k
    /\ outs' = <<>>
KDraw ==
    /\ gen.kind = "randk" /\ More
    /\ LET started == Started(gen)
           k == randk(started)
       IN  /\ gen' = [kind |-> "randk", seeds |-> gen.seeds, tab |-> k.tab,
                      origin |-> IF gen.initialized THEN gen.origin ELSE started.tab,
                      inext |-> k.inext, inextp |-> k.inextp, initialized |-> TRUE]
           /\ outs' = Append(outs, k.tab[k.inext])

\* The first call fills the buffer, or has none and writes to address zero.
LagFill ==
    /\ gen.kind \in {"lfg", "lfg2"} /\ gen.buf = <<>>
    /\ \/ \E fill \in LagFills : gen' = [gen EXCEPT !.buf = fill, !.origin = fill]
       \/ gen' = [gen EXCEPT !.kind = "ended"]
    /\ UNCHANGED outs
LagDraw ==
    /\ gen.kind \in {"lfg", "lfg2"} /\ gen.buf # <<>> /\ More
    /\ LET g == IF gen.kind = "lfg" THEN randlfg(gen) ELSE randlfg2(gen)
       IN  gen' = [gen EXCEPT !.buf = g.buf, !.ndx = g.ndx] /\ outs' = Append(outs, g.val)

LcgDraw ==
    /\ gen.kind \in {"klc32", "klc64", "qrand"} /\ gen.count < LcgWord
    /\ gen' = [gen EXCEPT !.x = Lcg(gen.kind, gen.x), !.count = @ + 1]
    /\ UNCHANGED outs

\* The kinds are rolled one after the other.
DiceRoll ==
    /\ gen.kind = "dice" /\ \E i \in 1 .. 6 : gen.left[i] > 0
    /\ LET i == CHOOSE k \in 1 .. 6 : gen.left[k] > 0 /\ \A j \in 1 .. k - 1 : gen.left[j] = 0
       IN  \E rand \in DiceRands :
              /\ gen' = [gen EXCEPT !.left[i] = @ - 1]
              /\ outs' = Append(outs, diceroll(rand, Faces[i]))

GenNext ==
    \/ MtSeed \/ DiceSeed \/ MtSeedTab \/ MtDraw \/ KSeed \/ KDraw
    \/ LagFill \/ LagDraw \/ LcgDraw \/ DiceRoll
GenSpec == GenInit /\ [][GenNext]_genvars
---------------------------------------------------------------------------
\* The twister's numbers are the tempered terms of one recurrence that starts with
\* the seeded words, across every refill in place; without a seed they are those of
\* the default seed.  No seed leaves every word zero, from which nothing else could
\* follow, and tempering loses nothing (srandmt32tab, _randmt32buf, randmt32).
TwisterSound ==
    gen.kind = "mt" =>
        LET x[n \in 0 .. MtN + Len(outs)] ==
                IF n < MtN THEN gen.origin[n]
                ELSE x[n - MtN + MtM] ^^ Twist(x[n - MtN], x[n - MtN + 1])
        IN  /\ \A n \in DOMAIN outs : outs[n] = Temper(x[MtN + n - 1])
            /\ \E i \in 0 .. MtN - 1 : gen.origin[i] # 0
            /\ {Temper(a) : a \in 0 .. MtWord - 1} = 0 .. MtWord - 1

\* Every number is the one 55 before it less the one 24 before it, among the items
\* of the table to begin with, and lies in the range; and both places go around at
\* the same distance, whatever the seed and what the table held (srandk, randk).
KnuthSound ==
    gen.kind = "randk" =>
        LET x(n) == IF n > 0 THEN outs[n] ELSE gen.origin[n + 55]
        IN  /\ \A n \in DOMAIN outs : outs[n] = Wrapped(x(n - 55) - x(n - 24))
            /\ \A i \in -1 .. RANDKNTAB - 1 : gen.tab[i] \in 0 .. RANDKMBIG - 1
            /\ gen.initialized => (gen.inextp - gen.inext) \in {31, -24}

\* A number is the exclusive or of the ones a lag before it, of which the buffer has
\* kept the last LagN; a lag above LagN is as much shorter.  A congruential generator
\* gives every word before it comes back to its seed.  The total of the dice
\* is one of them all, the last option of a die counts, and one that no option
\* names keeps its number (randlfg, randlfg2, randklc64, qrand32, dicerolld20).
RollsSound ==
    /\ gen.kind \in {"lfg", "lfg2"} =>
          LET x(n) == IF n > 0 THEN outs[n] ELSE gen.origin[n % LagN]
              lags == IF gen.kind = "lfg" THEN Lags ELSE Lags2
          IN  \A n \in DOMAIN outs :
                 outs[n] = XorOf([i \in DOMAIN lags |->
                                     x(n - IF lags[i] > LagN THEN lags[i] - LagN ELSE lags[i])])
    /\ gen.kind \in {"klc32", "klc64", "qrand"} =>
          (gen.x = gen.origin <=> gen.count \in {0, LcgWord})
    /\ gen.kind = "dice" =>
          LET all == FoldLeft(LAMBDA n, i : n + gen.origin[i], 0, <<1, 2, 3, 4, 5, 6>>)
              most == FoldLeft(LAMBDA n, i : n + gen.origin[i] * Faces[i], 0, <<1, 2, 3, 4, 5, 6>>)
              total == FoldLeft(LAMBDA n, i : n + outs[i], 0, [i \in DOMAIN outs |-> i])
          IN  /\ Len(outs) + FoldLeft(LAMBDA n, i : n + gen.left[i], 0, <<1, 2, 3, 4, 5, 6>>) = all
              /\ Len(outs) = all => total \in all .. most
              /\ \A i \in 1 .. 6 : (\A k \in DOMAIN gen.args : gen.args[k].die # i) =>
                                       gen.origin[i] = gen.first
              /\ Len(gen.args) = 3 /\ gen.args[1].die = 0 /\ gen.args[2].die # 0 =>
                    gen.origin[gen.args[2].die] = gen.args[3].num

NumbersSound == TwisterSound /\ KnuthSound /\ RollsSound
===========================================================================
