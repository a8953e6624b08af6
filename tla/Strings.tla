------------------------------ MODULE Strings ------------------------------
(***************************************************************************)
(* The blocks and strings of c/string.c: copies by bytes and by words,     *)
(* moves of overlapping blocks, fills, comparisons, and the searches in    *)
(* strings that end with a zero byte.                                      *)
(*                                                                         *)
(* Memory is a function from addresses to bytes.  A function returns the   *)
(* memory it leaves or a value; one that runs past every block, because    *)
(* an unsigned count has passed below zero, returns Wild or Lost, and one  *)
(* that never comes to an end returns Hang.                                *)
(***************************************************************************)
EXTENDS Integers, FiniteSetsExt

CONSTANTS MemSize,   \* addresses 0 .. MemSize - 1
          Long,      \* sizeof(long)
          Places,    \* where the callers' blocks begin
          Lengths,   \* and how long they are
          TextLen,   \* how long a string may be
          Texts      \* the memories, as sets of the addresses that hold "a"
                     \* rather than "b", that strings are searched in

Addresses == 0 .. MemSize - 1
Block == 8 * Long    \* copied in one round
Place2 == TextLen + 1    \* the first string is at 0, the second one here
Place3 == 2 * Place2     \* and a copy here

ASSUME StringsAssumption ==
    /\ MemSize \in Nat /\ Long \in Nat \ {0, 1}
    /\ Places \subseteq Nat /\ Lengths \subseteq Nat
    /\ \A p \in Places, q \in Places, n \in Lengths : p + n + Block < MemSize
    /\ TextLen \in Nat /\ 2 * Place3 <= MemSize
    /\ Texts \subseteq SUBSET (0 .. Place3 - 1)

VARIABLES call,      \* the function called and its arguments
          outcome    \* the memory and the value it returned

stringvars == <<call, outcome>>

Wild == <<>>      \* instead of a memory
Lost == 1000      \* and instead of a difference
Hang == 1001
NULL == -1
---------------------------------------------------------------------------
\* n units of u bytes, one after the other, upwards from d and s.
CopyUp(m, d, s, n, u) ==
    LET after[i \in 0 .. n] ==
            IF i = 0 THEN m
            ELSE [a \in Addresses |->
                    IF a \in d + (i - 1) * u .. d + i * u - 1
                    THEN after[i - 1][a - d + s] ELSE after[i - 1][a]]
    IN  after[n]

\* And downwards, the first of them ending before d and s.
CopyDown(m, d, s, n, u) ==
    LET after[i \in 0 .. n] ==
            IF i = 0 THEN m
            ELSE [a \in Addresses |->
                    IF a \in d - i * u .. d - (i - 1) * u - 1
                    THEN after[i - 1][a - d + s] ELSE after[i - 1][a]]
    IN  after[n]

Fill(m, d, n, byte) == [a \in Addresses |-> IF a \in d .. d + n - 1 THEN byte ELSE m[a]]

\* The bytes up to the next word boundary.
Lead(d) == (Long - (d % Long)) % Long

\* Rounds of eight words are copied if the remainder of the length by the
\* word happens to be that of the destination.
memcpy(m, d, s, len) ==
    LET fast == len > Block /\ len % Long = d % Long
        head == Lead(d)
        words == 8 * ((len - head) \div Block)
        done == head + words * Long
    IN  IF ~fast THEN CopyUp(m, d, s, len, 1)
        ELSE CopyUp(CopyUp(CopyUp(m, d, s, head, 1), d + head, s + head, words, Long),
                    d + done, s + done, len - done, 1)

\* From the end.  The bytes before the first word boundary are copied with
\* the pointers decremented afterwards: they are the bytes behind the ends.
memcpybk(m, d, s, len) ==
    LET de == d + len
        se == s + len
        odd == de % Long
        fast == len > Block /\ odd = se % Long
        words == (len - odd) \div Long
        done == odd + words * Long
    IN  IF ~fast THEN CopyDown(m, de, se, len, 1)
        ELSE CopyDown(CopyDown(CopyDown(m, de + 1, se + 1, odd, 1), de - odd, se - odd, words, Long),
                      de - done, se - done, len - done, 1)

\* Mutant: always upwards.
memmoveUp(m, d, s, len) == memcpy(m, d, s, len)
memmove(m, d, s, len) ==
    IF len = 0 THEN m
    ELSE IF d < s \/ s + len < d THEN memcpy(m, d, s, len)
    ELSE memcpybk(m, d, s, len)

\* The leading bytes are set whatever the length; then rounds of eight words,
\* the words that remain, and the bytes that remain, which are cleared.
memset(m, p, byte, len) ==
    LET head == Lead(p)
        rounds == (len - head) \div Block
        words == (len - head - rounds * Block) \div Long
        at == p + head + rounds * Block
        m1 == Fill(Fill(m, p, head, byte), p + head, rounds * Block, byte)
    IN  IF len < head THEN Wild
        ELSE Fill(Fill(m1, at, words * Long, byte),
                  at + words * Long, len - head - rounds * Block - words * Long, 0)

\* The first address at which the blocks differ in n bytes, or n.
FirstDiff(m, p, q, n) ==
    CHOOSE i \in 0 .. n :
        (i = n \/ m[p + i] # m[q + i]) /\ \A j \in 0 .. i - 1 : m[p + j] = m[q + j]

\* Where both blocks are aligned alike, the bytes up to a word boundary and then
\* whole words are compared; the rest byte by byte.
Alike(p, q) == p % Long = q % Long
Front(p, q) == IF Alike(p, q) THEN Lead(p) ELSE 0
Longs(p, q, len) == IF Alike(p, q) THEN (len - Front(p, q)) \div Long ELSE 0

\* The words are compared through pointers of their own: the loop for the rest
\* begins where they began, not where they ended.  At a byte that is equal it
\* waits for the last difference to become nonzero: for ever if it is zero, not
\* at all if it was never computed and happens not to be zero.
memcmp(m, p, q, len) ==
    LET front == Front(p, q)
        tail == len - front - Longs(p, q, len) * Long
        i == FirstDiff(m, p, q, len)
        t == FirstDiff(m, p + front, q + front, tail)
        last == IF front > 0 THEN {0} ELSE {-1, 0, 1}
    IN  IF len = 0 THEN {0}
        ELSE IF len < front
             THEN LET k == FirstDiff(m, p, q, front)
                  IN  IF k < front THEN {m[p + k] - m[q + k]} ELSE {Lost}
        ELSE IF i < len - tail THEN {m[p + i] - m[q + i]}
        ELSE {IF r = 0 /\ t > 0 THEN Hang
              ELSE IF t < tail THEN m[p + front + t] - m[q + front + t]
              ELSE r : r \in last}
---------------------------------------------------------------------------
\* Searches.  A byte of the block is unsigned and the byte looked for is a
\* char: above 127 the two are never equal.
Char(ch) == IF ch > 127 THEN ch - 256 ELSE ch

\* The offsets from s within memory.
Offsets(s) == 0 .. MemSize - 1 - s

\* The scan may stop one byte behind the block, with the count below zero.
memchr(m, p, ch, n) ==
    LET at == Min({i \in 0 .. n : i = n \/ m[p + i] = Char(ch)})
    IN  IF at = n THEN NULL ELSE p + at

memrchr(m, p, ch, n) ==
    LET at == Min({i \in 0 .. n : i = n \/ m[p + n - 1 - i] = Char(ch)})
    IN  IF at = n THEN NULL ELSE p + n - 1 - at

strlen(m, s) == Min({i \in Offsets(s) : m[s + i] = 0})

strchrnul(m, s, c) == s + Min({i \in Offsets(s) : m[s + i] \in {0, c}})

strchr(m, s, c) == IF m[strchrnul(m, s, c)] = c THEN strchrnul(m, s, c) ELSE NULL

\* The byte at which the search for c in the string t stops: c or its end.
Stop(m, t, c) == m[strchrnul(m, t, c)]

strcspn(m, s, t) == Min({i \in Offsets(s) : m[s + i] = 0 \/ Stop(m, t, m[s + i]) # 0})

strspn(m, s, t) == Min({i \in Offsets(s) : m[s + i] = 0 \/ Stop(m, t, m[s + i]) = 0})

strpbrk(m, s, t) ==
    LET set == {m[t + j] : j \in 0 .. strlen(m, t) - 1}
        at == Min({i \in Offsets(s) : m[s + i] \in set \cup {0}})
    IN  IF m[s + at] = 0 THEN NULL ELSE s + at

\* The second string is read as signed bytes.  When the first one ends there
\* is no difference, whatever is left of the second.
strcmp(m, p, q) ==
    LET i == Min({k \in Offsets(p) : m[p + k] = 0 \/ m[p + k] # Char(m[q + k])})
    IN  IF m[p + i] = 0 THEN 0 ELSE m[p + i] - Char(m[q + i])

\* The last byte that is not c.
strrchr(m, s, c) ==
    LET others == {i \in 0 .. strlen(m, s) - 1 : m[s + i] # c}
    IN  IF others = {} THEN NULL ELSE s + Max(others)

\* The pointer is not moved: only the first byte is looked at.
strnlen(m, s, n) == IF m[s] = 0 THEN 0 ELSE n

\* Into a block at d that malloc has given, if it has; of an empty string
\* there is no copy.
strndup(m, d, s, n, given) ==
    LET len == IF strlen(m, s) < n THEN strlen(m, s) ELSE n
    IN  IF len = 0 \/ ~given THEN <<NULL, m>>
        ELSE <<d, Fill(memcpy(m, d, s, len), d + len, 1, 0)>>
strdup(m, d, s, given) == strndup(m, d, s, strlen(m, s), given)

\* The place to go on at is kept between the calls.  It is the byte behind the
\* zero that ends the token, also if that was the end of the string, and is
\* forgotten if that byte is zero.  An empty string goes on as well.
strtok(st, s, t) ==
    LET m == st.mem
        start == IF s # NULL /\ m[s] # 0 THEN s + strspn(m, s, t) ELSE st.curtok
        end == start + strcspn(m, start, t)
        cut == Fill(m, end, 1, 0)
    IN  IF start = NULL THEN [st EXCEPT !.ret = NULL]
        ELSE [mem |-> cut, ret |-> start, curtok |-> IF cut[end + 1] = 0 THEN NULL ELSE end + 1]

strcpy(m, d, s) == CopyUp(m, d, s, strlen(m, s) + 1, 1)

\* The count is decremented past zero when the string is longer: it is then
\* not zero, and the byte that did not fit is written as well.  Nothing
\* fills the rest of the destination.
strncpy(m, d, s, n) ==
    LET len == strlen(m, s)
    IN  IF n = 0 THEN m
        ELSE IF len = n THEN CopyUp(m, d, s, n, 1)
        ELSE CopyUp(m, d, s, (IF len < n THEN len ELSE n) + 1, 1)

strcat(m, d, s) == strcpy(m, d + strlen(m, d), s)
strncat(m, d, s, n) == strncpy(m, d + strlen(m, d), s, n)

---------------------------------------------------------------------------
\* No byte is zero and no two of 255 are the same, so that the copies tell
\* where they come from.
Distinct == [a \in Addresses |-> 1 + (a % 255)]

\* Two strings of up to TextLen bytes, at 0 and Place2, with room behind them.
TextOf(A, i, j) ==
    [a \in Addresses |-> IF a \in {i, Place2 + j} \/ a >= Place3 THEN 0 ELSE IF a \in A THEN 97 ELSE 98]

\* A block and a second one beside it that is equal but for one byte.
Twins(p, q, n, k, byte) ==
    [a \in Addresses |-> IF a = k + q THEN byte ELSE 5]

Calls ==
    [fn : {"memcpy", "memmove"}, d : Places, s : Places, n : Lengths]
    \cup [fn : {"memset"}, d : Places, n : Lengths]
    \cup [fn : {"memcmp"}, d : Places, s : Places, n : Lengths, k : Lengths, byte : {3, 200}]
    \cup [fn : {"memchr", "memrchr"}, d : Places, n : Lengths, byte : {0, 3, 9, 200}]
    \cup [fn : {"strspn", "strcspn", "strpbrk", "strlen", "strcpy", "strcat"},
          A : Texts, i : 0 .. TextLen, j : 0 .. TextLen]
    \cup [fn : {"strchr"}, A : Texts, i : 0 .. TextLen, byte : {0, 97, 99}]
    \cup [fn : {"strcmp", "strtok"}, A : Texts, i : 0 .. TextLen, j : 0 .. TextLen]
    \cup [fn : {"strrchr", "strchrnul"}, A : Texts, i : 0 .. TextLen, byte : {0, 97, 99}]
    \cup [fn : {"strnlen", "strndup"}, A : Texts, i : 0 .. TextLen, n : 0 .. Place2]
    \cup [fn : {"strdup"}, A : Texts, i : 0 .. TextLen]
    \cup [fn : {"strncpy", "strncat"}, A : Texts, i : 0 .. TextLen, j : 0 .. TextLen, n : 0 .. Place2]

\* memcpy is for blocks that do not overlap, memcmp for two blocks.
Apart(d, s, n) == d + n <= s \/ s + n <= d

Proper(c) ==
    /\ c.fn = "memcpy" => Apart(c.d, c.s, c.n)
    /\ c.fn = "memcmp" => c.d + c.n + Long < c.s /\ c.k <= c.n + 1

StringsInit == call \in {c \in Calls : Proper(c)} /\ outcome = <<>>

\* A first call with the string at 0 and two more.
Tokens(c) ==
    LET a == strtok([mem |-> TextOf(c.A, c.i, c.j), curtok |-> NULL, ret |-> NULL], 0, Place2)
        b == strtok(a, NULL, Place2)
    IN  <<a, b, strtok(b, NULL, Place2)>>

Answers(c) ==
    CASE c.fn = "memcpy" -> {memcpy(Distinct, c.d, c.s, c.n)}
      [] c.fn = "memmove" -> {memmove(Distinct, c.d, c.s, c.n)}
      [] c.fn = "memset" -> {memset(Distinct, c.d, 255, c.n)}
      [] c.fn = "memcmp" -> memcmp(Twins(c.d, c.s, c.n, c.k, c.byte), c.d, c.s, c.n)
      [] c.fn = "memchr" -> {memchr(Distinct, c.d, c.byte, c.n)}
      [] c.fn = "memrchr" -> {memrchr(Distinct, c.d, c.byte, c.n)}
      [] c.fn = "strchr" -> {strchr(TextOf(c.A, c.i, 0), 0, c.byte)}
      [] c.fn = "strlen" -> {strlen(TextOf(c.A, c.i, c.j), 0)}
      [] c.fn = "strspn" -> {strspn(TextOf(c.A, c.i, c.j), 0, Place2)}
      [] c.fn = "strcspn" -> {strcspn(TextOf(c.A, c.i, c.j), 0, Place2)}
      [] c.fn = "strpbrk" -> {strpbrk(TextOf(c.A, c.i, c.j), 0, Place2)}
      [] c.fn = "strcpy" -> {strcpy(TextOf(c.A, c.i, c.j), Place3, Place2)}
      [] c.fn = "strcat" -> {strcat(TextOf(c.A, c.i, c.j), Place2, 0)}
      [] c.fn = "strcmp" -> {strcmp(TextOf(c.A, c.i, c.j), 0, Place2)}
      [] c.fn = "strtok" -> {Tokens(c)}
      [] c.fn = "strrchr" -> {strrchr(TextOf(c.A, c.i, 0), 0, c.byte)}
      [] c.fn = "strchrnul" -> {strchrnul(TextOf(c.A, c.i, 0), 0, c.byte)}
      [] c.fn = "strnlen" -> {strnlen(TextOf(c.A, c.i, 0), 0, c.n)}
      [] c.fn = "strndup" -> {strndup(TextOf(c.A, c.i, 0), Place3, 0, c.n, g) : g \in BOOLEAN}
      [] c.fn = "strdup" -> {strdup(TextOf(c.A, c.i, 0), Place3, 0, g) : g \in BOOLEAN}
      [] c.fn = "strncpy" -> {strncpy(TextOf(c.A, c.i, c.j), Place3, Place2, c.n)}
      [] c.fn = "strncat" -> {strncat(TextOf(c.A, c.i, c.j), Place2, 0, c.n)}

Call == outcome = <<>> /\ (\E r \in Answers(call) : outcome' = <<r>>) /\ UNCHANGED call

StringsSpec == StringsInit /\ [][Call]_stringvars
---------------------------------------------------------------------------
\* What the memory is to be after n bytes of m have been copied from s to d.
Copied(m, d, s, n) == [a \in Addresses |-> IF a \in d .. d + n - 1 THEN m[a - d + s] ELSE m[a]]
Sign(x) == IF x < 0 THEN -1 ELSE IF x > 0 THEN 1 ELSE 0
Wrong(r, m) == {a \in Addresses : r[a] # m[a]}

BlockHolds(c, r) ==
    LET end == c.d + c.n
        odd == end % Long
        inside == c.d .. end - 1
    IN  CASE c.fn = "memcpy" -> r = Copied(Distinct, c.d, c.s, c.n)
          [] c.fn = "memmove" ->
                \/ r = Copied(Distinct, c.d, c.s, c.n)
                \/ /\ c.s < c.d /\ c.n > Block /\ odd # 0
                   /\ Wrong(r, Copied(Distinct, c.d, c.s, c.n)) \subseteq {end, end - odd}
          [] c.fn = "memset" ->
                IF c.n < Lead(c.d) THEN r = Wild
                ELSE r = Fill(Fill(Distinct, c.d, c.n, 255), end - odd, odd, 0)
          [] c.fn = "memcmp" ->
                LET right == Sign(r) = Sign(5 - c.byte)
                    words == Longs(c.d, c.s, c.n)
                IN  c.k < c.n =>
                        IF c.n < Front(c.d, c.s) \/ c.k < Front(c.d, c.s) + words * Long THEN right
                        ELSE IF words > 0 THEN r \in {Hang, -1, 1}
                        ELSE r = Hang \/ right
          [] c.fn = "memchr" -> r # NULL => r \in inside /\ Distinct[r] = c.byte
          [] c.fn = "memrchr" -> r = NULL /\ c.byte <= 127 => \A a \in inside : Distinct[a] # c.byte

TextHolds(c, r) ==
    LET m == TextOf(c.A, c.i, IF "j" \in DOMAIN c THEN c.j ELSE 0)
        bytes(s, n) == {m[s + k] : k \in 0 .. n - 1}
        set == bytes(Place2, c.j)
        copied(n) == r[1] # NULL => r[1] = Place3 /\ n > 0 /\ r[2][Place3 + n] = 0
                                    /\ [r[2] EXCEPT ![Place3 + n] = m[Place3 + n]] = Copied(m, Place3, 0, n)
    IN  CASE c.fn = "strlen" -> r = c.i
          [] c.fn = "strspn" -> bytes(0, r) \subseteq set /\ (r < c.i => m[r] \notin set)
          [] c.fn = "strcspn" -> bytes(0, r) \cap set = {} /\ (r < c.i => m[r] \in set)
          [] c.fn = "strpbrk" ->
                IF bytes(0, c.i) \cap set = {} THEN r = NULL
                ELSE m[r] \in set /\ bytes(0, r) \cap set = {}
          [] c.fn = "strchr" -> IF r = NULL THEN c.byte \notin bytes(0, c.i + 1) ELSE m[r] = c.byte
          [] c.fn = "strcmp" ->
                IF \E k \in 0 .. c.i - 1 : m[k] # m[Place2 + k]
                THEN \E k \in 0 .. c.i - 1 : /\ \A l \in 0 .. k - 1 : m[l] = m[Place2 + l]
                                             /\ m[k] # m[Place2 + k] /\ r = m[k] - m[Place2 + k]
                ELSE r = 0
          [] c.fn = "strtok" ->
                \A n \in 1 .. 3 : r[n].ret \in 0 .. c.i - 1 =>
                    LET end == r[n].ret + strlen(r[n].mem, r[n].ret)
                    IN  /\ \A a \in r[n].ret .. end - 1 : r[n].mem[a] = m[a] /\ m[a] \notin set
                        /\ end = c.i \/ (end < c.i /\ m[end] \in set)
                        /\ n > 1 => r[n - 1].mem[r[n].ret - 1] = 0 /\ r[n].ret > r[n - 1].ret
          [] c.fn = "strrchr" -> r # NULL => r \in 0 .. c.i - 1 /\ m[r] # c.byte
          [] c.fn = "strchrnul" -> m[r] \in {0, c.byte} /\ c.byte \notin bytes(0, r)
          [] c.fn = "strnlen" -> r <= c.n
          [] c.fn = "strndup" -> copied(IF c.n < c.i THEN c.n ELSE c.i)
          [] c.fn = "strdup" -> copied(c.i)
          [] c.fn = "strcpy" -> r = Copied(m, Place3, Place2, c.j + 1)
          [] c.fn = "strcat" -> r = Copied(m, Place2 + c.j, 0, c.i + 1)
          [] c.fn = "strncpy" -> Wrong(r, m) \subseteq Place3 .. Place3 + c.n /\ (c.j < c.n => r[Place3 + c.j] = 0)
          [] c.fn = "strncat" -> Wrong(r, m) \subseteq Place2 + c.j .. Place2 + c.j + c.n

TextCalls == {"strlen", "strspn", "strcspn", "strpbrk", "strchr", "strcpy", "strcat", "strncpy",
              "strncat", "strcmp", "strtok", "strrchr", "strchrnul", "strnlen", "strndup", "strdup"}

\* Copies of blocks and strings are exact and touch nothing else, searches
\* find what is there and nothing else, and a difference within the leading
\* bytes and the words of two blocks decides their comparison.  The exceptions
\* are the ones named: a difference in the bytes behind the words is never
\* seen, the comparison hangs there or returns what was in its register, and
\* without words it may hang as well; a long move downwards from
\* an end that is not on a word misses one byte and writes one behind the
\* block; a fill shorter than its leading bytes runs wild, and clears the
\* bytes behind its last word; the copies of at most n bytes write up to one
\* more.  strcmp sees no difference behind the end of its first string,
\* strrchr finds the last byte that is another than the one asked for, strnlen
\* looks at one byte only, an empty string is not duplicated, and strtok goes
\* on behind a string that ended with its last token if the byte there is not
\* zero (memcpy, memmove, memset, memcmp, memchr, strcspn, strncpy, ...).
StringsHold ==
    outcome # <<>> =>
        IF call.fn \in TextCalls THEN TextHolds(call, outcome[1]) ELSE BlockHolds(call, outcome[1])
===========================================================================
