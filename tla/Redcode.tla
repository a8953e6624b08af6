------------------------------ MODULE Redcode ------------------------------
(***************************************************************************)
(* The assembler of the Core War game: rcxlate of corewar/rc.c reads the   *)
(* two programs line by line into the core, and cwdisasm of corewar/cw.c   *)
(* writes an instruction as a line again.                                  *)
(*                                                                         *)
(* A line is what its characters amount to: a comment, a blank line, one   *)
(* that begins with neither space nor letter, or a mnemonic and operands.  *)
(* The line buffer ends with a line feed and without a zero byte.  The     *)
(* line feed is a space, and spaces are skipped: what is missing on a line *)
(* is read from the uninitialised memory behind it.                        *)
(***************************************************************************)
EXTENDS Integers, Sequences, FiniteSets

CONSTANTS CWCORESIZE,
          Half,        \* the operands a and b are bit-fields below Half
          Sources,     \* pairs of programs, each a sequence of lines
          Origins,     \* pairs of places to load them at
          Remains      \* operands that happen to stand behind a line

\* The instructions, by their letters, in the order of their opcodes.
Mnemonics == <<
    <<"D", "A", "T">>, <<"M", "O", "V">>, <<"A", "D", "D">>, <<"S", "U", "B">>,
    <<"J", "M", "P">>, <<"J", "M", "Z">>, <<"J", "M", "N">>, <<"C", "M", "P">>,
    <<"S", "L", "T">>, <<"D", "J", "N">>, <<"S", "P", "L">> >>
CWOPDAT == 0
Opcodes == 0 .. Len(Mnemonics) - 1
g_rcnargtab(op) == IF op \in {0, 4, 10} THEN 1 ELSE 2

Operands == [mode : {"#", "@", "<", "$", "none"}, neg : BOOLEAN, val : Nat]
Lines == [kind : {"comment", "blank", "other"}]
         \cup [kind : {"instr"}, word : Seq(STRING), fields : Seq(Operands)]

ASSUME RedcodeAssumption ==
    /\ CWCORESIZE \in Nat \ {0} /\ Half \in Nat /\ Half > CWCORESIZE
    /\ \A s \in Sources : s \in Seq(Lines) \X Seq(Lines)
    /\ \A o \in Origins : o \in (0 .. CWCORESIZE - 1) \X (0 .. CWCORESIZE - 1)
    /\ Remains \subseteq Operands

VARIABLES source,   \* the two files
          origin,   \* where each is loaded
          reading,  \* the program that is read, 1 or 2
          line,     \* its next line
          nread,    \* instructions read so far
          wrap,     \* a blank line has been seen
          optab,    \* the core
          entry,    \* where each program starts, or -1
          loading   \* "yes", "done", or how the program ended

rcvars == <<source, origin, reading, line, nread, wrap, optab, entry, loading>>

\* calloc: the core is zero, and so is an instruction with a zero in every field.
Zero == [op |-> CWOPDAT, aflg |-> {}, bflg |-> {}, pid |-> 0, a |-> 0, b |-> 0]
Exit == [op |-> -1]      \* instead of an instruction: the assembler gives up,
Crash == [op |-> -2]     \* or reads a NULL pointer
---------------------------------------------------------------------------
\* The tables of rcaddop: the beginnings of the registered mnemonics.
Known(letters) == \E i \in 1 .. Len(Mnemonics) :
    \E n \in 1 .. 3 : letters = SubSeq(Mnemonics[i], 1, n)

\* rcfindop: the opcode, CWNONE (-1) if there is none.  Where the third letter alone
\* is unknown the lookup ends in a NULL pointer, which is read.
rcfindop(word) ==
    IF Len(word) # 3 \/ ~Known(SubSeq(word, 1, 2)) THEN -1
    ELSE IF ~Known(word) THEN -2
    ELSE CHOOSE op \in Opcodes : Mnemonics[op + 1] = word

Sigil(mode) ==
    CASE mode = "#" -> {"imm"} [] mode = "@" -> {"indir"} [] mode = "<" -> {"predec"} [] OTHER -> {}

\* Mutant: a negative operand is stored below zero, as the bit-field wraps it.
FieldWrapped(o) == (IF o.neg THEN -o.val ELSE o.val) % Half

Field(o) == (IF o.neg THEN CWCORESIZE - o.val ELSE o.val) % Half
FieldFlags(o) == Sigil(o.mode) \cup (IF o.neg THEN {"sign"} ELSE {})

\* An operand without a mark is relative; for the second operand too this is
\* noted in the flags of the first.
Instr(op, a, b) ==
    LET two == g_rcnargtab(op) = 2
        rel == b.mode = "none" \/ (two /\ a.mode = "none")
    IN  [op |-> op, pid |-> 0,
         aflg |-> (IF two THEN FieldFlags(a) ELSE {}) \cup (IF rel THEN {"rel"} ELSE {}),
         bflg |-> FieldFlags(b),
         a |-> IF two THEN Field(a) ELSE 0, b |-> Field(b)]

\* rcgetop, over what may stand behind the line.  Behind a mnemonic alone
\* that may be a zero byte, which leaves the operands zero.
rcgetop(word, fields) ==
    LET op == rcfindop(word)
        n == g_rcnargtab(op)
    IN  IF op < 0 THEN {[op |-> op]}
        ELSE IF Len(fields) >= n THEN {Instr(op, fields[1], fields[n])}
        ELSE {Exit} \cup (IF fields = <<>> THEN {[Zero EXCEPT !.op = op]} ELSE {})
             \cup {Instr(op, IF fields = <<>> THEN r ELSE fields[1], r) : r \in Remains}

\* cwdisasm.  The second operand gets the mark of a pre-decrement by the
\* flags of the first.  Without a sign it is written to stderr whatever the file:
\* the text is whole for stderr, which the only caller (cwexec) passes.
Mark1(flg) ==
    IF "imm" \in flg THEN "#" ELSE IF "indir" \in flg THEN "@" ELSE IF "predec" \in flg THEN "<" ELSE "none"
Number(mode, flg, v) ==
    LET n == IF "sign" \in flg THEN v - CWCORESIZE ELSE v
    IN  [mode |-> mode, neg |-> n < 0, val |-> IF n < 0 THEN -n ELSE n]
cwdisasm(i) ==
    LET second == Number(Mark1((i.bflg \ {"predec"}) \cup (i.aflg \cap {"predec"})), i.bflg, i.b)
    IN  [word |-> Mnemonics[i.op + 1],
         fields |-> IF g_rcnargtab(i.op) = 2
                    THEN <<Number(Mark1(i.aflg), i.aflg, i.a), second>> ELSE <<second>>]

\* zeusdisasm, for the display: the same line behind its address.
zeusdisasm(pc) == <<pc, cwdisasm(optab[pc])>>
---------------------------------------------------------------------------
RcInit ==
    /\ source \in Sources /\ origin \in Origins
    /\ reading = 1 /\ line = 1 /\ nread = <<0, 0>> /\ wrap = FALSE
    /\ optab = [c \in 0 .. CWCORESIZE - 1 |-> Zero]
    /\ entry = <<-1, -1>>
    /\ loading = "yes"

Text == source[reading]
Cell(p, n) == (origin[p] + n) % CWCORESIZE
Stay == UNCHANGED <<source, origin>>
NextLine == line' = line + 1 /\ UNCHANGED reading

\* An instruction goes to the next cell, which must be zero; the program
\* starts at the first that is not a DAT.
Put(i) ==
    LET pc == Cell(reading, nread[reading])
    IN  IF optab[pc] # Zero THEN loading' = "overlap" /\ UNCHANGED <<optab, nread, entry>>
        ELSE /\ optab' = [optab EXCEPT ![pc] = [i EXCEPT !.pid = reading - 1]]
             /\ nread' = [nread EXCEPT ![reading] = @ + 1]
             /\ entry' = [entry EXCEPT ![reading] = IF @ < 0 /\ i.op # CWOPDAT THEN pc ELSE @]
             /\ UNCHANGED loading

\* The instruction a line gives, or the end of the program.
Accept(results) ==
    \E i \in results :
        IF i \in {Exit, Crash} THEN loading' = "failed" /\ UNCHANGED <<optab, nread, entry>> ELSE Put(i)

ReadInstr ==
    /\ loading = "yes" /\ line <= Len(Text) /\ Text[line].kind = "instr"
    /\ Accept(rcgetop(Text[line].word, Text[line].fields))
    /\ NextLine /\ Stay /\ UNCHANGED wrap

ReadComment ==
    /\ loading = "yes" /\ line <= Len(Text) /\ Text[line].kind = "comment"
    /\ NextLine /\ Stay /\ UNCHANGED <<nread, wrap, optab, entry, loading>>

\* After the line feed of a blank line whatever stands behind it is read, as
\* a comment or nothing of note, or as an instruction.
ReadBlank ==
    /\ loading = "yes" /\ line <= Len(Text) /\ Text[line].kind = "blank"
    /\ wrap' = TRUE
    /\ \/ UNCHANGED <<nread, optab, entry, loading>>
       \/ loading' = "failed" /\ UNCHANGED <<nread, optab, entry>>
       \/ \E r \in Remains : Put(Instr(CWOPDAT, r, r))
    /\ NextLine /\ Stay

\* Any other line is skipped once there has been a blank one, and is the end
\* of the program before that.
SkipOther ==
    /\ loading = "yes" /\ line <= Len(Text) /\ Text[line].kind = "other" /\ wrap
    /\ NextLine /\ Stay /\ UNCHANGED <<nread, wrap, optab, entry, loading>>

\* The end of a program: main gives up if it has no first instruction, and
\* goes on with the second program.
FinishProgram ==
    /\ loading = "yes"
    /\ line <= Len(Text) => (Text[line].kind = "other" /\ ~wrap)
    /\ IF entry[reading] < 0 THEN loading' = "failed" /\ UNCHANGED <<reading, line, wrap>>
       ELSE IF reading = 1 THEN reading' = 2 /\ line' = 1 /\ wrap' = FALSE /\ UNCHANGED loading
       ELSE loading' = "done" /\ UNCHANGED <<reading, line, wrap>>
    /\ Stay /\ UNCHANGED <<nread, optab, entry>>

RcNext == ReadInstr \/ ReadComment \/ ReadBlank \/ SkipOther \/ FinishProgram

RcSpec == RcInit /\ [][RcNext]_rcvars
---------------------------------------------------------------------------
\* What the machine makes of the flags: "rel" is never looked at.
Same(i, j) == i.op = j.op /\ i.aflg \ {"rel"} = j.aflg \ {"rel"} /\ i.bflg = j.bflg /\ i.a = j.a /\ i.b = j.b

\* The operands that cannot be written again: a pre-decrement of one operand
\* only, and a negative one that is zero or beyond the size of the core.
Decs(i) == "predec" \in i.bflg <=> ("predec" \in i.aflg /\ i.bflg \cap {"imm", "indir"} = {})
Signs(i) == /\ "sign" \in i.aflg => i.a < CWCORESIZE
            /\ "sign" \in i.bflg => i.b < CWCORESIZE

\* Disassembling an instruction of the core and assembling the line gives the
\* same instruction (rcgetop, cwdisasm and zeusdisasm), but for those operands.
RoundTrip ==
    \A c \in 0 .. CWCORESIZE - 1 :
        LET i == optab[c]  text == zeusdisasm(c)[2]
        IN  Decs(i) /\ Signs(i) => \E j \in rcgetop(text.word, text.fields) : Same(i, j)

\* The instructions a program consists of, when no line of it reads what
\* stands behind it.
Whole(p) == \A n \in 1 .. Len(source[p]) :
    LET l == source[p][n]
    IN  l.kind \in {"comment", "instr"}
        /\ (l.kind = "instr" => rcfindop(l.word) >= 0 /\ Len(l.fields) >= g_rcnargtab(rcfindop(l.word)))
\* The instructions before a line.
InstrsBefore(p, n) == {k \in 1 .. n - 1 : source[p][k].kind = "instr"}

\* Once both programs are loaded, each stands complete and in order from its
\* origin on, around the end of the core, and starts at its first instruction
\* that is not a DAT.  Only an instruction of the first program that is zero in
\* every field may have been overwritten, by the second program or by a later
\* line of the first (rcxlate).
LoadedWhole ==
    loading = "done" =>
        \A p \in {1, 2} : Whole(p) =>
            /\ nread[p] = Cardinality(InstrsBefore(p, Len(source[p]) + 1))
            /\ \A n \in 1 .. Len(source[p]) : source[p][n].kind = "instr" =>
                LET l == source[p][n]
                    i == CHOOSE j \in rcgetop(l.word, l.fields) : TRUE
                IN  \/ optab[Cell(p, Cardinality(InstrsBefore(p, n)))] = [i EXCEPT !.pid = p - 1]
                    \/ p = 1 /\ i = Zero
            /\ optab[entry[p]].op # CWOPDAT /\ optab[entry[p]].pid = p - 1

\* The assembler loads what was written, and what it has loaded can be written
\* again (rcgetop, rcxlate, cwdisasm).
RedcodeHolds == RoundTrip /\ LoadedWhole
===========================================================================
