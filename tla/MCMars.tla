------------------------------- MODULE MCMars -------------------------------
(* Warriors of corewar/warriors, cut to a small core, against each other   *)
(* and against a few that use the instructions those leave out.            *)
EXTENDS Mars

Ins(op, amode, a, bmode, b) ==
    [op |-> op, amode |-> amode, a |-> a % CoreSize, bmode |-> bmode, b |-> b % CoreSize]

\* jmp and spl have one operand, the second.
Imp == <<Ins("MOV", "rel", 0, "rel", 1)>>
Dwarf == <<Ins("DAT", "rel", 0, "imm", -1), Ins("ADD", "imm", 5, "rel", -1),
           Ins("MOV", "imm", 0, "ind", -2), Ins("JMP", "rel", 0, "rel", -2)>>
Vendetta3 == <<Ins("DAT", "rel", 0, "imm", -1), Ins("SUB", "imm", 2, "rel", -1),
               Ins("MOV", "rel", -2, "ind", -2), Ins("SPL", "rel", 0, "rel", -2),
               Ins("JMP", "rel", 0, "rel", -3)>>

\* Splits twice, counts down with a pre-decremented source, then branches.
Counter == <<Ins("SPL", "rel", 0, "rel", 1), Ins("DJN", "rel", -1, "rel", 2),
             Ins("JMN", "rel", -1, "rel", 2), Ins("JMZ", "rel", -2, "dec", 1)>>

\* Compares, with and without skipping, and subtracts.
Tester == <<Ins("SLT", "imm", 0, "rel", 3), Ins("CMP", "rel", 1, "rel", 2),
            Ins("SUB", "rel", -1, "rel", 1), Ins("ADD", "rel", 1, "imm", 2)>>

\* Writes a SPL over the instruction it is about to run.
Splitter == <<Ins("MOV", "rel", 2, "rel", 0), Ins("CMP", "imm", 0, "dec", 0),
              Ins("SPL", "rel", 0, "rel", -2)>>

\* Pre-decrements a zero, which at address 0 reads outside the core.
Looper == <<Ins("MOV", "dec", 2, "rel", 3), Ins("JMN", "rel", -1, "rel", 1),
            Ins("DAT", "rel", 0, "imm", 0)>>

\* Jump through a pre-decremented zero at address 0: the only process does; the
\* first of two, which takes the other one along; the second of two.
Leaper == <<Ins("JMP", "rel", 0, "dec", 1), Ins("DAT", "rel", 0, "imm", 0)>>
Faller == <<Ins("MOV", "rel", 0, "rel", 0), Ins("SPL", "rel", 0, "rel", 1),
            Ins("JMP", "rel", 0, "dec", 1), Ins("DAT", "rel", 0, "imm", 0)>>
Diver == <<Ins("SPL", "rel", 0, "rel", 2), Ins("MOV", "rel", 0, "rel", 0),
           Ins("JMP", "rel", 0, "dec", 1), Ins("DAT", "rel", 0, "imm", 0)>>

MCWarriors == {Imp, Dwarf, Vendetta3, Counter, Tester, Splitter, Looper, Leaper, Faller, Diver}
=============================================================================
