------------------------------ MODULE FastDiv ------------------------------
(***************************************************************************)
(* Division by multiplication with a number from a table                   *)
(* (zen/fastudiv16.c, used by the scheduler).  The table has one item for  *)
(* every divisor of a half word; it is filled by any caller that finds its *)
(* first item zero, and that item is the first to be written.              *)
(***************************************************************************)
EXTENDS Integers

CONSTANTS DivThreads,
          Bits,       \* of a half word, 16 in the code
          Requests    \* the divisions asked for, as numerator and divisor

Limit == 2 ^ Bits - 1                  \* 65535
DivWord(x) == x % 2 ^ (2 * Bits)       \* uint32_t

ASSUME FastDivAssumption ==
    /\ Bits \in Nat \ {0, 1}
    /\ Requests \subseteq (0 .. Limit) \X (1 .. Limit)

VARIABLES tab,      \* fastu16divuf16tab
          dpc,      \* where each caller is
          request,  \* what it divides
          lim,      \* the limit it has read, tab[0].magic
          filling,  \* the item it writes
          info,     \* the item it has read
          quotient, \* what it returns
          overlap   \* callers during whose call somebody was filling the table

divvars == <<tab, dpc, request, lim, filling, info, quotient, overlap>>

Blank == [magic |-> 0, shift |-> 0, kind |-> "mul"]
FillSteps == {"first", "magic", "info", "mask"}
Fillers == {t \in DivThreads : dpc[t] \in FillSteps}

DivInit ==
    /\ tab = [d \in 0 .. Limit |-> Blank]
    /\ dpc = [t \in DivThreads |-> "idle"]
    /\ request = [t \in DivThreads |-> <<0, 1>>]
    /\ lim = [t \in DivThreads |-> 0]
    /\ filling = [t \in DivThreads |-> 0]
    /\ info = [t \in DivThreads |-> Blank]
    /\ quotient = [t \in DivThreads |-> 0]
    /\ overlap = {}
---------------------------------------------------------------------------
\* clz32 and the shift: the place of the highest bit.
Log2(d) == CHOOSE s \in 0 .. Bits - 1 : 2 ^ s <= d /\ d < 2 ^ (s + 1)

\* The item for a divisor, before its magic number is cut to a half word:
\* the quotient of a power of two rounded up, with one more bit where the
\* error is too large for the shorter one.
Item(d) ==
    LET shift == Log2(d)
        magic == 2 ^ (shift + Bits) \div d
        rem == 2 ^ (shift + Bits) % d
    IN  IF d = 2 ^ shift THEN [magic |-> 0, shift |-> shift, kind |-> "shift"]
        ELSE IF d - rem < 2 ^ shift THEN [magic |-> magic + 1, shift |-> shift, kind |-> "mul"]
        ELSE [magic |-> 2 * magic + (IF 2 * rem >= d THEN 1 ELSE 0) + 1, shift |-> shift, kind |-> "add"]

\* The quotient an item gives.
Quotient(item, magic, num) ==
    LET q == DivWord(magic * num) \div 2 ^ Bits
    IN  CASE item.kind = "mul" -> q \div 2 ^ item.shift
          [] item.kind = "add" -> (DivWord(num - q) \div 2 + q) \div 2 ^ item.shift
          [] item.kind = "shift" -> num \div 2 ^ item.shift

\* fastu16divu16: the limit is read before the table is looked at.
DivCall(t) ==
    /\ dpc[t] = "idle"
    /\ \E r \in Requests : request' = [request EXCEPT ![t] = r]
    /\ lim' = [lim EXCEPT ![t] = tab[0].magic]
    /\ dpc' = [dpc EXCEPT ![t] = "test"]
    /\ overlap' = IF Fillers # {} THEN overlap \cup {t} ELSE overlap
    /\ UNCHANGED <<tab, filling, info, quotient>>

\* A table whose first item is zero is filled; until that item is written
\* another caller may find it zero and fill the table as well.
DivFill(t) ==
    /\ dpc[t] = "test" /\ tab[0].magic = 0
    /\ dpc' = [dpc EXCEPT ![t] = "first"]
    /\ overlap' = overlap \cup {u \in DivThreads : u # t /\ dpc[u] \notin {"idle", "done"}}
                  \cup (IF Fillers # {} THEN {t} ELSE {})
    /\ UNCHANGED <<tab, request, lim, filling, info, quotient>>

\* First the number of its items.
PutLimit(t) ==
    /\ dpc[t] = "first"
    /\ tab' = [tab EXCEPT ![0].magic = Limit]
    /\ filling' = [filling EXCEPT ![t] = 2]
    /\ dpc' = [dpc EXCEPT ![t] = "magic"]
    /\ UNCHANGED <<request, lim, info, quotient, overlap>>

DivFilled(t) ==
    /\ dpc[t] = "test" /\ tab[0].magic # 0
    /\ dpc' = [dpc EXCEPT ![t] = "divide"]
    /\ UNCHANGED <<tab, request, lim, filling, info, quotient, overlap>>

\* An item is written, and then cut to half words.
PutMagic(t) ==
    /\ dpc[t] = "magic"
    /\ tab' = [tab EXCEPT ![filling[t]].magic = Item(filling[t]).magic]
    /\ dpc' = [dpc EXCEPT ![t] = "info"]
    /\ UNCHANGED <<request, lim, filling, info, quotient, overlap>>

PutInfo(t) ==
    /\ dpc[t] = "info"
    /\ tab' = [tab EXCEPT ![filling[t]].shift = Item(filling[t]).shift,
                          ![filling[t]].kind = Item(filling[t]).kind]
    /\ dpc' = [dpc EXCEPT ![t] = "mask"]
    /\ UNCHANGED <<request, lim, filling, info, quotient, overlap>>

PutMask(t) ==
    /\ dpc[t] = "mask"
    /\ tab' = [tab EXCEPT ![filling[t]].magic = Item(filling[t]).magic % 2 ^ Bits]
    /\ IF filling[t] < Limit
       THEN filling' = [filling EXCEPT ![t] = @ + 1] /\ dpc' = [dpc EXCEPT ![t] = "magic"]
       ELSE UNCHANGED filling /\ dpc' = [dpc EXCEPT ![t] = "divide"]
    /\ UNCHANGED <<request, lim, info, quotient, overlap>>

\* One, and a divisor that is not below the limit read first (which was zero
\* when this caller filled the table), are not looked up.
DivPlain(t) ==
    LET num == request[t][1]  d == request[t][2]
    IN  /\ dpc[t] = "divide" /\ (d = 1 \/ d >= lim[t])
        /\ quotient' = [quotient EXCEPT ![t] = num \div d]
        /\ dpc' = [dpc EXCEPT ![t] = "done"]
        /\ UNCHANGED <<tab, request, lim, filling, info, overlap>>

DivInfo(t) ==
    LET d == request[t][2]
    IN  /\ dpc[t] = "divide" /\ d # 1 /\ d < lim[t]
        /\ info' = [info EXCEPT ![t] = tab[d]]
        /\ dpc' = [dpc EXCEPT ![t] = "multiply"]
        /\ UNCHANGED <<tab, request, lim, filling, quotient, overlap>>

DivMultiply(t) ==
    /\ dpc[t] = "multiply"
    /\ quotient' = [quotient EXCEPT ![t] =
                        Quotient(info[t], tab[request[t][2]].magic, request[t][1])]
    /\ dpc' = [dpc EXCEPT ![t] = "done"]
    /\ UNCHANGED <<tab, request, lim, filling, info, overlap>>

DivNext ==
    \E t \in DivThreads :
        \/ DivCall(t) \/ DivFill(t) \/ DivFilled(t) \/ PutLimit(t) \/ PutMagic(t) \/ PutInfo(t)
        \/ PutMask(t) \/ DivPlain(t) \/ DivInfo(t) \/ DivMultiply(t)

DivSpec == DivInit /\ [][DivNext]_divvars
---------------------------------------------------------------------------
\* Every quotient is exact, unless another caller was filling the table while
\* it was computed: the first item says that the table is filled before any
\* other has been written.  Who read a table not yet begun, and fills it, even
\* beside another, divides without it (fastu16divu16, fastu16divu16init).
DivisionsExact ==
    \A t \in DivThreads :
        dpc[t] = "done" /\ (t \in overlap => lim[t] = 0)
            => quotient[t] = request[t][1] \div request[t][2]
===========================================================================
