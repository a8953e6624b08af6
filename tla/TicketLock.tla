---------------------------- MODULE TicketLock ----------------------------
(***************************************************************************)
(* The ticket lock of libmt (mt/tktlk.h): one word holding two unsigned    *)
(* halves, cnt, the next ticket to hand out, and val, the ticket being     *)
(* served.  Both wrap around.  mtlktkt draws a ticket with an atomic add   *)
(* on its half of the word and spins until it is served; mttrytktlk reads  *)
(* cnt and replaces the whole word with compare-and-swap; mtunlktkt        *)
(* increments val with a plain load and a plain store.                     *)
(***************************************************************************)
EXTENDS Naturals, FiniteSets

CONSTANTS Threads,   \* the threads that share the lock
          Width,     \* how many values a half of the word has: 2^16 or 2^32
          Addends    \* what the register that m_fetchaddu32 adds may hold

ASSUME WidthAssumption == Width \in Nat /\ Width > 1

Tickets == 0 .. Width - 1

ASSUME AddendsAssumption == Addends \subseteq Tickets /\ Addends # {}

\* Every thread that may hold or await a ticket needs one of its own, and a
\* full circle of tickets would look like a free lock.
ASSUME ThreadsAssumption == IsFiniteSet(Threads) /\ Cardinality(Threads) < Width

NoTicket == Width

\* Addition in an unsigned half word.
Plus(a, b) == IF a + b < Width THEN a + b ELSE a + b - Width

VARIABLES pc,      \* where each thread is
          cnt,     \* tp->s.cnt
          val,     \* tp->s.val
          valbuf,  \* the thread's buffered store to val, or NoTicket
          tkt,     \* the thread's local val
          seen     \* history: the lock was taken at some time in the pending try

vars == <<pc, cnt, val, valbuf, tkt, seen>>

PCs == {"idle", "try_read", "try_cas", "draw", "spin", "crit", "load", "store"}

\* From drawing the ticket to the store that passes the lock on.
InLine == {"spin", "crit", "load", "store"}
InCS == {"crit", "load", "store"}

Init ==
    /\ pc = [t \in Threads |-> "idle"]
    /\ cnt = 0
    /\ val = 0
    /\ valbuf = [t \in Threads |-> NoTicket]
    /\ tkt = [t \in Threads |-> 0]
    /\ seen = [t \in Threads |-> FALSE]

Goto(t, p) == pc' = [pc EXCEPT ![t] = p]

\* The word read by t: its own buffered store hides what memory holds.
ValAsReadBy(t) == IF valbuf[t] # NoTicket THEN valbuf[t] ELSE val

DrainVal(t) ==
    /\ valbuf[t] # NoTicket
    /\ val' = valbuf[t]
    /\ valbuf' = [valbuf EXCEPT ![t] = NoTicket]
    /\ UNCHANGED <<pc, cnt, tkt, seen>>

\* Locked instructions and m_membar wait until the thread's buffer is empty.
Drained(t) == valbuf[t] = NoTicket
---------------------------------------------------------------------------
(* mtlktkt                                                                 *)

CallLock(t) ==
    /\ pc[t] = "idle"
    /\ Goto(t, "draw")
    /\ UNCHANGED <<cnt, val, valbuf, tkt, seen>>

\* m_fetchaddu32(&tp->s.cnt, 1); the pending tries see that the lock is taken.
Draw(t) ==
    /\ pc[t] = "draw"
    /\ Drained(t)
    /\ tkt' = [tkt EXCEPT ![t] = cnt]
    /\ \E a \in Addends : cnt' = Plus(cnt, a)
    /\ seen' = [u \in Threads |-> seen[u] \/ pc[u] = "try_cas"]
    /\ Goto(t, "spin")
    /\ UNCHANGED <<val, valbuf>>

\* Mutant: a later ticket than the one served is let in.
SpinAtLeast(t) ==
    /\ pc[t] = "spin"
    /\ ValAsReadBy(t) >= tkt[t]
    /\ Goto(t, "crit")
    /\ UNCHANGED <<cnt, val, valbuf, tkt, seen>>

Spin(t) ==
    /\ pc[t] = "spin"
    /\ ValAsReadBy(t) = tkt[t]
    /\ Goto(t, "crit")
    /\ UNCHANGED <<cnt, val, valbuf, tkt, seen>>
---------------------------------------------------------------------------
(* mttrytktlk                                                              *)

CallTry(t) ==
    /\ pc[t] = "idle"
    /\ Goto(t, "try_read")
    /\ UNCHANGED <<cnt, val, valbuf, tkt, seen>>

\* Mutant: the try compares with the ticket after the next one.
TryReadNext(t) ==
    /\ pc[t] = "try_read"
    /\ tkt' = [tkt EXCEPT ![t] = Plus(cnt, 1)]
    /\ seen' = [seen EXCEPT ![t] = val # cnt]
    /\ Goto(t, "try_cas")
    /\ UNCHANGED <<cnt, val, valbuf>>

\* uint32_t val = tp->s.cnt
TryRead(t) ==
    /\ pc[t] = "try_read"
    /\ tkt' = [tkt EXCEPT ![t] = cnt]
    /\ seen' = [seen EXCEPT ![t] = val # cnt]
    /\ Goto(t, "try_cas")
    /\ UNCHANGED <<cnt, val, valbuf>>

\* Mutant: only the half with cnt is compared.
TryCasHalf(t) ==
    /\ pc[t] = "try_cas"
    /\ Drained(t)
    /\ IF cnt = tkt[t]
       THEN /\ cnt' = Plus(tkt[t], 1)
            /\ seen' = [u \in Threads |-> seen[u] \/ pc[u] = "try_cas"]
            /\ Goto(t, "crit")
       ELSE /\ Goto(t, "idle")
            /\ UNCHANGED <<cnt, seen>>
    /\ UNCHANGED <<val, valbuf, tkt>>

\* Mutant: a try that is refused leaves its ticket drawn.
TryCasKeepsTicket(t) ==
    /\ pc[t] = "try_cas"
    /\ Drained(t)
    /\ cnt' = Plus(cnt, 1)
    /\ Goto(t, IF cnt = tkt[t] /\ val = tkt[t] THEN "crit" ELSE "idle")
    /\ seen' = [u \in Threads |-> seen[u] \/ pc[u] = "try_cas"]
    /\ UNCHANGED <<val, valbuf, tkt>>

\* m_cmpswapu64 of the whole word: it is still <<val, val>>, so nobody waits.
TryCas(t) ==
    /\ pc[t] = "try_cas"
    /\ Drained(t)
    /\ IF cnt = tkt[t] /\ val = tkt[t]
       THEN /\ cnt' = Plus(tkt[t], 1)
            /\ seen' = [u \in Threads |-> seen[u] \/ pc[u] = "try_cas"]
            /\ Goto(t, "crit")
       ELSE /\ Goto(t, "idle")
            /\ UNCHANGED <<cnt, seen>>
    /\ UNCHANGED <<val, valbuf, tkt>>
---------------------------------------------------------------------------
(* mtunlktkt: barrier, then tp->s.val++ as a load and a buffered store.    *)

Unlock(t) ==
    /\ pc[t] = "crit"
    /\ Drained(t)
    /\ Goto(t, "load")
    /\ UNCHANGED <<cnt, val, valbuf, tkt, seen>>

LoadVal(t) ==
    /\ pc[t] = "load"
    /\ tkt' = [tkt EXCEPT ![t] = ValAsReadBy(t)]
    /\ Goto(t, "store")
    /\ UNCHANGED <<cnt, val, valbuf, seen>>

StoreVal(t) ==
    /\ pc[t] = "store"
    /\ valbuf' = [valbuf EXCEPT ![t] = Plus(tkt[t], 1)]
    /\ Goto(t, "idle")
    /\ UNCHANGED <<cnt, val, tkt, seen>>
---------------------------------------------------------------------------
Continue(t) ==
    \/ Draw(t) \/ Spin(t)
    \/ TryRead(t) \/ TryCas(t)
    \/ Unlock(t) \/ LoadVal(t) \/ StoreVal(t)

Next == \E t \in Threads : CallLock(t) \/ CallTry(t) \/ Continue(t) \/ DrainVal(t)

Spec == Init /\ [][Next]_vars

\* Every running thread is scheduled again and every buffered store drains.
FairSpec ==
    /\ Spec
    /\ \A t \in Threads : WF_vars(Continue(t)) /\ WF_vars(DrainVal(t))
---------------------------------------------------------------------------
TypeOK ==
    /\ pc \in [Threads -> PCs]
    /\ cnt \in Tickets
    /\ val \in Tickets
    /\ valbuf \in [Threads -> Tickets \cup {NoTicket}]
    /\ tkt \in [Threads -> Tickets]
    /\ seen \in [Threads -> BOOLEAN]

\* Two threads are never both between being served and passing the lock on
\* (mtlktkt, mttrytktlk, mtunlktkt).
MutualExclusion ==
    \A t, u \in Threads : pc[t] \in InCS /\ pc[u] \in InCS => t = u

\* mttrytktlk reads cnt and compares later, so it may be refused although the
\* lock is free at both instants; but never unless somebody had the lock at
\* some time in between.
RefusedOnlyIfTaken ==
    [][\A t \in Threads :
          pc[t] = "try_cas" /\ pc'[t] = "idle" => seen[t]]_vars

\* Whoever draws a ticket is served: the lock starves nobody.
EveryoneServed ==
    \A t \in Threads : pc[t] \in {"draw", "spin"} ~> pc[t] = "crit"
---------------------------------------------------------------------------
\* How far ticket b is ahead of ticket a on the circle of tickets.
Distance(a, b) == IF a <= b THEN b - a ELSE b + Width - a

\* The threads whose ticket is out: drawn, and the store that passes the lock
\* on not yet in memory.
Line == {t \in Threads : pc[t] \in InLine \/ valbuf[t] # NoTicket}

Place(t) == IF valbuf[t] # NoTicket THEN val ELSE tkt[t]

\* Who has the i-th ticket from the one being served, for the mapping.
Queue ==
    [i \in 1 .. Distance(val, cnt) |->
        CHOOSE t \in Line : Place(t) = Plus(val, i - 1)]

Mode(t) ==
    IF pc[t] \in InCS THEN "in"
    ELSE IF pc[t] = "spin" THEN "wait"
    ELSE IF pc[t] \in {"try_read", "try_cas"} THEN "try"
    ELSE "out"

\* The ticket lock is a fair lock: drawing the ticket fixes a thread's turn.
AbsLock == INSTANCE FifoLock WITH
    mode <- [t \in Threads |-> Mode(t)], queue <- Queue

ImplementsFifoLock == AbsLock!Spec
===========================================================================
