---------------------------- MODULE BarrierPool ----------------------------
(***************************************************************************)
(* The pool barrier of libmt (mt/bar.c): callers of barwaitpool draw an    *)
(* arrival number; the one that completes a group opens the barrier with a *)
(* single 64-bit store that advances seq and zeroes cnt, the others sleep  *)
(* on seq with a futex.  mtfreebarpool waits on the reference count nref   *)
(* for the callers that are still inside.                                  *)
(*                                                                         *)
(* The number of callers per opening, pool->num + 1, is chosen once by     *)
(* mtinitbarpool; it may be all the threads or fewer.                      *)
(***************************************************************************)
EXTENDS Integers, FiniteSets

CONSTANTS Threads,    \* the callers of barwaitpool
          Groups,     \* the values mtinitbarpool may be given as its cnt
          SeqMod,     \* seq is unsigned and wraps at SeqMod
          MaxCalls,   \* bound: calls of barwaitpool by one thread
          MaxCnt      \* bound: arrivals counted before one opening

ASSUME ThreadsAssumption == IsFiniteSet(Threads)
ASSUME GroupsAssumption == Groups \subseteq Nat \ {0}
ASSUME MaxCntAssumption == \A c \in Groups : c <= MaxCnt
ASSUME SeqModAssumption == SeqMod \in Nat /\ SeqMod > 1

SERIAL == -1    \* BARSERIALTHR

VARIABLES pc,        \* where each caller is
          num,       \* pool->num
          seq,       \* pool->cnt.vals.seq
          cnt,       \* pool->cnt.vals.cnt
          nref,      \* pool->nref
          myseq,     \* the caller's local seq
          ret,       \* what the caller's last call returns
          calls,     \* history: arrivals of each caller
          leaves,    \* history: returns of each caller
          dpc,       \* where the destroying thread is
          dref       \* its local nref

vars == <<pc, num, seq, cnt, nref, myseq, ret, calls, leaves, dpc, dref>>

PCs == {"idle", "read", "add", "check", "futex", "asleep",
        "open", "wake", "slow", "slowsleep", "deref", "last", "lastsleep"}

\* mtinitbarpool
Init ==
    /\ \E c \in Groups : num = c - 1
    /\ pc = [t \in Threads |-> "idle"]
    /\ seq = 0
    /\ cnt = 0
    /\ nref = 1
    /\ myseq = [t \in Threads |-> 0]
    /\ ret = [t \in Threads |-> 0]
    /\ calls = [t \in Threads |-> 0]
    /\ leaves = [t \in Threads |-> 0]
    /\ dpc = "out"
    /\ dref = 0

Goto(t, p) == pc' = [pc EXCEPT ![t] = p]

\* The callers that the open barrier has let go and that have not returned.
Inside(t) == pc[t] # "idle"
Released(t) ==
    \/ pc[t] \in {"check", "futex", "asleep"} /\ seq # myseq[t]
    \/ pc[t] \in {"wake", "deref", "last", "lastsleep"}
---------------------------------------------------------------------------
(* barwaitpool                                                             *)

\* Nobody comes to a barrier that is being destroyed.
Call(t) ==
    /\ pc[t] = "idle"
    /\ calls[t] < MaxCalls
    /\ dpc = "out"
    /\ calls' = [calls EXCEPT ![t] = @ + 1]
    /\ Goto(t, "read")
    /\ UNCHANGED <<num, seq, cnt, nref, myseq, ret, leaves, dpc, dref>>

\* Mutant: the arrival that completes the group is counted one too early.
AddEarly(t) ==
    /\ pc[t] = "add"
    /\ cnt < MaxCnt
    /\ cnt' = cnt + 1
    /\ \/ cnt + 1 < num /\ Goto(t, "check")
       \/ cnt + 1 = num /\ Goto(t, "open")
       \/ cnt + 1 > num /\ Goto(t, "slow")
    /\ UNCHANGED <<num, seq, nref, myseq, ret, calls, leaves, dpc, dref>>

\* Mutant: an arrival after the completing one opens the barrier again.
AddAgain(t) ==
    /\ pc[t] = "add"
    /\ cnt < MaxCnt
    /\ cnt' = cnt + 1
    /\ Goto(t, IF cnt < num THEN "check" ELSE "open")
    /\ UNCHANGED <<num, seq, nref, myseq, ret, calls, leaves, dpc, dref>>

\* Mutant: the opening advances seq only and leaves the arrivals counted.
OpenSeqOnly(t) ==
    /\ pc[t] = "open"
    /\ seq' = (seq + 1) % SeqMod
    /\ Goto(t, "wake")
    /\ UNCHANGED <<num, cnt, nref, myseq, ret, calls, leaves, dpc, dref>>

\* Mutant: no syswake after the opening.
WakeNobody(t) ==
    /\ pc[t] = "wake"
    /\ ret' = [ret EXCEPT ![t] = SERIAL]
    /\ Goto(t, "deref")
    /\ UNCHANGED <<num, seq, cnt, nref, myseq, calls, leaves, dpc, dref>>

\* Mutant: the released callers keep the result of their last round.
CheckKeepsRet(t) ==
    /\ pc[t] = "check"
    /\ Goto(t, IF seq = myseq[t] THEN "futex" ELSE "deref")
    /\ UNCHANGED <<num, seq, cnt, nref, myseq, ret, calls, leaves, dpc, dref>>
---------------------------------------------------------------------------
ReadSeq(t) ==
    /\ pc[t] = "read"
    /\ myseq' = [myseq EXCEPT ![t] = seq]
    /\ Goto(t, "add")
    /\ UNCHANGED <<num, seq, cnt, nref, ret, calls, leaves, dpc, dref>>

\* cnt = m_fetchaddu32(&pool->cnt.vals.cnt, 1), compared with pool->num.  A
\* slow caller whose sleep is interrupted adds once more, hence MaxCnt.
Add(t) ==
    /\ pc[t] = "add"
    /\ cnt < MaxCnt
    /\ cnt' = cnt + 1
    /\ \/ cnt < num /\ Goto(t, "check")
       \/ cnt = num /\ Goto(t, "open")
       \/ cnt > num /\ Goto(t, "slow")
    /\ UNCHANGED <<num, seq, nref, myseq, ret, calls, leaves, dpc, dref>>

\* while (m_atomread(&pool->cnt.vals.seq) == seq)
Check(t) ==
    /\ pc[t] = "check"
    /\ IF seq = myseq[t]
       THEN Goto(t, "futex") /\ UNCHANGED ret
       ELSE Goto(t, "deref") /\ ret' = [ret EXCEPT ![t] = 0]
    /\ UNCHANGED <<num, seq, cnt, nref, myseq, calls, leaves, dpc, dref>>

\* syswait: the kernel compares once more before it puts the caller to sleep.
Wait(t, here, sleep, next) ==
    /\ pc[t] = here
    /\ Goto(t, IF seq = myseq[t] THEN sleep ELSE next)
    /\ UNCHANGED <<num, seq, cnt, nref, myseq, ret, calls, leaves, dpc, dref>>

Futex(t) == Wait(t, "futex", "asleep", "check")

\* Too late for this group and too early for the next one.
Slow(t) == Wait(t, "slow", "slowsleep", "read")

\* A futex wait may also end because of a signal.
Interrupted(t) ==
    /\ pc[t] \in {"asleep", "slowsleep"}
    /\ Goto(t, IF pc[t] = "asleep" THEN "check" ELSE "read")
    /\ UNCHANGED <<num, seq, cnt, nref, myseq, ret, calls, leaves, dpc, dref>>

\* pool->cnt.rst = pool->cnt.vals.seq + 1: seq advances and cnt becomes zero.
Open(t) ==
    /\ pc[t] = "open"
    /\ seq' = (seq + 1) % SeqMod
    /\ cnt' = 0
    /\ Goto(t, "wake")
    /\ UNCHANGED <<num, nref, myseq, ret, calls, leaves, dpc, dref>>

\* syswake(&pool->cnt.vals.seq)
Wake(t) ==
    /\ pc[t] = "wake"
    /\ pc' = [u \in Threads |->
                CASE u = t                  -> "deref"
                  [] pc[u] = "asleep"       -> "check"
                  [] pc[u] = "slowsleep"    -> "read"
                  [] OTHER                  -> pc[u]]
    /\ ret' = [ret EXCEPT ![t] = SERIAL]
    /\ UNCHANGED <<num, seq, cnt, nref, myseq, calls, leaves, dpc, dref>>

Return(t) ==
    /\ leaves' = [leaves EXCEPT ![t] = @ + 1]
    /\ Goto(t, "idle")

\* if (m_fetchadd(&pool->nref, -1) == 1)
Deref(t) ==
    /\ pc[t] = "deref"
    /\ nref' = nref - 1
    /\ IF nref = 1
       THEN Goto(t, "last") /\ UNCHANGED leaves
       ELSE Return(t)
    /\ UNCHANGED <<num, seq, cnt, myseq, ret, calls, dpc, dref>>

\* syswait(&pool->nref, 1): nref is no longer 1, so this does not sleep.
Last(t) ==
    /\ pc[t] = "last"
    /\ IF nref = 1
       THEN Goto(t, "lastsleep") /\ UNCHANGED leaves
       ELSE Return(t)
    /\ UNCHANGED <<num, seq, cnt, nref, myseq, ret, calls, dpc, dref>>
---------------------------------------------------------------------------
(* mtfreebarpool, called once nobody waits for the barrier to open.        *)

Free ==
    /\ dpc = "out"
    /\ \A t \in Threads : Inside(t) => Released(t)
    /\ nref' = nref - 1
    /\ dpc' = "read"
    /\ UNCHANGED <<pc, num, seq, cnt, myseq, ret, calls, leaves, dref>>

FreeRead ==
    /\ dpc = "read"
    /\ dref' = nref
    /\ dpc' = IF nref = 0 THEN "freed" ELSE "futex"
    /\ UNCHANGED <<pc, num, seq, cnt, nref, myseq, ret, calls, leaves>>

\* syswait(&pool->nref, nref): nothing ever wakes a sleeper on nref.
FreeWait ==
    /\ dpc = "futex"
    /\ dpc' = IF nref = dref THEN "asleep" ELSE "read"
    /\ UNCHANGED <<pc, num, seq, cnt, nref, myseq, ret, calls, leaves, dref>>
---------------------------------------------------------------------------
Continue(t) ==
    \/ ReadSeq(t) \/ Add(t)
    \/ Check(t) \/ Futex(t) \/ Slow(t)
    \/ Open(t) \/ Wake(t)
    \/ Deref(t) \/ Last(t)

Destroy == FreeRead \/ FreeWait

Next ==
    \/ \E t \in Threads : Call(t) \/ Continue(t) \/ Interrupted(t)
    \/ Free \/ Destroy

Spec == Init /\ [][Next]_vars

\* Every thread that is not asleep is scheduled again.
FairSpec ==
    /\ Spec
    /\ \A t \in Threads : WF_vars(Continue(t))
    /\ WF_vars(Destroy)
---------------------------------------------------------------------------
TypeOK ==
    /\ num \in {c - 1 : c \in Groups}
    /\ pc \in [Threads -> PCs]
    /\ seq \in 0 .. SeqMod - 1
    /\ cnt \in 0 .. MaxCnt
    /\ nref \in 1 - MaxCalls * Cardinality(Threads) - 1 .. 1
    /\ myseq \in [Threads -> 0 .. SeqMod - 1]
    /\ ret \in [Threads -> {0, SERIAL}]
    /\ calls \in [Threads -> 0 .. MaxCalls]
    /\ leaves \in [Threads -> 0 .. MaxCalls]
    /\ dpc \in {"out", "read", "futex", "asleep", "freed"}
    /\ dref \in 1 - MaxCalls * Cardinality(Threads) - 1 .. 1

\* The barrier is made for exactly the threads that use it.
Exact == num + 1 = Cardinality(Threads)

\* Nobody returns from its n-th barwaitpool before everybody has called it n
\* times, however quickly the released threads come back for the next round.
NoEarlyLeave ==
    Exact => \A t, u \in Threads : leaves[t] <= calls[u]

\* Of the callers of one round exactly one is told that it is the serial one.
OneSerial ==
    Exact /\ (\A t, u \in Threads : ~Inside(t) /\ leaves[t] = leaves[u])
        => \A t \in Threads : leaves[t] > 0 =>
              Cardinality({u \in Threads : ret[u] = SERIAL}) = 1

\* Only one caller at a time completes a group, also when more threads than
\* the group needs keep arriving: no opening is done twice.
OneOpener == Cardinality({t \in Threads : pc[t] = "open"}) <= 1

\* Once the barrier has opened, everyone it released returns: no wake-up
\* between the test of seq and the sleep is lost.
ReleasedReturn ==
    \A t \in Threads : Released(t) ~> ~Inside(t)

\* When everybody has come for the next round of a barrier made for all,
\* everybody gets out.
FullOpens ==
    \A t \in Threads :
        (Exact /\ \A u \in Threads : Inside(u) /\ leaves[u] = leaves[t]) ~> ~Inside(t)

\* "last one to wake up, wake destroying thread": mtfreebarpool returns.
DestroyerReturns == dpc = "read" ~> dpc = "freed"
===========================================================================
