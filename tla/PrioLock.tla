----------------------------- MODULE PrioLock -----------------------------
(***************************************************************************)
(* The priority lock of libmt (mt/priolk.c).  A priority is one bit, and   *)
(* the lower bit is the higher priority; here it is the bit's number, so   *)
(* that waitbits & (prio - 1) is the set of waiting levels below prio.     *)
(* The owner is taken with compare-and-swap.  A thread that fails sets its *)
(* bit in waitbits, defers to higher bits, and lends its priority to the   *)
(* owner it finds.  Several threads may share one priority, hence one bit. *)
(***************************************************************************)
EXTENDS Naturals, FiniteSets

CONSTANTS Threads,   \* the threads that share the lock
          Levels,    \* the priority levels in use, 0 the most urgent
          Orig       \* what priolkinit gave each thread: ptr->orig

ASSUME LevelsAssumption == Levels \subseteq Nat
ASSUME OrigAssumption == Orig \in [Threads -> Levels]

NoThread == "none"

ASSUME ThreadsAssumption == NoThread \notin Threads

VARIABLES pc,        \* where each thread is
          owner,     \* priolk->owner
          waitbits,  \* priolk->waitbits, as the set of its levels
          val,       \* t_priolk->val of each thread, written by others too
          prio,      \* the local prio of priolkget
          mask,      \* the local mask of priolkget, as the level it hides
          seen       \* the local owner of priolkget

vars == <<pc, owner, waitbits, val, prio, mask, seen>>

PCs == {"idle", "start", "wait1", "check1", "cas", "enlist",
        "wait2", "check2", "reread", "relist", "swap", "compare", "boost",
        "delist", "crit", "restore"}

\* A thread whose bit is meant to be set in waitbits.
Enlisted == {"wait2", "check2", "swap", "compare", "boost", "delist"}

\* From the compare-and-swap that takes the owner field to its reset.
Holds == {"delist", "crit"}

Init ==
    /\ pc = [t \in Threads |-> "idle"]
    /\ owner = NoThread
    /\ waitbits = {}
    /\ val = Orig
    /\ prio = Orig
    /\ mask = Orig
    /\ seen = [t \in Threads |-> t]

Goto(t, p) == pc' = [pc EXCEPT ![t] = p]

\* Mutant: the mask hides nothing, so a thread defers to its own bit.
HigherOrOwn(t) == {l \in waitbits : l <= mask[t]}

Higher(t) == {l \in waitbits : l < mask[t]}

\* The locals of priolkget are dead once it has the lock.
Forget(t) ==
    /\ prio' = [prio EXCEPT ![t] = Orig[t]]
    /\ mask' = [mask EXCEPT ![t] = Orig[t]]

\* priolkset: a thread that holds nothing changes its own priority.
Set(t) ==
    /\ pc[t] = "idle"
    /\ \E l \in Levels : val' = [val EXCEPT ![t] = l]
    /\ UNCHANGED <<pc, owner, waitbits, prio, mask, seen>>
---------------------------------------------------------------------------
(* priolkget, before the thread has announced itself.                      *)

Call(t) ==
    /\ pc[t] = "idle"
    /\ Goto(t, "start")
    /\ UNCHANGED <<owner, waitbits, val, prio, mask, seen>>

Start(t) ==
    /\ pc[t] = "start"
    /\ prio' = [prio EXCEPT ![t] = val[t]]
    /\ mask' = [mask EXCEPT ![t] = val[t]]
    /\ Goto(t, "wait1")
    /\ UNCHANGED <<owner, waitbits, val, seen>>

Wait1(t) ==
    /\ pc[t] = "wait1"
    /\ Goto(t, IF Higher(t) # {} THEN "check1" ELSE "cas")
    /\ UNCHANGED <<owner, waitbits, val, prio, mask, seen>>

\* Somebody may have lent this thread a priority meanwhile.
Check1(t) ==
    /\ pc[t] = "check1"
    /\ prio' = [prio EXCEPT ![t] = val[t]]
    /\ mask' = [mask EXCEPT ![t] = IF val[t] # prio[t] THEN val[t] ELSE @]
    /\ Goto(t, "wait1")
    /\ UNCHANGED <<owner, waitbits, val, seen>>

\* Mutant: the owner is overwritten without being compared with NULL.
CasBlind(t) ==
    /\ pc[t] = "cas"
    /\ owner' = t
    /\ Goto(t, "crit")
    /\ Forget(t)
    /\ UNCHANGED <<waitbits, val, seen>>

Cas(t) ==
    /\ pc[t] = "cas"
    /\ \/ owner = NoThread /\ owner' = t /\ Goto(t, "crit") /\ Forget(t)
       \/ owner # NoThread /\ Goto(t, "enlist") /\ UNCHANGED <<owner, prio, mask>>
    /\ UNCHANGED <<waitbits, val, seen>>
---------------------------------------------------------------------------
(* priolkget, waiting with its bit set.                                    *)

\* m_atomor(&priolk->waitbits, prio)
Enlist(t) ==
    /\ pc[t] = "enlist"
    /\ waitbits' = waitbits \cup {prio[t]}
    /\ Goto(t, "wait2")
    /\ UNCHANGED <<owner, val, prio, mask, seen>>

Wait2(t) ==
    /\ pc[t] = "wait2"
    /\ Goto(t, IF Higher(t) # {} THEN "check2" ELSE "swap")
    /\ UNCHANGED <<owner, waitbits, val, prio, mask, seen>>

\* If the priority changed, m_atomand(&priolk->waitbits, ~prio).
Check2(t) ==
    /\ pc[t] = "check2"
    /\ IF val[t] # prio[t]
       THEN waitbits' = waitbits \ {prio[t]} /\ Goto(t, "reread")
       ELSE Goto(t, "wait2") /\ UNCHANGED waitbits
    /\ UNCHANGED <<owner, val, prio, mask, seen>>

Reread(t) ==
    /\ pc[t] = "reread"
    /\ prio' = [prio EXCEPT ![t] = val[t]]
    /\ Goto(t, "relist")
    /\ UNCHANGED <<owner, waitbits, val, mask, seen>>

\* Mutant: the mask is not updated with the priority.
RelistOldMask(t) ==
    /\ pc[t] = "relist"
    /\ waitbits' = waitbits \cup {prio[t]}
    /\ Goto(t, "wait2")
    /\ UNCHANGED <<owner, val, prio, mask, seen>>

\* m_atomor(&priolk->waitbits, prio); mask = prio - 1
Relist(t) ==
    /\ pc[t] = "relist"
    /\ waitbits' = waitbits \cup {prio[t]}
    /\ mask' = [mask EXCEPT ![t] = prio[t]]
    /\ Goto(t, "wait2")
    /\ UNCHANGED <<owner, val, prio, seen>>

\* owner = m_fetchswapptr(&priolk->owner, NULL, t_priolk)
Swap(t) ==
    /\ pc[t] = "swap"
    /\ \/ owner = NoThread /\ owner' = t /\ Goto(t, "delist") /\ UNCHANGED seen
       \/ /\ owner # NoThread
          /\ seen' = [seen EXCEPT ![t] = owner]
          /\ Goto(t, "compare")
          /\ UNCHANGED owner
    /\ UNCHANGED <<waitbits, val, prio, mask>>

\* if (owner->val > prio): the owner may have let go meanwhile.
Compare(t) ==
    /\ pc[t] = "compare"
    /\ IF val[seen[t]] > prio[t]
       THEN Goto(t, "boost") /\ UNCHANGED seen
       ELSE Goto(t, "wait2") /\ seen' = [seen EXCEPT ![t] = t]
    /\ UNCHANGED <<owner, waitbits, val, prio, mask>>

\* owner->val = prio
Boost(t) ==
    /\ pc[t] = "boost"
    /\ val' = [val EXCEPT ![seen[t]] = prio[t]]
    /\ seen' = [seen EXCEPT ![t] = t]
    /\ Goto(t, "wait2")
    /\ UNCHANGED <<owner, waitbits, prio, mask>>

\* Mutant: the new owner leaves its bit set.
DelistKeepsBit(t) ==
    /\ pc[t] = "delist"
    /\ Goto(t, "crit")
    /\ Forget(t)
    /\ UNCHANGED <<owner, waitbits, val, seen>>

\* m_atomand(&priolk->waitbits, ~prio), whoever else waits at that level.
Delist(t) ==
    /\ pc[t] = "delist"
    /\ waitbits' = waitbits \ {prio[t]}
    /\ Goto(t, "crit")
    /\ Forget(t)
    /\ UNCHANGED <<owner, val, seen>>
---------------------------------------------------------------------------
(* priolkrel                                                               *)

Release(t) ==
    /\ pc[t] = "crit"
    /\ owner' = NoThread
    /\ Goto(t, "restore")
    /\ UNCHANGED <<waitbits, val, prio, mask, seen>>

\* t_priolk->val = t_priolk->orig, after the lock is free again.
Restore(t) ==
    /\ pc[t] = "restore"
    /\ val' = [val EXCEPT ![t] = Orig[t]]
    /\ Goto(t, "idle")
    /\ UNCHANGED <<owner, waitbits, prio, mask, seen>>
---------------------------------------------------------------------------
Continue(t) ==
    \/ Start(t) \/ Wait1(t) \/ Check1(t) \/ Cas(t)
    \/ Enlist(t) \/ Wait2(t) \/ Check2(t) \/ Reread(t) \/ Relist(t)
    \/ Swap(t) \/ Compare(t) \/ Boost(t) \/ Delist(t)
    \/ Release(t) \/ Restore(t)

Next == \E t \in Threads : Set(t) \/ Call(t) \/ Continue(t)

Spec == Init /\ [][Next]_vars

\* Every running thread is scheduled again.
FairSpec == Spec /\ \A t \in Threads : WF_vars(Continue(t))
---------------------------------------------------------------------------
TypeOK ==
    /\ pc \in [Threads -> PCs]
    /\ owner \in Threads \cup {NoThread}
    /\ waitbits \subseteq Levels
    /\ val \in [Threads -> Levels]
    /\ prio \in [Threads -> Levels]
    /\ mask \in [Threads -> Levels]
    /\ seen \in [Threads -> Threads]

\* The owner field names the thread that is in its critical section, and no
\* second thread is: two threads of one priority included, and a thread whose
\* priority others change while it waits.
OwnerHolds == \A t \in Threads : pc[t] \in Holds <=> owner = t

\* Every bit in waitbits is that of a thread that is still going to clear it,
\* so nobody defers for ever to a waiter that is gone.
NoGhostBits ==
    \A l \in waitbits : \E t \in Threads : pc[t] \in Enlisted /\ prio[t] = l

\* The mask a waiting thread uses is that of its registered priority, although
\* the two locals are updated in different places.
MaskFollowsPrio ==
    \A t \in Threads :
        pc[t] \in Enlisted \cup {"wait1", "cas", "enlist"} => mask[t] = prio[t]

\* While anybody asks for the lock, somebody gets it: deferring to higher
\* priorities, and to bits that come and go, does not stop everyone.
SomeoneEnters ==
    \A t \in Threads :
        pc[t] \notin {"idle", "crit", "restore"} ~> \E u \in Threads : pc[u] = "crit"

\* "see if no higher-priority waiters and unlocked": whoever takes the lock
\* finds no bit of a more urgent waiter set.
NoOvertaking ==
    [][\A t \in Threads : owner' = t /\ owner # t => Higher(t) = {}]_vars
===========================================================================
