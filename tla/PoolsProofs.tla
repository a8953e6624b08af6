---------------------------- MODULE PoolsProofs ----------------------------
(***************************************************************************)
(* Theorems about the locks and pools that MCPools puts together, for      *)
(* every number of threads, of items and of calls: the lock-free stack     *)
(* pool of libmt and the free headers of libzen; the recursive mutex, the  *)
(* semaphore, the condition variable and the bit locks of libmt, and the   *)
(* generator of libprng; and that the invariants MCPools states hold of    *)
(* all of them at once.                                                    *)
(*                                                                         *)
(* Each part has an inductive invariant of its own (StkInv, HdrInv,        *)
(* RecInv, SemInv, RandInv, CondInv, BitTypeOK with BitOwned and BitKept). *)
(* A step of one part leaves the variables of the others alone.            *)
(*                                                                         *)
(* The stacks: an item that has been pushed keeps its link for ever,       *)
(* because only the thread that made an item writes it and only before it  *)
(* is pushed; so the link a pop has read is still that of the head when    *)
(* the compare-and-swap finds the same head again.                         *)
(*                                                                         *)
(* The headers: the lock bit makes one thread at a time the owner of the   *)
(* list; between its last change of a link and the store of the new head,  *)
(* the list that will be there is already in order (the write steps of     *)
(* HdrStage).                                                              *)
(***************************************************************************)
EXTENDS MCPools, FiniteSetTheorems, TLAPS


Pushing(t) == spc[t] \in {"push_read", "push_swap"}

\* The items on their way in are new, each with one thread.
StkOwn ==
    /\ stack \subseteq made
    /\ \A i \in StkItems : gone[i] > 0 => gone[i] = 1 /\ i \in made /\ i \notin stack
    /\ \A t \in StkThreads : Pushing(t) => mine[t] \in made /\ mine[t] \notin stack /\ gone[mine[t]] = 0
    /\ \A t, u \in StkThreads : Pushing(t) /\ Pushing(u) /\ mine[t] = mine[u] => t = u

\* What a thread has read of an item that was pushed stays true.
StkSeen ==
    \A t \in StkThreads :
        /\ spc[t] = "push_swap" => chain[mine[t]] = head[t]
        /\ spc[t] \in {"pop_link", "pop_swap"} =>
            /\ head[t] \in made
            /\ \A u \in StkThreads : Pushing(u) => mine[u] # head[t]
        /\ spc[t] = "pop_swap" => link[t] = chain[head[t]]

StkInv == StkTypeOK /\ StkOwn /\ StkClosed /\ StkReached /\ StkSeen /\ StkOneLink

LEMMA StkInvInit == StkInit => StkInv
BY StkAssumption, SMT DEF StkInit, StkInv, StkTypeOK, StkOwn, StkClosed, StkReached, StkSeen, StkOneLink, Pushing, Slots,
   StkItems, Links, NoItem, StkPCs

LEMMA SlotSteps ==
    ASSUME NEW o \in Slots
    PROVE  (o + 1) % NSlots \in Slots /\ (o - 1) % NSlots \in Slots
BY StkAssumption, SMT DEF Slots

\* The head a pop removes is a pushed item, and the link it stores is the
\* link that item has now.
LEMMA PopTakes ==
    ASSUME StkInv, NEW t \in StkThreads, PopSwap(t)
    PROVE  /\ head[t] \in StkItems /\ head[t] \in stack /\ gone[head[t]] = 0
           /\ slot[ofs[t]] = head[t] /\ link[t] = chain[head[t]]
<1> USE DEF StkInv, StkTypeOK, PopSwap, CmpSwapHead
<1>1. slot[ofs[t]] = head[t] /\ link[t] = chain[head[t]] /\ head[t] \in made
    BY DEF StkSeen
<1>2. head[t] \in stack
    BY <1>1 DEF StkClosed, StkItems, NoItem
<1>3. gone[head[t]] = 0
    BY <1>2 DEF StkOwn
<1>4. QED
    BY <1>1, <1>2, <1>3

LEMMA TypePopSwap ==
    ASSUME StkInv, NEW t \in StkThreads, PopSwap(t)
    PROVE  StkTypeOK'
<1>1. head[t] \in StkItems
    BY PopTakes
<1>2. gone' \in [StkItems -> Nat]
    BY <1>1 DEF PopSwap, StkInv, StkTypeOK
<1>3. stack' \subseteq StkItems /\ slot' \in [Slots -> Links]
    BY DEF PopSwap, CmpSwapHead, StkInv, StkTypeOK
<1>4. QED
    BY <1>2, <1>3, StkAssumption
       DEF PopSwap, StkReturn, StkGoto, StkInv, StkTypeOK, StkPCs, Slots, Links, NoItem

LEMMA StkTypeNext == StkInv /\ [StkNext]_stkvars => StkTypeOK'
<1> SUFFICES ASSUME StkInv, [StkNext]_stkvars
             PROVE  StkTypeOK'
    OBVIOUS
<1>8. ASSUME NEW t \in StkThreads, PopSwap(t) PROVE StkTypeOK'
    BY <1>8, TypePopSwap
<1> USE StkAssumption DEF StkInv, StkTypeOK, StkPCs, StkGoto, Links, NoItem
<1>1. ASSUME NEW t \in StkThreads, CallPush(t) PROVE StkTypeOK'
    BY <1>1 DEF CallPush, FreshItem
<1>2. ASSUME NEW t \in StkThreads, CallPop(t) PROVE StkTypeOK'
    BY <1>2 DEF CallPop
<1>3. ASSUME NEW t \in StkThreads, PushRead(t) PROVE StkTypeOK'
    BY <1>3 DEF PushRead
<1>4. ASSUME NEW t \in StkThreads, PushSwap(t) PROVE StkTypeOK'
    <2>1. mine[t] \in StkItems
        BY <1>4 DEF StkOwn, Pushing, PushSwap
    <2>2. QED
        BY <1>4, <2>1 DEF PushSwap, StkReturn, CmpSwapHead, Slots
<1>5. ASSUME NEW t \in StkThreads, PushMiss(t) PROVE StkTypeOK'
    BY <1>5, SlotSteps DEF PushMiss
<1>6. ASSUME NEW t \in StkThreads, PopRead(t) PROVE StkTypeOK'
    BY <1>6, SlotSteps DEF PopRead, StkAdvance
<1>7. ASSUME NEW t \in StkThreads, PopLink(t) PROVE StkTypeOK'
    BY <1>7 DEF PopLink, StkSeen
<1>9. ASSUME NEW t \in StkThreads, PopMiss(t) PROVE StkTypeOK'
    BY <1>9, SlotSteps DEF PopMiss, StkAdvance
<1>10. CASE UNCHANGED stkvars
    BY <1>10 DEF stkvars
<1>11. QED
    BY <1>1, <1>2, <1>3, <1>4, <1>5, <1>6, <1>7, <1>8, <1>9, <1>10 DEF StkNext, StkContinue

\* A new item is nobody else's.
LEMMA OwnCallPush ==
    ASSUME StkInv, NEW t \in StkThreads, CallPush(t)
    PROVE  StkOwn' /\ StkClosed' /\ StkReached' /\ StkSeen' /\ StkOneLink'
<1> USE DEF StkInv, StkTypeOK, StkPCs, StkGoto, CallPush, FreshItem, Pushing
<1>1. StkOwn'
    BY DEF StkOwn
<1>2. StkClosed' /\ StkReached' /\ StkOneLink'
    BY DEF StkClosed, StkReached, StkOneLink
<1>3. StkSeen'
    BY DEF StkSeen, StkOwn
<1>4. QED
    BY <1>1, <1>2, <1>3

\* The link written is that of an item nobody has seen.
LEMMA OwnPushRead ==
    ASSUME StkInv, NEW t \in StkThreads, PushRead(t)
    PROVE  StkOwn' /\ StkClosed' /\ StkReached' /\ StkSeen' /\ StkOneLink'
<1> USE DEF StkInv, StkTypeOK, StkPCs, StkGoto, PushRead, Pushing
<1>1. mine[t] \in StkItems /\ mine[t] \notin stack
    BY DEF StkOwn
<1>2. \A i \in stack : chain'[i] = chain[i]
    BY <1>1
<1>3. StkOwn'
    BY DEF StkOwn
<1>4. StkClosed' /\ StkReached' /\ StkOneLink'
    BY <1>2 DEF StkClosed, StkReached, StkOneLink
<1>5. StkSeen'
    BY <1>1 DEF StkSeen, StkOwn
<1>6. QED
    BY <1>3, <1>4, <1>5

LEMMA OwnPushSwap ==
    ASSUME StkInv, NEW t \in StkThreads, PushSwap(t)
    PROVE  StkOwn' /\ StkClosed' /\ StkReached' /\ StkSeen' /\ StkOneLink'
<1> USE DEF StkInv, StkTypeOK, StkPCs, StkGoto, PushSwap, CmpSwapHead, StkReturn, Pushing
<1> DEFINE i == mine[t]  o == ofs[t]
<1>1. i \in StkItems /\ i \in made /\ i \notin stack /\ chain[i] = slot[o] /\ o \in Slots
    BY DEF StkOwn, StkSeen
<1>2. /\ slot' = [slot EXCEPT ![o] = i]
      /\ stack' = stack \cup {i}
      /\ chain' = chain
    OBVIOUS
<1>3. i # NoItem
    BY <1>1 DEF StkItems, NoItem
<1>4. StkOwn'
    BY <1>1 DEF StkOwn
<1>5. StkClosed'
    BY <1>1, <1>2, <1>3 DEF StkClosed
<1>6. StkSeen'
    BY DEF StkSeen
<1>7. StkOneLink'
    <2>1. \A r, s \in Slots : slot'[r] = slot'[s] /\ slot'[s] # NoItem => r = s
        BY <1>1, <1>2, <1>3 DEF StkClosed, StkOneLink
    <2>2. \A j, k \in stack' : chain'[j] = chain'[k] /\ chain'[j] # NoItem => j = k
        BY <1>1, <1>2 DEF StkClosed, StkOneLink
    <2>3. \A s \in Slots, j \in stack' : slot'[s] # NoItem => chain'[j] # slot'[s]
        BY <1>1, <1>2, <1>3 DEF StkClosed, StkOneLink
    <2>4. ASSUME NEW j \in stack'
          PROVE  (\E s \in Slots : slot'[s] = j) \/ (\E k \in stack' : chain'[k] = j)
        <3>1. CASE j = i
            BY <1>1, <1>2, <3>1
        <3>2. CASE j # i /\ slot[o] = j
            BY <1>1, <1>2, <3>2
        <3>3. CASE j # i /\ slot[o] # j
            BY <1>1, <1>2, <3>3 DEF StkOneLink
        <3>4. QED
            BY <3>1, <3>2, <3>3
    <2>5. QED
        BY <2>1, <2>2, <2>3, <2>4 DEF StkOneLink
<1>8. StkReached'
    <2>1. SUFFICES ASSUME NEW part \in (SUBSET stack') \ {{}}
                   PROVE  (\E s \in Slots : slot'[s] \in part) \/ \E j \in stack' \ part : chain'[j] \in part
        BY DEF StkReached
    <2>2. CASE i \in part
        BY <1>1, <1>2, <2>2
    <2>3. CASE i \notin part
        <3>1. (\E s \in Slots : slot[s] \in part) \/ \E j \in stack \ part : chain[j] \in part
            BY <1>2, <2>3 DEF StkReached
        <3>2. slot[o] \in part => i \in stack' \ part /\ chain'[i] \in part
            BY <1>1, <1>2, <2>3
        <3>3. QED
            BY <1>1, <1>2, <3>1, <3>2
    <2>4. QED
        BY <2>2, <2>3
<1>9. QED
    BY <1>4, <1>5, <1>6, <1>7, <1>8

LEMMA OwnPopSwap ==
    ASSUME StkInv, NEW t \in StkThreads, PopSwap(t)
    PROVE  StkOwn' /\ StkClosed' /\ StkReached' /\ StkSeen' /\ StkOneLink'
<1> USE DEF StkInv, StkTypeOK, StkPCs, StkGoto, StkReturn, Pushing
<1> DEFINE i == head[t]  o == ofs[t]
<1>1. i \in stack /\ gone[i] = 0 /\ slot[o] = i /\ link[t] = chain[i] /\ o \in Slots /\ i \in StkItems
    BY PopTakes
<1>2. /\ slot' = [slot EXCEPT ![o] = chain[i]]
      /\ stack' = stack \ {i}
      /\ chain' = chain
      /\ gone' = [gone EXCEPT ![i] = @ + 1]
    BY <1>1 DEF PopSwap, CmpSwapHead
<1>3. i # NoItem
    BY <1>1 DEF StkItems, NoItem
<1>4. chain[i] # i /\ \A j \in stack : chain[j] # i
    BY <1>1, <1>3 DEF StkOneLink
<1>5. StkOwn'
    BY <1>1, <1>2 DEF StkOwn, PopSwap
<1>6. StkClosed'
    BY <1>1, <1>2, <1>4 DEF StkClosed, StkOneLink
<1>7. StkSeen'
    BY DEF StkSeen, PopSwap
<1>8. StkOneLink'
    <2>1. \A r, s \in Slots : slot'[r] = slot'[s] /\ slot'[s] # NoItem => r = s
        BY <1>1, <1>2 DEF StkOneLink
    <2>2. \A j, k \in stack' : chain'[j] = chain'[k] /\ chain'[j] # NoItem => j = k
        BY <1>2 DEF StkOneLink
    <2>3. \A s \in Slots, j \in stack' : slot'[s] # NoItem => chain'[j] # slot'[s]
        BY <1>1, <1>2 DEF StkOneLink
    <2>4. ASSUME NEW j \in stack'
          PROVE  (\E s \in Slots : slot'[s] = j) \/ (\E k \in stack' : chain'[k] = j)
        <3>1. CASE \E s \in Slots : slot[s] = j
            BY <1>1, <1>2, <3>1
        <3>2. CASE \E k \in stack : chain[k] = j
            BY <1>1, <1>2, <3>2
        <3>3. QED
            BY <1>2, <3>1, <3>2 DEF StkOneLink
    <2>5. QED
        BY <2>1, <2>2, <2>3, <2>4 DEF StkOneLink
<1>9. StkReached'
    <2>1. SUFFICES ASSUME NEW part \in (SUBSET stack') \ {{}}
                   PROVE  (\E s \in Slots : slot'[s] \in part) \/ \E j \in stack' \ part : chain'[j] \in part
        BY DEF StkReached
    <2>2. i \notin part /\ part \in (SUBSET stack) \ {{}}
        BY <1>2
    <2>3. (\E s \in Slots : slot[s] \in part) \/ \E j \in stack \ part : chain[j] \in part
        BY <2>2 DEF StkReached
    <2>4. QED
        BY <1>1, <1>2, <2>2, <2>3
<1>10. QED
    BY <1>5, <1>6, <1>7, <1>8, <1>9

\* The other steps change no head, no link and no set of items.
LEMMA OwnOthers ==
    ASSUME StkInv, NEW t \in StkThreads,
           CallPop(t) \/ PushMiss(t) \/ PopRead(t) \/ PopLink(t) \/ PopMiss(t)
    PROVE  StkOwn' /\ StkClosed' /\ StkReached' /\ StkSeen' /\ StkOneLink'
<1> USE DEF StkInv, StkTypeOK, StkPCs, StkGoto, Pushing
<1>1. UNCHANGED <<slot, chain, made, stack, gone, mine>>
    BY DEF CallPop, PushMiss, PopRead, PopLink, PopMiss
<1>2. \A u \in StkThreads : Pushing(u)' => Pushing(u)
    BY DEF CallPop, PushMiss, PopRead, PopLink, PopMiss
<1>3. StkOwn'
    BY <1>1, <1>2 DEF StkOwn
<1>4. StkClosed' /\ StkReached' /\ StkOneLink'
    BY <1>1 DEF StkClosed, StkReached, StkOneLink
<1>5. StkSeen'
    <2>1. CASE CallPop(t)
        BY <2>1 DEF CallPop, StkSeen
    <2>2. CASE PushMiss(t)
        BY <2>2 DEF PushMiss, StkSeen
    <2>3. CASE PopRead(t)
        <3>1. slot[ofs[t]] # NoItem => slot[ofs[t]] \in made
                /\ \A u \in StkThreads : Pushing(u) => mine[u] # slot[ofs[t]]
            BY DEF StkClosed, StkOwn
        <3>2. QED
            BY <2>3, <3>1 DEF PopRead, StkSeen
    <2>4. CASE PopLink(t)
        BY <2>4 DEF PopLink, StkSeen
    <2>5. CASE PopMiss(t)
        BY <2>5 DEF PopMiss, StkSeen
    <2>6. QED
        BY <2>1, <2>2, <2>3, <2>4, <2>5
<1>6. QED
    BY <1>3, <1>4, <1>5

LEMMA StkInvNext == StkInv /\ [StkNext]_stkvars => StkInv'
<1> SUFFICES ASSUME StkInv, [StkNext]_stkvars
             PROVE  StkInv'
    OBVIOUS
<1>1. StkTypeOK'
    BY StkTypeNext DEF StkInv
<1>2. CASE UNCHANGED stkvars
    BY <1>2 DEF stkvars, StkInv, StkTypeOK, StkOwn, StkClosed, StkReached, StkSeen, StkOneLink, Pushing
<1>3. CASE StkNext
    BY <1>1, <1>3, OwnCallPush, OwnPushRead, OwnPushSwap, OwnPopSwap, OwnOthers
       DEF StkNext, StkContinue, StkInv
<1>4. QED
    BY <1>2, <1>3

\* The invariant the other theorems rest on holds in every reachable state.
THEOREM StkInvariant == StkSpec => []StkInv
BY StkInvInit, StkInvNext, PTL DEF StkSpec

\* The state of the pool is well typed (stkpoolpush, stkpoolpop): a head or
\* link is NULL or an item, an index into the table is in range.
THEOREM StkTypeCorrect == StkSpec => []StkTypeOK
<1>1. StkInv => StkTypeOK
    BY DEF StkInv
<1>2. QED
    BY <1>1, StkInvariant, PTL

\* The heads and links lead to the items in the pool, to all of them and by one
\* way each, whatever pushes and pops run at the same time (stkpoolpush,
\* stkpoolpop).
THEOREM StkKept == StkSpec => []StkKeeps
<1>1. StkInv => StkKeeps
    BY DEF StkInv, StkKeeps
<1>2. QED
    BY <1>1, StkInvariant, PTL

\* The table of chains implements the abstract pool: a pop returns an item
\* that is in the pool at that instant and that nobody else has (stkpoolpop).
THEOREM StkRefinement == StkSpec => StkIsPool
<1>1. StkInit => StkAbs!Init
    BY DEF StkInit, StkAbs!Init
<1>2. StkInv /\ [StkNext]_stkvars => [StkAbs!Next]_(StkAbs!vars)
    <2> SUFFICES ASSUME StkInv, [StkNext]_stkvars
                 PROVE  StkAbs!Next \/ UNCHANGED <<stack, gone>>
        BY DEF StkAbs!vars
    <2>1. ASSUME NEW t \in StkThreads, PushSwap(t)
          PROVE  StkAbs!Bring(mine[t]) /\ mine[t] \in StkItems
        BY <2>1 DEF StkInv, StkTypeOK, StkOwn, Pushing, PushSwap, StkAbs!Bring, StkAbs!New
    <2>2. ASSUME NEW t \in StkThreads, PopSwap(t)
          PROVE  StkAbs!Take(head[t]) /\ head[t] \in StkItems
        <3>1. head[t] \in StkItems /\ head[t] \in stack /\ gone[head[t]] = 0
            BY <2>2, PopTakes
        <3>2. stack' = stack \ {head[t]} /\ gone' = [gone EXCEPT ![head[t]] = 1]
            BY <2>2, <3>1 DEF PopSwap
        <3>3. QED
            BY <3>1, <3>2 DEF StkAbs!Take
    <2>3. ASSUME NEW t \in StkThreads,
                 CallPush(t) \/ CallPop(t) \/ PushRead(t) \/ PushMiss(t) \/ PopRead(t) \/ PopLink(t) \/ PopMiss(t)
          PROVE  UNCHANGED <<stack, gone>>
        BY <2>3 DEF CallPush, CallPop, PushRead, PushMiss, PopRead, PopLink, PopMiss
    <2>4. CASE UNCHANGED stkvars
        BY <2>4 DEF stkvars
    <2>5. QED
        BY <2>1, <2>2, <2>3, <2>4 DEF StkNext, StkContinue, StkAbs!Next
<1>3. QED
    BY <1>1, <1>2, StkInvariant, PTL DEF StkSpec, StkIsPool, StkAbs!Spec, StkAbs!vars
---------------------------------------------------------------------------
Putting(t) == hpc[t] \in {"put_spin", "put_set", "put_link", "put_write"}

\* The bit is set while a thread is inside, and only one is.
HdrLock ==
    /\ \A t \in HdrThreads : hpc[t] \in HdrInside => lkbit
    /\ \A t, u \in HdrThreads : hpc[t] \in HdrInside /\ hpc[u] \in HdrInside => t = u

\* A header has one user, or is in the list, or neither; two threads do not
\* put back the same header.
HdrUse ==
    /\ avail \subseteq 1 .. nmap
    /\ \A h \in Hdrs : user[h] > 0 => user[h] = 1 /\ h \notin avail /\ h <= nmap
    /\ \A t \in HdrThreads : Putting(t) => ret[t] \in Hdrs /\ user[ret[t]] = 1
    /\ \A t, u \in HdrThreads : Putting(t) /\ Putting(u) /\ ret[t] = ret[u] => t = u

\* A header that memgetbuf is about to hand out.
Gettable(h) == h \in Hdrs /\ h <= nmap /\ user[h] = 0

\* What a thread knows of the list.
Knows(t) ==
    /\ hpc[t] \in {"idle", "get_spin", "get_set", "get_read", "get_map"} => ret[t] = NoHdr
    /\ hpc[t] = "get_map" => hdrq = NoHdr
    /\ hpc[t] = "get_unlink" =>
        /\ Gettable(ret[t])
        /\ ret[t] = hdrq \/ (hdrq = NoHdr /\ ret[t] \notin avail /\ next[ret[t]] = NoHdr)
    /\ hpc[t] = "get_write" =>
        /\ Ordered(next, prev, first[t], avail \ {ret[t]})
        /\ ret[t] # NoHdr => Gettable(ret[t])
    /\ hpc[t] = "put_write" => Ordered(next, prev, ret[t], avail \cup {ret[t]})
    /\ Putting(t) => prev[ret[t]] = NoHdr

HdrStage == \A t \in HdrThreads : Knows(t)

Writing == {"get_write", "put_write"}

\* Unless a thread is about to store the head, the list is in order.
HdrOrder ==
    (\A t \in HdrThreads : hpc[t] \notin Writing) => Ordered(next, prev, hdrq, avail)

HdrInv == HdrTypeOK /\ HdrLock /\ HdrUse /\ HdrStage /\ HdrOrder

LEMMA HdrInvInit == HdrInit => HdrInv
<1> SUFFICES ASSUME HdrInit PROVE HdrInv
    OBVIOUS
<1>1. HdrTypeOK
    <2>1. 0 \in 0 .. NHdrs /\ 0 \in 0 .. NTry
        BY HdrAssumption
    <2>2. user \in [Hdrs -> Nat] /\ avail \subseteq Hdrs /\ lkbit \in BOOLEAN
        BY DEF HdrInit
    <2>3. /\ hdrq \in HdrPtrs /\ next \in [Hdrs -> HdrPtrs] /\ prev \in [Hdrs -> HdrPtrs]
          /\ ret \in [HdrThreads -> HdrPtrs] /\ first \in [HdrThreads -> HdrPtrs]
        BY DEF HdrInit, HdrPtrs
    <2>4. hpc \in [HdrThreads -> HdrPCs] /\ ntry \in [HdrThreads -> 0 .. NTry]
        BY <2>1 DEF HdrInit, HdrPCs
    <2>5. QED
        BY <2>1, <2>2, <2>3, <2>4 DEF HdrInit, HdrTypeOK
<1>2. HdrLock /\ HdrUse
    BY DEF HdrInit, HdrLock, HdrUse, Putting, HdrInside
<1>3. HdrStage
    BY DEF HdrInit, HdrStage, Knows, Putting
<1>4. HdrOrder
    <2>1. hdrq = NoHdr /\ avail = {}
        BY DEF HdrInit
    <2>2. HdrReached(next, hdrq, avail)
        BY <2>1 DEF HdrReached
    <2>3. QED
        BY <2>1, <2>2 DEF HdrOrder, Ordered
<1>5. QED
    BY <1>1, <1>2, <1>3, <1>4 DEF HdrInv

LEMMA HdrTypeNext ==
    ASSUME HdrInv, [HdrNext]_hdrvars
    PROVE  HdrTypeOK'
<1>0. HdrTypeOK /\ HdrStage /\ HdrUse
    BY DEF HdrInv
<1> USE HdrAssumption DEF HdrTypeOK, HdrPCs, HdrGoto, HdrPtrs, NoHdr
<1>1. ASSUME NEW t \in HdrThreads, CallGet(t) PROVE HdrTypeOK'
    BY <1>0, <1>1 DEF CallGet
<1>2. ASSUME NEW t \in HdrThreads, CallPut(t) PROVE HdrTypeOK'
    BY <1>0, <1>2 DEF CallPut
<1>3. ASSUME NEW t \in HdrThreads, SpinBit(t) PROVE HdrTypeOK'
    BY <1>0, <1>3 DEF SpinBit
<1>4. ASSUME NEW t \in HdrThreads, SetBit(t) PROVE HdrTypeOK'
    BY <1>0, <1>4 DEF SetBit
<1>5. ASSUME NEW t \in HdrThreads, GetRead(t) PROVE HdrTypeOK'
    BY <1>0, <1>5 DEF GetRead
<1>6. ASSUME NEW t \in HdrThreads, GetMap(t) PROVE HdrTypeOK'
    <2>1. CASE UNCHANGED <<nmap, ret, next, prev>> /\ first' = [first EXCEPT ![t] = NoHdr]
               /\ hpc' = [hpc EXCEPT ![t] = "get_write"]
        BY <1>0, <1>6, <2>1 DEF GetMap
    <2>2. CASE nmap + NBufs <= NHdrs /\ nmap' = nmap + NBufs /\ ret' = [ret EXCEPT ![t] = nmap + 1]
               /\ next' = RegionNext(nmap) /\ prev' = RegionPrev(nmap) /\ UNCHANGED first
               /\ hpc' = [hpc EXCEPT ![t] = "get_unlink"]
        <3>1. next' \in [Hdrs -> HdrPtrs] /\ prev' \in [Hdrs -> HdrPtrs]
            BY <1>0, <2>2 DEF RegionNext, RegionPrev, Hdrs
        <3>2. nmap' \in 0 .. NHdrs /\ ret' \in [HdrThreads -> HdrPtrs]
            BY <1>0, <2>2 DEF Hdrs
        <3>3. QED
            BY <1>0, <1>6, <2>2, <3>1, <3>2 DEF GetMap
    <2>3. QED
        BY <1>6, <2>1, <2>2 DEF GetMap
<1>7. ASSUME NEW t \in HdrThreads, GetUnlink(t) PROVE HdrTypeOK'
    BY <1>0, <1>7 DEF GetUnlink, HdrStage, Knows, Gettable
<1>8. ASSUME NEW t \in HdrThreads, GetWrite(t) PROVE HdrTypeOK'
    <2>1. user' \in [Hdrs -> Nat] /\ avail' \subseteq Hdrs
        BY <1>0, <1>8 DEF GetWrite, HdrStage, Knows, Gettable
    <2>2. ntry' \in [HdrThreads -> 0 .. NTry]
        BY <1>0, <1>8 DEF GetWrite, HdrReturn
    <2>3. hpc' \in [HdrThreads -> HdrPCs] /\ ret' \in [HdrThreads -> HdrPtrs]
          /\ first' \in [HdrThreads -> HdrPtrs] /\ hdone' \in Nat
        BY <1>0, <1>8 DEF GetWrite, HdrReturn
    <2>4. hdrq' \in HdrPtrs /\ lkbit' \in BOOLEAN /\ UNCHANGED <<next, prev, nmap, gets>>
        BY <1>0, <1>8 DEF GetWrite
    <2>5. QED
        BY <1>0, <2>1, <2>2, <2>3, <2>4
<1>9. ASSUME NEW t \in HdrThreads, PutLink(t) PROVE HdrTypeOK'
    BY <1>0, <1>9 DEF PutLink
<1>10. ASSUME NEW t \in HdrThreads, PutWrite(t) PROVE HdrTypeOK'
    <2>1. ret[t] \in Hdrs /\ user[ret[t]] = 1
        BY <1>0, <1>10 DEF PutWrite, HdrUse, Putting
    <2>2. user' \in [Hdrs -> Nat] /\ avail' \subseteq Hdrs
        BY <1>0, <1>10, <2>1 DEF PutWrite
    <2>3. hpc' \in [HdrThreads -> HdrPCs] /\ ret' \in [HdrThreads -> HdrPtrs]
          /\ first' \in [HdrThreads -> HdrPtrs] /\ hdone' \in Nat
          /\ ntry' \in [HdrThreads -> 0 .. NTry]
        BY <1>0, <1>10 DEF PutWrite, HdrReturn
    <2>4. hdrq' \in HdrPtrs /\ lkbit' \in BOOLEAN /\ UNCHANGED <<next, prev, nmap, gets>>
        BY <1>0, <1>10 DEF PutWrite
    <2>5. QED
        BY <1>0, <2>2, <2>3, <2>4
<1>11. CASE UNCHANGED hdrvars
    BY <1>0, <1>11 DEF hdrvars
<1>12. QED
    BY <1>1, <1>2, <1>3, <1>4, <1>5, <1>6, <1>7, <1>8, <1>9, <1>10, <1>11 DEF HdrNext, HdrContinue

\* Taking the bit needs it clear; whoever clears it leaves.
LEMMA HdrLockNext ==
    ASSUME HdrInv, [HdrNext]_hdrvars
    PROVE  HdrLock'
<1> USE DEF HdrLock, HdrTypeOK, HdrPCs, HdrInside, HdrGoto
<1>0. HdrTypeOK /\ HdrLock
    BY DEF HdrInv
<1>1. CASE UNCHANGED hdrvars
    BY <1>0, <1>1 DEF hdrvars
<1>2. ASSUME NEW t \in HdrThreads, CallGet(t) \/ CallPut(t) \/ SpinBit(t) PROVE HdrLock'
    BY <1>0, <1>2 DEF CallGet, CallPut, SpinBit
<1>3. ASSUME NEW t \in HdrThreads, SetBit(t) PROVE HdrLock'
    BY <1>0, <1>3 DEF SetBit
<1>4. ASSUME NEW t \in HdrThreads, GetRead(t) \/ GetMap(t) \/ GetUnlink(t) \/ PutLink(t) PROVE HdrLock'
    BY <1>0, <1>4 DEF GetRead, GetMap, GetUnlink, PutLink
<1>5. ASSUME NEW t \in HdrThreads, GetWrite(t) \/ PutWrite(t) PROVE HdrLock'
    BY <1>0, <1>5 DEF GetWrite, PutWrite, HdrReturn
<1>6. QED
    BY <1>1, <1>2, <1>3, <1>4, <1>5 DEF HdrNext, HdrContinue

LEMMA HdrUseNext ==
    ASSUME HdrInv, [HdrNext]_hdrvars
    PROVE  HdrUse'
<1>0. HdrTypeOK /\ HdrUse /\ HdrStage
    BY DEF HdrInv
<1> USE DEF HdrUse, HdrTypeOK, HdrPCs, HdrGoto, Putting
<1>1. CASE UNCHANGED hdrvars
    BY <1>0, <1>1 DEF hdrvars
<1>2. ASSUME NEW t \in HdrThreads, CallGet(t) PROVE HdrUse'
    BY <1>0, <1>2 DEF CallGet
<1>3. ASSUME NEW t \in HdrThreads, CallPut(t) PROVE HdrUse'
    BY <1>0, <1>3 DEF CallPut
<1>4. ASSUME NEW t \in HdrThreads, SpinBit(t) PROVE HdrUse'
    BY <1>0, <1>4 DEF SpinBit
<1>5. ASSUME NEW t \in HdrThreads, SetBit(t) PROVE HdrUse'
    BY <1>0, <1>5 DEF SetBit
<1>6. ASSUME NEW t \in HdrThreads, GetRead(t) PROVE HdrUse'
    BY <1>0, <1>6 DEF GetRead
<1>7. ASSUME NEW t \in HdrThreads, GetUnlink(t) PROVE HdrUse'
    BY <1>0, <1>7 DEF GetUnlink
<1>8. ASSUME NEW t \in HdrThreads, PutLink(t) PROVE HdrUse'
    BY <1>0, <1>8 DEF PutLink
<1>9. ASSUME NEW t \in HdrThreads, GetMap(t) PROVE HdrUse'
    <2>1. nmap' >= nmap /\ nmap' \in Nat /\ UNCHANGED <<avail, user>>
        BY <1>0, <1>9, HdrAssumption DEF GetMap
    <2>2. \A u \in HdrThreads : Putting(u)' => Putting(u) /\ ret'[u] = ret[u]
        BY <1>0, <1>9 DEF GetMap
    <2>3. avail' \subseteq 1 .. nmap'
        BY <1>0, <2>1
    <2>4. \A h \in Hdrs : user'[h] > 0 => user'[h] = 1 /\ h \notin avail' /\ h <= nmap'
        BY <1>0, <2>1 DEF Hdrs
    <2>5. QED
        BY <1>0, <2>1, <2>2, <2>3, <2>4
<1>10. ASSUME NEW t \in HdrThreads, GetWrite(t) PROVE HdrUse'
    <2>1. CASE ret[t] = NoHdr
        <3>1. UNCHANGED <<avail, user, nmap>>
            BY <1>0, <1>10, <2>1 DEF GetWrite
        <3>2. \A u \in HdrThreads : Putting(u)' => Putting(u) /\ ret'[u] = ret[u]
            BY <1>0, <1>10 DEF GetWrite, HdrReturn
        <3>3. QED
            BY <1>0, <3>1, <3>2
    <2>2. CASE ret[t] # NoHdr
        <3>1. /\ Gettable(ret[t])
              /\ avail' = avail \ {ret[t]} /\ user' = [user EXCEPT ![ret[t]] = @ + 1]
              /\ UNCHANGED nmap
            BY <1>0, <1>10, <2>2 DEF GetWrite, HdrStage, Knows
        <3>2. \A u \in HdrThreads : Putting(u)' => Putting(u) /\ ret'[u] = ret[u]
            BY <1>0, <1>10 DEF GetWrite, HdrReturn
        <3>3. \A h \in Hdrs : user'[h] > 0 => user'[h] = 1 /\ h \notin avail' /\ h <= nmap'
            BY <1>0, <3>1 DEF Gettable
        <3>4. \A u \in HdrThreads : Putting(u)' => ret'[u] \in Hdrs /\ user'[ret'[u]] = 1
            BY <1>0, <3>1, <3>2 DEF Gettable
        <3>5. avail' \subseteq 1 .. nmap'
            BY <1>0, <3>1
        <3>6. QED
            BY <1>0, <3>2, <3>3, <3>4, <3>5
    <2>3. QED
        BY <2>1, <2>2
<1>11. ASSUME NEW t \in HdrThreads, PutWrite(t) PROVE HdrUse'
    <2>0. Putting(t) /\ ret[t] \in Hdrs /\ user[ret[t]] = 1
        BY <1>0, <1>11 DEF PutWrite
    <2>1. /\ ret[t] \in Hdrs /\ user[ret[t]] = 1 /\ ret[t] <= nmap
          /\ avail' = avail \cup {ret[t]} /\ user' = [user EXCEPT ![ret[t]] = @ - 1]
          /\ UNCHANGED nmap
        <3>1. user[ret[t]] > 0 => ret[t] <= nmap
            BY <1>0, <2>0
        <3>2. QED
            BY <1>11, <2>0, <3>1 DEF PutWrite
    <2>2. \A u \in HdrThreads : Putting(u)' => Putting(u) /\ ret'[u] = ret[u] /\ ret[u] # ret[t]
        BY <1>0, <1>11, <2>0 DEF PutWrite, HdrReturn
    <2>3. avail' \subseteq 1 .. nmap'
        <3>1. ret[t] \in 1 .. nmap /\ avail \subseteq 1 .. nmap
            BY <1>0, <2>1 DEF Hdrs
        <3>2. QED
            BY <2>1, <3>1
    <2>4. \A h \in Hdrs : user'[h] > 0 => user'[h] = 1 /\ h \notin avail' /\ h <= nmap'
        BY <1>0, <2>1
    <2>5. \A u \in HdrThreads : Putting(u)' => ret'[u] \in Hdrs /\ user'[ret'[u]] = 1
        BY <1>0, <2>1, <2>2
    <2>6. QED
        BY <1>0, <2>2, <2>3, <2>4, <2>5
<1>12. QED
    BY <1>1, <1>2, <1>3, <1>4, <1>5, <1>6, <1>7, <1>8, <1>9, <1>10, <1>11 DEF HdrNext, HdrContinue

---------------------------------------------------------------------------
\* The list depends only on the links of its own headers.
LEMMA OrderedSame ==
    ASSUME NEW nx, NEW pv, NEW nx2, NEW pv2, NEW q, NEW S,
           \A h \in S : nx2[h] = nx[h] /\ pv2[h] = pv[h],
           Ordered(nx, pv, q, S)
    PROVE  Ordered(nx2, pv2, q, S)
<1>1. HdrReached(nx2, q, S)
    BY DEF Ordered, HdrReached
<1>2. QED
    BY <1>1 DEF Ordered

\* memgetbuf: without its first header the list begins with the next one.
LEMMA OrderedUnlink ==
    ASSUME NEW nx \in [Hdrs -> HdrPtrs], NEW pv \in [Hdrs -> HdrPtrs],
           NEW S \in SUBSET Hdrs, NEW q \in Hdrs, NEW pv2,
           Ordered(nx, pv, q, S),
           pv2 = IF nx[q] = NoHdr THEN pv ELSE [pv EXCEPT ![nx[q]] = NoHdr]
    PROVE  Ordered(nx, pv2, nx[q], S \ {q})
<1>1. NoHdr \notin Hdrs
    BY DEF Hdrs, NoHdr
<1>2. q \in S /\ pv[q] = NoHdr
    BY <1>1 DEF Ordered
<1>3. nx[q] # NoHdr => nx[q] \in S \ {q} /\ pv2[nx[q]] = NoHdr
    BY <1>1, <1>2 DEF Ordered
<1>4. ASSUME NEW h \in S \ {q}, nx[h] # NoHdr PROVE nx[h] \in S \ {q} /\ pv2[nx[h]] = h
    <2>1. nx[h] \in S /\ pv[nx[h]] = h
        BY <1>4 DEF Ordered
    <2>2. nx[h] # q /\ nx[h] # nx[q]
        BY <1>1, <1>2, <2>1, <1>4 DEF Ordered
    <2>3. QED
        BY <2>1, <2>2
<1>5. ASSUME NEW h \in (S \ {q}) \ {nx[q]} PROVE pv2[h] \in S \ {q} /\ nx[pv2[h]] = h
    BY <1>5 DEF Ordered
<1>6. HdrReached(nx, nx[q], S \ {q})
    <2>1. HdrReached(nx, q, S)
        BY DEF Ordered
    <2>2. QED
        BY <1>2, <2>1 DEF HdrReached
<1>7. QED
    BY <1>3, <1>4, <1>5, <1>6 DEF Ordered

\* memputbuf: a header before the first one becomes the first.
LEMMA OrderedPush ==
    ASSUME NEW nx \in [Hdrs -> HdrPtrs], NEW pv \in [Hdrs -> HdrPtrs],
           NEW S \in SUBSET Hdrs, NEW q \in HdrPtrs, NEW b \in Hdrs, NEW nx2, NEW pv2,
           Ordered(nx, pv, q, S), b \notin S, pv[b] = NoHdr,
           nx2 = [nx EXCEPT ![b] = q],
           pv2 = IF q = NoHdr THEN pv ELSE [pv EXCEPT ![q] = b]
    PROVE  Ordered(nx2, pv2, b, S \cup {b})
<1>1. NoHdr \notin Hdrs
    BY DEF Hdrs, NoHdr
<1>2. q # NoHdr => q \in S /\ pv[q] = NoHdr /\ q # b
    BY DEF Ordered
<1>3. pv2[b] = NoHdr
    BY <1>2
<1>4. ASSUME NEW h \in S \cup {b}, nx2[h] # NoHdr PROVE nx2[h] \in S \cup {b} /\ pv2[nx2[h]] = h
    <2>1. CASE h = b
        BY <1>1, <1>2, <1>4, <2>1 DEF HdrPtrs
    <2>2. CASE h # b
        <3>1. nx2[h] = nx[h] /\ h \in S
            BY <2>2
        <3>2. nx[h] \in S /\ pv[nx[h]] = h
            BY <1>4, <3>1 DEF Ordered
        <3>3. nx[h] # q
            BY <1>1, <1>2, <3>1, <3>2
        <3>4. QED
            BY <3>1, <3>2, <3>3
    <2>3. QED
        BY <2>1, <2>2
<1>5. ASSUME NEW h \in S PROVE pv2[h] \in S \cup {b} /\ nx2[pv2[h]] = h
    <2>1. CASE h = q
        BY <1>1, <1>2, <2>1
    <2>2. CASE h # q
        <3>1. pv2[h] = pv[h] /\ pv[h] \in S /\ nx[pv[h]] = h
            BY <2>2 DEF Ordered
        <3>2. QED
            BY <3>1
    <2>3. QED
        BY <2>1, <2>2
<1>6. HdrReached(nx2, b, S \cup {b})
    <2>1. SUFFICES ASSUME NEW part \in (SUBSET (S \cup {b})) \ {{}}, b \notin part
                   PROVE  \E h \in (S \cup {b}) \ part : nx2[h] \in part
        BY DEF HdrReached
    <2>2. part \in (SUBSET S) \ {{}}
        BY <2>1
    <2>3. q \in part \/ \E h \in S \ part : nx[h] \in part
        BY <2>2 DEF Ordered, HdrReached
    <2>4. nx2[b] = q /\ \A h \in S : nx2[h] = nx[h]
        OBVIOUS
    <2>5. QED
        BY <2>1, <2>3, <2>4
<1>7. QED
    BY <1>3, <1>4, <1>5, <1>6 DEF Ordered

\* Calls and the attempts at the bit leave the list alone.
LEMMA OrderSpin ==
    ASSUME HdrInv, NEW t \in HdrThreads, CallGet(t) \/ SpinBit(t) \/ SetBit(t)
    PROVE  HdrStage' /\ HdrOrder'
<1>0. HdrTypeOK /\ HdrStage /\ HdrOrder
    BY DEF HdrInv
<1>1. UNCHANGED <<hdrq, next, prev, nmap, avail, user, ret, first>>
    BY DEF CallGet, SpinBit, SetBit
<1>2. \A u \in HdrThreads : u # t => hpc'[u] = hpc[u]
    BY <1>0 DEF CallGet, SpinBit, SetBit, HdrGoto, HdrTypeOK
<1>3. /\ hpc[t] \notin Writing /\ hpc'[t] \notin Writing \cup {"get_unlink", "get_map", "idle"}
      /\ Putting(t)' => Putting(t)
      /\ hpc'[t] \in {"get_spin", "get_set", "get_read"} => hpc[t] \in {"idle", "get_spin", "get_set"}
    BY <1>0 DEF CallGet, SpinBit, SetBit, HdrGoto, HdrTypeOK, Writing, Putting
<1>4. HdrOrder'
    BY <1>0, <1>1, <1>2, <1>3 DEF HdrOrder, Writing
<1>5. ASSUME NEW u \in HdrThreads PROVE Knows(u)'
    <2>1. Knows(u)
        BY <1>0 DEF HdrStage, Knows
    <2>2. CASE u = t
        BY <1>1, <1>3, <2>1, <2>2 DEF Knows, Writing
    <2>3. CASE u # t
        BY <1>1, <1>2, <2>1, <2>3 DEF Knows, Gettable, Putting
    <2>4. QED
        BY <2>2, <2>3
<1>6. QED
    BY <1>4, <1>5 DEF HdrStage, Knows

\* A put begins with a store to a header that is not in any list.
LEMMA OrderCallPut ==
    ASSUME HdrInv, NEW t \in HdrThreads, CallPut(t)
    PROVE  HdrStage' /\ HdrOrder'
<1>0. HdrTypeOK /\ HdrStage /\ HdrOrder /\ HdrUse
    BY DEF HdrInv
<1>1. PICK h \in Hdrs : /\ user[h] > 0 /\ \A u \in HdrThreads : ret[u] # h
                        /\ ret' = [ret EXCEPT ![t] = h] /\ prev' = [prev EXCEPT ![h] = NoHdr]
    BY DEF CallPut
<1>2. h \notin avail /\ UNCHANGED <<hdrq, next, nmap, avail, user, first>>
    BY <1>0, <1>1 DEF CallPut, HdrUse
<1>3. hpc[t] = "idle" /\ hpc'[t] = "put_spin" /\ \A u \in HdrThreads : u # t => hpc'[u] = hpc[u]
    BY <1>0 DEF CallPut, HdrGoto, HdrTypeOK
<1>4. \A g \in Hdrs : g # h => prev'[g] = prev[g]
    BY <1>0, <1>1 DEF HdrTypeOK
<1>5. ASSUME NEW q, NEW S \in SUBSET Hdrs, h \notin S, Ordered(next, prev, q, S)
      PROVE  Ordered(next, prev', q, S)
    BY <1>4, <1>5, OrderedSame
<1>6. HdrOrder'
    <2>1. SUFFICES ASSUME \A u \in HdrThreads : hpc'[u] \notin Writing
                   PROVE  Ordered(next, prev', hdrq, avail)
        BY <1>2 DEF HdrOrder, Writing
    <2>2. Ordered(next, prev, hdrq, avail)
        BY <1>0, <1>3, <2>1 DEF HdrOrder, Writing
    <2>3. QED
        BY <1>0, <1>2, <1>5, <2>2 DEF HdrTypeOK
<1>7. ASSUME NEW u \in HdrThreads PROVE Knows(u)'
    <2>1. Knows(u)
        BY <1>0 DEF HdrStage, Knows
    <2>2. CASE u = t
        BY <1>0, <1>1, <1>3, <2>2 DEF Knows, HdrTypeOK
    <2>3. CASE u # t
        <3>1. ret'[u] = ret[u] /\ ret[u] # h /\ ret[u] \in HdrPtrs /\ hpc'[u] = hpc[u]
            BY <1>0, <1>1, <1>3, <2>3 DEF HdrTypeOK
        <3>2. hpc[u] = "get_write" => Ordered(next, prev', first[u], avail \ {ret[u]})
            BY <1>0, <1>2, <1>5, <2>1, <3>1 DEF Knows, HdrTypeOK
        <3>3. hpc[u] = "put_write" => Ordered(next, prev', ret[u], avail \cup {ret[u]})
            <4>1. hpc[u] = "put_write" => ret[u] \in Hdrs
                BY <1>0 DEF HdrUse, Putting
            <4>2. QED
                BY <1>0, <1>2, <1>5, <2>1, <3>1, <4>1 DEF Knows, HdrTypeOK
        <3>4. Putting(u)' => prev'[ret'[u]] = NoHdr
            BY <1>0, <1>4, <2>1, <3>1 DEF Knows, Putting, HdrUse
        <3>5. QED
            BY <1>2, <2>1, <3>1, <3>2, <3>3, <3>4 DEF Knows, Gettable
    <2>4. QED
        BY <2>2, <2>3
<1>8. QED
    BY <1>6, <1>7 DEF HdrStage, Knows

\* While a thread has the bit the other threads are outside, and stay there.
LEMMA HdrAlone ==
    ASSUME HdrInv, NEW t \in HdrThreads, hpc[t] \in HdrInside,
           GetRead(t) \/ GetMap(t) \/ GetUnlink(t) \/ GetWrite(t) \/ PutLink(t) \/ PutWrite(t)
    PROVE  \A u \in HdrThreads \ {t} :
               /\ hpc[u] \notin HdrInside /\ hpc'[u] = hpc[u]
               /\ ret'[u] = ret[u] /\ ret[u] \in HdrPtrs
<1>1. \A u \in HdrThreads \ {t} : hpc[u] \notin HdrInside
    BY DEF HdrInv, HdrLock
<1>2. \A u \in HdrThreads \ {t} : hpc'[u] = hpc[u]
    BY DEF HdrInv, HdrTypeOK, GetRead, GetMap, GetUnlink, GetWrite, PutLink, PutWrite, HdrReturn, HdrGoto
<1>3. \A u \in HdrThreads \ {t} : ret'[u] = ret[u] /\ ret[u] \in HdrPtrs
    BY DEF HdrInv, HdrTypeOK, GetRead, GetMap, GetUnlink, GetWrite, PutLink, PutWrite, HdrReturn
<1>4. QED
    BY <1>1, <1>2, <1>3

\* So the others keep what they know if the header they put back is left alone.
LEMMA OthersKnow ==
    ASSUME HdrInv, NEW t \in HdrThreads, hpc[t] \in HdrInside,
           GetRead(t) \/ GetMap(t) \/ GetUnlink(t) \/ GetWrite(t) \/ PutLink(t) \/ PutWrite(t),
           \A u \in HdrThreads \ {t} : Putting(u) => prev'[ret[u]] = NoHdr
    PROVE  \A u \in HdrThreads \ {t} : Knows(u)'
<1> TAKE u \in HdrThreads \ {t}
<1>1. hpc[u] \notin HdrInside /\ hpc'[u] = hpc[u] /\ ret'[u] = ret[u]
    BY HdrAlone
<1>2. Knows(u)
    BY DEF HdrInv, HdrStage
<1>3. QED
    BY <1>1, <1>2 DEF Knows, Putting, HdrInside

\* A header of the list, and one that is not mapped yet, is not being put back.
LEMMA NotPut ==
    ASSUME HdrInv, NEW h \in Hdrs, Gettable(h) \/ h \in avail \/ h > nmap,
           NEW u \in HdrThreads, Putting(u)
    PROVE  ret[u] # h /\ ret[u] \in Hdrs /\ prev[ret[u]] = NoHdr
<1>1. HdrTypeOK /\ HdrUse /\ HdrStage
    BY DEF HdrInv
<1>2. ret[u] \in Hdrs /\ user[ret[u]] = 1 /\ prev[ret[u]] = NoHdr
    BY <1>1 DEF HdrUse, HdrStage, Knows
<1>3. user[ret[u]] > 0
    BY <1>2
<1>4. ret[u] \notin avail /\ ret[u] <= nmap
    BY <1>1, <1>2, <1>3 DEF HdrUse
<1>5. ret[u] # h
    <2>1. nmap \in Int /\ h \in Int
        BY <1>1 DEF HdrTypeOK, Hdrs
    <2>2. QED
        BY <1>2, <1>4, <2>1 DEF Gettable
<1>6. QED
    BY <1>2, <1>5

LEMMA OrderGetRead ==
    ASSUME HdrInv, NEW t \in HdrThreads, GetRead(t)
    PROVE  HdrStage' /\ HdrOrder'
<1>0. HdrTypeOK /\ HdrStage /\ HdrOrder /\ HdrUse
    BY DEF HdrInv
<1>1. hpc[t] = "get_read" /\ hpc[t] \in HdrInside
    BY DEF GetRead, HdrInside
<1>2. UNCHANGED <<hdrq, next, prev, nmap, avail, user, first>>
    BY DEF GetRead
<1>3. Ordered(next, prev, hdrq, avail)
    BY <1>0, <1>1, HdrAlone DEF HdrOrder, Writing, HdrInside
<1>4. hdrq # NoHdr => Gettable(hdrq)
    BY <1>0, <1>3 DEF Ordered, Gettable, HdrTypeOK, HdrUse, HdrPtrs, Hdrs
<1>5. \A u \in HdrThreads \ {t} : Knows(u)'
    BY <1>1, <1>2, OthersKnow DEF HdrInv, HdrStage, Knows
<1>6. /\ ret'[t] = hdrq
      /\ hdrq = NoHdr => hpc'[t] = "get_map"
      /\ hdrq # NoHdr => hpc'[t] = "get_unlink"
    BY <1>0 DEF GetRead, HdrGoto, HdrTypeOK
<1>7. Knows(t)'
    BY <1>2, <1>4, <1>6 DEF Knows, Gettable, Putting
<1>8. QED
    BY <1>2, <1>3, <1>5, <1>7 DEF HdrStage, HdrOrder

LEMMA OrderGetMap ==
    ASSUME HdrInv, NEW t \in HdrThreads, GetMap(t)
    PROVE  HdrStage' /\ HdrOrder'
<1>0. HdrTypeOK /\ HdrStage /\ HdrOrder /\ HdrUse
    BY DEF HdrInv
<1>1. hpc[t] = "get_map" /\ hpc[t] \in HdrInside
    BY DEF GetMap, HdrInside
<1>2. UNCHANGED <<hdrq, avail, user>>
    BY DEF GetMap
<1>3. Ordered(next, prev, hdrq, avail) /\ hdrq = NoHdr /\ ret[t] = NoHdr
    BY <1>0, <1>1, HdrAlone DEF HdrOrder, HdrStage, Knows, Writing, HdrInside
<1>4. CASE UNCHANGED <<nmap, ret, next, prev>> /\ first' = [first EXCEPT ![t] = NoHdr]
           /\ hpc' = [hpc EXCEPT ![t] = "get_write"]
    <2>1. \A u \in HdrThreads \ {t} : Knows(u)'
        BY <1>1, <1>4, OthersKnow DEF HdrInv, HdrStage, Knows
    <2>2. hpc'[t] = "get_write" /\ first'[t] = NoHdr /\ ret'[t] = NoHdr
        BY <1>0, <1>3, <1>4 DEF HdrTypeOK
    <2>3. avail \ {NoHdr} = avail
        BY <1>0 DEF HdrTypeOK, Hdrs, NoHdr
    <2>4. Knows(t)'
        BY <1>2, <1>3, <1>4, <2>2, <2>3 DEF Knows, Putting
    <2>5. QED
        BY <2>1, <2>2, <2>4 DEF HdrStage, HdrOrder, Writing
<1>5. CASE nmap + NBufs <= NHdrs /\ nmap' = nmap + NBufs /\ ret' = [ret EXCEPT ![t] = nmap + 1]
           /\ next' = RegionNext(nmap) /\ prev' = RegionPrev(nmap) /\ UNCHANGED first
           /\ hpc' = [hpc EXCEPT ![t] = "get_unlink"]
    <2>1. \A h \in Hdrs : h <= nmap => next'[h] = next[h] /\ prev'[h] = prev[h]
        BY <1>0, <1>5, HdrAssumption DEF RegionNext, RegionPrev, Hdrs, HdrTypeOK
    <2>2. nmap + 1 \in Hdrs /\ nmap + 1 <= nmap' /\ next'[nmap + 1] = NoHdr
        BY <1>0, <1>5, HdrAssumption DEF RegionNext, Hdrs, HdrTypeOK
    <2>3. nmap + 1 \notin avail /\ user[nmap + 1] = 0
        <3>1. \A h \in avail : h <= nmap
            BY <1>0 DEF HdrUse
        <3>2. nmap \in Nat
            BY <1>0, HdrAssumption DEF HdrTypeOK
        <3>3. nmap + 1 \notin avail
            BY <3>1, <3>2
        <3>4. ~ (user[nmap + 1] > 0)
            BY <1>0, <2>2, <3>2 DEF HdrUse
        <3>5. QED
            BY <1>0, <2>2, <3>3, <3>4 DEF HdrTypeOK
    <2>4. Ordered(next', prev', hdrq, avail)
        <3>1. \A h \in avail : next'[h] = next[h] /\ prev'[h] = prev[h]
            BY <1>0, <2>1 DEF HdrUse, HdrTypeOK
        <3>2. QED
            BY <1>3, <3>1, OrderedSame
    <2>5. hpc'[t] = "get_unlink" /\ ret'[t] = nmap + 1
        BY <1>0, <1>5 DEF HdrTypeOK
    <2>6. ASSUME NEW u \in HdrThreads \ {t}, Putting(u) PROVE prev'[ret[u]] = NoHdr
        <3>1. ret[u] \in Hdrs /\ user[ret[u]] = 1 /\ prev[ret[u]] = NoHdr
            BY <1>0, <2>6 DEF HdrUse, HdrStage, Knows
        <3>2. ret[u] <= nmap
            <4>1. user[ret[u]] > 0
                BY <3>1
            <4>2. QED
                BY <1>0, <3>1, <4>1 DEF HdrUse
        <3>3. QED
            BY <2>1, <3>1, <3>2
    <2>7. \A u \in HdrThreads \ {t} : Knows(u)'
        BY <1>1, <2>6, OthersKnow
    <2>8. Knows(t)'
        BY <1>2, <1>3, <2>2, <2>3, <2>5 DEF Knows, Gettable, Putting
    <2>9. QED
        BY <1>2, <2>4, <2>7, <2>8 DEF HdrStage, HdrOrder
<1>6. QED
    BY <1>4, <1>5 DEF GetMap, HdrGoto

LEMMA OrderGetUnlink ==
    ASSUME HdrInv, NEW t \in HdrThreads, GetUnlink(t)
    PROVE  HdrStage' /\ HdrOrder'
<1>0. HdrTypeOK /\ HdrStage /\ HdrOrder /\ HdrUse
    BY DEF HdrInv
<1>1. hpc[t] = "get_unlink" /\ hpc[t] \in HdrInside
    BY DEF GetUnlink, HdrInside
<1>2. UNCHANGED <<hdrq, next, nmap, avail, user, ret>>
    BY DEF GetUnlink
<1>3. Ordered(next, prev, hdrq, avail)
    BY <1>0, <1>1, HdrAlone DEF HdrOrder, Writing, HdrInside
<1>4. /\ Gettable(ret[t])
      /\ ret[t] = hdrq \/ (hdrq = NoHdr /\ ret[t] \notin avail /\ next[ret[t]] = NoHdr)
    BY <1>0, <1>1 DEF HdrStage, Knows
<1>5. /\ hpc'[t] = "get_write" /\ first'[t] = next[ret[t]]
      /\ prev' = IF next[ret[t]] = NoHdr THEN prev ELSE [prev EXCEPT ![next[ret[t]]] = NoHdr]
    BY <1>0 DEF GetUnlink, HdrGoto, HdrTypeOK
<1>6. Ordered(next, prev', next[ret[t]], avail \ {ret[t]})
    <2>1. CASE ret[t] = hdrq
        BY <1>0, <1>3, <1>4, <1>5, <2>1, OrderedUnlink DEF Gettable, HdrTypeOK
    <2>2. CASE hdrq = NoHdr /\ ret[t] \notin avail /\ next[ret[t]] = NoHdr
        <3>1. avail \ {ret[t]} = avail
            BY <2>2
        <3>2. QED
            BY <1>3, <1>5, <2>2, <3>1
    <2>3. QED
        BY <1>4, <2>1, <2>2
<1>7. ASSUME NEW u \in HdrThreads \ {t}, Putting(u) PROVE prev'[ret[u]] = NoHdr
    <2>1. ret[u] \in Hdrs /\ prev[ret[u]] = NoHdr
        BY <1>4, <1>7, NotPut DEF Gettable
    <2>2. QED
        BY <1>0, <1>5, <2>1 DEF HdrTypeOK
<1>8. \A u \in HdrThreads \ {t} : Knows(u)'
    BY <1>1, <1>7, OthersKnow
<1>9. Knows(t)'
    BY <1>2, <1>4, <1>5, <1>6 DEF Knows, Gettable, Putting
<1>10. QED
    BY <1>5, <1>8, <1>9 DEF HdrStage, HdrOrder, Writing

LEMMA OrderPutLink ==
    ASSUME HdrInv, NEW t \in HdrThreads, PutLink(t)
    PROVE  HdrStage' /\ HdrOrder'
<1>0. HdrTypeOK /\ HdrStage /\ HdrOrder /\ HdrUse
    BY DEF HdrInv
<1>1. hpc[t] = "put_link" /\ hpc[t] \in HdrInside /\ Putting(t)
    BY DEF PutLink, HdrInside, Putting
<1>2. UNCHANGED <<hdrq, nmap, avail, user, ret>>
    BY DEF PutLink
<1>3. Ordered(next, prev, hdrq, avail)
    BY <1>0, <1>1, HdrAlone DEF HdrOrder, Writing, HdrInside
<1>4. ret[t] \in Hdrs /\ ret[t] \notin avail /\ prev[ret[t]] = NoHdr
    <2>1. user[ret[t]] = 1 /\ ret[t] \in Hdrs /\ prev[ret[t]] = NoHdr
        BY <1>0, <1>1 DEF HdrUse, HdrStage, Knows
    <2>2. user[ret[t]] > 0
        BY <2>1
    <2>3. QED
        BY <1>0, <2>1, <2>2 DEF HdrUse
<1>5. /\ hpc'[t] = "put_write" /\ next' = [next EXCEPT ![ret[t]] = hdrq]
      /\ prev' = IF hdrq = NoHdr THEN prev ELSE [prev EXCEPT ![hdrq] = ret[t]]
    BY <1>0 DEF PutLink, HdrGoto, HdrTypeOK
<1>6. Ordered(next', prev', ret[t], avail \cup {ret[t]})
    BY <1>0, <1>3, <1>4, <1>5, OrderedPush DEF HdrTypeOK
<1>7. hdrq # NoHdr => hdrq \in avail /\ hdrq \in Hdrs
    BY <1>0, <1>3 DEF Ordered, HdrTypeOK
<1>8. ASSUME NEW u \in HdrThreads, Putting(u) PROVE prev'[ret[u]] = NoHdr
    <2>1. ret[u] \in Hdrs /\ prev[ret[u]] = NoHdr
        BY <1>0, <1>8 DEF HdrUse, HdrStage, Knows
    <2>2. hdrq # NoHdr => ret[u] # hdrq
        BY <1>7, <1>8, NotPut
    <2>3. QED
        BY <1>0, <1>5, <2>1, <2>2 DEF HdrTypeOK
<1>9. \A u \in HdrThreads \ {t} : Knows(u)'
    BY <1>1, <1>8, OthersKnow
<1>10. Knows(t)'
    BY <1>1, <1>2, <1>5, <1>6, <1>8 DEF Knows, Putting
<1>11. QED
    BY <1>5, <1>9, <1>10 DEF HdrStage, HdrOrder, Writing

\* The store of the head makes the list what the writer knows it will be.
LEMMA OrderGetWrite ==
    ASSUME HdrInv, NEW t \in HdrThreads, GetWrite(t)
    PROVE  HdrStage' /\ HdrOrder'
<1>0. HdrTypeOK /\ HdrStage /\ HdrOrder /\ HdrUse
    BY DEF HdrInv
<1>1. hpc[t] = "get_write" /\ hpc[t] \in HdrInside
    BY DEF GetWrite, HdrInside
<1>2. UNCHANGED <<next, prev>> /\ hdrq' = first[t]
    BY DEF GetWrite
<1>3. Ordered(next, prev, first[t], avail \ {ret[t]})
    BY <1>0, <1>1 DEF HdrStage, Knows
<1>4. avail' = avail \ {ret[t]}
    BY <1>0 DEF GetWrite, HdrTypeOK, Hdrs, NoHdr
<1>5. HdrOrder'
    BY <1>2, <1>3, <1>4 DEF HdrOrder
<1>6. \A u \in HdrThreads \ {t} : Knows(u)'
    BY <1>1, <1>2, OthersKnow DEF HdrInv, HdrStage, Knows
<1>7. hpc'[t] \in {"idle", "get_spin"} /\ ret'[t] = NoHdr
    BY <1>0 DEF GetWrite, HdrReturn, HdrGoto, HdrTypeOK
<1>8. Knows(t)'
    BY <1>7 DEF Knows, Putting
<1>9. QED
    BY <1>5, <1>6, <1>8 DEF HdrStage

LEMMA OrderPutWrite ==
    ASSUME HdrInv, NEW t \in HdrThreads, PutWrite(t)
    PROVE  HdrStage' /\ HdrOrder'
<1>0. HdrTypeOK /\ HdrStage /\ HdrOrder /\ HdrUse
    BY DEF HdrInv
<1>1. hpc[t] = "put_write" /\ hpc[t] \in HdrInside
    BY DEF PutWrite, HdrInside
<1>2. UNCHANGED <<next, prev>> /\ hdrq' = ret[t] /\ avail' = avail \cup {ret[t]}
    BY DEF PutWrite
<1>3. Ordered(next, prev, ret[t], avail \cup {ret[t]})
    BY <1>0, <1>1 DEF HdrStage, Knows
<1>4. HdrOrder'
    BY <1>2, <1>3 DEF HdrOrder
<1>5. \A u \in HdrThreads \ {t} : Knows(u)'
    BY <1>1, <1>2, OthersKnow DEF HdrInv, HdrStage, Knows
<1>6. hpc'[t] = "idle" /\ ret'[t] = NoHdr
    BY <1>0 DEF PutWrite, HdrReturn, HdrGoto, HdrTypeOK
<1>7. Knows(t)'
    BY <1>6 DEF Knows, Putting
<1>8. QED
    BY <1>4, <1>5, <1>7 DEF HdrStage

LEMMA HdrInvNext == HdrInv /\ [HdrNext]_hdrvars => HdrInv'
<1> SUFFICES ASSUME HdrInv, [HdrNext]_hdrvars PROVE HdrInv'
    OBVIOUS
<1>1. HdrTypeOK' /\ HdrLock' /\ HdrUse'
    BY HdrTypeNext, HdrLockNext, HdrUseNext
<1>2. HdrStage' /\ HdrOrder'
    <2>1. CASE UNCHANGED hdrvars
        BY <2>1 DEF HdrInv, HdrStage, HdrOrder, Knows, Putting, Gettable, hdrvars
    <2>2. CASE HdrNext
        BY <2>2, OrderSpin, OrderCallPut, OrderGetRead, OrderGetMap, OrderGetUnlink, OrderGetWrite,
           OrderPutLink, OrderPutWrite DEF HdrNext, HdrContinue
    <2>3. QED
        BY <2>1, <2>2
<1>3. QED
    BY <1>1, <1>2 DEF HdrInv

\* The inductive invariant, for every number of threads and headers.
THEOREM HdrInvariant == HdrSpec => []HdrInv
<1>1. QED
    BY HdrInvInit, HdrInvNext, PTL DEF HdrSpec

\* Every variable of the list and of memgetbuf and memputbuf has its type.
THEOREM HdrTypeCorrect == HdrSpec => []HdrTypeOK
<1>1. HdrInv => HdrTypeOK
    BY DEF HdrInv
<1>2. QED
    BY <1>1, HdrInvariant, PTL

\* One thread at a time is between m_cmpsetbit and m_atomwrite.
THEOREM HdrOneInside ==
    HdrSpec => [](\A t, u \in HdrThreads : hpc[t] \in HdrInside /\ hpc[u] \in HdrInside => t = u)
<1>1. HdrInv => \A t, u \in HdrThreads : hpc[t] \in HdrInside /\ hpc[u] \in HdrInside => t = u
    BY DEF HdrInv, HdrLock
<1>2. QED
    BY <1>1, HdrInvariant, PTL

\* While the bit is clear the headers that were put back and not handed out since
\* are all in the list, linked both ways (memgetbuf, memputbuf).
THEOREM HdrInOrder == HdrSpec => []HdrLinks
<1>1. HdrInv => HdrLinks
    BY DEF HdrInv, HdrLock, HdrOrder, Writing, HdrInside, HdrLinks
<1>2. QED
    BY <1>1, HdrInvariant, PTL

\* The list with its users is a pool of headers: memgetbuf hands out a header
\* of the list or a new one, memputbuf takes back a header with one user.
THEOREM HdrRefinement == HdrSpec => HdrIsPool
<1>1. HdrInit => HdrAbs!Init
    BY DEF HdrInit, HdrAbs!Init
<1>2. HdrInv /\ [HdrNext]_hdrvars => [HdrAbs!Next]_(HdrAbs!vars)
    <2> SUFFICES ASSUME HdrInv, [HdrNext]_hdrvars PROVE [HdrAbs!Next]_(HdrAbs!vars)
        OBVIOUS
    <2>0. HdrTypeOK /\ HdrStage /\ HdrUse
        BY DEF HdrInv
    <2>1. CASE UNCHANGED hdrvars
        BY <2>1 DEF hdrvars, HdrAbs!vars
    <2>2. ASSUME NEW t \in HdrThreads,
                 CallGet(t) \/ CallPut(t) \/ SpinBit(t) \/ SetBit(t) \/ GetRead(t) \/ GetMap(t)
                 \/ GetUnlink(t) \/ PutLink(t)
          PROVE  UNCHANGED HdrAbs!vars
        BY <2>2 DEF CallGet, CallPut, SpinBit, SetBit, GetRead, GetMap, GetUnlink, PutLink, HdrAbs!vars
    <2>3. ASSUME NEW t \in HdrThreads, GetWrite(t) PROVE [HdrAbs!Next]_(HdrAbs!vars)
        <3>1. CASE ret[t] = NoHdr
            BY <2>3, <3>1 DEF GetWrite, HdrAbs!vars
        <3>2. CASE ret[t] # NoHdr
            <4>1. ret[t] \in Hdrs /\ user[ret[t]] = 0
                BY <2>0, <2>3, <3>2 DEF GetWrite, HdrStage, Knows, Gettable
            <4>2. user' = [user EXCEPT ![ret[t]] = @ + 1] /\ avail' = avail \ {ret[t]}
                BY <2>3, <3>2 DEF GetWrite
            <4>3. user' = [user EXCEPT ![ret[t]] = 1]
                BY <2>0, <4>1, <4>2 DEF HdrTypeOK
            <4>4. CASE ret[t] \in avail
                BY <4>1, <4>2, <4>3, <4>4 DEF HdrAbs!Next, HdrAbs!Take
            <4>5. CASE ret[t] \notin avail
                <5>1. avail' = avail
                    BY <4>2, <4>5
                <5>2. HdrAbs!Make(ret[t])
                    BY <4>1, <4>3, <4>5, <5>1 DEF HdrAbs!Make, HdrAbs!New
                <5>3. QED
                    BY <4>1, <5>2 DEF HdrAbs!Next
            <4>6. QED
                BY <4>4, <4>5
        <3>3. QED
            BY <3>1, <3>2
    <2>4. ASSUME NEW t \in HdrThreads, PutWrite(t) PROVE [HdrAbs!Next]_(HdrAbs!vars)
        <3>1. ret[t] \in Hdrs /\ user[ret[t]] = 1
            BY <2>0, <2>4 DEF PutWrite, HdrUse, Putting
        <3>2. HdrAbs!Give(ret[t])
            BY <2>0, <2>4, <3>1 DEF PutWrite, HdrTypeOK, HdrAbs!Give
        <3>3. QED
            BY <3>1, <3>2 DEF HdrAbs!Next
    <2>5. QED
        BY <2>1, <2>2, <2>3, <2>4 DEF HdrNext, HdrContinue
<1>3. QED
    BY <1>1, <1>2, HdrInvariant, PTL DEF HdrSpec, HdrIsPool, HdrAbs!Spec

----------------------------------------------------------------------------

\* A set with no two members has at most one.
LEMMA AtMostOne ==
    ASSUME NEW S, \A x, y \in S : x = y
    PROVE  /\ IsFiniteSet(S) /\ Cardinality(S) \in {0, 1}
           /\ Cardinality(S) = IF S = {} THEN 0 ELSE 1
<1>1. CASE S = {}
    BY <1>1, FS_EmptySet
<1>2. CASE S # {}
    <2>1. PICK x \in S : TRUE
        BY <1>2
    <2>2. S = {x}
        BY <2>1
    <2>3. QED
        BY <2>2, FS_Singleton
<1>3. QED
    BY <1>1, <1>2
---------------------------------------------------------------------------
(* The recursive mutex (mttryrecfmtx, mtlkrecfmtx, mtunlkrecfmtx).         *)

\* A call leaves room for the depth it may add.
RecRoom == \A t \in RecThreads : recpc[t] # "idle" => depth[t] < MaxDepth

\* While nobody nests, one thread has the mutex once and the word is not free, or
\* nobody has it and the word is; a thread that is named has it.
RecFlat ==
    ~nested =>
        /\ \A t \in RecThreads : depth[t] <= 1
        /\ \A t, u \in RecThreads : depth[t] > 0 /\ depth[u] > 0 => t = u
        /\ word = INITVAL <=> \A t \in RecThreads : depth[t] = 0
        /\ \A t \in RecThreads : word = t => depth[t] > 0

RecInv == RecTypeOK /\ RecRoom /\ RecFlat

\* An identity is no value of a fast mutex.
LEMMA RecNames == \A t \in RecThreads : t # 0 /\ t # 1
BY RecAssumption DEF INITVAL, LKVAL

LEMMA RecInvInit == RecInit => RecInv
<1> SUFFICES ASSUME RecInit PROVE RecInv
    OBVIOUS
<1>1. RecTypeOK
    <2>1. MaxDepth \in Nat
        BY RecAssumption
    <2>2. nested \in BOOLEAN /\ word \in {INITVAL, LKVAL} \cup RecThreads
        BY DEF RecInit
    <2>3. recpc \in [RecThreads -> RecPoints] /\ depth \in [RecThreads -> 0 .. MaxDepth]
        BY <2>1 DEF RecInit, RecPoints
    <2>4. QED
        BY <2>2, <2>3 DEF RecTypeOK
<1>2. RecRoom
    BY RecAssumption DEF RecInit, RecRoom
<1>3. RecFlat
    BY RecNames DEF RecInit, RecFlat, INITVAL
<1>4. QED
    BY <1>1, <1>2, <1>3 DEF RecInv

\* A call that returns with the mutex found the word free, and so nobody had it, or found
\* the thread's own name, and then it nests.
LEMMA RecTaken ==
    ASSUME RecInv, NEW t \in RecThreads, Taken(t), recpc[t] # "idle",
           NEW w \in {LKVAL, t}, \/ word = INITVAL /\ word' = w
                                 \/ word = t /\ word' = word
    PROVE  RecInv'
<1> USE RecAssumption, RecNames DEF RecInv, Taken, RecGoto, INITVAL, LKVAL
<1>1. RecTypeOK'
    BY DEF RecTypeOK, RecRoom, RecPoints
<1>2. RecRoom'
    BY DEF RecTypeOK, RecRoom
<1>3. RecFlat'
    <2>1. CASE word = INITVAL
        BY <2>1 DEF RecTypeOK, RecFlat
    <2>2. CASE word = t
        BY <2>2 DEF RecTypeOK, RecFlat
    <2>3. QED
        BY <2>1, <2>2
<1>4. QED
    BY <1>1, <1>2, <1>3

LEMMA RecInvNext == RecInv /\ [RecNext]_recvars => RecInv'
<1> SUFFICES ASSUME RecInv, [RecNext]_recvars
             PROVE  RecInv'
    OBVIOUS
<1> USE RecAssumption, RecNames
<1>1. ASSUME NEW t \in RecThreads,
             \/ CallTry(t) \/ CallLock(t) \/ RecTryTest(t) \/ Spin(t)
             \/ recpc[t] = "try_cas" /\ NotYet(t, "try_own") /\ UNCHANGED word
             \/ recpc[t] = "try_own" /\ NotYet(t, "idle") /\ UNCHANGED word
             \/ recpc[t] = "lk_cas" /\ NotYet(t, "lk_own") /\ UNCHANGED word
             \/ recpc[t] = "lk_own" /\ NotYet(t, "lk_spin") /\ UNCHANGED word
      PROVE  RecInv'
    BY <1>1 DEF CallTry, CallLock, RecTryTest, Spin, NotYet, RecGoto, RecInv, RecTypeOK, RecRoom, RecFlat,
       RecPoints
<1>2. ASSUME NEW t \in RecThreads, TrySwap(t) PROVE RecInv'
    BY <1>1, <1>2, RecTaken DEF TrySwap, Swap
<1>3. ASSUME NEW t \in RecThreads, TryOwn(t) PROVE RecInv'
    BY <1>1, <1>3, RecTaken DEF TryOwn
<1>4. ASSUME NEW t \in RecThreads, LockSwap(t) PROVE RecInv'
    BY <1>1, <1>4, RecTaken DEF LockSwap, Swap
<1>5. ASSUME NEW t \in RecThreads, LockOwn(t) PROVE RecInv'
    BY <1>1, <1>5, RecTaken DEF LockOwn
<1>6. ASSUME NEW t \in RecThreads, RecUnlock(t) PROVE RecInv'
    BY <1>6 DEF RecUnlock, RecInv, RecTypeOK, RecRoom, RecFlat, RecPoints, INITVAL, LKVAL
<1>7. CASE UNCHANGED recvars
    BY <1>7 DEF recvars, RecInv, RecTypeOK, RecRoom, RecFlat
<1>8. QED
    BY <1>1, <1>2, <1>3, <1>4, <1>5, <1>6, <1>7 DEF RecNext, RecContinue

LEMMA RecInvFlat == RecInv => FlatExclusion
<1> SUFFICES ASSUME RecInv, ~nested
             PROVE  /\ Cardinality(Holders) <= 1
                    /\ (word = INITVAL) = (Holders = {})
                    /\ word \in RecThreads => word \in Holders
    BY DEF FlatExclusion
<1>1. Cardinality(Holders) \in {0, 1}
    BY AtMostOne DEF Holders, RecInv, RecFlat
<1>2. (word = INITVAL) = (Holders = {})
    BY DEF Holders, RecInv, RecTypeOK, RecFlat
<1>3. word \in RecThreads => word \in Holders
    BY DEF Holders, RecInv, RecFlat
<1>4. QED
    BY <1>1, <1>2, <1>3

\* Until a thread nests it, one thread at most has a recursive mutex, and its word
\* says so (mttryrecfmtx, mtlkrecfmtx).
THEOREM RecSafe == RecSpec => []FlatExclusion
<1>1. QED
    BY RecInvInit, RecInvNext, RecInvFlat, PTL DEF RecSpec
---------------------------------------------------------------------------
(* The semaphore (mtwaitsem, semtrywait, sempost).                         *)

\* The points of mtwaitsem between its try-lock and its unlock.
Waiting == Waits \ {"wait_lk"}

\* The histories are numbers.
SemCounts == start \in Nat /\ taken \in Nat /\ posted \in Nat /\ clash \in BOOLEAN

\* What keeps the threads apart while nothing has clashed: who is in semtrywait or
\* sempost is alone, and one waiter at a time has the lock.
SemApart ==
    /\ \A t, u \in SemThreads : sempc[t] \in Tries \cup Posts /\ t # u => sempc[u] = "idle"
    /\ \A t, u \in SemThreads : sempc[t] \in Waiting /\ sempc[u] \in Waiting => t = u
    /\ \A t \in SemThreads : sempc[t] \in Waiting => lk = 1

\* What a test has read is still so, and every unit is accounted for at every step; a
\* lock that nobody is about to give back was left by a sempost of a full semaphore.
SemExact ==
    /\ \A t \in SemThreads :
          /\ sempc[t] \in {"wait_sub", "try_sub"} => read[t] = val /\ val > 0
          /\ sempc[t] = "post_add" => read[t] = val /\ val < SEM_MAXVAL
    /\ val + taken = start + posted
    /\ lk # 0 => val = SEM_MAXVAL \/ \E t \in SemThreads : sempc[t] \in Waiting \cup Tries \cup Posts

SemInv == SemTypeOK /\ SemCounts /\ (~clash => SemApart /\ SemExact)

LEMMA SemInvInit == SemInit => SemInv
<1> SUFFICES ASSUME SemInit PROVE SemInv
    OBVIOUS
<1>1. SemTypeOK /\ SemCounts
    <2>1. SEM_MAXVAL \in Nat /\ NCalls \in Nat
        BY SemAssumption
    <2>2. clash \in BOOLEAN
        BY DEF SemInit
    <2>3. SemTypeOK
        BY <2>1 DEF SemInit, SemTypeOK, Vals
    <2>4. start \in Nat /\ taken \in Nat /\ posted \in Nat
        BY <2>1 DEF SemInit, Vals
    <2>5. QED
        BY <2>2, <2>3, <2>4 DEF SemCounts
<1>2. SemApart
    BY DEF SemInit, SemApart, Waiting, Waits, Tries, Posts
<1>3. SemExact
    BY <1>1 DEF SemInit, SemExact, SemCounts
<1>4. QED
    BY <1>1, <1>2, <1>3 DEF SemInv

LEMMA SemTypeNext ==
    ASSUME SemTypeOK, SemCounts, [SemNext]_semvars
    PROVE  SemTypeOK' /\ SemCounts'
<1> USE SemAssumption DEF SemTypeOK, SemCounts, SemGoto, Counts, Vals, Waits, Tries, Posts
<1>1. ASSUME NEW t \in SemThreads, NEW entry \in {"wait_lk", "try_test", "post_lk"}, Call(t, entry)
      PROVE  SemTypeOK' /\ SemCounts'
    BY <1>1 DEF Call
<1>2. ASSUME NEW t \in SemThreads, WaitTest(t) \/ TryTest(t) \/ PostTest(t)
      PROVE  SemTypeOK' /\ SemCounts'
    BY <1>2 DEF WaitTest, TryTest, PostTest, SemTest
<1>3. ASSUME NEW t \in SemThreads, WaitTake(t) \/ TryTake(t) \/ PostGive(t)
      PROVE  SemTypeOK' /\ SemCounts'
    BY <1>3 DEF WaitTake, TryTake, PostGive, Take
<1>4. ASSUME NEW t \in SemThreads, WaitAgain(t) \/ WaitReturn(t) \/ TryReturn(t) \/ PostAgain(t) \/ PostReturn(t)
      PROVE  SemTypeOK' /\ SemCounts'
    BY <1>4 DEF WaitAgain, WaitReturn, TryReturn, PostAgain, PostReturn, SemUnlock, GiveLock
<1>5. ASSUME NEW t \in SemThreads, WaitLock(t) \/ PostTry(t) \/ PostGoOn(t)
      PROVE  SemTypeOK' /\ SemCounts'
    BY <1>5 DEF WaitLock, PostTry, PostGoOn, TakeLock
<1>6. CASE UNCHANGED semvars
    BY <1>6 DEF semvars
<1>7. QED
    BY <1>1, <1>2, <1>3, <1>4, <1>5, <1>6 DEF SemNext, SemContinue

\* The same for what keeps the threads apart; only a call can clash.
LEMMA SemApartNext ==
    ASSUME SemTypeOK, ~clash => SemApart, [SemNext]_semvars, ~clash'
    PROVE  SemApart'
<1> USE SemAssumption DEF SemTypeOK, SemApart, SemGoto, Counts, Waiting, Waits, Tries, Posts
<1>1. ASSUME NEW t \in SemThreads, NEW entry \in {"wait_lk", "try_test", "post_lk"}, Call(t, entry)
      PROVE  SemApart'
    <2>1. ~clash /\ \A u \in SemThreads : sempc[u] # "idle" => entry = "wait_lk" /\ sempc[u] \in Waits
        BY <1>1, Zenon DEF Call
    <2>2. sempc' = [sempc EXCEPT ![t] = entry] /\ lk' = lk /\ sempc[t] = "idle"
        BY <1>1 DEF Call
    <2>3. SemApart
        BY <2>1
    <2>4. QED
        BY <2>1, <2>2, <2>3
<1>2. ASSUME NEW t \in SemThreads, WaitTest(t) \/ TryTest(t) \/ PostTest(t)
      PROVE  SemApart'
    BY <1>2 DEF WaitTest, TryTest, PostTest, SemTest
<1>3. ASSUME NEW t \in SemThreads, WaitTake(t) \/ TryTake(t) \/ PostGive(t)
      PROVE  SemApart'
    BY <1>3 DEF WaitTake, TryTake, PostGive, Take
<1>4. ASSUME NEW t \in SemThreads, WaitAgain(t) \/ WaitReturn(t) \/ TryReturn(t) \/ PostAgain(t) \/ PostReturn(t)
      PROVE  SemApart'
    BY <1>4 DEF WaitAgain, WaitReturn, TryReturn, PostAgain, PostReturn, SemUnlock, GiveLock
<1>5. ASSUME NEW t \in SemThreads, WaitLock(t) \/ PostTry(t) \/ PostGoOn(t)
      PROVE  SemApart'
    BY <1>5 DEF WaitLock, PostTry, PostGoOn, TakeLock
<1>6. CASE UNCHANGED semvars
    BY <1>6 DEF semvars
<1>7. QED
    BY <1>1, <1>2, <1>3, <1>4, <1>5, <1>6 DEF SemNext, SemContinue

\* The same for the units, with both.
LEMMA SemExactNext ==
    ASSUME SemInv, [SemNext]_semvars, ~clash'
    PROVE  SemExact'
<1> USE SemAssumption DEF SemTypeOK, SemCounts, SemGoto, Counts, Vals, Waiting, Waits, Tries, Posts
<1>0. SemTypeOK /\ SemCounts /\ SemApart /\ SemExact
    <2>1. ~clash
        BY DEF SemInv, SemNext, SemContinue, Call, WaitTest, TryTest, PostTest, SemTest, WaitTake, TryTake, PostGive,
           Take, WaitAgain, WaitReturn, TryReturn, PostAgain, PostReturn, SemUnlock, WaitLock, PostTry, PostGoOn, semvars
    <2>2. QED
        BY <2>1 DEF SemInv
<1>1. ASSUME NEW t \in SemThreads, NEW entry \in {"wait_lk", "try_test", "post_lk"}, Call(t, entry)
      PROVE  SemExact'
    BY <1>0, <1>1 DEF SemExact, SemApart, Call
<1>2. ASSUME NEW t \in SemThreads, WaitTest(t) \/ TryTest(t) \/ PostTest(t)
      PROVE  SemExact'
    BY <1>0, <1>2 DEF SemExact, SemApart, WaitTest, TryTest, PostTest, SemTest
<1>3. ASSUME NEW t \in SemThreads, WaitTake(t) \/ TryTake(t) \/ PostGive(t)
      PROVE  SemExact'
    BY <1>0, <1>3 DEF SemExact, SemApart, WaitTake, TryTake, PostGive, Take
<1>4. ASSUME NEW t \in SemThreads, WaitAgain(t) \/ WaitReturn(t) \/ TryReturn(t) \/ PostAgain(t) \/ PostReturn(t)
      PROVE  SemExact'
    BY <1>0, <1>4 DEF SemExact, WaitAgain, WaitReturn, TryReturn, PostAgain, PostReturn, SemUnlock, GiveLock
<1>5. ASSUME NEW t \in SemThreads, WaitLock(t) \/ PostTry(t) \/ PostGoOn(t)
      PROVE  SemExact'
    BY <1>0, <1>5 DEF SemExact, WaitLock, PostTry, PostGoOn, TakeLock
<1>6. CASE UNCHANGED semvars
    BY <1>0, <1>6 DEF SemExact, semvars
<1>7. QED
    BY <1>1, <1>2, <1>3, <1>4, <1>5, <1>6 DEF SemNext, SemContinue

LEMMA SemInvNext == SemInv /\ [SemNext]_semvars => SemInv'
BY SemTypeNext, SemApartNext, SemExactNext DEF SemInv

LEMMA SemInvHolds == SemInv => UnitsKept /\ LockReturned
BY DEF SemInv, SemTypeOK, SemExact, UnitsKept, LockReturned, Waiting, Waits, Tries, Posts

\* No unit of a semaphore is lost or taken twice, and its lock comes back, as long
\* as semtrywait and sempost overlap no other call (mtwaitsem, sempost).
THEOREM SemSafe == SemSpec => [](UnitsKept /\ LockReturned)
<1>1. QED
    BY SemInvInit, SemInvNext, SemInvHolds, PTL DEF SemSpec
---------------------------------------------------------------------------
(* The generator and its mutex (srandmt64, randmt64).                      *)

\* Where each thread is, apart from the counting.
RandPlaces ==
    /\ randpc \in [RandThreads -> RandPoints \cup {"idle"}]
    /\ back \in [RandThreads -> {"caller", "rand_fill", "tab_out"}]
    /\ \A t \in RandThreads : back[t] # "caller" => randpc[t] \in SeedPoints
    /\ calls \in 0 .. NRand
    /\ seeded \in BOOLEAN /\ settled \in BOOLEAN /\ overlap \in BOOLEAN

Within(t) == randpc[t] \in Inside
Nesting(t) == back[t] # "caller"

\* Who owns the mutex is in one of the functions that took it, and in two of them if
\* it has been counted twice; once it has been made, it is recursive.
RandMutex ==
    /\ init \in {0, 1} /\ initmtx \in BOOLEAN /\ kind \in {"normal", "recursive"}
    /\ owner \in RandThreads \cup {Nobody}
    /\ count \in {0, 1, 2} /\ (owner = Nobody <=> count = 0)
    /\ \A t \in RandThreads :
          owner = t => (Within(t) \/ Nesting(t)) /\ (count = 2 => Within(t) /\ Nesting(t))
    /\ init = 1 => kind = "recursive"

\* From the quiet moment on nobody is about to make the mutex, and whoever is in one of
\* the functions that took it owns it, as often as it is.
Sure(t) ==
    /\ randpc[t] \notin DOMAIN Made
    /\ Within(t) \/ Nesting(t) => owner = t
    /\ Within(t) /\ Nesting(t) => count = 2
RandSettled == settled => init = 1 /\ \A t \in RandThreads : Sure(t)

\* Before it, if calls have not overlapped, there is one at most.
RandAlone == ~settled /\ ~overlap => \A t, u \in RandThreads : ~Idle(t) /\ ~Idle(u) => t = u

\* Who refills or reads comes after a seed; nothing is behind the words but the
\* value from before the first.
RandSeeded ==
    /\ \A t \in RandThreads :
          randpc[t] \in {"seed_out", "tab_out", "rand_fill", "rand_read", "rand_write"} => seeded
    /\ ~seeded => curndx = NSTATE + 1

RandExact ==
    ~overlap =>
        /\ seeded => curndx <= NSTATE
        /\ \A t \in RandThreads :
              /\ randpc[t] = "rand_read" => curndx < NSTATE
              /\ randpc[t] = "rand_write" => cur[t] < NSTATE

\* The calls of randmt64 that have not written the index.
Owing == {t \in RandThreads :
             \/ back[t] = "rand_fill"
             \/ randpc[t] \in {"rand_init", "rand_make", "rand_lk", "rand_test", "rand_fill", "rand_read", "rand_write"}}
Written == calls - Cardinality(Owing)

\* Each call writes an index that is one more than some index there was.
RandCounted ==
    /\ Written \in Nat
    /\ curndx \in Nat /\ (seeded => curndx <= NSTATE + Written)
    /\ cur \in [RandThreads -> Nat] /\ \A t \in RandThreads : cur[t] <= NSTATE + Written

RandInv ==
    /\ RandPlaces /\ RandMutex /\ RandSettled /\ RandAlone /\ RandSeeded /\ RandExact /\ RandCounted

LEMMA RandInvInit == RandInit => RandInv
<1> SUFFICES ASSUME RandInit PROVE RandInv
    OBVIOUS
<1> USE RandAssumption DEF RandInit
<1>1. RandPlaces
    <2>1. seeded \in BOOLEAN /\ settled \in BOOLEAN /\ overlap \in BOOLEAN
        OBVIOUS
    <2>2. randpc \in [RandThreads -> RandPoints \cup {"idle"}] /\ calls \in 0 .. NRand
        OBVIOUS
    <2>3. back \in [RandThreads -> {"caller", "rand_fill", "tab_out"}] /\ \A t \in RandThreads : back[t] = "caller"
        OBVIOUS
    <2>4. QED
        BY <2>1, <2>2, <2>3 DEF RandPlaces
<1>2. RandMutex
    <2>1. initmtx \in BOOLEAN
        OBVIOUS
    <2>2. QED
        BY <2>1 DEF RandMutex
<1>3. RandSettled /\ RandAlone /\ RandSeeded /\ RandExact
    BY DEF RandSettled, RandAlone, RandSeeded, RandExact, Idle
<1>4. RandCounted
    <2>1. Owing = {}
        BY DEF Owing
    <2>2. Cardinality(Owing) = 0
        BY <2>1, FS_EmptySet
    <2>3. QED
        BY <2>2 DEF RandCounted, Written
<1>5. QED
    BY <1>1, <1>2, <1>3, <1>4 DEF RandInv

\* The functions that take the mutex, from where they take it.
RandLocks(t) ==
    LockTo(t, "seed_lk", "seed_fill") \/ LockTo(t, "tab_lk", "tab_seed") \/ LockTo(t, "rand_lk", "rand_test")
RandReturns3(t) == Return(t, "seed_out") \/ Return(t, "tab_out") \/ Return(t, "rand_out")

LEMMA RandPlacesNext ==
    ASSUME RandPlaces, [RandNext]_randvars
    PROVE  RandPlaces'
<1> USE RandAssumption DEF RandPlaces, RandPoints, Inside, SeedPoints, Locked, Making, Made, RandGoto, History
<1>1. ASSUME NEW t \in RandThreads, NEW entry \in {"rand_init", "seed_init", "tab_init"}, CallRand(t, entry)
      PROVE  RandPlaces'
    <2>1. calls' \in 0 .. NRand
        BY <1>1 DEF CallRand
    <2>2. overlap' \in BOOLEAN
        BY <1>1 DEF CallRand
    <2>3. QED
        BY <1>1, <2>1, <2>2 DEF CallRand, Idle
<1>2. ASSUME NEW t \in RandThreads, TryInit(t) PROVE RandPlaces'
    BY <1>2 DEF TryInit
<1>3. ASSUME NEW t \in RandThreads, MakeMutex(t) PROVE RandPlaces'
    BY <1>3 DEF MakeMutex
<1>4. ASSUME NEW t \in RandThreads, RandLocks(t) PROVE RandPlaces'
    BY <1>4 DEF RandLocks, LockTo
<1>5. ASSUME NEW t \in RandThreads, Seed(t) \/ TabSeed(t) \/ Test(t) PROVE RandPlaces'
    BY <1>5, ZenonT(40) DEF Seed, TabSeed, Test, Enter
<1>6. ASSUME NEW t \in RandThreads, Refill(t) \/ ReadIndex(t) \/ WriteIndex(t) PROVE RandPlaces'
    BY <1>6 DEF Refill, ReadIndex, WriteIndex
<1>7. ASSUME NEW t \in RandThreads, RandReturns3(t) PROVE RandPlaces'
    <2>1. settled' \in BOOLEAN
        BY <1>7 DEF RandReturns3, Return
    <2>2. QED
        BY <1>7, <2>1 DEF RandReturns3, Return
<1>8. CASE UNCHANGED randvars
    BY <1>8 DEF randvars
<1>9. QED
    BY <1>1, <1>2, <1>3, <1>4, <1>5, <1>6, <1>7, <1>8 DEF RandNext, RandContinue, RandLocks, RandReturns3

LEMMA RandMutexNext ==
    ASSUME RandPlaces, RandMutex, [RandNext]_randvars
    PROVE  RandMutex'
<1> USE RandAssumption DEF RandPlaces, RandMutex, Within, Nesting, RandPoints, Inside, SeedPoints, Locked, Making, Made,
        RandGoto, Mutexes
<1>1. ASSUME NEW t \in RandThreads, NEW entry \in {"rand_init", "seed_init", "tab_init"}, CallRand(t, entry)
      PROVE  RandMutex'
    BY <1>1 DEF CallRand, Idle
<1>2. ASSUME NEW t \in RandThreads, TryInit(t) PROVE RandMutex'
    <2>1. initmtx' \in BOOLEAN
        BY <1>2 DEF TryInit
    <2>2. QED
        BY <1>2, <2>1 DEF TryInit
<1>3. ASSUME NEW t \in RandThreads, MakeMutex(t) PROVE RandMutex'
    BY <1>3 DEF MakeMutex
<1>4. ASSUME NEW t \in RandThreads, RandLocks(t) PROVE RandMutex'
    BY <1>4 DEF RandLocks, LockTo, Lock, CanLock
<1>5. ASSUME NEW t \in RandThreads, Seed(t) \/ TabSeed(t) \/ Test(t) PROVE RandMutex'
    BY <1>5 DEF Seed, TabSeed, Test, Enter
<1>6. ASSUME NEW t \in RandThreads, Refill(t) \/ ReadIndex(t) \/ WriteIndex(t) PROVE RandMutex'
    BY <1>6 DEF Refill, ReadIndex, WriteIndex
<1>7. ASSUME NEW t \in RandThreads, RandReturns3(t) PROVE RandMutex'
    BY <1>7 DEF RandReturns3, Return, RandUnlock
<1>8. CASE UNCHANGED randvars
    BY <1>8 DEF randvars
<1>9. QED
    BY <1>1, <1>2, <1>3, <1>4, <1>5, <1>6, <1>7, <1>8 DEF RandNext, RandContinue, RandLocks, RandReturns3

LEMMA RandSettledNext ==
    ASSUME RandPlaces, RandMutex, RandSettled, [RandNext]_randvars
    PROVE  RandSettled'
<1>0. settled' => init' = 1
    BY RandAssumption DEF RandSettled, RandNext, RandContinue, CallRand, TryInit, MakeMutex, LockTo, Seed, TabSeed, Test,
       Refill, ReadIndex, WriteIndex, Return, Quiet, History, randvars
<1> SUFFICES ASSUME settled', NEW u \in RandThreads
             PROVE  Sure(u)'
    BY <1>0 DEF RandSettled
<1> USE RandAssumption DEF RandPlaces, Sure, Within, Nesting, RandPoints, Inside, SeedPoints, Locked,
        Making, Made, RandGoto, Mutexes, History
<1>a. settled => init = 1 /\ kind = "recursive" /\ \A v \in RandThreads : Sure(v)
    BY DEF RandSettled, RandMutex
<1>b. /\ owner \in RandThreads \cup {Nobody} /\ count \in {0, 1, 2} /\ (owner = Nobody <=> count = 0)
      /\ \A v \in RandThreads : owner = v /\ count = 2 => Within(v)
    BY DEF RandMutex
<1>1. ASSUME NEW t \in RandThreads, NEW entry \in {"rand_init", "seed_init", "tab_init"}, CallRand(t, entry)
      PROVE  Sure(u)'
    BY <1>a, <1>1 DEF CallRand, Idle
<1>2. ASSUME NEW t \in RandThreads, TryInit(t) PROVE Sure(u)'
    BY <1>a, <1>2 DEF TryInit
<1>3. ASSUME NEW t \in RandThreads, MakeMutex(t) PROVE Sure(u)'
    BY <1>a, <1>3 DEF MakeMutex
<1>4. ASSUME NEW t \in RandThreads, RandLocks(t) PROVE Sure(u)'
    <2>1. owner' = t /\ count' = count + 1 /\ (owner = Nobody \/ owner = t) /\ UNCHANGED <<back, init, settled>>
        BY <1>4 DEF RandLocks, LockTo, Lock, CanLock
    <2>2. /\ randpc[t] \in {"seed_lk", "tab_lk", "rand_lk"}
          /\ \E p \in {"seed_fill", "tab_seed", "rand_test"} : randpc' = [randpc EXCEPT ![t] = p]
        BY <1>4 DEF RandLocks, LockTo
    <2>3. CASE u = t
        BY <1>a, <1>b, <2>1, <2>2, <2>3
    <2>4. CASE u # t
        BY <1>a, <1>b, <2>1, <2>2, <2>4
    <2>5. QED
        BY <2>3, <2>4
<1>5. ASSUME NEW t \in RandThreads, Seed(t) PROVE Sure(u)'
    BY <1>a, <1>5 DEF Seed
<1>6. ASSUME NEW t \in RandThreads, TabSeed(t) PROVE Sure(u)'
    BY <1>a, <1>6 DEF TabSeed, Enter
<1>7. ASSUME NEW t \in RandThreads, Test(t) PROVE Sure(u)'
    BY <1>a, <1>7 DEF Test, Enter
<1>8. ASSUME NEW t \in RandThreads, Refill(t) \/ ReadIndex(t) \/ WriteIndex(t) PROVE Sure(u)'
    BY <1>a, <1>8 DEF Refill, ReadIndex, WriteIndex
<1>9. ASSUME NEW t \in RandThreads, RandReturns3(t) PROVE Sure(u)'
    <2>1. /\ randpc[t] \in {"seed_out", "tab_out", "rand_out"} /\ RandUnlock(t) /\ init' = init
          /\ randpc' = [randpc EXCEPT ![t] = IF back[t] = "caller" THEN "idle" ELSE back[t]]
          /\ back' = [back EXCEPT ![t] = "caller"]
          /\ settled \/ (back[t] = "caller" /\ Quiet(t))
        BY <1>9 DEF RandReturns3, Return
    <2>2. CASE settled
        <3>1. owner = t
            BY <1>a, <2>1, <2>2
        <3>2. count' = count - 1 /\ owner' = IF count = 1 THEN Nobody ELSE t
            BY <1>a, <2>1, <2>2, <3>1 DEF RandUnlock
        <3>3. CASE u = t
            BY <1>a, <1>b, <2>1, <2>2, <3>1, <3>2, <3>3
        <3>4. CASE u # t
            BY <1>a, <1>b, <2>1, <2>2, <3>1, <3>2, <3>4
        <3>5. QED
            BY <3>3, <3>4
    <2>3. CASE back[t] = "caller" /\ Quiet(t)
        BY <2>1, <2>3 DEF Quiet, Idle
    <2>4. QED
        BY <2>1, <2>2, <2>3
<1>10. CASE UNCHANGED randvars
    BY <1>a, <1>10 DEF randvars
<1>11. QED
    BY <1>1, <1>2, <1>3, <1>4, <1>5, <1>6, <1>7, <1>8, <1>9, <1>10 DEF RandNext, RandContinue, RandLocks, RandReturns3

LEMMA RandAloneNext ==
    ASSUME RandPlaces, RandAlone, [RandNext]_randvars
    PROVE  RandAlone'
<1> USE RandAssumption DEF RandPlaces, RandAlone, RandPoints, Inside, SeedPoints, Locked, Making, Made, RandGoto,
        Mutexes, History, Idle
<1>1. ASSUME NEW t \in RandThreads, NEW entry \in {"rand_init", "seed_init", "tab_init"}, CallRand(t, entry)
      PROVE  RandAlone'
    <2>1. settled' = settled /\ randpc' = [randpc EXCEPT ![t] = entry]
        BY <1>1 DEF CallRand
    <2>2. ~settled /\ ~overlap' => \A u \in RandThreads : Idle(u)
        BY <1>1, Zenon DEF CallRand
    <2>3. QED
        BY <2>1, <2>2
<1>2. ASSUME NEW t \in RandThreads, TryInit(t) PROVE RandAlone'
    BY <1>2 DEF TryInit
<1>3. ASSUME NEW t \in RandThreads, MakeMutex(t) PROVE RandAlone'
    BY <1>3 DEF MakeMutex
<1>4. ASSUME NEW t \in RandThreads, RandLocks(t) PROVE RandAlone'
    BY <1>4 DEF RandLocks, LockTo
<1>5. ASSUME NEW t \in RandThreads, Seed(t) \/ TabSeed(t) \/ Test(t) PROVE RandAlone'
    BY <1>5 DEF Seed, TabSeed, Test, Enter
<1>6. ASSUME NEW t \in RandThreads, Refill(t) \/ ReadIndex(t) \/ WriteIndex(t) PROVE RandAlone'
    BY <1>6 DEF Refill, ReadIndex, WriteIndex
<1>7. ASSUME NEW t \in RandThreads, RandReturns3(t) PROVE RandAlone'
    <2>1. ~settled' => ~settled
        BY <1>7 DEF RandReturns3, Return
    <2>2. QED
        BY <1>7, <2>1 DEF RandReturns3, Return
<1>8. CASE UNCHANGED randvars
    BY <1>8 DEF randvars
<1>9. QED
    BY <1>1, <1>2, <1>3, <1>4, <1>5, <1>6, <1>7, <1>8 DEF RandNext, RandContinue, RandLocks, RandReturns3

LEMMA RandSeededNext ==
    ASSUME RandPlaces, RandSeeded, [RandNext]_randvars
    PROVE  RandSeeded'
<1> USE RandAssumption DEF RandPlaces, RandSeeded, RandPoints, Inside, SeedPoints, Locked, Making, Made, RandGoto,
        Mutexes, History, State
<1>1. ASSUME NEW t \in RandThreads, NEW entry \in {"rand_init", "seed_init", "tab_init"}, CallRand(t, entry)
      PROVE  RandSeeded'
    BY <1>1 DEF CallRand, Idle
<1>2. ASSUME NEW t \in RandThreads, TryInit(t) PROVE RandSeeded'
    BY <1>2 DEF TryInit
<1>3. ASSUME NEW t \in RandThreads, MakeMutex(t) PROVE RandSeeded'
    BY <1>3 DEF MakeMutex
<1>4. ASSUME NEW t \in RandThreads, RandLocks(t) PROVE RandSeeded'
    BY <1>4 DEF RandLocks, LockTo
<1>5. ASSUME NEW t \in RandThreads, Seed(t) \/ TabSeed(t) \/ Test(t) PROVE RandSeeded'
    BY <1>5 DEF Seed, TabSeed, Test, Enter
<1>6. ASSUME NEW t \in RandThreads, Refill(t) \/ ReadIndex(t) \/ WriteIndex(t) PROVE RandSeeded'
    BY <1>6 DEF Refill, ReadIndex, WriteIndex
<1>7. ASSUME NEW t \in RandThreads, RandReturns3(t) PROVE RandSeeded'
    BY <1>7 DEF RandReturns3, Return
<1>8. CASE UNCHANGED randvars
    BY <1>8 DEF randvars
<1>9. QED
    BY <1>1, <1>2, <1>3, <1>4, <1>5, <1>6, <1>7, <1>8 DEF RandNext, RandContinue, RandLocks, RandReturns3

\* One thread at a time works, before the quiet moment and after it.
LEMMA OneWorks ==
    ASSUME RandPlaces, RandSettled, RandAlone, settled \/ ~overlap,
           NEW t \in RandThreads, NEW u \in RandThreads,
           Within(t) \/ Nesting(t), Within(u) \/ Nesting(u)
    PROVE  t = u
<1>1. CASE settled
    BY <1>1 DEF RandSettled, Sure
<1>2. CASE ~settled
    BY <1>2 DEF RandAlone, RandPlaces, Within, Nesting, Idle, Inside, SeedPoints
<1>3. QED
    BY <1>1, <1>2

LEMMA RandExactNext ==
    ASSUME RandPlaces, RandSettled, RandAlone, RandSeeded, RandCounted, RandExact, [RandNext]_randvars
    PROVE  RandExact'
<1> SUFFICES ASSUME ~overlap'
             PROVE  RandExact'
    BY DEF RandExact
<1>0. ~overlap
    BY DEF RandNext, RandContinue, CallRand, TryInit, MakeMutex, LockTo, Seed, TabSeed, Test, Refill, ReadIndex,
       WriteIndex, Return, History, randvars
<1>a. \A t, u \in RandThreads : Within(t) /\ Within(u) => t = u
    BY <1>0, OneWorks
<1> USE <1>0, <1>a, RandAssumption DEF RandPlaces, RandExact, Within, RandPoints, Inside, SeedPoints, Locked, Making,
        Made, RandGoto, Mutexes, History, State, RandCounted, RandSeeded
<1>1. ASSUME NEW t \in RandThreads, NEW entry \in {"rand_init", "seed_init", "tab_init"}, CallRand(t, entry)
      PROVE  RandExact'
    BY <1>1 DEF CallRand, Idle
<1>2. ASSUME NEW t \in RandThreads, TryInit(t) PROVE RandExact'
    BY <1>2 DEF TryInit
<1>3. ASSUME NEW t \in RandThreads, MakeMutex(t) PROVE RandExact'
    BY <1>3 DEF MakeMutex
<1>4. ASSUME NEW t \in RandThreads, RandLocks(t) PROVE RandExact'
    BY <1>4 DEF RandLocks, LockTo
<1>5. ASSUME NEW t \in RandThreads, Seed(t) \/ TabSeed(t) \/ Test(t) PROVE RandExact'
    BY <1>5 DEF Seed, TabSeed, Test, Enter
<1>6. ASSUME NEW t \in RandThreads, Refill(t) \/ ReadIndex(t) \/ WriteIndex(t) PROVE RandExact'
    BY <1>6 DEF Refill, ReadIndex, WriteIndex
<1>7. ASSUME NEW t \in RandThreads, RandReturns3(t) PROVE RandExact'
    BY <1>7 DEF RandReturns3, Return
<1>8. CASE UNCHANGED randvars
    BY <1>8 DEF randvars
<1>9. QED
    BY <1>1, <1>2, <1>3, <1>4, <1>5, <1>6, <1>7, <1>8 DEF RandNext, RandContinue, RandLocks, RandReturns3

LEMMA OwingFinite == IsFiniteSet(Owing) /\ Cardinality(Owing) \in Nat
<1>1. IsFiniteSet(Owing)
    BY RandAssumption, FS_Subset DEF Owing
<1>2. QED
    BY <1>1, FS_CardinalityType

\* A call of randmt64 begins to owe; the store of the index ends it; nothing else does.
LEMMA OwingNext ==
    ASSUME RandPlaces, NEW t \in RandThreads
    PROVE  /\ \A entry \in {"rand_init", "seed_init", "tab_init"} :
                 CallRand(t, entry) => t \notin Owing /\ (Owing' = Owing \/ Owing' = Owing \cup {t})
           /\ WriteIndex(t) => t \in Owing /\ Owing' = Owing \ {t}
           /\ TryInit(t) \/ MakeMutex(t) \/ RandLocks(t) \/ Seed(t) \/ TabSeed(t) \/ Test(t) \/ Refill(t)
              \/ ReadIndex(t) \/ RandReturns3(t) => Owing' = Owing
<1> USE DEF Owing, RandPlaces, RandPoints, Inside, SeedPoints, Locked, Making, Made, RandGoto
<1>1. ASSUME NEW entry \in {"rand_init", "seed_init", "tab_init"}, CallRand(t, entry)
      PROVE  t \notin Owing /\ (Owing' = Owing \/ Owing' = Owing \cup {t})
    <2>1. randpc[t] = "idle" /\ back[t] = "caller" /\ randpc' = [randpc EXCEPT ![t] = entry] /\ back' = back
        BY <1>1 DEF CallRand, Idle
    <2>2. CASE entry = "rand_init"
        BY <2>1, <2>2
    <2>3. CASE entry # "rand_init"
        BY <2>1, <2>3
    <2>4. QED
        BY <2>2, <2>3, <2>1
<1>2. WriteIndex(t) => t \in Owing /\ Owing' = Owing \ {t}
    BY DEF WriteIndex
<1>3. TryInit(t) => Owing' = Owing
    BY DEF TryInit
<1>4. MakeMutex(t) => Owing' = Owing
    BY DEF MakeMutex
<1>5. RandLocks(t) => Owing' = Owing
    BY DEF RandLocks, LockTo
<1>6. Seed(t) \/ TabSeed(t) \/ Test(t) => Owing' = Owing
    BY DEF Seed, TabSeed, Test, Enter
<1>7. Refill(t) \/ ReadIndex(t) => Owing' = Owing
    BY DEF Refill, ReadIndex
<1>8. RandReturns3(t) => Owing' = Owing
    BY DEF RandReturns3, Return
<1>9. QED
    BY <1>1, <1>2, <1>3, <1>4, <1>5, <1>6, <1>7, <1>8

LEMMA RandCountedNext ==
    ASSUME RandPlaces, RandSeeded, RandCounted, [RandNext]_randvars
    PROVE  RandCounted'
<1> USE RandAssumption DEF RandCounted
<1>0. calls \in Nat /\ Cardinality(Owing) \in Nat /\ IsFiniteSet(Owing) /\ Written = calls - Cardinality(Owing)
    BY OwingFinite DEF RandPlaces, Written
<1>1. ASSUME NEW t \in RandThreads, NEW entry \in {"rand_init", "seed_init", "tab_init"}, CallRand(t, entry)
      PROVE  RandCounted'
    <2>1. Cardinality(Owing)' = Cardinality(Owing) \/ Cardinality(Owing)' = Cardinality(Owing) + 1
        BY <1>0, <1>1, OwingNext, FS_AddElement
    <2>2. calls' = calls + 1 /\ UNCHANGED <<curndx, cur, seeded>>
        BY <1>1 DEF CallRand, State
    <2>3. Written' = Written \/ Written' = Written + 1
        BY <1>0, <2>1, <2>2 DEF Written
    <2>4. QED
        BY <2>2, <2>3
<1>2. ASSUME NEW t \in RandThreads, WriteIndex(t) PROVE RandCounted'
    <2>1. Cardinality(Owing)' = Cardinality(Owing) - 1
        BY <1>0, <1>2, OwingNext, FS_RemoveElement
    <2>2. calls' = calls /\ curndx' = cur[t] + 1 /\ UNCHANGED <<cur, seeded>>
        BY <1>2 DEF WriteIndex, History
    <2>3. Written' = Written + 1
        BY <1>0, <2>1, <2>2 DEF Written
    <2>4. cur[t] \in Nat /\ cur[t] <= NSTATE + Written
        OBVIOUS
    <2>5. seeded'
        BY <1>2, <2>2 DEF WriteIndex, RandSeeded
    <2>6. QED
        BY <2>2, <2>3, <2>4, <2>5
<1>3. ASSUME NEW t \in RandThreads,
             \/ TryInit(t) \/ MakeMutex(t) \/ RandLocks(t) \/ Seed(t) \/ TabSeed(t) \/ Test(t) \/ Refill(t)
             \/ ReadIndex(t) \/ RandReturns3(t)
      PROVE  RandCounted'
    <2>1. Owing' = Owing
        BY <1>3, OwingNext
    <2>2. calls' = calls
        BY <1>3 DEF TryInit, MakeMutex, RandLocks, LockTo, Seed, TabSeed, Test, Refill, ReadIndex, RandReturns3, Return,
           History
    <2>3. Written' = Written
        BY <2>1, <2>2 DEF Written
    <2>4. CASE Seed(t)
        BY <2>3, <2>4 DEF Seed
    <2>5. CASE Refill(t)
        BY <2>3, <2>5 DEF Refill, History
    <2>6. CASE ReadIndex(t)
        <3>1. seeded
            BY <2>6 DEF ReadIndex, RandSeeded
        <3>2. QED
            BY <2>3, <2>6, <3>1 DEF ReadIndex, History
    <2>7. CASE TryInit(t) \/ MakeMutex(t) \/ RandLocks(t) \/ TabSeed(t) \/ Test(t) \/ RandReturns3(t)
        <3>1. UNCHANGED <<curndx, cur, seeded>>
            BY <2>7 DEF TryInit, MakeMutex, RandLocks, LockTo, TabSeed, Test, RandReturns3, Return, State, History
        <3>2. QED
            BY <2>3, <3>1
    <2>8. QED
        BY <1>3, <2>4, <2>5, <2>6, <2>7
<1>4. CASE UNCHANGED randvars
    BY <1>4 DEF randvars, Written, Owing
<1>5. QED
    BY <1>1, <1>2, <1>3, <1>4 DEF RandNext, RandContinue, RandLocks, RandReturns3

LEMMA RandInvNext == RandInv /\ [RandNext]_randvars => RandInv'
BY RandPlacesNext, RandMutexNext, RandSettledNext, RandAloneNext, RandSeededNext, RandExactNext, RandCountedNext
   DEF RandInv

LEMMA RandInvType == RandInv => RandTypeOK
<1> SUFFICES ASSUME RandInv PROVE RandTypeOK
    OBVIOUS
<1> USE RandAssumption DEF RandInv
<1>1. Written <= NRand /\ Written \in Nat
    BY OwingFinite DEF Written, RandPlaces, RandCounted
<1>2. curndx \in 0 .. NSTATE + NRand
    BY <1>1 DEF RandCounted, RandSeeded
<1>3. cur \in [RandThreads -> 0 .. NSTATE + NRand]
    BY <1>1 DEF RandCounted
<1>4. count \in 0 .. 2 /\ (owner = Nobody) = (count = 0)
    BY DEF RandMutex
<1>5. QED
    BY <1>2, <1>3, <1>4 DEF RandTypeOK, RandPlaces, RandMutex

LEMMA RandInvSafe == RandInv => SettledExclusion /\ IndexInside
<1> SUFFICES ASSUME RandInv PROVE SettledExclusion /\ IndexInside
    OBVIOUS
<1> USE DEF RandInv
<1>1. settled => \A t, u \in Working : t = u
    BY OneWorks DEF Working, Within, Nesting
<1>2. SettledExclusion
    BY <1>1, AtMostOne DEF SettledExclusion
<1>3. IndexInside
    BY RandAssumption DEF IndexInside, RandExact, RandCounted
<1>4. QED
    BY <1>2, <1>3

\* One thread at a time works on the generator once its mutex has been made and a
\* quiet moment has come; and without overlapping calls before that moment no word
\* is read that is not there (_randmt64mtxinit, randmt64).
THEOREM RandSafe == RandSpec => [](SettledExclusion /\ IndexInside)
<1>1. QED
    BY RandInvInit, RandInvNext, RandInvSafe, PTL DEF RandSpec
---------------------------------------------------------------------------
(* Condition variables (mtwaitcond, mtsleepthr2, mtwakethr1).              *)

CondPoints == {"idle", "try", "trytimed", "wakeall", "lock", "wake", "push", "pushtimed", "sleep", "timed", "remove",
               "removefail", "relock"}

CondTypeOK ==
    /\ mtxowner \in CondThreads \cup {"free"}
    /\ queued \in [CondThreads -> Int] /\ asleep \in [CondThreads -> BOOLEAN]
    /\ cpc \in [CondThreads -> CondPoints]
    /\ strange \in Nat /\ returned \in Nat

\* Those who wait without having the mutex: each owes it to an unlock by somebody else.
Robbed == Blocked \ {mtxowner}
CondCounted == Cardinality(Robbed) <= strange - returned

CondInv == CondTypeOK /\ SleepersQueued /\ CondCounted

LEMMA CondInvInit == CondInit => CondInv
<1> SUFFICES ASSUME CondInit PROVE CondInv
    OBVIOUS
<1>1. CondTypeOK
    <2>1. asleep \in [CondThreads -> BOOLEAN]
        BY DEF CondInit
    <2>2. QED
        BY <2>1 DEF CondInit, CondTypeOK, CondPoints
<1>2. SleepersQueued
    BY DEF CondInit, SleepersQueued
<1>3. CondCounted
    <2>1. Robbed = {}
        BY DEF CondInit, Robbed, Blocked
    <2>2. QED
        BY <2>1, FS_EmptySet DEF CondInit, CondCounted
<1>4. QED
    BY <1>1, <1>2, <1>3 DEF CondInv

LEMMA DequeueType ==
    ASSUME CondTypeOK, NEW s \in CondThreads, Dequeue(s)
    PROVE  queued' \in [CondThreads -> Int] /\ asleep' \in [CondThreads -> BOOLEAN]
<1>1. queued' \in [CondThreads -> Int]
    BY DEF CondTypeOK, Dequeue
<1>2. asleep' \in [CondThreads -> BOOLEAN]
    BY DEF CondTypeOK, Dequeue
<1>3. QED
    BY <1>1, <1>2

LEMMA CondTypeNext ==
    ASSUME CondTypeOK, [CondNext]_condvars
    PROVE  CondTypeOK'
<1> USE CondAssumption DEF CondTypeOK, CondPoints, To, TakeMutex, mtxvars, sleepvars
<1>1. ASSUME NEW t \in CondThreads, CondCall(t) PROVE CondTypeOK'
    BY <1>1 DEF CondCall
<1>2. ASSUME NEW t \in CondThreads, LockMutex(t) \/ UnlockMutex(t) PROVE CondTypeOK'
    BY <1>2 DEF LockMutex, UnlockMutex
<1>3. ASSUME NEW t \in CondThreads, TryMutex(t) \/ Relock(t) PROVE CondTypeOK'
    BY <1>3 DEF TryMutex, Relock
<1>4. ASSUME NEW t \in CondThreads, PushSelf(t) PROVE CondTypeOK'
    BY <1>4 DEF PushSelf
<1>5. ASSUME NEW t \in CondThreads, WokenUp(t) \/ TimeUp(t) \/ Interrupted(t) PROVE CondTypeOK'
    BY <1>5 DEF WokenUp, TimeUp, Interrupted
<1>6. ASSUME NEW t \in CondThreads, RemoveSelf(t) PROVE CondTypeOK'
    <2>1. queued' \in [CondThreads -> Int] /\ asleep' \in [CondThreads -> BOOLEAN]
        BY <1>6, DequeueType DEF RemoveSelf
    <2>2. QED
        BY <1>6, <2>1 DEF RemoveSelf
<1>7. ASSUME NEW t \in CondThreads, WakeOne(t) PROVE CondTypeOK'
    <2>1. queued' \in [CondThreads -> Int] /\ asleep' \in [CondThreads -> BOOLEAN]
        BY <1>7, DequeueType DEF WakeOne, Queued
    <2>2. QED
        BY <1>7, <2>1 DEF WakeOne
<1>8. ASSUME NEW t \in CondThreads, WakeAll(t) PROVE CondTypeOK'
    <2>1. queued' \in [CondThreads -> Int] /\ asleep' \in [CondThreads -> BOOLEAN]
        BY <1>8, DequeueType DEF WakeAll, Queued
    <2>2. QED
        BY <1>8, <2>1 DEF WakeAll
<1>9. CASE UNCHANGED condvars
    BY <1>9 DEF condvars
<1>10. QED
    BY <1>1, <1>2, <1>3, <1>4, <1>5, <1>6, <1>7, <1>8, <1>9 DEF CondNext, CondContinue

\* Only who is in a wait is in the queue, so that a thread that joins it is not there yet.
LEMMA CondQueuedNext ==
    ASSUME CondTypeOK, SleepersQueued, [CondNext]_condvars
    PROVE  SleepersQueued'
<1> USE DEF CondTypeOK, SleepersQueued, To, TakeMutex, mtxvars, sleepvars
<1>1. ASSUME NEW t \in CondThreads,
             \/ CondCall(t) \/ LockMutex(t) \/ UnlockMutex(t) \/ TryMutex(t) \/ Relock(t) \/ WokenUp(t) \/ TimeUp(t)
             \/ Interrupted(t)
      PROVE  SleepersQueued'
    BY <1>1 DEF CondCall, LockMutex, UnlockMutex, TryMutex, Relock, WokenUp, TimeUp, Interrupted
<1>2. ASSUME NEW t \in CondThreads, PushSelf(t) PROVE SleepersQueued'
    <2>1. ~asleep[t]
        BY <1>2 DEF PushSelf
    <2>2. QED
        BY <1>2, <2>1 DEF PushSelf
<1>3. ASSUME NEW s \in CondThreads, queued[s] > 0, Dequeue(s),
             \A u \in CondThreads : asleep[u] /\ u # s => cpc'[u] = cpc[u]
      PROVE  SleepersQueued'
    BY <1>3 DEF Dequeue
<1>4. ASSUME NEW t \in CondThreads, RemoveSelf(t) PROVE SleepersQueued'
    BY <1>3, <1>4 DEF RemoveSelf
<1>5. ASSUME NEW t \in CondThreads, WakeOne(t) \/ WakeAll(t) PROVE SleepersQueued'
    <2>1. \A u \in CondThreads : asleep[u] => cpc'[u] = cpc[u]
        BY <1>5 DEF WakeOne, WakeAll
    <2>2. CASE Queued = {}
        BY <1>5, <2>1, <2>2 DEF WakeOne, WakeAll
    <2>3. CASE Queued # {}
        <3>1. PICK s \in Queued : Dequeue(s)
            BY <1>5, <2>3 DEF WakeOne, WakeAll
        <3>2. QED
            BY <1>3, <2>1, <3>1 DEF Queued
    <2>4. QED
        BY <2>2, <2>3
<1>6. CASE UNCHANGED condvars
    BY <1>6 DEF condvars
<1>7. QED
    BY <1>1, <1>2, <1>4, <1>5, <1>6 DEF CondNext, CondContinue

LEMMA RobbedFinite ==
    ASSUME NEW S, S \subseteq CondThreads
    PROVE  IsFiniteSet(S) /\ Cardinality(S) \in Nat
BY CondAssumption, FS_Subset, FS_CardinalityType

\* A thread that takes the mutex for a wait is not robbed; one that loses it is, at the
\* cost of a strange unlock; one that takes it again is no longer.
LEMMA CondCountedNext ==
    ASSUME CondTypeOK, CondCounted, [CondNext]_condvars
    PROVE  CondCounted'
<1> USE CondAssumption DEF CondTypeOK, To, TakeMutex, mtxvars
<1>0. /\ Robbed \subseteq CondThreads /\ Robbed' \subseteq CondThreads
      /\ IsFiniteSet(Robbed) /\ Cardinality(Robbed) \in Nat /\ IsFiniteSet(Robbed') /\ Cardinality(Robbed') \in Nat
    BY RobbedFinite DEF Robbed, Blocked
<1>1. ASSUME Robbed' \subseteq Robbed, UNCHANGED <<strange, returned>>
      PROVE  CondCounted'
    <2>1. Cardinality(Robbed') <= Cardinality(Robbed)
        BY <1>0, <1>1, FS_Subset
    <2>2. Cardinality(Robbed)' = Cardinality(Robbed')
        OBVIOUS
    <2>3. QED
        BY <1>0, <1>1, <2>1, <2>2 DEF CondCounted
<1>2. ASSUME NEW t \in CondThreads, UnlockMutex(t)
      PROVE  CondCounted'
    <2>1. CASE mtxowner = t
        BY <1>1, <1>2, <2>1 DEF UnlockMutex, Robbed, Blocked
    <2>2. CASE mtxowner # t
        <3>1. Robbed' \subseteq Robbed \cup {mtxowner}
            BY <1>2 DEF UnlockMutex, Robbed, Blocked
        <3>2. Cardinality(Robbed \cup {mtxowner}) <= Cardinality(Robbed) + 1 /\ IsFiniteSet(Robbed \cup {mtxowner})
            <4>1. IsFiniteSet(Robbed) /\ Cardinality(Robbed) \in Nat
                BY <1>0
            <4>2. /\ IsFiniteSet(Robbed \cup {mtxowner})
                  /\ Cardinality(Robbed \cup {mtxowner})
                       = IF mtxowner \in Robbed THEN Cardinality(Robbed) ELSE Cardinality(Robbed) + 1
                BY <4>1, FS_AddElement
            <4>3. QED
                BY <4>1, <4>2
        <3>3. Cardinality(Robbed') <= Cardinality(Robbed \cup {mtxowner})
            BY <3>1, <3>2, FS_Subset
        <3>4. Cardinality(Robbed \cup {mtxowner}) \in Nat
            BY <3>2, FS_CardinalityType
        <3>5. strange' = strange + 1 /\ returned' = returned
            BY <1>2, <2>2 DEF UnlockMutex
        <3>6. Cardinality(Robbed)' = Cardinality(Robbed')
            OBVIOUS
        <3>7. QED
            BY <1>0, <3>2, <3>3, <3>4, <3>5, <3>6 DEF CondCounted
    <2>3. QED
        BY <2>1, <2>2
<1>3. ASSUME NEW t \in CondThreads, Relock(t)
      PROVE  CondCounted'
    <2>1. t \in Robbed /\ Robbed' = Robbed \ {t}
        BY <1>3 DEF Relock, Robbed, Blocked
    <2>2. Cardinality(Robbed)' = Cardinality(Robbed) - 1
        BY <1>0, <2>1, FS_RemoveElement
    <2>3. returned' = returned + 1 /\ strange' = strange
        BY <1>3 DEF Relock
    <2>4. Cardinality(Robbed)' \in Nat
        BY <1>0
    <2>5. QED
        BY <1>0, <2>2, <2>3, <2>4 DEF CondCounted
<1>4. ASSUME NEW t \in CondThreads, TryMutex(t)
      PROVE  Robbed' \subseteq Robbed /\ UNCHANGED <<strange, returned>>
    BY <1>4 DEF TryMutex, Robbed, Blocked
<1>5. ASSUME NEW t \in CondThreads, LockMutex(t) \/ CondCall(t) \/ PushSelf(t)
      PROVE  Robbed' \subseteq Robbed /\ UNCHANGED <<strange, returned>>
    BY <1>5 DEF LockMutex, CondCall, PushSelf, Robbed, Blocked
<1>6. ASSUME NEW t \in CondThreads, WokenUp(t) \/ TimeUp(t) \/ Interrupted(t) \/ RemoveSelf(t)
      PROVE  Robbed' \subseteq Robbed /\ UNCHANGED <<strange, returned>>
    BY <1>6 DEF WokenUp, TimeUp, Interrupted, RemoveSelf, Robbed, Blocked
<1>7. ASSUME NEW t \in CondThreads, WakeOne(t) \/ WakeAll(t)
      PROVE  Robbed' \subseteq Robbed /\ UNCHANGED <<strange, returned>>
    BY <1>7 DEF WakeOne, WakeAll, Robbed, Blocked
<1>8. CASE UNCHANGED condvars
    BY <1>1, <1>8 DEF condvars, Robbed, Blocked
<1>9. QED
    BY <1>1, <1>2, <1>3, <1>4, <1>5, <1>6, <1>7, <1>8 DEF CondNext, CondContinue

LEMMA CondInvNext == CondInv /\ [CondNext]_condvars => CondInv'
BY CondTypeNext, CondQueuedNext, CondCountedNext DEF CondInv

LEMMA CondInvWaits == CondInv => WaitsBlock
<1> SUFFICES ASSUME CondInv PROVE WaitsBlock
    OBVIOUS
<1>1. /\ IsFiniteSet(Robbed) /\ Cardinality(Robbed) \in Nat
      /\ IsFiniteSet(Blocked) /\ Cardinality(Blocked) \in Nat
    BY RobbedFinite DEF Robbed, Blocked
<1>2. Cardinality(Robbed) = IF mtxowner \in Blocked THEN Cardinality(Blocked) - 1 ELSE Cardinality(Blocked)
    BY <1>1, FS_RemoveElement DEF Robbed
<1>3. QED
    BY <1>1, <1>2 DEF CondInv, CondTypeOK, CondCounted, WaitsBlock

\* The queue of a condition holds exactly the sleepers, and who waits on it has its
\* mutex, or owes it to an unlock by a stranger (mtwaitcond, mtsleepthr2).
THEOREM CondSafe == CondSpec => [](SleepersQueued /\ WaitsBlock)
<1>1. CondInv => SleepersQueued
    BY DEF CondInv
<1>2. QED
    BY <1>1, CondInvInit, CondInvNext, CondInvWaits, PTL DEF CondSpec
---------------------------------------------------------------------------
(* Bit locks (mtlkbit, m_trylkbit, m_unlkbit).                             *)

BitPoints == {"idle", "mtlkbit", "mt_set", "m_trylkbit", "m_lkbit", "m_set", "in"}

\* The bits, the places in the code and the lock that each thread uses; a lock
\* that nobody takes with m_lkbit has no thread in m_lkbit.
BitTypeOK ==
    /\ mem \in [MemBits -> {0, 1}]
    /\ bpc \in [BitThreads -> BitPoints]
    /\ place \in [BitThreads -> Places]
    /\ lost \subseteq Places /\ stolen \subseteq Places
    /\ \A t \in BitThreads : bpc[t] \in {"m_lkbit", "m_set"} => place[t] \notin MtPlaces

\* The locks about which m_cmpsetbit never said clear when the bit was set.
Kept == MtPlaces \ stolen

\* Of two threads that have such a lock each is the other, and the bit says it;
\* nobody has a lost one, and its bit is set.
BitOwned ==
    /\ \A t \in BitThreads :
          place[t] \in Kept /\ bpc[t] = "in" => mem[place[t]] = 1 /\ place[t] \notin lost
    /\ \A t, u \in BitThreads :
          place[t] \in Kept /\ place[t] = place[u] /\ bpc[t] = "in" /\ bpc[u] = "in" => t = u
    /\ \A p \in Kept \cap lost : mem[p] = 1

\* The bit of such a lock is only set when there is an owner or when it is lost,
\* and the bits that are no locks stay as they were.
BitKept ==
    /\ \A p \in Kept : mem[p] = 1 /\ p \notin lost => Owners(p) # {}
    /\ \A i \in MemBits \ Places : mem[i] = Rest[i]

\* Every lock is in the first byte of its word, where m_clrbit32 clears the bit
\* that it means.
InFirstByte == Places \subseteq 0 .. ByteBits - 1

LEMMA BitPlaceMem == ASSUME BitAssumption PROVE Places \subseteq MemBits
  BY DEF BitAssumption, MemBits, WordBits

LEMMA Cleared ==
    ASSUME BitAssumption, InFirstByte, NEW p \in Places
    PROVE  p + ByteBits * (p \div ByteBits) = p
<1>1. /\ ByteBits \in Nat \ {0} /\ p \in Nat /\ p < ByteBits
  BY DEF BitAssumption, InFirstByte
<1>2. p \div ByteBits = 0
  BY <1>1
<1>3. ByteBits * 0 = 0
  BY <1>1
<1> QED
  BY <1>1, <1>2, <1>3

LEMMA BitInitOK == ASSUME BitAssumption, BitInit PROVE BitTypeOK /\ BitOwned /\ BitKept
<1>1. place \in [BitThreads -> Places]
  <2>1. ASSUME NEW t \in BitThreads PROVE (CHOOSE p \in Uses[t] : TRUE) \in Places
    BY DEF BitAssumption
  <2> QED
    BY <2>1 DEF BitInit
<1>2. mem \in [MemBits -> {0, 1}] /\ bpc \in [BitThreads -> BitPoints]
  BY DEF BitInit, BitAssumption, BitPoints
<1>3. \A t \in BitThreads : bpc[t] = "idle"
  BY DEF BitInit
<1>4. (\A p \in Kept : mem[p] = 0) /\ lost = {} /\ stolen = {}
  BY DEF BitInit, BitAssumption, MtPlaces, Kept
<1> QED
  BY <1>1, <1>2, <1>3, <1>4 DEF BitInit, BitTypeOK, BitOwned, BitKept

\* A thread that calls is outside still, and in m_lkbit only if that is a call
\* for its lock.
LEMMA BitCalled ==
    ASSUME BitAssumption, BitTypeOK, NEW t \in BitThreads, CallBit(t)
    PROVE  /\ mem' = mem /\ lost' = lost /\ stolen' = stolen /\ bpc[t] = "idle"
           /\ \E p \in Places : \E f \in {"mtlkbit", "m_trylkbit", "m_lkbit"} :
                /\ f = "m_lkbit" => p \notin MtPlaces
                /\ bpc' = [bpc EXCEPT ![t] = f] /\ place' = [place EXCEPT ![t] = p]
           /\ bpc'[t] # "in" /\ \A u \in BitThreads \ {t} : bpc'[u] = bpc[u] /\ place'[u] = place[u]
<1>1. mem' = mem /\ lost' = lost /\ stolen' = stolen /\ bpc[t] = "idle"
  BY DEF CallBit
<1>a. PICK p \in Uses[t] : \E f \in Calls[p] :
         bpc' = [bpc EXCEPT ![t] = f] /\ place' = [place EXCEPT ![t] = p]
  BY DEF CallBit, BitGo
<1>2. PICK f \in Calls[p] : bpc' = [bpc EXCEPT ![t] = f] /\ place' = [place EXCEPT ![t] = p]
  BY <1>a
<1>3. p \in Places /\ f \in {"mtlkbit", "m_trylkbit", "m_lkbit"} /\ (f = "m_lkbit" => p \notin MtPlaces)
  BY <1>2 DEF BitAssumption, MtPlaces
<1> QED
  BY <1>1, <1>2, <1>3 DEF BitTypeOK

\* What m_cmpsetbit does to the bit, what it says, and what that means for the lock.
LEMMA CmpSetSays ==
    ASSUME BitTypeOK, NEW t \in BitThreads, NEW p, NEW q, CmpSet(t, p, q)
    PROVE  LET l == place[t]
           IN  /\ place' = place /\ mem' = [mem EXCEPT ![l] = 1]
               /\ bpc' = [bpc EXCEPT ![t] = p] \/ bpc' = [bpc EXCEPT ![t] = q]
               /\ lost' \in {lost, lost \cup {l}} /\ stolen' \in {stolen, stolen \cup {l}}
               /\ \/ mem[l] = 0 /\ bpc'[t] = p /\ lost' = lost /\ stolen' = stolen
                  \/ mem[l] = 0 /\ bpc'[t] = q /\ lost' = lost \cup {l} /\ stolen' = stolen
                  \/ mem[l] = 1 /\ bpc'[t] = p /\ lost' = lost /\ stolen' = stolen \cup {l}
                  \/ mem[l] = 1 /\ bpc'[t] = q /\ lost' = lost /\ stolen' = stolen
<1> DEFINE l == place[t]
<1>1. mem[l] \in {0, 1} \/ l \notin MemBits
  BY DEF BitTypeOK
<1>2. PICK zero \in BOOLEAN :
         /\ bpc' = [bpc EXCEPT ![t] = IF zero THEN p ELSE q]
         /\ lost' = IF mem[l] = 0 /\ ~zero THEN lost \cup {l} ELSE lost
         /\ stolen' = IF mem[l] = 1 /\ zero THEN stolen \cup {l} ELSE stolen
  <2>1. PICK reg \in Registers :
           /\ bpc' = [bpc EXCEPT ![t] = IF ComesToZero(reg, mem[l]) THEN p ELSE q]
           /\ lost' = IF mem[l] = 0 /\ ~ComesToZero(reg, mem[l]) THEN lost \cup {l} ELSE lost
           /\ stolen' = IF mem[l] = 1 /\ ComesToZero(reg, mem[l]) THEN stolen \cup {l} ELSE stolen
    BY DEF CmpSet, BitGo
  <2>2. ComesToZero(reg, mem[l]) \in BOOLEAN
    BY DEF ComesToZero
  <2> QED
    BY <2>1, <2>2
<1>3. place' = place /\ mem' = [mem EXCEPT ![l] = 1]
  BY DEF CmpSet
<1>4. mem[l] \in {0, 1} /\ bpc \in [BitThreads -> BitPoints]
  BY BitAssumption, BitPlaceMem DEF BitTypeOK
<1>5. CASE zero
  BY <1>2, <1>3, <1>4, <1>5
<1>6. CASE ~zero
  BY <1>2, <1>3, <1>4, <1>6
<1> QED
  BY <1>5, <1>6

LEMMA BitTypeNext ==
    ASSUME BitAssumption, BitTypeOK, BitNext
    PROVE  BitTypeOK'
<1> USE DEF BitTypeOK, BitPoints, BitGo
<1>1. PICK t \in BitThreads : CallBit(t) \/ BitContinue(t) \/ BitUnlock(t)
  BY DEF BitNext
<1>2. CASE CallBit(t)
  <2>1. mem' = mem /\ lost' = lost /\ stolen' = stolen
    BY <1>2, BitCalled
  <2>2. PICK p \in Places, f \in {"mtlkbit", "m_trylkbit", "m_lkbit"} :
           /\ f = "m_lkbit" => p \notin MtPlaces
           /\ bpc' = [bpc EXCEPT ![t] = f] /\ place' = [place EXCEPT ![t] = p]
    BY <1>2, BitCalled
  <2>3. lost' \subseteq Places /\ stolen' \subseteq Places /\ mem' \in [MemBits -> {0, 1}]
    BY <2>1
  <2>4. /\ bpc' \in [BitThreads -> BitPoints] /\ place' \in [BitThreads -> Places]
        /\ \A u \in BitThreads : bpc'[u] \in {"m_lkbit", "m_set"} => place'[u] \notin MtPlaces
    BY <2>2
  <2> QED
    BY <2>3, <2>4 DEF MtPlaces
<1>3. ASSUME NEW p \in BitPoints, NEW q \in BitPoints, CmpSet(t, p, q),
             {p, q} \cap {"m_lkbit", "m_set"} # {} => place[t] \notin MtPlaces
      PROVE  BitTypeOK'
  <2>1. /\ mem' = [mem EXCEPT ![place[t]] = 1] /\ place' = place
        /\ lost' \in {lost, lost \cup {place[t]}} /\ stolen' \in {stolen, stolen \cup {place[t]}}
        /\ bpc' = [bpc EXCEPT ![t] = p] \/ bpc' = [bpc EXCEPT ![t] = q]
    BY <1>3, CmpSetSays
  <2>2. place[t] \in Places
    OBVIOUS
  <2>3. lost' \subseteq Places /\ stolen' \subseteq Places
    BY <2>1, <2>2
  <2>4. mem' \in [MemBits -> {0, 1}]
    BY <2>1
  <2>5. bpc' \in [BitThreads -> BitPoints] /\ place' \in [BitThreads -> Places]
    BY <1>3, <2>1
  <2>6. \A u \in BitThreads : bpc'[u] \in {"m_lkbit", "m_set"} => place'[u] \notin MtPlaces
    BY <1>3, <2>1
  <2> QED
    BY <2>3, <2>4, <2>5, <2>6 DEF MtPlaces
<1>4. CASE BitContinue(t)
  <2>1. CASE MtSpin(t)
    BY <2>1 DEF MtSpin
  <2>2. CASE MtSet(t)
    <3>1. CmpSet(t, "in", "mtlkbit")
      BY <2>2 DEF MtSet
    <3> QED
      BY <1>3, <3>1
  <2>3. CASE Try(t)
    <3>1. CmpSet(t, "in", "idle")
      BY <2>3 DEF Try
    <3> QED
      BY <1>3, <3>1
  <2>4. CASE LkSpin(t)
    BY <2>4 DEF LkSpin
  <2>5. CASE LkSet(t)
    <3>1. CmpSet(t, "m_lkbit", "in") /\ place[t] \notin MtPlaces
      BY <2>5 DEF LkSet
    <3> QED
      BY <1>3, <3>1
  <2> QED
    BY <1>4, <2>1, <2>2, <2>3, <2>4, <2>5 DEF BitContinue
<1>5. CASE BitUnlock(t)
  BY <1>5 DEF BitUnlock
<1> QED
  BY <1>1, <1>2, <1>4, <1>5

\* A step of a call inside: the thread reads on, or m_cmpsetbit sets the bit of
\* its lock, and at a lock that nobody takes with m_lkbit the thread is in when
\* it was told that the bit was clear.
LEMMA BitEnters ==
    ASSUME BitAssumption, BitTypeOK, NEW t \in BitThreads, BitContinue(t)
    PROVE  LET l == place[t]
           IN  /\ place' = place /\ bpc[t] # "in"
               /\ \A u \in BitThreads \ {t} : bpc'[u] = bpc[u]
               /\ lost' \in {lost, lost \cup {l}} /\ stolen' \in {stolen, stolen \cup {l}}
               /\ \/ mem' = mem /\ bpc'[t] # "in" /\ lost' = lost /\ stolen' = stolen
                  \/ /\ mem' = [mem EXCEPT ![l] = 1]
                     /\ \/ l \notin MtPlaces
                        \/ mem[l] = 0 /\ bpc'[t] = "in" /\ lost' = lost /\ stolen' = stolen
                        \/ mem[l] = 0 /\ bpc'[t] # "in" /\ lost' = lost \cup {l} /\ stolen' = stolen
                        \/ mem[l] = 1 /\ stolen' = stolen \cup {l}
                        \/ mem[l] = 1 /\ bpc'[t] # "in" /\ lost' = lost /\ stolen' = stolen
<1> USE DEF BitTypeOK, BitPoints, BitGo
<1> DEFINE l == place[t]
<1>1. ASSUME NEW q \in {"mtlkbit", "idle"}, CmpSet(t, "in", q)
      PROVE  /\ place' = place /\ mem' = [mem EXCEPT ![l] = 1]
             /\ \A u \in BitThreads \ {t} : bpc'[u] = bpc[u]
             /\ lost' \in {lost, lost \cup {l}} /\ stolen' \in {stolen, stolen \cup {l}}
             /\ \/ mem[l] = 0 /\ bpc'[t] = "in" /\ lost' = lost /\ stolen' = stolen
                \/ mem[l] = 0 /\ bpc'[t] # "in" /\ lost' = lost \cup {l} /\ stolen' = stolen
                \/ mem[l] = 1 /\ stolen' = stolen \cup {l}
                \/ mem[l] = 1 /\ bpc'[t] # "in" /\ lost' = lost /\ stolen' = stolen
  BY <1>1, CmpSetSays
<1>2. CASE MtSpin(t)
  BY <1>2 DEF MtSpin
<1>3. CASE MtSet(t)
  <2>1. CmpSet(t, "in", "mtlkbit") /\ bpc[t] # "in"
    BY <1>3 DEF MtSet
  <2> QED
    BY <1>1, <2>1
<1>4. CASE Try(t)
  <2>1. CmpSet(t, "in", "idle") /\ bpc[t] # "in"
    BY <1>4 DEF Try
  <2> QED
    BY <1>1, <2>1
<1>5. CASE LkSpin(t)
  BY <1>5 DEF LkSpin
<1>6. CASE LkSet(t)
  <2>1. CmpSet(t, "m_lkbit", "in") /\ bpc[t] # "in" /\ place[t] \notin MtPlaces
    BY <1>6 DEF LkSet
  <2>2. /\ place' = place /\ mem' = [mem EXCEPT ![l] = 1]
        /\ bpc' = [bpc EXCEPT ![t] = "m_lkbit"] \/ bpc' = [bpc EXCEPT ![t] = "in"]
        /\ lost' \in {lost, lost \cup {l}} /\ stolen' \in {stolen, stolen \cup {l}}
    BY <2>1, CmpSetSays
  <2> QED
    BY <2>1, <2>2
<1> QED
  BY <1>2, <1>3, <1>4, <1>5, <1>6 DEF BitContinue

LEMMA BitLeaves ==
    ASSUME BitAssumption, BitTypeOK, InFirstByte, NEW t \in BitThreads, BitUnlock(t)
    PROVE  /\ place' = place /\ bpc[t] = "in" /\ bpc' = [bpc EXCEPT ![t] = "idle"]
           /\ mem' = [mem EXCEPT ![place[t]] = 0]
           /\ lost' = lost \ {place[t]} /\ stolen' = stolen
  BY Cleared DEF BitTypeOK, BitUnlock, BitGo

LEMMA BitOwnedNext ==
    ASSUME BitAssumption, InFirstByte, BitTypeOK, BitOwned, BitNext
    PROVE  BitOwned'
<1> USE DEF BitOwned, BitTypeOK
<1>1. PICK t \in BitThreads : CallBit(t) \/ BitContinue(t) \/ BitUnlock(t)
  BY DEF BitNext
<1>2. BitTypeOK' /\ Places \subseteq MemBits /\ Kept' = MtPlaces \ stolen' /\ Kept \subseteq MtPlaces
  BY BitTypeNext, BitPlaceMem DEF Kept, MtPlaces
<1>3. CASE CallBit(t)
  <2>1. /\ mem' = mem /\ lost' = lost /\ bpc'[t] # "in" /\ Kept' = Kept
        /\ \A u \in BitThreads \ {t} : bpc'[u] = bpc[u] /\ place'[u] = place[u]
    BY <1>2, <1>3, BitCalled DEF Kept
  <2>2. \A u \in BitThreads : bpc'[u] = "in" => bpc[u] = "in" /\ place'[u] = place[u]
    BY <2>1
  <2> QED
    <3>1. \A u \in BitThreads :
             place'[u] \in Kept /\ bpc'[u] = "in" => mem'[place'[u]] = 1 /\ place'[u] \notin lost'
      BY <2>1, <2>2
    <3>2. \A u, v \in BitThreads :
             place'[u] \in Kept /\ place'[u] = place'[v] /\ bpc'[u] = "in" /\ bpc'[v] = "in" => u = v
      BY <2>2
    <3> QED
      BY <2>1, <3>1, <3>2
<1>4. CASE BitContinue(t)
  <2> DEFINE l == place[t]
  <2>1. /\ place' = place /\ bpc[t] # "in" /\ l \in MemBits
        /\ \A u \in BitThreads \ {t} : bpc'[u] = bpc[u]
        /\ lost' \in {lost, lost \cup {l}} /\ stolen' \in {stolen, stolen \cup {l}}
        /\ mem' = mem \/ mem' = [mem EXCEPT ![l] = 1]
    BY <1>2, <1>4, BitEnters
  <2>2. CASE l \notin Kept'
    <3>1. ASSUME NEW p \in Kept'
          PROVE  p # l /\ p \in Kept /\ mem'[p] = mem[p] /\ (p \in lost' <=> p \in lost)
      <4>1. p # l /\ p \in MtPlaces /\ p \notin stolen' /\ p \in MemBits
        BY <1>2, <2>2 DEF MtPlaces
      <4>2. p \in Kept
        BY <2>1, <4>1 DEF Kept
      <4> QED
        BY <2>1, <4>1, <4>2
    <3>2. \A u \in BitThreads : place[u] \in Kept' /\ bpc'[u] = "in" => u # t /\ bpc[u] = "in"
      BY <2>1, <2>2
    <3> QED
      BY <2>1, <3>1, <3>2
  <2>3. CASE l \in Kept'
    <3>1. l \in Kept /\ stolen' = stolen /\ Kept' = Kept
      BY <1>2, <2>1, <2>3 DEF Kept
    <3>2. \/ mem' = mem /\ bpc'[t] # "in" /\ lost' = lost
          \/ /\ mem' = [mem EXCEPT ![l] = 1]
             /\ \/ mem[l] = 0 /\ bpc'[t] = "in" /\ lost' = lost
                \/ mem[l] = 0 /\ bpc'[t] # "in" /\ lost' = lost \cup {l}
                \/ mem[l] = 1 /\ bpc'[t] # "in" /\ lost' = lost
      BY <1>2, <1>4, <2>3, <3>1, BitEnters
    <3>3. \A p \in Kept : mem'[p] = IF mem' = mem \/ p # l THEN mem[p] ELSE 1
      BY <1>2, <2>1, <3>2 DEF MtPlaces
    <3>4. CASE bpc'[t] # "in"
      <4>1. \A u \in BitThreads : bpc'[u] = "in" => bpc[u] = "in"
        BY <2>1, <3>4
      <4>2. ASSUME NEW u \in BitThreads, place[u] \in Kept, bpc[u] = "in" PROVE place[u] \notin lost'
        <5>1. place[u] \notin lost /\ mem[place[u]] = 1
          BY <4>2
        <5>2. lost' = lost \/ (mem[l] = 0 /\ lost' = lost \cup {l})
          BY <3>2, <3>4
        <5> QED
          BY <5>1, <5>2
      <4>3. ASSUME NEW p \in Kept \cap lost' PROVE mem'[p] = 1
        <5>1. CASE p \in lost
          BY <3>3, <5>1
        <5>2. CASE p \notin lost
          BY <2>1, <3>2, <5>2
        <5> QED
          BY <5>1, <5>2
      <4> QED
        BY <2>1, <3>1, <3>3, <4>1, <4>2, <4>3
    <3>5. CASE bpc'[t] = "in"
      <4>1. mem' = [mem EXCEPT ![l] = 1] /\ mem[l] = 0 /\ lost' = lost /\ l \notin lost /\ mem'[l] = 1
        BY <2>1, <3>1, <3>2, <3>5
      <4>2. \A u \in BitThreads \ {t} : bpc'[u] = "in" => bpc[u] = "in" /\ place[u] # l
        BY <2>1, <3>1, <4>1
      <4>3. \A u \in BitThreads :
               place[u] \in Kept /\ bpc'[u] = "in" => mem'[place[u]] = 1 /\ place[u] \notin lost
        BY <3>3, <4>1, <4>2
      <4>4. \A p \in Kept \cap lost : mem'[p] = 1
        BY <3>3
      <4> QED
        BY <2>1, <3>1, <4>1, <4>2, <4>3, <4>4
    <3> QED
      BY <3>4, <3>5
  <2> QED
    BY <2>2, <2>3
<1>5. CASE BitUnlock(t)
  <2>1. /\ place' = place /\ bpc[t] = "in" /\ bpc' = [bpc EXCEPT ![t] = "idle"]
        /\ mem' = [mem EXCEPT ![place[t]] = 0]
        /\ lost' = lost \ {place[t]} /\ Kept' = Kept
    BY <1>2, <1>5, BitLeaves DEF Kept
  <2>2. \A u \in BitThreads : place[u] \in Kept /\ bpc'[u] = "in" => mem'[place[u]] = 1 /\ place[u] \notin lost'
    BY <1>2, <2>1
  <2>3. \A p \in Kept \cap lost' : mem'[p] = 1
    BY <1>2, <2>1 DEF MtPlaces
  <2> QED
    BY <2>1, <2>2, <2>3
<1> QED
  BY <1>1, <1>3, <1>4, <1>5

LEMMA BitKeptNext ==
    ASSUME BitAssumption, InFirstByte, BitTypeOK, BitOwned, BitKept, BitNext
    PROVE  BitKept'
<1> USE DEF BitKept, BitTypeOK, Owners
<1>1. PICK t \in BitThreads : CallBit(t) \/ BitContinue(t) \/ BitUnlock(t)
  BY DEF BitNext
<1>2. /\ BitTypeOK' /\ Places \subseteq MemBits /\ Kept' = MtPlaces \ stolen' /\ Kept \subseteq MtPlaces
      /\ MtPlaces \subseteq Places
  BY BitTypeNext, BitPlaceMem DEF Kept, MtPlaces
<1>3. CASE CallBit(t)
  <2>1. /\ mem' = mem /\ lost' = lost /\ Kept' = Kept /\ bpc[t] = "idle"
        /\ \A u \in BitThreads \ {t} : bpc'[u] = bpc[u] /\ place'[u] = place[u]
    BY <1>2, <1>3, BitCalled DEF Kept
  <2> QED
    BY <2>1
<1>4. CASE BitContinue(t)
  <2> DEFINE l == place[t]
  <2>1. /\ place' = place /\ bpc[t] # "in" /\ l \in Places
        /\ \A u \in BitThreads \ {t} : bpc'[u] = bpc[u]
        /\ lost' \in {lost, lost \cup {l}} /\ stolen' \in {stolen, stolen \cup {l}}
        /\ mem' = mem \/ mem' = [mem EXCEPT ![l] = 1]
        /\ l \in MtPlaces /\ l \notin stolen' /\ mem' # mem /\ mem[l] = 0 =>
              bpc'[t] = "in" \/ lost' = lost \cup {l}
    BY <1>4, BitEnters
  <2>2. \A i \in MemBits \ Places : mem'[i] = Rest[i]
    BY <1>2, <2>1
  <2>3. ASSUME NEW p \in Kept', mem'[p] = 1, p \notin lost'
        PROVE  \E u \in BitThreads : place[u] = p /\ bpc'[u] = "in"
    <3>1. p \in Kept /\ p \notin lost
      BY <1>2, <2>1, <2>3 DEF Kept
    <3>2. CASE mem[p] = 1
      BY <2>1, <3>1, <3>2
    <3>3. CASE mem[p] # 1
      <4>1. p = l /\ mem' # mem /\ mem[p] = 0 /\ l \notin stolen'
        BY <1>2, <2>1, <2>3, <3>3
      <4> QED
        BY <1>2, <2>1, <2>3, <3>1, <4>1
    <3> QED
      BY <3>2, <3>3
  <2> QED
    BY <2>1, <2>2, <2>3
<1>5. CASE BitUnlock(t)
  <2>1. /\ place' = place /\ bpc[t] = "in" /\ bpc' = [bpc EXCEPT ![t] = "idle"]
        /\ mem' = [mem EXCEPT ![place[t]] = 0]
        /\ lost' = lost \ {place[t]} /\ Kept' = Kept
    BY <1>2, <1>5, BitLeaves DEF Kept
  <2> QED
    BY <1>2, <2>1
<1> QED
  BY <1>1, <1>3, <1>4, <1>5

LEMMA BitStutter ==
    ASSUME UNCHANGED bitvars
    PROVE  (BitTypeOK' <=> BitTypeOK) /\ (BitOwned' <=> BitOwned) /\ (BitKept' <=> BitKept)
  BY DEF bitvars, BitTypeOK, BitOwned, BitKept, Kept, Owners, MtPlaces, BitPoints

LEMMA BitOwnedSays == ASSUME BitOwned PROVE BitExclusion
<1> SUFFICES ASSUME NEW p \in Kept PROVE Cardinality(Owners(p)) <= 1
  BY DEF BitExclusion, Kept
<1>1. \A a, b \in Owners(p) : a = b
  BY DEF BitOwned, Owners
<1> QED
  BY <1>1, AtMostOne

LEMMA BitKeptSays == ASSUME BitAssumption, BitTypeOK, BitOwned, BitKept PROVE BitNamesOwner
<1>1. ASSUME NEW i \in MemBits \ (Places \ MtPlaces), i \notin Places PROVE mem[i] = Rest[i]
  BY <1>1 DEF BitKept
<1>2. ASSUME NEW i \in MemBits \ (Places \ MtPlaces), i \in Places, i \notin stolen
      PROVE  mem[i] = Cardinality(Owners(i)) + (IF i \in lost THEN 1 ELSE 0)
  <2>1. i \in Kept /\ \A a, b \in Owners(i) : a = b
    BY <1>2 DEF BitOwned, Owners, Kept
  <2>2. Cardinality(Owners(i)) = IF Owners(i) = {} THEN 0 ELSE 1
    BY <2>1, AtMostOne
  <2>3. mem[i] \in {0, 1}
    BY DEF BitTypeOK
  <2>4. CASE i \in lost
    <3>1. mem[i] = 1 /\ Owners(i) = {}
      BY <2>1, <2>4 DEF BitOwned, Owners
    <3> QED
      BY <2>2, <2>4, <3>1
  <2>5. CASE i \notin lost
    <3>1. mem[i] = 1 <=> Owners(i) # {}
      BY <2>1, <2>5 DEF BitKept, BitOwned, Owners
    <3> QED
      BY <2>2, <2>3, <2>5, <3>1
  <2> QED
    BY <2>4, <2>5
<1> QED
  BY <1>1, <1>2 DEF BitNamesOwner

\* Threads keep away from each other's bit locks (mtlkbit, m_trylkbit), if the
\* locks are in the first byte of the word: whatever the register of the result
\* of m_cmpsetbit held, as long as the lock has not been stolen by it.
THEOREM BitSafe == ASSUME BitAssumption, InFirstByte PROVE BitSpec => []BitExclusion
<1>1. BitInit => BitTypeOK /\ BitOwned
  BY BitInitOK
<1>2. BitTypeOK /\ BitOwned /\ [BitNext]_bitvars => (BitTypeOK /\ BitOwned)'
  BY BitTypeNext, BitOwnedNext, BitStutter
<1>3. BitTypeOK /\ BitOwned => BitExclusion
  BY BitOwnedSays
<1> QED
  BY <1>1, <1>2, <1>3, PTL DEF BitSpec

\* The bits of such a word say who has its locks that were not stolen: a bit is set
\* while there is an owner or for a lock that was lost, which has none.  Nothing
\* else of the word or behind it ever changes (mtlkbit, m_trylkbit, m_unlkbit).
THEOREM BitExact == ASSUME BitAssumption, InFirstByte PROVE BitSpec => []BitNamesOwner
<1>1. BitInit => BitTypeOK /\ BitOwned /\ BitKept
  BY BitInitOK
<1>2. BitTypeOK /\ BitOwned /\ BitKept /\ [BitNext]_bitvars => (BitTypeOK /\ BitOwned /\ BitKept)'
  BY BitTypeNext, BitOwnedNext, BitKeptNext, BitStutter
<1>3. BitTypeOK /\ BitOwned /\ BitKept => BitNamesOwner
  BY BitKeptSays
<1> QED
  BY <1>1, <1>2, <1>3, PTL DEF BitSpec
---------------------------------------------------------------------------
(* All of them.                                                            *)

PoolsInv == StkInv /\ HdrInv /\ SemInv /\ RecInv /\ RandInv /\ CondInv /\ BitTypeOK

\* A step of one part is none of the others.
LEMMA PoolsSteps ==
    ASSUME [PoolsNext]_poolsvars
    PROVE  /\ [StkNext]_stkvars /\ [HdrNext]_hdrvars /\ [SemNext]_semvars /\ [RecNext]_recvars
           /\ [RandNext]_randvars /\ [BitNext]_bitvars /\ [CondNext]_condvars
<1>1. CASE UNCHANGED poolsvars
    BY <1>1 DEF poolsvars
<1>2. CASE PoolsNext
    BY <1>2 DEF PoolsNext, OnlyStk, OnlyHdr, OnlySem, OnlyRec, OnlyRand, OnlyBit, OnlyCond
<1>3. QED
    BY <1>1, <1>2

LEMMA PoolsInvInit == PoolsInit => PoolsInv /\ BitOwned /\ BitKept
<1> SUFFICES ASSUME PoolsInit PROVE PoolsInv /\ BitOwned /\ BitKept
    OBVIOUS
<1>1. StkInit /\ HdrInit /\ RecInit /\ RandInit /\ BitInit /\ CondInit /\ SemInit
    BY DEF PoolsInit
<1>2. QED
    BY <1>1, BitAssumption, StkInvInit, HdrInvInit, SemInvInit, RecInvInit, RandInvInit, CondInvInit, BitInitOK
       DEF PoolsInv

LEMMA PoolsInvNext == PoolsInv /\ [PoolsNext]_poolsvars => PoolsInv'
<1> SUFFICES ASSUME PoolsInv, [PoolsNext]_poolsvars PROVE PoolsInv'
    OBVIOUS
<1>1. BitTypeOK'
    BY PoolsSteps, BitAssumption, BitTypeNext, BitStutter DEF PoolsInv
<1>2. QED
    BY <1>1, PoolsSteps, StkInvNext, HdrInvNext, SemInvNext, RecInvNext, RandInvNext, CondInvNext DEF PoolsInv

THEOREM PoolsInvariant == PoolsSpec => []PoolsInv
<1>1. QED
    BY PoolsInvInit, PoolsInvNext, PTL DEF PoolsSpec

\* The state of every part has its type (struct stkitem, struct memhdr, struct
\* mtsem, mtrecfmtx, randmt64curndx).
THEOREM PoolsTypes == PoolsSpec => []PoolsTypeOK
<1>1. PoolsInv => PoolsTypeOK
    BY RandInvType DEF PoolsInv, PoolsTypeOK, StkInv, HdrInv, SemInv, RecInv
<1>2. QED
    BY <1>1, PoolsInvariant, PTL

\* One way leads to each item of a pool and to each header of the list, forward
\* and back, and to each sleeper of a condition (stkpoolpush, stkpoolpop,
\* memgetbuf, memputbuf, mtsleepthr2).
THEOREM PoolsLinks == PoolsSpec => []LinksSound
<1>1. PoolsInv => LinksSound
    BY DEF PoolsInv, LinksSound, StkInv, StkKeeps, HdrInv, HdrLock, HdrOrder, HdrLinks, Writing, HdrInside, CondInv
<1>2. QED
    BY <1>1, PoolsInvariant, PTL

\* One thread at a time is inside each of the locks, the bits of a first byte that
\* no result of m_cmpsetbit gave away included (mttryrecfmtx, mtlkrecfmtx,
\* _randmt64mtxinit, mtlkbit, m_trylkbit).
THEOREM PoolsInside == ASSUME InFirstByte PROVE PoolsSpec => []OneInside
<1>1. PoolsInit => PoolsInv /\ BitOwned
    BY PoolsInvInit
<1>2. PoolsInv /\ BitOwned /\ [PoolsNext]_poolsvars => (PoolsInv /\ BitOwned)'
    BY PoolsSteps, PoolsInvNext, BitAssumption, BitOwnedNext, BitStutter DEF PoolsInv
<1>3. PoolsInv /\ BitOwned => OneInside
    BY RecInvFlat, RandInvSafe, BitOwnedSays DEF PoolsInv, OneInside
<1>4. QED
    BY <1>1, <1>2, <1>3, PTL DEF PoolsSpec

\* What the locks are for holds of all parts: the bits of a first byte name their
\* owners, the lost and the stolen locks apart, and leave the other bits of the
\* memory alone (mtwaitsem, sempost, randmt64, mtunlkbit, mtwaitcond).
THEOREM PoolsGuarded == ASSUME InFirstByte PROVE PoolsSpec => []GuardedHolds
<1>1. PoolsInit => PoolsInv /\ BitOwned /\ BitKept
    BY PoolsInvInit
<1>2. PoolsInv /\ BitOwned /\ BitKept /\ [PoolsNext]_poolsvars => (PoolsInv /\ BitOwned /\ BitKept)'
    BY PoolsSteps, PoolsInvNext, BitAssumption, BitOwnedNext, BitKeptNext, BitStutter DEF PoolsInv
<1>3. PoolsInv /\ BitOwned /\ BitKept => GuardedHolds
    BY SemInvHolds, RandInvSafe, CondInvWaits, BitAssumption, BitKeptSays DEF PoolsInv, GuardedHolds
<1>4. QED
    BY <1>1, <1>2, <1>3, PTL DEF PoolsSpec

\* Among the other parts, too, the table of chains and the list of headers are
\* pools: nobody is handed what somebody else has (stkpoolpop, memgetbuf).
THEOREM PoolsAbstract == PoolsSpec => StkIsPool /\ HdrIsPool
<1>1. PoolsInit => StkInit /\ HdrInit
    BY DEF PoolsInit
<1>2. [PoolsNext]_poolsvars => [StkNext]_stkvars /\ [HdrNext]_hdrvars
    BY PoolsSteps
<1>3. PoolsSpec => StkSpec /\ HdrSpec
    BY <1>1, <1>2, PTL DEF PoolsSpec, StkSpec, HdrSpec
<1>4. QED
    BY <1>3, StkRefinement, HdrRefinement
=============================================================================
