------------------------------ MODULE HdrPool ------------------------------
(***************************************************************************)
(* The list of free buffer headers of libzen (memgetbuf and memputbuf in   *)
(* zen/mem.c).  One bit of the pointer to the first header is its lock     *)
(* (mtlkbit in mt/lk.h); storing a new pointer gives the lock back.  An    *)
(* empty list is refilled by mapping memory for NBufs headers: the caller  *)
(* gets the first, whose link is still zero, and because that link is what *)
(* becomes the new head, the other headers of the mapping are never used.  *)
(***************************************************************************)
EXTENDS Integers

CONSTANTS HdrThreads,  \* the threads that share the list
          NHdrs,       \* bound: headers that fit the memory there is
          NBufs,       \* MEM_CACHE_BUFS: headers per mapping
          NTry,        \* how often a get tries to map memory (32)
          NGets        \* bound: how many gets are called

ASSUME HdrAssumption ==
    NHdrs \in Nat /\ NBufs \in Nat \ {0, 1} /\ NTry \in Nat \ {0} /\ NGets \in Nat

Hdrs == 1 .. NHdrs
NoHdr == 0                      \* NULL
HdrPtrs == Hdrs \cup {NoHdr}

VARIABLES hdrq,    \* the pointer to the first header, without its bit
          lkbit,   \* the lock bit of that pointer
          next,    \* buf->next of each header
          prev,    \* buf->prev of each header
          nmap,    \* how many headers have been mapped
          avail,   \* history: the headers in the list
          user,    \* history: how many users each header has
          hpc,     \* where each thread is
          ret,     \* the header a thread gets or puts
          first,   \* the head a thread is about to store
          ntry,    \* what remains of a get's tries
          gets,    \* how many gets have been called
          hdone    \* history: how many operations have returned

hdrvars == <<hdrq, lkbit, next, prev, nmap, avail, user, hpc, ret, first, ntry, gets, hdone>>

HdrPCs == {"idle", "get_spin", "get_set", "get_read", "get_map", "get_unlink", "get_write",
           "put_spin", "put_set", "put_link", "put_write"}

\* The program points between a successful m_cmpsetbit and the m_atomwrite.
HdrInside == {"get_read", "get_map", "get_unlink", "get_write", "put_link", "put_write"}

HdrInit ==
    /\ hdrq = NoHdr /\ lkbit = FALSE
    /\ next = [h \in Hdrs |-> NoHdr]
    /\ prev = [h \in Hdrs |-> NoHdr]
    /\ nmap = 0 /\ avail = {} /\ user = [h \in Hdrs |-> 0]
    /\ hpc = [t \in HdrThreads |-> "idle"]
    /\ ret = [t \in HdrThreads |-> NoHdr]
    /\ first = [t \in HdrThreads |-> NoHdr]
    /\ ntry = [t \in HdrThreads |-> 0]
    /\ gets = 0 /\ hdone = 0

HdrGoto(t, p) == hpc' = [hpc EXCEPT ![t] = p]

\* The operation returns; its local variables are no more.
HdrReturn(t) ==
    /\ HdrGoto(t, "idle")
    /\ hdone' = hdone + 1
    /\ ret' = [ret EXCEPT ![t] = NoHdr]
    /\ first' = [first EXCEPT ![t] = NoHdr]
    /\ ntry' = [ntry EXCEPT ![t] = 0]

CallGet(t) ==
    /\ hpc[t] = "idle"
    /\ gets < NGets /\ gets' = gets + 1
    /\ ntry' = [ntry EXCEPT ![t] = NTry]
    /\ HdrGoto(t, "get_spin")
    /\ UNCHANGED <<hdrq, lkbit, next, prev, nmap, avail, user, ret, first, hdone>>

\* The user of a header gives it back: buf->prev = NULL before the lock.
CallPut(t) ==
    /\ hpc[t] = "idle"
    /\ \E h \in Hdrs :
        /\ user[h] > 0
        /\ \A u \in HdrThreads : ret[u] # h
        /\ ret' = [ret EXCEPT ![t] = h]
        /\ prev' = [prev EXCEPT ![h] = NoHdr]
    /\ HdrGoto(t, "put_spin")
    /\ UNCHANGED <<hdrq, lkbit, next, nmap, avail, user, first, ntry, gets, hdone>>

\* mtlkbit: while (*lp & bit) m_waitspin();
SpinBit(t) ==
    /\ ~lkbit
    /\ \/ hpc[t] = "get_spin" /\ HdrGoto(t, "get_set")
       \/ hpc[t] = "put_spin" /\ HdrGoto(t, "put_set")
    /\ UNCHANGED <<hdrq, lkbit, next, prev, nmap, avail, user, ret, first, ntry, gets, hdone>>

\* Mutant: the bit is set by a load and a store, whatever it was.
SetBitPlainly(t) ==
    /\ hpc[t] \in {"get_set", "put_set"}
    /\ lkbit' = TRUE
    /\ \/ hpc[t] = "get_set" /\ HdrGoto(t, "get_read")
       \/ hpc[t] = "put_set" /\ HdrGoto(t, "put_link")
    /\ UNCHANGED <<hdrq, next, prev, nmap, avail, user, ret, first, ntry, gets, hdone>>

\* Mutant: as m_lkbit in mach/asm.h, which goes on when the bit was set
\* already and tries again, leaving it set, when it was not.
SetBitInverted(t) ==
    /\ hpc[t] \in {"get_set", "put_set"}
    /\ lkbit' = TRUE
    /\ \/ lkbit /\ hpc[t] = "get_set" /\ HdrGoto(t, "get_read")
       \/ lkbit /\ hpc[t] = "put_set" /\ HdrGoto(t, "put_link")
       \/ ~lkbit /\ hpc[t] = "get_set" /\ HdrGoto(t, "get_spin")
       \/ ~lkbit /\ hpc[t] = "put_set" /\ HdrGoto(t, "put_spin")
    /\ UNCHANGED <<hdrq, next, prev, nmap, avail, user, ret, first, ntry, gets, hdone>>

\* m_cmpsetbit: sets the bit and returns what it was, which on x86-64 rests on the
\* register of its result holding the zero assigned to it (BitLock has what else
\* happens); set already, spin on.
SetBit(t) ==
    /\ hpc[t] \in {"get_set", "put_set"}
    /\ lkbit' = TRUE
    /\ \/ ~lkbit /\ hpc[t] = "get_set" /\ HdrGoto(t, "get_read")
       \/ ~lkbit /\ hpc[t] = "put_set" /\ HdrGoto(t, "put_link")
       \/ lkbit /\ hpc[t] = "get_set" /\ HdrGoto(t, "get_spin")
       \/ lkbit /\ hpc[t] = "put_set" /\ HdrGoto(t, "put_spin")
    /\ UNCHANGED <<hdrq, next, prev, nmap, avail, user, ret, first, ntry, gets, hdone>>

\* ret = *hdrq without the bit.
GetRead(t) ==
    /\ hpc[t] = "get_read"
    /\ ret' = [ret EXCEPT ![t] = hdrq]
    /\ HdrGoto(t, IF hdrq = NoHdr THEN "get_map" ELSE "get_unlink")
    /\ UNCHANGED <<hdrq, lkbit, next, prev, nmap, avail, user, first, ntry, gets, hdone>>

\* The links memgetbuf writes into a region whose headers are r + 1 .. r + NBufs:
\* from the second header on, each to the one before; the second's own prev is
\* NULL at first and then itself, because the loop starts with it.
RegionNext(r) ==
    [h \in Hdrs |->
        IF h \in r + 2 .. r + NBufs - 1 THEN h + 1
        ELSE IF h \in r + 1 .. r + NBufs THEN NoHdr ELSE next[h]]

RegionPrev(r) ==
    [h \in Hdrs |->
        IF h = r + 2 THEN h
        ELSE IF h \in r + 3 .. r + NBufs THEN h - 1 ELSE prev[h]]

\* The list is empty: map NBufs headers and take the first, or have none.
GetMap(t) ==
    /\ hpc[t] = "get_map"
    /\ \/ /\ nmap + NBufs <= NHdrs
          /\ nmap' = nmap + NBufs
          /\ ret' = [ret EXCEPT ![t] = nmap + 1]
          /\ next' = RegionNext(nmap)
          /\ prev' = RegionPrev(nmap)
          /\ HdrGoto(t, "get_unlink")
          /\ UNCHANGED first
       \/ /\ first' = [first EXCEPT ![t] = NoHdr]
          /\ HdrGoto(t, "get_write")
          /\ UNCHANGED <<nmap, ret, next, prev>>
    /\ UNCHANGED <<hdrq, lkbit, avail, user, ntry, gets, hdone>>

\* head = ret->next; the new first header has nothing before it.
GetUnlink(t) ==
    /\ hpc[t] = "get_unlink"
    /\ LET n == next[ret[t]]
       IN  /\ first' = [first EXCEPT ![t] = n]
           /\ prev' = IF n = NoHdr THEN prev ELSE [prev EXCEPT ![n] = NoHdr]
    /\ HdrGoto(t, "get_write")
    /\ UNCHANGED <<hdrq, lkbit, next, nmap, avail, user, ret, ntry, gets, hdone>>

\* m_atomwrite of the new head, which has no lock bit.  Without a header
\* the get tries again until its tries are used up.
GetWrite(t) ==
    /\ hpc[t] = "get_write"
    /\ hdrq' = first[t] /\ lkbit' = FALSE
    /\ \/ /\ ret[t] # NoHdr
          /\ avail' = avail \ {ret[t]}
          /\ user' = [user EXCEPT ![ret[t]] = @ + 1]
          /\ HdrReturn(t)
       \/ /\ ret[t] = NoHdr /\ ntry[t] = 1
          /\ HdrReturn(t)
          /\ UNCHANGED <<avail, user>>
       \/ /\ ret[t] = NoHdr /\ ntry[t] > 1
          /\ ntry' = [ntry EXCEPT ![t] = @ - 1]
          /\ HdrGoto(t, "get_spin")
          /\ UNCHANGED <<avail, user, ret, first, hdone>>
    /\ UNCHANGED <<next, prev, nmap, gets>>

\* buf->next = head; head->prev = buf.
PutLink(t) ==
    /\ hpc[t] = "put_link"
    /\ next' = [next EXCEPT ![ret[t]] = hdrq]
    /\ prev' = IF hdrq = NoHdr THEN prev ELSE [prev EXCEPT ![hdrq] = ret[t]]
    /\ HdrGoto(t, "put_write")
    /\ UNCHANGED <<hdrq, lkbit, nmap, avail, user, ret, first, ntry, gets, hdone>>

\* m_atomwrite of the header, which has no lock bit.
PutWrite(t) ==
    /\ hpc[t] = "put_write"
    /\ hdrq' = ret[t] /\ lkbit' = FALSE
    /\ avail' = avail \cup {ret[t]}
    /\ user' = [user EXCEPT ![ret[t]] = @ - 1]
    /\ HdrReturn(t)
    /\ UNCHANGED <<next, prev, nmap, gets>>

HdrContinue(t) ==
    \/ SpinBit(t) \/ SetBit(t) \/ GetRead(t) \/ GetMap(t) \/ GetUnlink(t) \/ GetWrite(t)
    \/ PutLink(t) \/ PutWrite(t)

HdrNext == \E t \in HdrThreads : CallGet(t) \/ CallPut(t) \/ HdrContinue(t)

HdrSpec == HdrInit /\ [][HdrNext]_hdrvars

\* Every running thread is scheduled again.
HdrFair == \A t \in HdrThreads : WF_hdrvars(HdrContinue(t))
---------------------------------------------------------------------------
HdrTypeOK ==
    /\ hdrq \in HdrPtrs /\ lkbit \in BOOLEAN
    /\ next \in [Hdrs -> HdrPtrs] /\ prev \in [Hdrs -> HdrPtrs]
    /\ nmap \in 0 .. NHdrs
    /\ avail \subseteq Hdrs /\ user \in [Hdrs -> Nat]
    /\ hpc \in [HdrThreads -> HdrPCs]
    /\ ret \in [HdrThreads -> HdrPtrs] /\ first \in [HdrThreads -> HdrPtrs]
    /\ ntry \in [HdrThreads -> 0 .. NTry]
    /\ gets \in Nat /\ hdone \in Nat

\* Into every part of S leads the pointer q, or a link from the rest of S: the
\* way from q along the links nx comes to all of S.
HdrReached(nx, q, S) ==
    \A part \in (SUBSET S) \ {{}} : q \in part \/ \E h \in S \ part : nx[h] \in part

\* With the links nx and pv, the headers S are a list that begins with q.
Ordered(nx, pv, q, S) ==
    /\ q # NoHdr => q \in S /\ pv[q] = NoHdr
    /\ \A h \in S : nx[h] # NoHdr => nx[h] \in S /\ pv[nx[h]] = h
    /\ \A h \in S \ {q} : pv[h] \in S /\ nx[pv[h]] = h
    /\ HdrReached(nx, q, S)

\* While the lock bit is clear the list is in order in both directions and
\* leads to exactly the headers that memputbuf put in and memgetbuf has not
\* handed out since.
HdrLinks == ~lkbit => Ordered(next, prev, hdrq, avail)

\* The list of headers is a pool: memgetbuf hands out a header that is in
\* the list or newly mapped, and no header has two users.
HdrAbs == INSTANCE ItemPool WITH Items <- Hdrs, free <- avail, users <- user
HdrIsPool == HdrAbs!Spec

HdrUseful == \E t \in HdrThreads : hpc[t] # "idle"

\* Nobody waits for the bit for ever, and who has it returns, as long as the
\* calls are bounded.
HdrProgress == []<>~HdrUseful
===========================================================================
