------------------------------ MODULE RandLock ------------------------------
(***************************************************************************)
(* How the 64-bit Mersenne Twister of libprng (prng/randmt64.c) keeps its  *)
(* threads apart: a mutex that is made recursive when it is first needed,  *)
(* and a second mutex that is to see to it that this happens once.         *)
(*                                                                         *)
(* pthread_mutex_trylock returns 0 when it has taken the mutex, so that    *)
(* the first caller keeps randmt64initmtx for good and works with          *)
(* randmt64mtx as it is: zeroed, which is a normal mutex that is free.  A  *)
(* caller that finds randmt64initmtx taken makes randmt64mtx anew,         *)
(* whoever has it; that may be the first caller itself, which seeds from   *)
(* inside.  The words of the state are left to Twister; here it is seeded  *)
(* or not, and what counts is the index of the next one.                   *)
(***************************************************************************)
EXTENDS Naturals, FiniteSets

CONSTANTS RandThreads,  \* the callers
          NSTATE,       \* the words of the state (RANDMT64NSTATE)
          NRand,        \* how many calls there are in all
          Nobody         \* stands for no thread

ASSUME RandAssumption ==
    /\ IsFiniteSet(RandThreads) /\ NSTATE \in Nat \ {0} /\ NRand \in Nat \ {0}
    /\ Nobody \notin RandThreads

VARIABLES randpc,   \* where each thread is
          back,     \* where a call from inside returns to, or "caller"
          init,     \* randmt64init
          initmtx,  \* randmt64initmtx is taken
          kind,     \* of randmt64mtx: "normal" or "recursive"
          owner,    \* the thread that has randmt64mtx
          count,    \* how often it has it
          curndx,   \* randmt64curndx
          cur,      \* of each thread: the index it read
          calls,    \* how many calls have begun
          seeded,   \* history: the state has been seeded
          settled,  \* history: nobody was inside with init set
          overlap   \* history: before that, two calls overlapped

randvars == <<randpc, back, init, initmtx, kind, owner, count, curndx, cur, calls, seeded, settled, overlap>>

RandInit ==
    /\ randpc = [t \in RandThreads |-> "idle"]
    /\ back = [t \in RandThreads |-> "caller"]
    /\ init = 0
    /\ initmtx = FALSE
    /\ kind = "normal" /\ owner = Nobody /\ count = 0
    /\ curndx = NSTATE + 1
    /\ cur = [t \in RandThreads |-> 0]
    /\ calls = 0
    /\ seeded = FALSE /\ settled = FALSE /\ overlap = FALSE

Idle(t) == randpc[t] = "idle"

\* The innermost call goes on at p.
RandGoto(t, p) == randpc' = [randpc EXCEPT ![t] = p] /\ UNCHANGED back

\* A call of srandmt64 from inside; the caller goes on at p.
Enter(t, p) == randpc' = [randpc EXCEPT ![t] = "seed_init"] /\ back' = [back EXCEPT ![t] = p]

Mutexes == <<initmtx, kind, owner, count>>
History == <<calls, seeded, settled, overlap>>
State == <<curndx, cur>>

\* A thread calls randmt64, srandmt64 or srandmt64tab.
CallRand(t, first) ==
    /\ Idle(t) /\ calls < NRand
    /\ RandGoto(t, first)
    /\ calls' = calls + 1
    /\ overlap' = (overlap \/ (~settled /\ \E u \in RandThreads : ~Idle(u)))
    /\ UNCHANGED <<init, seeded, settled>> /\ UNCHANGED Mutexes /\ UNCHANGED State

\* Where a function goes after its preamble.
Locked == [rand_init |-> "rand_lk", seed_init |-> "seed_lk", tab_init |-> "tab_lk"]
Making == [rand_init |-> "rand_make", seed_init |-> "seed_make", tab_init |-> "tab_make"]
Made == [rand_make |-> "rand_lk", seed_make |-> "seed_lk", tab_make |-> "tab_lk"]
---------------------------------------------------------------------------
(* _randmt64mtxinit.                                                       *)

TryInit(t) ==
    /\ randpc[t] \in DOMAIN Locked
    /\ RandGoto(t, IF init = 0 /\ initmtx THEN Making[randpc[t]] ELSE Locked[randpc[t]])
    /\ initmtx' = (initmtx \/ init = 0)
    /\ UNCHANGED <<init, kind, owner, count>> /\ UNCHANGED State /\ UNCHANGED History

\* The mutex is made recursive, and free.
MakeMutex(t) ==
    /\ randpc[t] \in DOMAIN Made
    /\ RandGoto(t, Made[randpc[t]])
    /\ kind' = "recursive" /\ owner' = Nobody /\ count' = 0
    /\ init' = 1 /\ initmtx' = FALSE
    /\ UNCHANGED State /\ UNCHANGED History
---------------------------------------------------------------------------
(* The mutex, as the C library has it: a normal mutex is unlocked by any   *)
(* thread, a recursive one by the thread that has it.                      *)

CanLock(t) == owner = Nobody \/ (kind = "recursive" /\ owner = t)
Lock(t) == CanLock(t) /\ owner' = t /\ count' = count + 1 /\ UNCHANGED <<kind, initmtx>>

RandUnlock(t) ==
    /\ IF kind = "normal" THEN owner' = Nobody /\ count' = 0
       ELSE IF owner # t THEN UNCHANGED <<owner, count>>
       ELSE count' = count - 1 /\ owner' = IF count = 1 THEN Nobody ELSE t
    /\ UNCHANGED <<kind, initmtx>>

Quiet(t) == init = 1 /\ \A u \in RandThreads \ {t} : Idle(u)

\* A function unlocks and returns to what called it.
Return(t, from) ==
    /\ randpc[t] = from
    /\ RandUnlock(t)
    /\ randpc' = [randpc EXCEPT ![t] = IF back[t] = "caller" THEN "idle" ELSE back[t]]
    /\ back' = [back EXCEPT ![t] = "caller"]
    /\ settled' = (settled \/ (back[t] = "caller" /\ Quiet(t)))
    /\ UNCHANGED <<init, calls, seeded, overlap>> /\ UNCHANGED State
---------------------------------------------------------------------------
LockTo(t, from, next) ==
    /\ randpc[t] = from /\ Lock(t) /\ RandGoto(t, next)
    /\ UNCHANGED init /\ UNCHANGED State /\ UNCHANGED History

\* srandmt64: the words, then the index after the last.
Seed(t) ==
    /\ randpc[t] = "seed_fill"
    /\ RandGoto(t, "seed_out")
    /\ curndx' = NSTATE
    /\ seeded' = TRUE
    /\ UNCHANGED <<init, cur, calls, settled, overlap>> /\ UNCHANGED Mutexes

\* srandmt64tab seeds, then mixes the key in.
TabSeed(t) ==
    /\ randpc[t] = "tab_seed" /\ Enter(t, "tab_out")
    /\ UNCHANGED init /\ UNCHANGED Mutexes /\ UNCHANGED State /\ UNCHANGED History

\* randmt64: is there a word left, has there ever been one?  (It reads the
\* index once; a second reading could differ only if two threads overlap.)
Test(t) ==
    /\ randpc[t] = "rand_test"
    /\ IF curndx < NSTATE THEN RandGoto(t, "rand_read")
       ELSE IF curndx = NSTATE + 1 THEN Enter(t, "rand_fill")
       ELSE RandGoto(t, "rand_fill")
    /\ UNCHANGED init /\ UNCHANGED Mutexes /\ UNCHANGED State /\ UNCHANGED History

\* _randmt64buf.
Refill(t) ==
    /\ randpc[t] = "rand_fill" /\ RandGoto(t, "rand_read")
    /\ curndx' = 0
    /\ UNCHANGED <<init, cur>> /\ UNCHANGED Mutexes /\ UNCHANGED History

ReadIndex(t) ==
    /\ randpc[t] = "rand_read" /\ RandGoto(t, "rand_write")
    /\ cur' = [cur EXCEPT ![t] = curndx]
    /\ UNCHANGED <<init, curndx>> /\ UNCHANGED Mutexes /\ UNCHANGED History

WriteIndex(t) ==
    /\ randpc[t] = "rand_write" /\ RandGoto(t, "rand_out")
    /\ curndx' = cur[t] + 1
    /\ UNCHANGED <<init, cur>> /\ UNCHANGED Mutexes /\ UNCHANGED History

RandContinue(t) ==
    \/ TryInit(t) \/ MakeMutex(t)
    \/ LockTo(t, "seed_lk", "seed_fill") \/ Seed(t) \/ Return(t, "seed_out")
    \/ LockTo(t, "tab_lk", "tab_seed") \/ TabSeed(t) \/ Return(t, "tab_out")
    \/ LockTo(t, "rand_lk", "rand_test") \/ Test(t) \/ Refill(t)
    \/ ReadIndex(t) \/ WriteIndex(t) \/ Return(t, "rand_out")

RandNext ==
    \E t \in RandThreads :
        \/ \E first \in {"rand_init", "seed_init", "tab_init"} : CallRand(t, first)
        \/ RandContinue(t)

\* A thread that has called is scheduled again, and gets a mutex that is
\* free again and again.
RandFair == \A t \in RandThreads : SF_randvars(RandContinue(t))

RandSpec == RandInit /\ [][RandNext]_randvars /\ RandFair
---------------------------------------------------------------------------
Inside == {"seed_fill", "seed_out", "tab_seed", "tab_out",
           "rand_test", "rand_fill", "rand_read", "rand_write", "rand_out"}
RandPoints == Inside \cup DOMAIN Locked \cup DOMAIN Made \cup {"seed_lk", "tab_lk", "rand_lk"}

SeedPoints == {"seed_init", "seed_make", "seed_lk", "seed_fill", "seed_out"}

RandTypeOK ==
    /\ randpc \in [RandThreads -> RandPoints \cup {"idle"}]
    /\ back \in [RandThreads -> {"caller", "rand_fill", "tab_out"}]
    /\ \A t \in RandThreads : back[t] # "caller" => randpc[t] \in SeedPoints
    /\ init \in {0, 1} /\ initmtx \in BOOLEAN
    /\ kind \in {"normal", "recursive"}
    /\ owner \in RandThreads \cup {Nobody}
    /\ count \in 0 .. 2 /\ (owner = Nobody) = (count = 0)
    /\ curndx \in 0 .. NSTATE + NRand
    /\ cur \in [RandThreads -> 0 .. NSTATE + NRand]

\* A call from inside is one of srandmt64 by a thread that works already.
Working == {t \in RandThreads : randpc[t] \in Inside \/ back[t] # "caller"}

\* Once a moment without callers has come after the mutex was made, one
\* thread at a time works on the state: the mutex is not made anew under it.
SettledExclusion == settled => Cardinality(Working) <= 1

\* If no two calls overlapped before that moment, a word that is not there is
\* never read: an index past the words is read by nobody, and one past that
\* stands for a state that was never seeded.
IndexInside ==
    ~overlap => /\ curndx = NSTATE + 1 => ~seeded
                /\ \A t \in RandThreads : randpc[t] = "rand_write" => cur[t] < NSTATE

\* Then, too, every call returns, those from inside included.
CallLasts(t) == ~Idle(t) /\ ~overlap

RandReturns == \A t \in RandThreads : []<>~CallLasts(t)
=============================================================================
