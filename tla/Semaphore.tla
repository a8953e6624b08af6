------------------------------ MODULE Semaphore ------------------------------
(***************************************************************************)
(* The counting semaphore of libmt (mt/sem.c): a value under a fast mutex. *)
(* mtwaitsem takes a unit and waits for one; semtrywait takes one if there *)
(* is one, sempost gives one back.  The try-lock is one step, as           *)
(* FastMutex shows it to be, and the three calls use it in three ways:     *)
(* mtwaitsem repeats until it succeeds, sempost repeats until it fails,    *)
(* and semtrywait does not call it at all (the macro that would select it  *)
(* is misspelt), but gives the lock back like the others.                  *)
(***************************************************************************)
EXTENDS Naturals, FiniteSets

CONSTANTS SemThreads,  \* the threads that share the semaphore
          SEM_MAXVAL,  \* its greatest value (ULONG_MAX)
          NCalls,      \* how often each thread calls
          NoOne        \* stands for no thread

ASSUME SemAssumption ==
    /\ SEM_MAXVAL \in Nat \ {0}
    /\ NCalls \in Nat
    /\ NoOne \notin SemThreads

Vals == 0 .. SEM_MAXVAL

VARIABLES sempc,    \* where each thread is
          lk,       \* the mutex word: 0 free, 1 taken
          val,      \* the value of the semaphore
          read,     \* what the thread's test read from val
          semleft,     \* how many calls each thread still makes
          start,    \* history: the first value
          taken,    \* history: the units that were taken
          posted,   \* history: the units that were given back
          holder,   \* history: the thread whose try-lock took the word
          clash     \* history: a sempost or semtrywait overlapped another call

semvars == <<sempc, lk, val, read, semleft, start, taken, posted, holder, clash>>

Waits == {"wait_lk", "wait_test", "wait_sub", "wait_again", "wait_unlk"}
Tries == {"try_test", "try_sub", "try_unlk"}
Posts == {"post_lk", "post_test", "post_add", "post_again", "post_unlk"}

SemInit ==
    /\ sempc = [t \in SemThreads |-> "idle"]
    /\ lk = 0
    /\ val \in Vals
    /\ read = [t \in SemThreads |-> 0]
    /\ semleft = [t \in SemThreads |-> NCalls]
    /\ start = val
    /\ taken = 0
    /\ posted = 0
    /\ holder = NoOne
    /\ clash = FALSE

SemGoto(t, p) == sempc' = [sempc EXCEPT ![t] = p]
Counts == <<semleft, start, taken, posted, clash>>

\* A thread enters one of the three functions.
Call(t, first) ==
    /\ sempc[t] = "idle" /\ semleft[t] > 0
    /\ SemGoto(t, first)
    /\ semleft' = [semleft EXCEPT ![t] = @ - 1]
    /\ clash' = (clash \/ \E u \in SemThreads :
                    sempc[u] # "idle" /\ ~(first = "wait_lk" /\ sempc[u] \in Waits))
    /\ UNCHANGED <<lk, val, read, start, taken, posted, holder>>

TakeLock(t) == lk = 0 /\ lk' = 1 /\ holder' = t
GiveLock == lk' = 0 /\ holder' = NoOne

\* The test of val and the change of it are two steps; the change works on
\* what the test read or on what val is by then, as the build has it.
SemTest(t, empty, some) ==
    /\ read' = [read EXCEPT ![t] = val]
    /\ SemGoto(t, IF val = 0 THEN empty ELSE some)
    /\ UNCHANGED <<lk, val, holder>> /\ UNCHANGED Counts

Take(t, next) ==
    /\ \E v \in {read[t], val} : val' = IF v = 0 THEN SEM_MAXVAL ELSE v - 1
    /\ taken' = taken + 1
    /\ SemGoto(t, next)
    /\ UNCHANGED <<lk, read, semleft, start, posted, holder, clash>>

SemUnlock(t, next) ==
    /\ GiveLock
    /\ SemGoto(t, next)
    /\ UNCHANGED <<val, read>> /\ UNCHANGED Counts
---------------------------------------------------------------------------
(* mtwaitsem: the lock, the test, the unit; without one, all over again.   *)

WaitLock(t) ==
    /\ sempc[t] = "wait_lk"
    /\ TakeLock(t)
    /\ SemGoto(t, "wait_test")
    /\ UNCHANGED <<val, read>> /\ UNCHANGED Counts

WaitTest(t) == sempc[t] = "wait_test" /\ SemTest(t, "wait_again", "wait_sub")
WaitTake(t) == sempc[t] = "wait_sub" /\ Take(t, "wait_unlk")

WaitAgain(t) == sempc[t] = "wait_again" /\ SemUnlock(t, "wait_lk")

WaitReturn(t) == sempc[t] = "wait_unlk" /\ SemUnlock(t, "idle")
---------------------------------------------------------------------------
(* semtrywait: the same without the lock; -1 without a unit.               *)

TryTest(t) == sempc[t] = "try_test" /\ SemTest(t, "try_unlk", "try_sub")
TryTake(t) == sempc[t] = "try_sub" /\ Take(t, "try_unlk")
TryReturn(t) == sempc[t] = "try_unlk" /\ SemUnlock(t, "idle")
---------------------------------------------------------------------------
(* sempost: goes on when the try-lock fails, because another thread has    *)
(* the lock or because its own last try took it.  It does not touch an     *)
(* empty semaphore, and returns from a full one with the lock as it is.    *)

PostTry(t) ==
    /\ sempc[t] = "post_lk"
    /\ TakeLock(t)
    /\ UNCHANGED <<sempc, val, read>> /\ UNCHANGED Counts

PostGoOn(t) ==
    /\ sempc[t] = "post_lk"
    /\ lk # 0
    /\ SemGoto(t, "post_test")
    /\ UNCHANGED <<lk, val, read, holder>> /\ UNCHANGED Counts

PostTest(t) ==
    /\ sempc[t] = "post_test"
    /\ SemTest(t, "post_again", IF val = SEM_MAXVAL THEN "idle" ELSE "post_add")

PostAgain(t) == sempc[t] = "post_again" /\ SemUnlock(t, "post_lk")

\* Mutant: the value is put back as it was read.
PostGiveNone(t) ==
    /\ sempc[t] = "post_add"
    /\ posted' = posted + 1
    /\ SemGoto(t, "post_unlk")
    /\ UNCHANGED <<lk, val, read, semleft, start, taken, holder, clash>>

PostGive(t) ==
    /\ sempc[t] = "post_add"
    /\ \E v \in {read[t], val} : val' = IF v = SEM_MAXVAL THEN 0 ELSE v + 1
    /\ posted' = posted + 1
    /\ SemGoto(t, "post_unlk")
    /\ UNCHANGED <<lk, read, semleft, start, taken, holder, clash>>

PostReturn(t) == sempc[t] = "post_unlk" /\ SemUnlock(t, "idle")
---------------------------------------------------------------------------
SemContinue(t) ==
    \/ WaitLock(t) \/ WaitTest(t) \/ WaitTake(t) \/ WaitAgain(t) \/ WaitReturn(t)
    \/ TryTest(t) \/ TryTake(t) \/ TryReturn(t)
    \/ PostTry(t) \/ PostGoOn(t) \/ PostTest(t) \/ PostAgain(t) \/ PostGive(t) \/ PostReturn(t)

SemNext ==
    \E t \in SemThreads :
        \/ \E first \in {"wait_lk", "try_test", "post_lk"} : Call(t, first)
        \/ SemContinue(t)

\* A thread that has called is scheduled again.
SemFair == \A t \in SemThreads : WF_semvars(SemContinue(t))

SemSpec == SemInit /\ [][SemNext]_semvars /\ SemFair
---------------------------------------------------------------------------
SemTypeOK ==
    /\ sempc \in [SemThreads -> {"idle"} \cup Waits \cup Tries \cup Posts]
    /\ lk \in {0, 1}
    /\ val \in Vals
    /\ read \in [SemThreads -> Vals]
    /\ semleft \in [SemThreads -> 0 .. NCalls]
    /\ holder \in SemThreads \cup {NoOne}

\* As long as sempost and semtrywait do not overlap another call, every unit
\* is accounted for between two calls: any number of mtwaitsem may overlap
\* and no two take the same unit.
UnitsKept ==
    ~clash /\ (\A t \in SemThreads : sempc[t] = "idle") => val + taken = start + posted

\* Then, too, the lock is free between two calls, except after a sempost of
\* a full semaphore, which returns without giving it back.
LockReturned ==
    ~clash /\ (\A t \in SemThreads : sempc[t] = "idle") /\ lk # 0 => val = SEM_MAXVAL

\* A unit that is there while a thread waits in mtwaitsem is taken by someone,
\* unless a sempost of a full semaphore has kept the lock.
LockKept == lk # 0 /\ sempc[holder] = "idle" /\ val = SEM_MAXVAL

UnitAwaited ==
    /\ val # 0 /\ \E t \in SemThreads : sempc[t] \in Waits \ {"wait_unlk"}
    /\ ~clash /\ ~LockKept

UnitsGoOut == []<>~UnitAwaited
===========================================================================
