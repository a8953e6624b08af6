------------------------------- MODULE Lock -------------------------------
(***************************************************************************)
(* What every exclusive lock of libmt promises its callers, with nothing   *)
(* of how the lock word is encoded.  A release is lazy: the store that     *)
(* gives the lock back may reach the other threads after the releasing     *)
(* thread has gone on, so giving up the lock (Leave) and the lock being    *)
(* free (Free) are two steps.                                              *)
(***************************************************************************)
CONSTANT Threads

VARIABLES mode,    \* what each thread is doing with the lock
          owners   \* the threads whose acquisition is not yet undone in memory

vars == <<mode, owners>>

Modes == {"out", "lock", "try", "in"}

Init ==
    /\ mode = [t \in Threads |-> "out"]
    /\ owners = {}

\* A thread calls the blocking or the trying operation.
Call(t) ==
    /\ mode[t] = "out"
    /\ \E m \in {"lock", "try"} : mode' = [mode EXCEPT ![t] = m]
    /\ UNCHANGED owners

\* The lock is granted only when nobody owns it.
Acquire(t) ==
    /\ mode[t] \in {"lock", "try"}
    /\ owners = {}
    /\ mode' = [mode EXCEPT ![t] = "in"]
    /\ owners' = {t}

\* A try is refused only at an instant when somebody else owns the lock.
Refuse(t) ==
    /\ mode[t] = "try"
    /\ owners \ {t} # {}
    /\ mode' = [mode EXCEPT ![t] = "out"]
    /\ UNCHANGED owners

Leave(t) ==
    /\ mode[t] = "in"
    /\ mode' = [mode EXCEPT ![t] = "out"]
    /\ UNCHANGED owners

Free(t) ==
    /\ t \in owners
    /\ mode[t] # "in"
    /\ owners' = owners \ {t}
    /\ UNCHANGED mode

Next == \E t \in Threads :
    Call(t) \/ Acquire(t) \/ Refuse(t) \/ Leave(t) \/ Free(t)

Spec == Init /\ [][Next]_vars
===========================================================================
