----------------------------- MODULE FifoLock -----------------------------
(***************************************************************************)
(* What a fair lock promises: callers of the blocking operation are served *)
(* in the order in which they called.  A try takes the lock only when      *)
(* nobody holds it and nobody waits for it, and otherwise gives up without *)
(* having taken a place.  As in Lock, the store that passes the lock on    *)
(* (Pass) may reach memory after the holder has gone on (Leave).           *)
(***************************************************************************)
EXTENDS Sequences

CONSTANT Threads

VARIABLES mode,   \* what each thread is doing with the lock
          queue   \* the holder, if there is one, and behind it the waiters

vars == <<mode, queue>>

Set(t, m) == mode' = [mode EXCEPT ![t] = m]

Init ==
    /\ mode = [t \in Threads |-> "out"]
    /\ queue = <<>>

Join(t) ==
    /\ mode[t] = "out"
    /\ \A i \in DOMAIN queue : queue[i] # t
    /\ queue' = Append(queue, t)
    /\ Set(t, "wait")

Enter(t) ==
    /\ mode[t] = "wait"
    /\ Head(queue) = t
    /\ Set(t, "in")
    /\ UNCHANGED queue

Try(t) ==
    /\ mode[t] = "out"
    /\ Set(t, "try")
    /\ UNCHANGED queue

TryEnter(t) ==
    /\ mode[t] = "try"
    /\ queue = <<>>
    /\ queue' = <<t>>
    /\ Set(t, "in")

GiveUp(t) ==
    /\ mode[t] = "try"
    /\ Set(t, "out")
    /\ UNCHANGED queue

Leave(t) ==
    /\ mode[t] = "in"
    /\ Set(t, "out")
    /\ UNCHANGED queue

Pass(t) ==
    /\ queue # <<>>
    /\ Head(queue) = t
    /\ mode[t] \notin {"wait", "in"}
    /\ queue' = Tail(queue)
    /\ UNCHANGED mode

Next == \E t \in Threads :
    \/ Join(t) \/ Enter(t)
    \/ Try(t) \/ TryEnter(t) \/ GiveUp(t)
    \/ Leave(t) \/ Pass(t)

Spec == Init /\ [][Next]_vars
===========================================================================
