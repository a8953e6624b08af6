----------------------------- MODULE ItemPool -----------------------------
(***************************************************************************)
(* What the shared pools of velho promise: an item is in the pool or with  *)
(* one user, never both, and a user gets an item only by taking it out of  *)
(* the pool or by making it.  The stacks of mt/tmp/stkpool.h and the       *)
(* header lists of zen/mem.c are shown to implement it.                    *)
(***************************************************************************)
EXTENDS Naturals

CONSTANT Items

VARIABLES free,   \* the items in the pool
          users   \* how many users each item has

vars == <<free, users>>

Init == free = {} /\ users = [i \in Items |-> 0]

New(i) == i \notin free /\ users[i] = 0

\* A new item is made and kept by its maker.
Make(i) == New(i) /\ users' = [users EXCEPT ![i] = 1] /\ UNCHANGED free

\* A new item is put into the pool at once.
Bring(i) == New(i) /\ free' = free \cup {i} /\ UNCHANGED users

Take(i) == i \in free /\ free' = free \ {i} /\ users' = [users EXCEPT ![i] = 1]

Give(i) == users[i] = 1 /\ users' = [users EXCEPT ![i] = 0] /\ free' = free \cup {i}

Next == \E i \in Items : Make(i) \/ Bring(i) \/ Take(i) \/ Give(i)

Spec == Init /\ [][Next]_vars
===========================================================================
