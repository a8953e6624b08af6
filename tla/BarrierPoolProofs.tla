-------------------------- MODULE BarrierPoolProofs --------------------------
(***************************************************************************)
(* Theorems about the pool barrier, for every finite set of callers, every *)
(* size of the groups, every width of seq and every number of calls.       *)
(*                                                                         *)
(* For a barrier made for all its callers there is a number R of openings  *)
(* (it need not be a variable: the calls and returns of any caller give    *)
(* it) such that every caller is outside after R rounds, on its way into   *)
(* the next, counted for the next, or still leaving the last one.  A       *)
(* caller counted has seen the present seq; one that leaves has seen the   *)
(* one before, and seq cannot come round again before it has left.         *)
(***************************************************************************)
EXTENDS BarrierPool, FiniteSetTheorems, TLAPS

Waiting == {"check", "futex", "asleep"}
Leaving == {"deref", "last", "lastsleep"}

BarType ==
    /\ num \in Nat /\ cnt \in Nat
    /\ pc \in [Threads -> PCs]
    /\ seq \in 0 .. SeqMod - 1 /\ myseq \in [Threads -> 0 .. SeqMod - 1]
    /\ ret \in [Threads -> {0, SERIAL}]
    /\ calls \in [Threads -> Nat] /\ leaves \in [Threads -> Nat]

\* Whoever opens has completed the group, and the count stays above num until
\* it has opened.
Opening ==
    \A t \in Threads :
        pc[t] = "open" => cnt > num /\ \A u \in Threads : pc[u] = "open" => u = t

\* The callers counted for the next opening.
Counted(t) == pc[t] = "open" \/ (pc[t] \in Waiting /\ myseq[t] = seq)
Arrived == {t \in Threads : Counted(t)}

\* Where a caller can be after R openings.
Out(t, R) == pc[t] = "idle" /\ calls[t] = R /\ leaves[t] = R
Coming(t, R) ==
    /\ calls[t] = R + 1 /\ leaves[t] = R
    /\ pc[t] = "read" \/ (pc[t] = "add" /\ myseq[t] = seq)
Here(t, R) == Counted(t) /\ calls[t] = R + 1 /\ leaves[t] = R
Past(t, R) ==
    /\ calls[t] = R /\ leaves[t] + 1 = R
    /\ \/ pc[t] \in Leaving \cup {"wake"}
       \/ pc[t] \in Waiting /\ seq = (myseq[t] + 1) % SeqMod

Rounds(R) == \A t \in Threads : Out(t, R) \/ Coming(t, R) \/ Here(t, R) \/ Past(t, R)

\* The caller has been given its result of round R and not begun another.
Told(t, R) == pc[t] \in Leaving \/ leaves[t] = R

\* s opened round R and the others did not.
Opened(s, R) ==
    /\ pc[s] = "wake" \/ (Told(s, R) /\ ret[s] = SERIAL)
    /\ \A u \in Threads \ {s} : pc[u] # "wake" /\ (Told(u, R) => ret[u] = 0)

Serial(R) == R > 0 => \E s \in Threads : Opened(s, R)

Round(R) == Rounds(R) /\ cnt = Cardinality(Arrived) /\ Serial(R)

IInv == BarType /\ Opening /\ (Exact => \E R \in Nat : Round(R))

\* Nobody has called and no round has been opened at the start.
LEMMA InitInv == Init => IInv
<1> SUFFICES ASSUME Init PROVE IInv
  OBVIOUS
<1>1. BarType
  BY GroupsAssumption, SeqModAssumption DEF Init, BarType, PCs, SERIAL
<1>2. Opening
  BY DEF Init, Opening
<1>3. Arrived = {}
  BY DEF Init, Arrived, Counted, Waiting
<1>4. Round(0)
  BY <1>3, FS_EmptySet DEF Init, Round, Rounds, Serial, Out
<1> QED
  BY <1>1, <1>2, <1>4 DEF IInv

\* Every step keeps the types.
LEMMA TypeStep == BarType /\ [Next]_vars => BarType'
<1> SUFFICES ASSUME BarType, [Next]_vars PROVE BarType'
  OBVIOUS
<1> USE SeqModAssumption DEF BarType, PCs, SERIAL, Goto
<1>1. ASSUME NEW t \in Threads, Call(t) PROVE BarType'
  BY <1>1 DEF Call
<1>2. ASSUME NEW t \in Threads, ReadSeq(t) PROVE BarType'
  BY <1>2 DEF ReadSeq
<1>3. ASSUME NEW t \in Threads, Add(t) PROVE BarType'
  BY <1>3 DEF Add
<1>4. ASSUME NEW t \in Threads, Check(t) PROVE BarType'
  BY <1>4 DEF Check
<1>5. ASSUME NEW t \in Threads, Futex(t) PROVE BarType'
  BY <1>5 DEF Futex, Wait
<1>6. ASSUME NEW t \in Threads, Slow(t) PROVE BarType'
  BY <1>6 DEF Slow, Wait
<1>7. ASSUME NEW t \in Threads, Wake(t) PROVE BarType'
  BY <1>7 DEF Wake
<1>8. ASSUME NEW t \in Threads, Deref(t) PROVE BarType'
  BY <1>8 DEF Deref, Return
<1>9. ASSUME NEW t \in Threads, Last(t) PROVE BarType'
  BY <1>9 DEF Last, Return
<1>10. ASSUME NEW t \in Threads, Interrupted(t) PROVE BarType'
  BY <1>10 DEF Interrupted
<1>11. ASSUME NEW t \in Threads, Open(t) PROVE BarType'
  BY <1>11 DEF Open
<1>12. ASSUME Free \/ FreeRead \/ FreeWait \/ UNCHANGED vars PROVE BarType'
  BY <1>12 DEF Free, FreeRead, FreeWait, vars
<1> QED
  BY <1>1, <1>2, <1>3, <1>4, <1>5, <1>6, <1>7, <1>8,
     <1>9, <1>10, <1>11, <1>12 DEF Next, Continue, Destroy

\* Only the arrival that finds cnt = num opens, and nobody finds it again before
\* the count is reset.
LEMMA OpeningStep == BarType /\ Opening /\ [Next]_vars => Opening'
<1> SUFFICES ASSUME BarType, Opening, [Next]_vars PROVE Opening'
  OBVIOUS
<1> USE DEF BarType, Opening, Goto
<1>1. ASSUME NEW t \in Threads, Call(t) PROVE Opening'
  BY <1>1 DEF Call
<1>2. ASSUME NEW t \in Threads, ReadSeq(t) PROVE Opening'
  BY <1>2 DEF ReadSeq
<1>3. ASSUME NEW t \in Threads, Add(t) PROVE Opening'
  BY <1>3 DEF Add
<1>4. ASSUME NEW t \in Threads, Check(t) PROVE Opening'
  BY <1>4 DEF Check
<1>5. ASSUME NEW t \in Threads, Futex(t) PROVE Opening'
  BY <1>5 DEF Futex, Wait
<1>6. ASSUME NEW t \in Threads, Slow(t) PROVE Opening'
  BY <1>6 DEF Slow, Wait
<1>7. ASSUME NEW t \in Threads, Wake(t) PROVE Opening'
  BY <1>7 DEF Wake
<1>8. ASSUME NEW t \in Threads, Deref(t) PROVE Opening'
  BY <1>8 DEF Deref, Return
<1>9. ASSUME NEW t \in Threads, Last(t) PROVE Opening'
  BY <1>9 DEF Last, Return
<1>10. ASSUME NEW t \in Threads, Interrupted(t) PROVE Opening'
  BY <1>10 DEF Interrupted
<1>11. ASSUME NEW t \in Threads, Open(t) PROVE Opening'
  BY <1>11 DEF Open
<1>12. ASSUME Free \/ FreeRead \/ FreeWait \/ UNCHANGED vars PROVE Opening'
  BY <1>12 DEF Free, FreeRead, FreeWait, vars
<1> QED
  BY <1>1, <1>2, <1>3, <1>4, <1>5, <1>6, <1>7, <1>8,
     <1>9, <1>10, <1>11, <1>12 DEF Next, Continue, Destroy

-----------------------------------------------------------------------------
\* The next value of seq is another one.
LEMMA SeqAdvances == ASSUME NEW m \in 0 .. SeqMod - 1 PROVE (m + 1) % SeqMod # m
BY SeqModAssumption, SMT

\* Facts about the set of callers that have arrived.
LEMMA ArrivedFinite ==
    /\ IsFiniteSet(Arrived) /\ Cardinality(Arrived) \in Nat /\ Cardinality(Threads) \in Nat
    /\ Cardinality(Arrived) <= Cardinality(Threads)
    /\ Cardinality(Arrived) = Cardinality(Threads) => Arrived = Threads
<1>1. Arrived \in SUBSET Threads
  BY DEF Arrived
<1>2. IsFiniteSet(Arrived)
  BY <1>1, ThreadsAssumption, FS_Subset
<1> QED
  BY <1>1, <1>2, ThreadsAssumption, FS_Subset, FS_CardinalityType

\* One more caller arrives.
LEMMA OneMore ==
    ASSUME NEW t, t \notin Arrived
    PROVE  Cardinality(Arrived \cup {t}) = Cardinality(Arrived) + 1
BY ArrivedFinite, FS_AddElement

\* While nobody opens, every caller stays in its round.
LEMMA RoundsStep ==
    ASSUME BarType, Opening, Exact, NEW R \in Nat, Round(R), Next \/ UNCHANGED vars,
           \A t \in Threads : ~Open(t)
    PROVE  Rounds(R)'
<1> USE DEF BarType, Round, Rounds, Out, Coming, Here, Past, Counted, Waiting, Leaving, Goto
<1>1. ASSUME NEW t \in Threads, Call(t) PROVE Rounds(R)'
  BY <1>1 DEF Call
<1>2. ASSUME NEW t \in Threads, ReadSeq(t) PROVE Rounds(R)'
  BY <1>2 DEF ReadSeq
<1>3. ASSUME NEW t \in Threads, Check(t) PROVE Rounds(R)'
  BY <1>3, SeqAdvances DEF Check
<1>4. ASSUME NEW t \in Threads, Futex(t) PROVE Rounds(R)'
  BY <1>4, SeqAdvances DEF Futex, Wait
<1>5. ASSUME NEW t \in Threads, Slow(t) PROVE Rounds(R)'
  BY <1>5 DEF Slow, Wait
<1>6. ASSUME NEW t \in Threads, Wake(t) PROVE Rounds(R)'
  BY <1>6 DEF Wake
<1>7. ASSUME NEW t \in Threads, Deref(t) PROVE Rounds(R)'
  BY <1>7 DEF Deref, Return
<1>8. ASSUME NEW t \in Threads, Last(t) PROVE Rounds(R)'
  BY <1>8 DEF Last, Return
<1>9. ASSUME NEW t \in Threads, Interrupted(t) PROVE Rounds(R)'
  BY <1>9 DEF Interrupted
<1>10. ASSUME Free \/ FreeRead \/ FreeWait \/ UNCHANGED vars PROVE Rounds(R)'
  BY <1>10 DEF Free, FreeRead, FreeWait, vars
<1>11. ASSUME NEW t \in Threads, Add(t) PROVE Rounds(R)'
  <2>1. t \notin Arrived /\ cnt = Cardinality(Arrived)
    BY <1>11 DEF Add, Arrived
  <2>2. cnt <= num
    BY <2>1, ArrivedFinite DEF Exact
  <2> QED
    BY <1>11, <2>2 DEF Add
<1> QED
  BY <1>1, <1>2, <1>3, <1>4, <1>5, <1>6, <1>7, <1>8,
     <1>9, <1>10, <1>11 DEF Next, Continue, Destroy

\* While nobody opens, cnt counts the callers that have arrived.
LEMMA CountStep ==
    ASSUME BarType, Opening, Exact, NEW R \in Nat, Round(R), Next \/ UNCHANGED vars,
           \A t \in Threads : ~Open(t)
    PROVE  (cnt = Cardinality(Arrived))'
<1> USE DEF BarType, Round, Rounds, Out, Coming, Here, Past, Counted, Waiting, Leaving, Goto
<1>1. ASSUME Arrived' = Arrived, cnt' = cnt PROVE (cnt = Cardinality(Arrived))'
  BY <1>1
<1>2. ASSUME NEW t \in Threads, Add(t) PROVE (cnt = Cardinality(Arrived))'
  <2>1. t \notin Arrived /\ cnt = Cardinality(Arrived)
    BY <1>2 DEF Add, Arrived
  <2>2. cnt <= num
    BY <2>1, ArrivedFinite DEF Exact
  <2>3. Arrived' = Arrived \cup {t} /\ cnt' = cnt + 1
    BY <1>2, <2>2 DEF Add, Arrived
  <2> QED
    BY <2>1, <2>3, OneMore
<1>3. ASSUME NEW t \in Threads, Call(t) PROVE Arrived' = Arrived /\ cnt' = cnt
  BY <1>3 DEF Call, Arrived
<1>4. ASSUME NEW t \in Threads, ReadSeq(t) PROVE Arrived' = Arrived /\ cnt' = cnt
  BY <1>4 DEF ReadSeq, Arrived
<1>5. ASSUME NEW t \in Threads, Check(t) PROVE Arrived' = Arrived /\ cnt' = cnt
  BY <1>5, SeqAdvances DEF Check, Arrived
<1>6. ASSUME NEW t \in Threads, Futex(t) PROVE Arrived' = Arrived /\ cnt' = cnt
  BY <1>6, SeqAdvances DEF Futex, Wait, Arrived
<1>7. ASSUME NEW t \in Threads, Slow(t) PROVE Arrived' = Arrived /\ cnt' = cnt
  BY <1>7 DEF Slow, Wait, Arrived
<1>8. ASSUME NEW t \in Threads, Wake(t) PROVE Arrived' = Arrived /\ cnt' = cnt
  BY <1>8 DEF Wake, Arrived
<1>9. ASSUME NEW t \in Threads, Deref(t) PROVE Arrived' = Arrived /\ cnt' = cnt
  BY <1>9 DEF Deref, Return, Arrived
<1>10. ASSUME NEW t \in Threads, Last(t) PROVE Arrived' = Arrived /\ cnt' = cnt
  BY <1>10 DEF Last, Return, Arrived
<1>11. ASSUME NEW t \in Threads, Interrupted(t) PROVE Arrived' = Arrived /\ cnt' = cnt
  BY <1>11, SeqAdvances DEF Interrupted, Arrived
<1>12. ASSUME Free \/ FreeRead \/ FreeWait \/ UNCHANGED vars PROVE Arrived' = Arrived /\ cnt' = cnt
  BY <1>12 DEF Free, FreeRead, FreeWait, vars, Arrived
<1> QED
  BY <1>1, <1>2, <1>3, <1>4, <1>5, <1>6, <1>7, <1>8,
     <1>9, <1>10, <1>11, <1>12 DEF Next, Continue, Destroy

\* While nobody opens, the opener of the round stays the only one that is told so.
LEMMA SerialStep ==
    ASSUME BarType, Opening, Exact, NEW R \in Nat, Round(R), Next \/ UNCHANGED vars,
           \A t \in Threads : ~Open(t)
    PROVE  Serial(R)'
<1> SUFFICES ASSUME R > 0 PROVE \E s \in Threads : Opened(s, R)'
  BY DEF Serial
<1>0. PICK s \in Threads : Opened(s, R)
  BY DEF Round, Serial
<1> USE <1>0 DEF BarType, Round, Rounds, Out, Coming, Here, Past, Counted, Waiting, Leaving, Goto, Opened, Told, SERIAL
<1>1. ASSUME NEW t \in Threads, Call(t) PROVE Opened(s, R)'
  BY <1>1 DEF Call
<1>2. ASSUME NEW t \in Threads, ReadSeq(t) PROVE Opened(s, R)'
  BY <1>2 DEF ReadSeq
<1>3. ASSUME NEW t \in Threads, Add(t) PROVE Opened(s, R)'
  BY <1>3 DEF Add
<1>4. ASSUME NEW t \in Threads, Check(t) PROVE Opened(s, R)'
  BY <1>4, SeqAdvances DEF Check
<1>5. ASSUME NEW t \in Threads, Futex(t) PROVE Opened(s, R)'
  BY <1>5 DEF Futex, Wait
<1>6. ASSUME NEW t \in Threads, Slow(t) PROVE Opened(s, R)'
  BY <1>6 DEF Slow, Wait
<1>7. ASSUME NEW t \in Threads, Wake(t) PROVE Opened(s, R)'
  BY <1>7 DEF Wake
<1>8. ASSUME NEW t \in Threads, Deref(t) PROVE Opened(s, R)'
  BY <1>8 DEF Deref, Return
<1>9. ASSUME NEW t \in Threads, Last(t) PROVE Opened(s, R)'
  BY <1>9 DEF Last, Return
<1>10. ASSUME NEW t \in Threads, Interrupted(t) PROVE Opened(s, R)'
  BY <1>10 DEF Interrupted
<1>11. ASSUME Free \/ FreeRead \/ FreeWait \/ UNCHANGED vars PROVE Opened(s, R)'
  BY <1>11 DEF Free, FreeRead, FreeWait, vars
<1> QED
  BY <1>1, <1>2, <1>3, <1>4, <1>5, <1>6, <1>7, <1>8,
     <1>9, <1>10, <1>11 DEF Next, Continue, Destroy

\* The opening finds everybody arrived, and begins the next round.
LEMMA OpenStep ==
    ASSUME BarType, Opening, Exact, NEW R \in Nat, Round(R), NEW t \in Threads, Open(t)
    PROVE  Round(R + 1)'
<1> USE DEF BarType, Counted, Waiting, Leaving, Goto
<1>1. cnt = Cardinality(Arrived) /\ cnt > num
  BY DEF Round, Opening, Open
<1>2. Arrived = Threads
  BY <1>1, ArrivedFinite DEF Exact
<1>3. \A u \in Threads : calls[u] = R + 1 /\ leaves[u] = R
  BY <1>2, SeqAdvances DEF Round, Rounds, Arrived, Out, Coming, Here, Past
<1>4. \A u \in Threads \ {t} : pc[u] \in Waiting /\ myseq[u] = seq
  BY <1>2 DEF Arrived, Opening, Open
<1>5. Rounds(R + 1)'
  BY <1>3, <1>4 DEF Open, Rounds, Past
<1>6. Arrived' = {}
  BY <1>4, SeqAdvances DEF Open, Arrived
<1>7. (cnt = Cardinality(Arrived))'
  BY <1>6, FS_EmptySet DEF Open
<1>8. Opened(t, R + 1)'
  BY <1>3, <1>4 DEF Open, Opened, Told
<1> QED
  BY <1>5, <1>7, <1>8 DEF Round, Serial

\* The inductive invariant.
THEOREM Invariance == Spec => []IInv
<1>1. IInv /\ [Next]_vars => IInv'
  <2> SUFFICES ASSUME IInv, [Next]_vars PROVE IInv'
    OBVIOUS
  <2>1. BarType /\ Opening /\ BarType' /\ Opening'
    BY TypeStep, OpeningStep DEF IInv
  <2>2. num' = num
    BY DEF Next, Continue, Destroy, Call, ReadSeq, Add, Check, Futex, Slow, Wait, Open, Wake, Deref, Last, Interrupted,
       Free, FreeRead, FreeWait, vars
  <2>3. ASSUME Exact PROVE \E R \in Nat : Round(R)'
    <3>1. PICK R \in Nat : Round(R)
      BY <2>3 DEF IInv
    <3>2. CASE \E t \in Threads : Open(t)
      BY <2>1, <2>3, <3>1, <3>2, OpenStep, R + 1 \in Nat
    <3>3. CASE \A t \in Threads : ~Open(t)
      BY <2>1, <2>3, <3>1, <3>3, RoundsStep, CountStep, SerialStep DEF Round
    <3> QED
      BY <3>2, <3>3
  <2> QED
    BY <2>1, <2>2, <2>3 DEF IInv, Exact
<1> QED
  BY InitInv, <1>1, PTL DEF Spec

\* The fields and locals keep their types, however often seq wraps.
THEOREM TypeCorrect == Spec => []BarType
<1>1. IInv => BarType
  BY DEF IInv
<1> QED
  BY <1>1, Invariance, PTL

\* Only one caller at a time completes a group, whatever their number.
THEOREM OneOpenerAlways == Spec => []OneOpener
<1>1. IInv => OneOpener
  <2> SUFFICES ASSUME IInv PROVE OneOpener
    OBVIOUS
  <2> DEFINE O == {t \in Threads : pc[t] = "open"}
  <2>1. O = {} \/ \E t \in Threads : O = {t}
    BY DEF IInv, Opening
  <2>2. Cardinality(O) = 0 \/ Cardinality(O) = 1
    BY <2>1, FS_EmptySet, FS_Singleton
  <2> QED
    BY <2>2 DEF OneOpener
<1> QED
  BY <1>1, Invariance, PTL

\* Nobody returns from its n-th call before everybody has made n calls.
THEOREM NobodyEarly == Spec => []NoEarlyLeave
<1>1. IInv => NoEarlyLeave
  <2> SUFFICES ASSUME IInv, Exact PROVE \A t, u \in Threads : leaves[t] <= calls[u]
    BY DEF NoEarlyLeave
  <2>1. PICK R \in Nat : Rounds(R)
    BY DEF IInv, Round
  <2>2. \A t \in Threads : leaves[t] <= R /\ R <= calls[t]
    BY <2>1 DEF Rounds, Out, Coming, Here, Past, IInv, BarType
  <2> QED
    BY <2>2 DEF IInv, BarType
<1> QED
  BY <1>1, Invariance, PTL

\* After each round exactly one caller has been told that it is the serial one.
THEOREM SerialOnce == Spec => []OneSerial
<1>1. IInv => OneSerial
  <2> SUFFICES ASSUME IInv, Exact, \A t, u \in Threads : ~Inside(t) /\ leaves[t] = leaves[u],
                      NEW t \in Threads, leaves[t] > 0
               PROVE  Cardinality({u \in Threads : ret[u] = SERIAL}) = 1
    BY DEF OneSerial
  <2>1. PICK R \in Nat : Rounds(R) /\ Serial(R)
    BY DEF IInv, Round
  <2>2. \A u \in Threads : leaves[u] = R /\ pc[u] = "idle"
    BY <2>1 DEF Rounds, Out, Coming, Here, Past, Inside, Leaving, Waiting, Counted
  <2>3. PICK s \in Threads : Opened(s, R)
    BY <2>1, <2>2 DEF Serial
  <2>4. {u \in Threads : ret[u] = SERIAL} = {s}
    BY <2>2, <2>3 DEF Opened, Told, SERIAL
  <2> QED
    BY <2>4, FS_Singleton
<1> QED
  BY <1>1, Invariance, PTL
=============================================================================
