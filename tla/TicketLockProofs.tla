------------------------- MODULE TicketLockProofs -------------------------
(***************************************************************************)
(* The ticket lock is exclusive, and a try is refused only if somebody had *)
(* the lock meanwhile, for any width of the tickets and any number of      *)
(* threads below it, provided the atomic add adds one.                     *)
(*                                                                         *)
(* Mutual exclusion rests on the tickets: no two threads in line have the  *)
(* same place, every place lies between val and cnt on the circle, and the *)
(* distance between val and cnt is the number of threads in line, which is *)
(* what keeps cnt from running full circle into val.  The line in the      *)
(* order of its places is the queue of the abstract fair lock.             *)
(***************************************************************************)
EXTENDS TicketLock, FiniteSetTheorems, SequenceTheorems, TLAPS

CountIsLine == Distance(val, cnt) = Cardinality(Line)

PlacesInRange ==
    \A t \in Line : Distance(val, Place(t)) < Distance(val, cnt)

PlacesDistinct ==
    \A t, u \in Line : Place(t) = Place(u) => t = u

ServedIsVal == \A t \in Threads : pc[t] \in InCS => tkt[t] = val

PassBuffered ==
    \A t \in Threads : valbuf[t] # NoTicket =>
        pc[t] \notin InLine /\ valbuf[t] = Plus(val, 1)

UnseenIsFree ==
    \A t \in Threads :
        pc[t] = "try_cas" /\ ~seen[t] => cnt = tkt[t] /\ val = tkt[t]

IInv ==
    /\ TypeOK
    /\ CountIsLine
    /\ PlacesInRange
    /\ PlacesDistinct
    /\ ServedIsVal
    /\ PassBuffered
    /\ UnseenIsFree
---------------------------------------------------------------------------
(* The circle of tickets.                                                  *)

\* The next ticket is a ticket and not the same one.
LEMMA PlusType ==
  ASSUME NEW k \in Tickets
  PROVE  Plus(k, 1) \in Tickets /\ Plus(k, 1) # k
  BY WidthAssumption DEF Tickets, Plus

\* A distance on the circle of tickets is less than a full circle.
LEMMA DistanceType ==
  ASSUME NEW a \in Tickets, NEW b \in Tickets
  PROVE  Distance(a, b) \in Nat /\ Distance(a, b) < Width
  BY WidthAssumption DEF Tickets, Distance

\* Only equal tickets are at distance zero.
LEMMA DistanceZero ==
  ASSUME NEW a \in Tickets, NEW b \in Tickets
  PROVE  Distance(a, b) = 0 <=> a = b
  BY WidthAssumption DEF Tickets, Distance

\* Short of a full circle, handing out a ticket adds one to the distance.
LEMMA DistanceGrows ==
  ASSUME NEW a \in Tickets, NEW b \in Tickets, Distance(a, b) + 1 < Width
  PROVE  Distance(a, Plus(b, 1)) = Distance(a, b) + 1
  BY WidthAssumption DEF Tickets, Distance, Plus

\* Serving the next ticket brings every other one nearer by one.
LEMMA DistanceShrinks ==
  ASSUME NEW a \in Tickets, NEW b \in Tickets, a # b
  PROVE  Distance(Plus(a, 1), b) = Distance(a, b) - 1
  BY WidthAssumption DEF Tickets, Distance, Plus

\* An empty buffer cannot be taken for a ticket.
LEMMA NoTicketType == NoTicket \notin Tickets
  BY WidthAssumption DEF Tickets, NoTicket

\* The line is finite, and never as long as the circle of tickets.
LEMMA LineFinite ==
  /\ IsFiniteSet(Line)
  /\ Cardinality(Line) \in Nat
  /\ Cardinality(Line) < Width
  /\ \A t \in Threads : t \notin Line => Cardinality(Line) + 1 < Width
  <1>1. /\ IsFiniteSet(Line)
        /\ Cardinality(Line) <= Cardinality(Threads)
    BY ThreadsAssumption, FS_Subset DEF Line
  <1>2. Cardinality(Line) \in Nat /\ Cardinality(Threads) \in Nat
    BY <1>1, ThreadsAssumption, FS_CardinalityType
  <1>3. ASSUME NEW t \in Threads, t \notin Line
        PROVE  Cardinality(Line) + 1 <= Cardinality(Threads)
    <2>1. Line \cup {t} \in SUBSET Threads
      BY DEF Line
    <2>2. Cardinality(Line \cup {t}) = Cardinality(Line) + 1
      BY <1>1, <1>3, FS_AddElement
    <2> QED
      BY <2>1, <2>2, ThreadsAssumption, FS_Subset
  <1> QED
    BY <1>1, <1>2, <1>3, ThreadsAssumption, WidthAssumption

\* A place is a ticket.
LEMMA PlaceType ==
  ASSUME TypeOK, NEW t \in Threads
  PROVE  Place(t) \in Tickets
  BY DEF TypeOK, Place
---------------------------------------------------------------------------
\* A zeroed lock word establishes the inductive invariant.
LEMMA InitInv == Init => IInv
  <1> SUFFICES ASSUME Init PROVE IInv
    OBVIOUS
  <1>1. TypeOK
    BY WidthAssumption DEF Init, TypeOK, PCs, Tickets
  <1>2. Line = {}
    BY DEF Init, Line, InLine
  <1>3. CountIsLine
    BY <1>2, FS_EmptySet, WidthAssumption DEF Init, CountIsLine, Distance
  <1>4. PlacesInRange /\ PlacesDistinct
    BY <1>2 DEF PlacesInRange, PlacesDistinct
  <1>5. ServedIsVal /\ PassBuffered /\ UnseenIsFree
    BY DEF Init, ServedIsVal, PassBuffered, UnseenIsFree, InCS
  <1> QED
    BY <1>1, <1>3, <1>4, <1>5 DEF IInv

\* A sum of two tickets is a ticket, whatever is added.
LEMMA PlusAny ==
  ASSUME NEW a \in Tickets, NEW b \in Tickets
  PROVE  Plus(a, b) \in Tickets
  BY WidthAssumption DEF Tickets, Plus

\* TypeOK is preserved by every step, whatever the atomic add adds.
LEMMA TypePreserved == TypeOK /\ [Next]_vars => TypeOK'
  <1> SUFFICES ASSUME TypeOK, [Next]_vars PROVE TypeOK'
    OBVIOUS
  <1> USE DEF TypeOK, PCs, Goto
  <1>1. CASE UNCHANGED vars
    BY <1>1 DEF vars
  <1>2. ASSUME NEW t \in Threads, CallLock(t) \/ CallTry(t) \/ Spin(t) PROVE TypeOK'
    BY <1>2 DEF CallLock, CallTry, Spin
  <1>3. ASSUME NEW t \in Threads, Draw(t) PROVE TypeOK'
    BY <1>3, AddendsAssumption, PlusAny DEF Draw
  <1>4. ASSUME NEW t \in Threads, TryRead(t) PROVE TypeOK'
    BY <1>4 DEF TryRead
  <1>5. ASSUME NEW t \in Threads, TryCas(t) PROVE TypeOK'
    BY <1>5, PlusType DEF TryCas
  <1>6. ASSUME NEW t \in Threads, Unlock(t) PROVE TypeOK'
    BY <1>6 DEF Unlock
  <1>7. ASSUME NEW t \in Threads, LoadVal(t) PROVE TypeOK'
    BY <1>7 DEF LoadVal, ValAsReadBy
  <1>8. ASSUME NEW t \in Threads, StoreVal(t) PROVE TypeOK'
    BY <1>8, PlusType DEF StoreVal
  <1>9. ASSUME NEW t \in Threads, DrainVal(t) PROVE TypeOK'
    BY <1>9 DEF DrainVal
  <1> QED
    BY <1>1, <1>2, <1>3, <1>4, <1>5, <1>6, <1>7, <1>8, <1>9
       DEF Next, Continue
---------------------------------------------------------------------------
\* A thread that takes ticket cnt, by the atomic add or by the try's
\* compare-and-swap, joins the line behind everybody else.
LEMMA JoinLine ==
  ASSUME IInv, TypeOK', NEW t \in Threads, t \notin Line,
         Line' = Line \cup {t},
         cnt' = Plus(cnt, 1), val' = val, valbuf' = valbuf,
         tkt'[t] = cnt, \A u \in Threads \ {t} : tkt'[u] = tkt[u]
  PROVE  CountIsLine' /\ PlacesInRange' /\ PlacesDistinct'
  <1> USE DEF IInv
  <1>1. cnt \in Tickets /\ val \in Tickets /\ cnt' \in Tickets
    BY DEF TypeOK
  <1>2. Distance(val, cnt) + 1 < Width
    BY LineFinite DEF CountIsLine
  <1>3. Distance(val', cnt') = Distance(val, cnt) + 1
    BY <1>1, <1>2, DistanceGrows
  <1>4. Cardinality(Line') = Cardinality(Line) + 1
    BY LineFinite, FS_AddElement
  <1>5. CountIsLine'
    BY <1>3, <1>4 DEF CountIsLine
  <1>6. valbuf[t] = NoTicket /\ Place(t)' = cnt
    BY DEF Line, Place
  <1>7. \A u \in Line : Place(u)' = Place(u)
    BY DEF Place, Line
  <1>8. \A u \in Line : Place(u) # cnt /\ Place(u) \in Tickets
    BY <1>1, DistanceType, PlaceType DEF PlacesInRange, Line
  <1>9. Distance(val, cnt) \in Nat
    BY <1>1, DistanceType
  <1>10. PlacesInRange'
    <2> SUFFICES ASSUME NEW u \in Line'
                 PROVE  Distance(val, Place(u)') < Distance(val, cnt) + 1
      BY <1>3 DEF PlacesInRange
    <2>1. CASE u = t
      BY <2>1, <1>6, <1>9
    <2>2. CASE u \in Line
      <3>1. Distance(val, Place(u)) \in Nat
        BY <2>2, <1>1, <1>8, DistanceType
      <3> QED
        BY <2>2, <3>1, <1>7, <1>9 DEF PlacesInRange
    <2> QED
      BY <2>1, <2>2
  <1>11. PlacesDistinct'
    BY <1>6, <1>7, <1>8 DEF PlacesDistinct
  <1> QED
    BY <1>5, <1>10, <1>11

\* Steps that leave the tickets and the line alone.
LEMMA KeepLine ==
  ASSUME IInv, Line' = Line, cnt' = cnt, val' = val,
         \A u \in Line : Place(u)' = Place(u)
  PROVE  CountIsLine' /\ PlacesInRange' /\ PlacesDistinct'
  BY DEF IInv, CountIsLine, PlacesInRange, PlacesDistinct

\* The step invariant.
LEMMA StepInv ==
  ASSUME Addends = {1}, IInv, [Next]_vars
  PROVE  IInv'
  <1> USE DEF IInv
  <1>0. TypeOK'
    BY TypePreserved
  <1>1. CASE UNCHANGED vars
    <2>1. Line' = Line /\ \A u \in Line : Place(u)' = Place(u)
      BY <1>1 DEF vars, Line, Place
    <2>2. CountIsLine' /\ PlacesInRange' /\ PlacesDistinct'
      BY <1>1, <2>1, KeepLine DEF vars
    <2> QED
      BY <1>0, <1>1, <2>2 DEF vars, ServedIsVal, PassBuffered, UnseenIsFree
  <1>2. ASSUME NEW t \in Threads, CallLock(t) \/ CallTry(t) \/ Unlock(t)
        PROVE  IInv'
    <2>1. Line' = Line /\ \A u \in Line : Place(u)' = Place(u)
      BY <1>2 DEF TypeOK, CallLock, CallTry, Unlock, Goto, Line, InLine, Place
    <2>2. CountIsLine' /\ PlacesInRange' /\ PlacesDistinct'
      BY <1>2, <2>1, KeepLine DEF CallLock, CallTry, Unlock
    <2>3. ServedIsVal' /\ PassBuffered' /\ UnseenIsFree'
      BY <1>2 DEF TypeOK, CallLock, CallTry, Unlock, Drained, Goto, InLine, InCS,
                  ServedIsVal, PassBuffered, UnseenIsFree
    <2> QED
      BY <1>0, <2>2, <2>3
  <1>3. ASSUME NEW t \in Threads, Draw(t) PROVE IInv'
    <2>1. t \notin Line /\ Line' = Line \cup {t}
      BY <1>3 DEF TypeOK, Draw, Drained, Goto, Line, InLine
    <2>2. CountIsLine' /\ PlacesInRange' /\ PlacesDistinct'
      BY <1>0, <1>3, <2>1, JoinLine DEF Draw, TypeOK
    <2>3. ServedIsVal' /\ PassBuffered'
      BY <1>3 DEF TypeOK, Draw, Drained, Goto, InLine, InCS,
                  ServedIsVal, PassBuffered
    <2>4. UnseenIsFree'
      BY <1>3 DEF TypeOK, Draw, Goto, UnseenIsFree
    <2> QED
      BY <1>0, <2>2, <2>3, <2>4
  <1>4. ASSUME NEW t \in Threads, Spin(t) PROVE IInv'
    <2>1. Line' = Line /\ \A u \in Line : Place(u)' = Place(u)
      BY <1>4 DEF TypeOK, Spin, Goto, Line, InLine, Place
    <2>2. CountIsLine' /\ PlacesInRange' /\ PlacesDistinct'
      BY <1>4, <2>1, KeepLine DEF Spin
    <2>3. tkt[t] = val
      BY <1>4 DEF Spin, ValAsReadBy, PassBuffered, InLine
    <2>4. ServedIsVal' /\ PassBuffered' /\ UnseenIsFree'
      BY <1>4, <2>3 DEF TypeOK, Spin, Goto, InLine, InCS,
                  ServedIsVal, PassBuffered, UnseenIsFree
    <2> QED
      BY <1>0, <2>2, <2>4
  <1>5. ASSUME NEW t \in Threads, TryRead(t) PROVE IInv'
    <2>1. Line' = Line /\ \A u \in Line : Place(u)' = Place(u)
      BY <1>5 DEF TypeOK, TryRead, Goto, Line, InLine, Place
    <2>2. CountIsLine' /\ PlacesInRange' /\ PlacesDistinct'
      BY <1>5, <2>1, KeepLine DEF TryRead
    <2>3. ServedIsVal' /\ PassBuffered' /\ UnseenIsFree'
      BY <1>5 DEF TypeOK, TryRead, Goto, InLine, InCS,
                  ServedIsVal, PassBuffered, UnseenIsFree
    <2> QED
      BY <1>0, <2>2, <2>3
  <1>6. ASSUME NEW t \in Threads, TryCas(t), cnt = tkt[t] /\ val = tkt[t]
        PROVE  IInv'
    <2>1. t \notin Line /\ Line' = Line \cup {t}
      BY <1>6 DEF TypeOK, TryCas, Drained, Goto, Line, InLine
    <2>2. CountIsLine' /\ PlacesInRange' /\ PlacesDistinct'
      BY <1>0, <1>6, <2>1, JoinLine DEF TryCas
    <2>3. ServedIsVal' /\ PassBuffered'
      BY <1>6 DEF TypeOK, TryCas, Drained, Goto, InLine, InCS,
                  ServedIsVal, PassBuffered
    <2>4. UnseenIsFree'
      BY <1>6 DEF TypeOK, TryCas, Goto, UnseenIsFree
    <2> QED
      BY <1>0, <2>2, <2>3, <2>4
  <1>7. ASSUME NEW t \in Threads, TryCas(t), ~(cnt = tkt[t] /\ val = tkt[t])
        PROVE  IInv'
    <2>1. Line' = Line /\ \A u \in Line : Place(u)' = Place(u)
      BY <1>7 DEF TypeOK, TryCas, Goto, Line, InLine, Place
    <2>2. CountIsLine' /\ PlacesInRange' /\ PlacesDistinct'
      BY <1>7, <2>1, KeepLine DEF TryCas
    <2>3. ServedIsVal' /\ PassBuffered' /\ UnseenIsFree'
      BY <1>7 DEF TypeOK, TryCas, Goto, InLine, InCS,
                  ServedIsVal, PassBuffered, UnseenIsFree
    <2> QED
      BY <1>0, <2>2, <2>3
  <1>8. ASSUME NEW t \in Threads, LoadVal(t) PROVE IInv'
    <2>1. tkt' = tkt
      BY <1>8 DEF TypeOK, LoadVal, ValAsReadBy, PassBuffered, ServedIsVal, InLine, InCS
    <2>2. Line' = Line /\ \A u \in Line : Place(u)' = Place(u)
      BY <1>8, <2>1 DEF TypeOK, LoadVal, Goto, Line, InLine, Place
    <2>3. CountIsLine' /\ PlacesInRange' /\ PlacesDistinct'
      BY <1>8, <2>2, KeepLine DEF LoadVal
    <2>4. ServedIsVal' /\ PassBuffered' /\ UnseenIsFree'
      BY <1>8, <2>1 DEF TypeOK, LoadVal, Goto, InLine, InCS,
                  ServedIsVal, PassBuffered, UnseenIsFree
    <2> QED
      BY <1>0, <2>3, <2>4
  <1>9. ASSUME NEW t \in Threads, StoreVal(t) PROVE IInv'
    <2>1. tkt[t] = val /\ valbuf[t] = NoTicket /\ valbuf' = [valbuf EXCEPT ![t] = Plus(val, 1)]
      BY <1>9 DEF StoreVal, ServedIsVal, PassBuffered, InCS, InLine
    <2>2. Plus(val, 1) # NoTicket
      BY PlusType, NoTicketType DEF TypeOK
    <2>3. Line' = Line /\ \A u \in Line : Place(u)' = Place(u)
      BY <1>9, <2>1, <2>2 DEF TypeOK, StoreVal, Goto, Line, InLine, Place
    <2>4. CountIsLine' /\ PlacesInRange' /\ PlacesDistinct'
      BY <1>9, <2>3, KeepLine DEF StoreVal
    <2>5. ServedIsVal' /\ PassBuffered' /\ UnseenIsFree'
      BY <1>9, <2>1 DEF TypeOK, StoreVal, Goto, InLine, InCS,
                  ServedIsVal, PassBuffered, UnseenIsFree
    <2> QED
      BY <1>0, <2>4, <2>5
  <1>10. ASSUME NEW t \in Threads, DrainVal(t) PROVE IInv'
    <2>1. /\ t \in Line /\ Place(t) = val /\ pc[t] \notin InLine
          /\ val' = Plus(val, 1) /\ cnt' = cnt /\ pc' = pc /\ tkt' = tkt
      BY <1>10 DEF DrainVal, Line, Place, PassBuffered
    <2>2. Line' = Line \ {t}
      BY <1>10, <2>1 DEF TypeOK, DrainVal, Line
    <2>3. val \in Tickets /\ cnt \in Tickets
      BY DEF TypeOK
    <2>4. val # cnt
      <3>1. Distance(val, Place(t)) \in Nat /\ Distance(val, cnt) \in Nat
        BY <2>1, <2>3, DistanceType
      <3>2. Distance(val, cnt) # 0
        BY <2>1, <3>1 DEF PlacesInRange
      <3> QED
        BY <2>3, <3>2, DistanceZero
    <2>5. Distance(val', cnt') = Distance(val, cnt) - 1
      BY <2>1, <2>3, <2>4, DistanceShrinks
    <2>6. CountIsLine'
      BY <2>1, <2>2, <2>5, LineFinite, FS_RemoveElement DEF CountIsLine
    <2>7. \A u \in Line' : /\ u \in Line /\ u # t
                           /\ Place(u) # val /\ Place(u) \in Tickets
      BY <2>1, <2>2, PlaceType DEF PlacesDistinct, Line
    <2>8. \A u \in Line' : valbuf[u] = NoTicket /\ Place(u) = tkt[u] /\ Place(u)' = Place(u)
      BY <1>10, <2>7 DEF Place, DrainVal, TypeOK, Line
    <2>9. PlacesInRange'
      <3> SUFFICES ASSUME NEW u \in Line'
                   PROVE  Distance(val', Place(u)) < Distance(val, cnt) - 1
        BY <2>5, <2>8 DEF PlacesInRange
      <3>1. Distance(val', Place(u)) = Distance(val, Place(u)) - 1
        BY <2>1, <2>3, <2>7, DistanceShrinks
      <3>2. Distance(val, Place(u)) < Distance(val, cnt)
        BY <2>7 DEF PlacesInRange
      <3>3. Distance(val, Place(u)) \in Nat /\ Distance(val, cnt) \in Nat
        BY <2>3, <2>7, DistanceType
      <3> QED
        BY <3>1, <3>2, <3>3
    <2>10. PlacesDistinct'
      BY <2>7, <2>8 DEF PlacesDistinct
    <2>11. ServedIsVal'
      <3> SUFFICES ASSUME NEW u \in Threads, pc[u] \in InCS PROVE FALSE
        BY <2>1 DEF ServedIsVal
      <3>1. u \in Line /\ u # t /\ Place(u) = val
        BY <2>1 DEF Line, InCS, InLine, ServedIsVal, Place, PassBuffered
      <3> QED
        BY <3>1, <2>1 DEF PlacesDistinct
    <2>12. PassBuffered'
      BY <1>10, <2>2, <2>8 DEF PassBuffered, Line, DrainVal, TypeOK
    <2>13. UnseenIsFree'
      BY <1>10, <2>1, <2>4 DEF UnseenIsFree, DrainVal
    <2> QED
      BY <1>0, <2>6, <2>9, <2>10, <2>11, <2>12, <2>13
  <1> QED
    BY <1>1, <1>2, <1>3, <1>4, <1>5, <1>6, <1>7, <1>8, <1>9, <1>10
       DEF Next, Continue
---------------------------------------------------------------------------
\* The inductive invariant holds of the ticket lock whenever the atomic add
\* adds one.
THEOREM Invariance ==
  ASSUME Addends = {1}
  PROVE  Spec => []IInv
  <1>1. Init => IInv
    BY InitInv
  <1>2. IInv /\ [Next]_vars => IInv'
    BY StepInv
  <1> QED
    BY <1>1, <1>2, PTL DEF Spec

\* The halves of the word stay within their width, whatever is added.
THEOREM TypeCorrect == Spec => []TypeOK
  <1>1. Init => TypeOK
    BY InitInv DEF IInv
  <1>2. TypeOK /\ [Next]_vars => TypeOK'
    BY TypePreserved
  <1> QED
    BY <1>1, <1>2, PTL DEF Spec

\* Never two threads between being served and passing the lock on, wrapped
\* tickets included.
THEOREM Exclusive ==
  ASSUME Addends = {1}
  PROVE  Spec => []MutualExclusion
  <1>1. IInv => MutualExclusion
    <2> SUFFICES ASSUME IInv, NEW t \in Threads, NEW u \in Threads,
                        pc[t] \in InCS, pc[u] \in InCS
                 PROVE  t = u
      BY DEF MutualExclusion
    <2>1. t \in Line /\ u \in Line
      BY DEF Line, InLine, InCS
    <2>2. Place(t) = val /\ Place(u) = val
      BY DEF IInv, ServedIsVal, Place
    <2> QED
      BY <2>1, <2>2 DEF IInv, PlacesDistinct
  <1> QED
    BY <1>1, Invariance, PTL

\* mttrytktlk is refused only if somebody had the lock during the call.
THEOREM RefusedFairly ==
  ASSUME Addends = {1}
  PROVE  Spec => RefusedOnlyIfTaken
  <1>1. IInv /\ [Next]_vars =>
            [\A t \in Threads : pc[t] = "try_cas" /\ pc'[t] = "idle" => seen[t]]_vars
    <2> SUFFICES ASSUME IInv, Next,
                        NEW t \in Threads, pc[t] = "try_cas", pc'[t] = "idle"
                 PROVE  seen[t]
      OBVIOUS
    <2>1. TryCas(t)
      BY DEF IInv, TypeOK, Next, Continue, CallLock, CallTry, Draw, Spin, TryRead,
             TryCas, Unlock, LoadVal, StoreVal, DrainVal, Goto
    <2>2. ~(cnt = tkt[t] /\ val = tkt[t])
      BY <2>1 DEF TryCas, Goto, IInv, TypeOK
    <2> QED
      BY <2>2 DEF IInv, UnseenIsFree
  <1> QED
    BY <1>1, Invariance, PTL DEF Spec, RefusedOnlyIfTaken
---------------------------------------------------------------------------
(* The lock serves in the order of arrival.                                *)

\* Going as far from one ticket as another is ahead of it leads to the other.
LEMMA PlusDistance ==
  ASSUME NEW a \in Tickets, NEW b \in Tickets
  PROVE  Plus(a, Distance(a, b)) = b
  BY WidthAssumption DEF Tickets, Distance, Plus

\* The queue of the mapping is the line: behind the i-th ticket from the one that
\* is served stands one thread, and every thread in line stands there.
QueueIsLine ==
  /\ Queue \in Seq(Threads) /\ Len(Queue) = Distance(val, cnt)
  /\ \A i \in 1 .. Len(Queue) : Queue[i] \in Line /\ Place(Queue[i]) = Plus(val, i - 1)

\* As many threads are in line as there are tickets out, each with one of its own.
LEMMA QueueLine == IInv => QueueIsLine
  <1> SUFFICES ASSUME IInv PROVE QueueIsLine
    OBVIOUS
  <1> DEFINE n == Distance(val, cnt)
             f == [t \in Line |-> Distance(val, Place(t)) + 1]
  <1>1. val \in Tickets /\ cnt \in Tickets /\ Line \subseteq Threads
    BY DEF IInv, TypeOK, Line
  <1>2. n \in Nat /\ n < Width
    BY <1>1, DistanceType
  <1>3. \A t \in Line : Place(t) \in Tickets /\ Distance(val, Place(t)) \in 0 .. n - 1
    BY <1>1, <1>2, PlaceType, DistanceType DEF IInv, PlacesInRange
  <1>4. \A t, u \in Line : f[t] = f[u] => t = u
    <2> SUFFICES ASSUME NEW t \in Line, NEW u \in Line, f[t] = f[u] PROVE t = u
      OBVIOUS
    <2>1. Distance(val, Place(t)) = Distance(val, Place(u))
      BY <1>2, <1>3
    <2>2. Place(t) = Place(u)
      BY <2>1, <1>1, <1>3, PlusDistance
    <2> QED
      BY <2>2 DEF IInv, PlacesDistinct
  <1>5. f \in Injection(Line, 1 .. n)
    <2>1. f \in [Line -> 1 .. n]
      BY <1>2, <1>3
    <2> QED
      BY <2>1, <1>4 DEF Injection, IsInjective
  <1>6. IsFiniteSet(1 .. n) /\ Cardinality(1 .. n) = n
    BY <1>2, FS_Interval
  <1>7. Cardinality(Line) = n
    BY DEF IInv, CountIsLine
  <1>8. f \in Surjection(Line, 1 .. n)
    BY <1>5, <1>6, <1>7, FS_Injection
  <1>9. \A i \in 1 .. n : \E t \in Line : Place(t) = Plus(val, i - 1)
    <2> SUFFICES ASSUME NEW i \in 1 .. n PROVE \E t \in Line : Place(t) = Plus(val, i - 1)
      OBVIOUS
    <2>1. PICK t \in Line : f[t] = i
      BY <1>8 DEF Surjection
    <2>2. Distance(val, Place(t)) = i - 1
      BY <2>1, <1>2, <1>3
    <2> QED
      BY <2>2, <1>1, <1>3, PlusDistance
  <1> HIDE DEF n
  <1>10. Queue = [i \in 1 .. n |-> CHOOSE t \in Line : Place(t) = Plus(val, i - 1)]
    BY DEF Queue, n
  <1>11. \A i \in 1 .. n : Queue[i] \in Line /\ Place(Queue[i]) = Plus(val, i - 1)
    BY <1>9, <1>10
  <1>12. Queue \in [1 .. n -> Threads]
    BY <1>1, <1>10, <1>11
  <1>13. Queue \in Seq(Threads) /\ Len(Queue) = n
    BY <1>2, <1>12
  <1> QED
    BY <1>11, <1>13 DEF QueueIsLine, n

\* The same in the next state.
LEMMA QueueNext == IInv' => QueueIsLine'
  BY QueueLine, PTL

\* A step that leaves the tickets and the line alone leaves the queue alone.
LEMMA QueueKept ==
  ASSUME IInv, IInv', Line' = Line, cnt' = cnt, val' = val,
         \A u \in Line : Place(u)' = Place(u)
  PROVE  Queue' = Queue
  <1>1. QueueIsLine /\ QueueIsLine'
    BY QueueLine, QueueNext
  <1>2. Len(Queue') = Len(Queue) /\ Queue \in Seq(Threads) /\ Queue' \in Seq(Threads)
    BY <1>1 DEF QueueIsLine
  <1>3. \A i \in 1 .. Len(Queue) : Queue'[i] = Queue[i]
    BY <1>1, <1>2 DEF QueueIsLine, IInv, PlacesDistinct
  <1> QED
    BY <1>2, <1>3, SeqEqual

\* Who draws a ticket is behind all others.
LEMMA QueueGrows ==
  ASSUME IInv, IInv', NEW t \in Threads, t \notin Line, Line' = Line \cup {t},
         cnt' = Plus(cnt, 1), val' = val, valbuf' = valbuf,
         tkt'[t] = cnt, \A u \in Threads \ {t} : tkt'[u] = tkt[u]
  PROVE  Queue' = Append(Queue, t)
  <1>1. QueueIsLine /\ QueueIsLine'
    BY QueueLine, QueueNext
  <1>2. cnt \in Tickets /\ val \in Tickets /\ Distance(val, cnt) \in Nat
    BY DistanceType DEF IInv, TypeOK
  <1>3. Distance(val', cnt') = Distance(val, cnt) + 1
    BY <1>2, LineFinite, DistanceGrows DEF IInv, CountIsLine
  <1>4. /\ Queue \in Seq(Threads) /\ Queue' \in Seq(Threads)
        /\ Len(Queue') = Len(Queue) + 1 /\ Len(Queue) = Distance(val, cnt)
    BY <1>1, <1>3 DEF QueueIsLine
  <1>5. Place(t)' = cnt /\ \A u \in Line : Place(u)' = Place(u)
    BY DEF Place, Line
  <1>6. \A i \in 1 .. Len(Queue) : Queue'[i] = Queue[i]
    BY <1>1, <1>4, <1>5 DEF QueueIsLine, IInv, PlacesDistinct
  <1>7. Queue'[Len(Queue) + 1] = t
    <2>1. PICK u \in Line' : u = Queue'[Len(Queue) + 1] /\ Place(u)' = Plus(val, Len(Queue))
      BY <1>1, <1>2, <1>4 DEF QueueIsLine
    <2>2. Plus(val, Len(Queue)) = cnt
      BY <1>2, <1>4, PlusDistance
    <2> QED
      BY <2>1, <2>2, <1>5 DEF IInv, PlacesDistinct
  <1>8. /\ Append(Queue, t) \in Seq(Threads) /\ Len(Append(Queue, t)) = Len(Queue) + 1
        /\ \A i \in 1 .. Len(Queue) : Append(Queue, t)[i] = Queue[i]
        /\ Append(Queue, t)[Len(Queue) + 1] = t
    BY <1>4, AppendProperties
  <1>9. \A i \in 1 .. Len(Queue') : Queue'[i] = Append(Queue, t)[i]
    BY <1>2, <1>4, <1>6, <1>7, <1>8
  <1>10. Len(Queue') = Len(Append(Queue, t))
    BY <1>4, <1>8
  <1> QED
    BY <1>4, <1>8, <1>9, <1>10, SeqEqual

\* Who passes the lock on was at the front, and all others move up.
LEMMA QueueShrinks ==
  ASSUME IInv, IInv', NEW t \in Line, Place(t) = val, Line' = Line \ {t},
         val' = Plus(val, 1), cnt' = cnt, \A u \in Line' : Place(u)' = Place(u)
  PROVE  Queue # <<>> /\ Head(Queue) = t /\ Queue' = Tail(Queue)
  <1>1. QueueIsLine /\ QueueIsLine'
    BY QueueLine, QueueNext
  <1>2. cnt \in Tickets /\ val \in Tickets /\ Distance(val, cnt) \in Nat
        /\ Distance(val, cnt) < Width
    BY DistanceType DEF IInv, TypeOK
  <1>3. val # cnt
    <2>1. Distance(val, Place(t)) < Distance(val, cnt) /\ Distance(val, val) \in Nat
      BY <1>2, DistanceType DEF IInv, PlacesInRange
    <2> QED
      BY <2>1, <1>2
  <1>4. Distance(val', cnt') = Distance(val, cnt) - 1
    BY <1>2, <1>3, DistanceShrinks
  <1>5. /\ Queue \in Seq(Threads) /\ Queue' \in Seq(Threads) /\ Len(Queue) = Distance(val, cnt)
        /\ Len(Queue') = Len(Queue) - 1 /\ Len(Queue) > 0 /\ Queue # <<>>
    <2>1. Distance(val, cnt) # 0
      BY <1>2, <1>3, DistanceZero
    <2> QED
      BY <1>1, <1>2, <1>4, <2>1 DEF QueueIsLine
  <1>6. Queue[1] = t
    <2>1. Queue[1] \in Line /\ Place(Queue[1]) = Plus(val, 0)
      BY <1>1, <1>5 DEF QueueIsLine
    <2>2. Plus(val, 0) = val
      BY <1>2, WidthAssumption DEF Plus, Tickets
    <2> QED
      BY <2>1, <2>2 DEF IInv, PlacesDistinct
  <1>7. \A i \in 1 .. Len(Queue) - 1 : Queue'[i] = Queue[i + 1]
    <2> SUFFICES ASSUME NEW i \in 1 .. Len(Queue) - 1 PROVE Queue'[i] = Queue[i + 1]
      OBVIOUS
    <2>1. i \in 1 .. Len(Queue') /\ i \in Nat /\ i \in 1 .. Len(Queue) /\ i + 1 \in 1 .. Len(Queue)
      BY <1>5
    <2>2. PICK u \in Line' : u = Queue'[i] /\ Place(u)' = Plus(Plus(val, 1), i - 1)
      BY <2>1, <1>1 DEF QueueIsLine
    <2>3. Queue[i + 1] \in Line /\ Place(Queue[i + 1]) = Plus(val, i)
      BY <2>1, <1>1 DEF QueueIsLine
    <2>4. Plus(Plus(val, 1), i - 1) = Plus(val, i)
      BY <2>1, <1>2, <1>5, WidthAssumption DEF Plus, Tickets
    <2>5. u \in Line /\ Place(u) = Plus(val, i)
      BY <2>2, <2>4
    <2> QED
      BY <2>2, <2>3, <2>5 DEF IInv, PlacesDistinct
  <1>8. /\ Tail(Queue) \in Seq(Threads) /\ Len(Tail(Queue)) = Len(Queue) - 1
        /\ \A i \in 1 .. Len(Tail(Queue)) : Tail(Queue)[i] = Queue[i + 1]
        /\ Head(Queue) = Queue[1]
    BY <1>5, HeadTailProperties
  <1>9. Queue' = Tail(Queue)
    <2>1. \A i \in 1 .. Len(Queue') : Queue'[i] = Tail(Queue)[i]
      BY <1>5, <1>7, <1>8
    <2>2. Len(Queue') = Len(Tail(Queue))
      BY <1>5, <1>8
    <2> QED
      BY <1>5, <1>8, <2>1, <2>2, SeqEqual
  <1> QED
    BY <1>5, <1>6, <1>8, <1>9

\* Who has the ticket that is served is at the front.
LEMMA ServedFirst ==
  ASSUME IInv, NEW t \in Line, Place(t) = val
  PROVE  Head(Queue) = t
  <1>1. QueueIsLine
    BY QueueLine
  <1>2. cnt \in Tickets /\ val \in Tickets /\ Distance(val, cnt) \in Nat
    BY DistanceType DEF IInv, TypeOK
  <1>3. Distance(val, cnt) > 0
    BY <1>2, DistanceType DEF IInv, PlacesInRange
  <1>4. Queue[1] \in Line /\ Place(Queue[1]) = Plus(val, 0) /\ Head(Queue) = Queue[1]
    BY <1>1, <1>2, <1>3 DEF QueueIsLine
  <1>5. Plus(val, 0) = val
    BY <1>2, WidthAssumption DEF Plus, Tickets
  <1> QED
    BY <1>4, <1>5 DEF IInv, PlacesDistinct

\* The mode of each thread, as the mapping has it.
Modes == [t \in Threads |-> Mode(t)]

\* A thread that goes on changes its own mode only.
LEMMA ModesStep ==
  ASSUME TypeOK, NEW t \in Threads, NEW p, Goto(t, p)
  PROVE  /\ Mode(t)' = IF p \in InCS THEN "in" ELSE IF p = "spin" THEN "wait"
                       ELSE IF p \in {"try_read", "try_cas"} THEN "try" ELSE "out"
         /\ Modes' = [Modes EXCEPT ![t] = Mode(t)']
  <1>1. \A u \in Threads \ {t} : pc'[u] = pc[u]
    BY DEF TypeOK, Goto
  <1>2. \A u \in Threads \ {t} : Mode(u)' = Mode(u)
    BY <1>1 DEF Mode
  <1>3. pc'[t] = p
    BY DEF TypeOK, Goto
  <1> QED
    BY <1>2, <1>3 DEF Mode, Modes

\* The lock begins free, with nobody in line.
LEMMA FifoInit == Init => AbsLock!Init
  <1> SUFFICES ASSUME Init PROVE AbsLock!Init
    OBVIOUS
  <1>1. Modes = [t \in Threads |-> "out"]
    BY DEF Init, Modes, Mode, InCS
  <1>2. Len(Queue) = 0 /\ Queue \in Seq(Threads)
    <2>1. QueueIsLine
      BY InitInv, QueueLine
    <2>2. Distance(val, cnt) = 0
      BY DEF Init, Distance
    <2> QED
      BY <2>1, <2>2 DEF QueueIsLine
  <1>3. Queue = <<>>
    BY <1>2, EmptySeq
  <1> QED
    BY <1>1, <1>3 DEF AbsLock!Init, Modes

\* Every step of the ticket lock is one of the fair lock, or leaves it as it is.
LEMMA FifoStep ==
  ASSUME IInv, IInv', Addends = {1}, [Next]_vars
  PROVE  [AbsLock!Next]_AbsLock!vars
  <1> DEFINE Still == Modes' = Modes /\ Queue' = Queue
  <1>0. TypeOK
    BY DEF IInv
  <1>1. ASSUME Still PROVE UNCHANGED AbsLock!vars
    BY <1>1 DEF AbsLock!vars, Modes
  <1>2. CASE UNCHANGED vars
    <2>1. Line' = Line /\ \A u \in Line : Place(u)' = Place(u)
      BY <1>2 DEF vars, Line, Place
    <2>2. Queue' = Queue
      BY <1>2, <2>1, QueueKept DEF vars
    <2>3. Modes' = Modes
      BY <1>2 DEF vars, Modes, Mode
    <2> QED
      BY <1>1, <2>2, <2>3
  <1>3. ASSUME NEW t \in Threads, CallLock(t) \/ Unlock(t) \/ TryRead(t) \/ LoadVal(t)
        PROVE  Still
    <2>1. tkt' = tkt \/ TryRead(t)
      BY <1>3 DEF IInv, TypeOK, CallLock, Unlock, LoadVal, ValAsReadBy, PassBuffered, ServedIsVal, InLine, InCS
    <2>2. Line' = Line /\ \A u \in Line : Place(u)' = Place(u)
      BY <1>0, <1>3, <2>1 DEF TypeOK, CallLock, Unlock, TryRead, LoadVal, Goto, Line, InLine, Place
    <2>3. Queue' = Queue
      BY <1>3, <2>2, QueueKept DEF CallLock, Unlock, TryRead, LoadVal
    <2>4. \A u \in Threads : Mode(u)' = Mode(u)
      BY <1>0, <1>3 DEF TypeOK, CallLock, Unlock, TryRead, LoadVal, Goto, Mode, InCS
    <2> QED
      BY <2>3, <2>4 DEF Modes
  <1>4. ASSUME NEW t \in Threads, CallTry(t) PROVE AbsLock!Try(t)
    <2>1. Line' = Line /\ \A u \in Line : Place(u)' = Place(u)
      BY <1>0, <1>4 DEF TypeOK, CallTry, Goto, Line, InLine, Place
    <2>2. Queue' = Queue
      BY <1>4, <2>1, QueueKept DEF CallTry
    <2>3. Modes[t] = "out" /\ Modes' = [Modes EXCEPT ![t] = "try"]
      <3>1. Goto(t, "try_read") /\ Modes[t] = "out"
        BY <1>4 DEF CallTry, Modes, Mode, InCS
      <3> QED
        BY <3>1, <1>0, ModesStep DEF InCS
    <2> QED
      BY <2>2, <2>3 DEF AbsLock!Try, AbsLock!Set, Modes
  <1>5. ASSUME NEW t \in Threads, Draw(t) PROVE AbsLock!Join(t)
    <2>1. t \notin Line /\ Line' = Line \cup {t}
      BY <1>0, <1>5 DEF TypeOK, Draw, Drained, Goto, Line, InLine
    <2>2. Queue' = Append(Queue, t)
      BY <1>5, <2>1, <1>0, QueueGrows DEF Draw, TypeOK
    <2>3. \A i \in DOMAIN Queue : Queue[i] # t
      BY <2>1, QueueLine DEF QueueIsLine
    <2>4. Modes[t] = "out" /\ Modes' = [Modes EXCEPT ![t] = "wait"]
      <3>1. Goto(t, "spin") /\ Modes[t] = "out"
        BY <1>5 DEF Draw, Modes, Mode, InCS
      <3> QED
        BY <3>1, <1>0, ModesStep DEF InCS
    <2> QED
      BY <2>2, <2>3, <2>4 DEF AbsLock!Join, AbsLock!Set, Modes
  <1>6. ASSUME NEW t \in Threads, Spin(t) PROVE AbsLock!Enter(t)
    <2>1. Line' = Line /\ \A u \in Line : Place(u)' = Place(u)
      BY <1>0, <1>6 DEF TypeOK, Spin, Goto, Line, InLine, Place
    <2>2. Queue' = Queue
      BY <1>6, <2>1, QueueKept DEF Spin
    <2>3. t \in Line /\ Place(t) = val
      BY <1>6 DEF Spin, ValAsReadBy, IInv, PassBuffered, InLine, Line, Place
    <2>4. Head(Queue) = t
      BY <2>3, ServedFirst
    <2>5. Modes[t] = "wait" /\ Modes' = [Modes EXCEPT ![t] = "in"]
      <3>1. Goto(t, "crit") /\ Modes[t] = "wait"
        BY <1>6 DEF Spin, Modes, Mode, InCS
      <3> QED
        BY <3>1, <1>0, ModesStep DEF InCS
    <2> QED
      BY <2>2, <2>4, <2>5 DEF AbsLock!Enter, AbsLock!Set, Modes
  <1>7. ASSUME NEW t \in Threads, TryCas(t), cnt = tkt[t] /\ val = tkt[t]
        PROVE  AbsLock!TryEnter(t)
    <2>1. t \notin Line /\ Line' = Line \cup {t}
      BY <1>0, <1>7 DEF TypeOK, TryCas, Drained, Goto, Line, InLine
    <2>2. Queue' = Append(Queue, t)
      BY <1>7, <2>1, QueueGrows DEF TryCas
    <2>3. Queue = <<>> 
      <3>1. Distance(val, cnt) = 0
        BY <1>0, <1>7, DistanceZero DEF TypeOK
      <3> QED
        BY <3>1, QueueLine, EmptySeq DEF QueueIsLine
    <2>4. Queue' = <<t>>
      BY <2>2, <2>3
    <2>5. Modes[t] = "try" /\ Modes' = [Modes EXCEPT ![t] = "in"]
      <3>1. Goto(t, "crit") /\ Modes[t] = "try"
        BY <1>7 DEF TryCas, Modes, Mode, InCS
      <3> QED
        BY <3>1, <1>0, ModesStep DEF InCS
    <2> QED
      BY <2>3, <2>4, <2>5 DEF AbsLock!TryEnter, AbsLock!Set, Modes
  <1>8. ASSUME NEW t \in Threads, TryCas(t), ~(cnt = tkt[t] /\ val = tkt[t])
        PROVE  AbsLock!GiveUp(t)
    <2>1. Line' = Line /\ \A u \in Line : Place(u)' = Place(u)
      BY <1>0, <1>8 DEF TypeOK, TryCas, Goto, Line, InLine, Place
    <2>2. Queue' = Queue
      BY <1>8, <2>1, QueueKept DEF TryCas
    <2>3. Modes[t] = "try" /\ Modes' = [Modes EXCEPT ![t] = "out"]
      <3>1. Goto(t, "idle") /\ Modes[t] = "try"
        BY <1>8 DEF TryCas, Modes, Mode, InCS
      <3> QED
        BY <3>1, <1>0, ModesStep DEF InCS
    <2> QED
      BY <2>2, <2>3 DEF AbsLock!GiveUp, AbsLock!Set, Modes
  <1>9. ASSUME NEW t \in Threads, StoreVal(t) PROVE AbsLock!Leave(t)
    <2>1. tkt[t] = val /\ valbuf[t] = NoTicket /\ valbuf' = [valbuf EXCEPT ![t] = Plus(val, 1)]
      BY <1>9 DEF StoreVal, IInv, ServedIsVal, PassBuffered, InCS, InLine
    <2>2. Plus(val, 1) # NoTicket
      BY <1>0, PlusType, NoTicketType DEF TypeOK
    <2>3. Line' = Line /\ \A u \in Line : Place(u)' = Place(u)
      BY <1>0, <1>9, <2>1, <2>2 DEF TypeOK, StoreVal, Goto, Line, InLine, Place
    <2>4. Queue' = Queue
      BY <1>9, <2>3, QueueKept DEF StoreVal
    <2>5. Modes[t] = "in" /\ Modes' = [Modes EXCEPT ![t] = "out"]
      <3>1. Goto(t, "idle") /\ Modes[t] = "in"
        BY <1>9 DEF StoreVal, Modes, Mode, InCS
      <3> QED
        BY <3>1, <1>0, ModesStep DEF InCS
    <2> QED
      BY <2>4, <2>5 DEF AbsLock!Leave, AbsLock!Set, Modes
  <1>10. ASSUME NEW t \in Threads, DrainVal(t) PROVE AbsLock!Pass(t)
    <2>1. /\ t \in Line /\ Place(t) = val /\ pc[t] \notin InLine
          /\ val' = Plus(val, 1) /\ cnt' = cnt /\ pc' = pc /\ tkt' = tkt
      BY <1>10 DEF DrainVal, Line, Place, IInv, PassBuffered
    <2>2. Line' = Line \ {t}
      BY <1>0, <1>10, <2>1 DEF TypeOK, DrainVal, Line
    <2>3. \A u \in Line' : u \in Line /\ u # t /\ Place(u) # val
      BY <2>1, <2>2 DEF IInv, PlacesDistinct
    <2>4. \A u \in Line' : Place(u)' = Place(u)
      BY <1>0, <1>10, <2>3 DEF Place, DrainVal, TypeOK, Line
    <2>5. Queue # <<>> /\ Head(Queue) = t /\ Queue' = Tail(Queue)
      BY <2>1, <2>2, <2>4, QueueShrinks
    <2>6. Modes' = Modes /\ Modes[t] \notin {"wait", "in"}
      BY <2>1 DEF Modes, Mode, InLine, InCS
    <2> QED
      BY <2>5, <2>6 DEF AbsLock!Pass, Modes
  <1> QED
    BY <1>1, <1>2, <1>3, <1>4, <1>5, <1>6, <1>7, <1>8, <1>9, <1>10
       DEF Next, Continue, AbsLock!Next

\* The ticket lock is a fair lock: who has drawn a ticket is served before all who
\* draw later, a try never passes them, and no ticket is lost when the halves of the
\* word wrap (mtlktkt, mttrytktlk, mtunlktkt).
THEOREM Refinement ==
  ASSUME Addends = {1}
  PROVE  Spec => ImplementsFifoLock
  <1>1. IInv /\ IInv' /\ [Next]_vars => [AbsLock!Next]_AbsLock!vars
    BY FifoStep
  <1> QED
    BY <1>1, FifoInit, Invariance, PTL DEF Spec, ImplementsFifoLock, AbsLock!Spec
===========================================================================
