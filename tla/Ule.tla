-------------------------------- MODULE Ule --------------------------------
(***************************************************************************)
(* The scheduler of the zen kernel, zen/ule.c: two sets of ready queues,   *)
(* the current and the next, and the queues of idle tasks, each with a map *)
(* of bits, shared by the cores under one ticket lock; and the table of    *)
(* tasks with a deadline.  What happens under the lock is one step.        *)
(*                                                                         *)
(* The file calls macros the repository does not define (schedcalcqueue,   *)
(* schedisinteract, schedswapqueues, the key of a deadline): which queue a *)
(* task goes to is any of its table, and the swap exchanges both the       *)
(* queues and the maps.  A jump to a task that is not there, or a store    *)
(* through NULL, halts the machine.                                        *)
(***************************************************************************)
EXTENDS Integers, Sequences, FiniteSets, Functions

CONSTANTS Tasks,
          Class,      \* of each task: SCHEDREALTIMERR, SCHEDSYSTEM (also
                      \* traps and realtime), SCHEDNORMAL, SCHEDIDLE, SCHEDDEADLINE
          Cores,      \* their unit numbers
          SCHEDNQUEUE, SCHEDNIDLE,  \* the queues of a ready set and of the idle set
          LongBits,   \* bits in a word of a map
          Keys,       \* of one level of the deadline table
          NoTask

ClassNames == {"realtimerr", "system", "normal", "idle", "deadline"}

ASSUME UleAssumption ==
    /\ Class \in [Tasks -> ClassNames] /\ NoTask \notin Tasks
    /\ Cores \subseteq Nat /\ Cores # {} /\ Cardinality(Cores) <= Cardinality(Tasks)
    /\ SCHEDNQUEUE \in Nat \ {0} /\ SCHEDNIDLE \in Nat \ {0} /\ LongBits \in Nat \ {0}
    /\ Keys \subseteq Nat /\ 0 \in Keys

VARIABLES queue,     \* the tasks in the queues of each table
          map,       \* the bits set for each table
          running,   \* the task each core has jumped to
          at,        \* where each core is in schedswitchtask
          away,      \* tasks that sleep, and tasks stopped, dead or given up
          level,     \* the first two levels of the deadline table: lists, by key
          listed,    \* the tasks in each list, by the third key
          halted

ulevars == <<queue, map, running, at, away, level, listed, halted>>

Tables == {"cur", "next", "idle"}
QueuesOf(table) == IF table = "idle" THEN 0 .. SCHEDNIDLE - 1 ELSE 0 .. SCHEDNQUEUE - 1
NoLevel == <<>>      \* no second level has been allocated
NoList == <<>>

UleInit ==
    /\ queue = [table \in Tables |-> [q \in QueuesOf(table) |-> <<>>]]
    /\ map = [table \in Tables |-> {}]
    /\ running \in [Cores -> Tasks]
    /\ \A c, d \in Cores : running[c] = running[d] => c = d
    /\ at = [c \in Cores |-> "run"]
    /\ away = [slept |-> Tasks \ {running[c] : c \in Cores}, gone |-> {}]
    /\ level = [k \in Keys |-> NoLevel]
    /\ listed = [k \in Keys \X Keys |-> [j \in Keys |-> <<>>]]
    /\ halted = FALSE
---------------------------------------------------------------------------
\* Where a task of a class may be queued; a normal one by its score.
TablesFor(class) ==
    CASE class = "idle" -> {"idle"}
      [] class = "normal" -> {"cur", "next"}
      [] OTHER -> {"cur"}

\* Mutant: the bit of the current map is set whatever the table.
MarkCurrent(table, q) == map' = [map EXCEPT !["cur"] = @ \cup {q}]

Mark(table, q) == map' = [map EXCEPT ![table] = @ \cup {q}]

\* schedsetready: a realtime task goes to the head of its queue when its
\* class is the round-robin one, every other task to the end.
schedsetready(t) ==
    /\ \E table \in TablesFor(Class[t]) : \E q \in QueuesOf(table) :
        /\ Mark(table, q)
        /\ queue' = [queue EXCEPT ![table][q] =
                        IF Class[t] = "realtimerr" THEN <<t>> \o @ ELSE Append(@, t)]
    /\ UNCHANGED <<level, listed, halted>>

\* schedsetdeadline, with kmalloc failing or not.  The last lines store the
\* new list in the new table; when neither is new they store through NULL.
schedsetdeadline(t) ==
    \E k0, k1, k2 \in Keys, tabfails, listfails \in BOOLEAN :
        LET fresh == level[k0] = NoLevel
            tab == IF fresh THEN [k \in Keys |-> NoList] ELSE level[k0]
            list == <<k0, k1>>
        IN  /\ IF fresh /\ tabfails
               THEN away' = [away EXCEPT !.gone = @ \cup {t}] /\ UNCHANGED <<level, listed, halted>>
               ELSE IF ~fresh \/ (tab[k1] = NoList /\ listfails)
               THEN halted' = TRUE /\ UNCHANGED <<away, level, listed>>
               ELSE /\ level' = [level EXCEPT ![k0] = [tab EXCEPT ![k1] = list, ![0] = list]]
                    /\ listed' = [listed EXCEPT ![list][k2] = Append(@, t)]
                    /\ UNCHANGED <<away, halted>>
            /\ UNCHANGED <<queue, map>>

\* schedswitchtask(curtask), down to the first scan: a task that is ready is
\* queued, before the core has left it.
SwitchReady(c) ==
    /\ ~halted /\ at[c] = "run"
    /\ at' = [at EXCEPT ![c] = "first"]
    /\ running' = [running EXCEPT ![c] = NoTask]
    /\ IF Class[running[c]] = "deadline" THEN schedsetdeadline(running[c])
       ELSE schedsetready(running[c]) /\ UNCHANGED away

\* A task that goes to sleep, and one that is stopped or a zombie.
SwitchAway(c) ==
    /\ ~halted /\ at[c] = "run"
    /\ at' = [at EXCEPT ![c] = "first"]
    /\ running' = [running EXCEPT ![c] = NoTask]
    /\ \/ away' = [away EXCEPT !.slept = @ \cup {running[c]}]
       \/ away' = [away EXCEPT !.gone = @ \cup {running[c]}]
    /\ UNCHANGED <<queue, map, level, listed, halted>>

\* A task that sleeps is made ready by a core that runs another one.
Wake(c, t) ==
    /\ ~halted /\ at[c] = "run" /\ t \in away.slept /\ Class[t] # "deadline"
    /\ schedsetready(t)
    /\ away' = [away EXCEPT !.slept = @ \ {t}]
    /\ UNCHANGED <<running, at>>
---------------------------------------------------------------------------
\* The scans look at whole words of a map.
WholeWords(table) ==
    LET n == Cardinality(QueuesOf(table)) IN 0 .. (n \div LongBits) * LongBits - 1
SeenBits(table) == map[table] \cap WholeWords(table)

\* The first task of the lowest queue that has its bit set.  The bit stays
\* set: the test is on the address of the queue, which is never NULL.
TakeFrom(c, table) ==
    \E q \in SeenBits(table) :
        /\ \A r \in SeenBits(table) : q <= r
        /\ IF queue[table][q] = <<>>
           THEN halted' = TRUE /\ UNCHANGED <<queue, running, at>>
           ELSE /\ queue' = [queue EXCEPT ![table][q] = Tail(@)]
                /\ running' = [running EXCEPT ![c] = Head(queue[table][q])]
                /\ at' = [at EXCEPT ![c] = "run"]
                /\ UNCHANGED halted
        /\ UNCHANGED <<map, away, level, listed>>

Scan(c) == ~halted /\ at[c] \in {"first", "second"} /\ TakeFrom(c, "cur")

\* Mutant: only the queues are exchanged.
SwapQueues(c) ==
    /\ ~halted /\ at[c] = "first" /\ SeenBits("cur") = {}
    /\ queue' = [queue EXCEPT !["cur"] = queue["next"], !["next"] = queue["cur"]]
    /\ map' = map
    /\ at' = [at EXCEPT ![c] = "second"]
    /\ UNCHANGED <<running, away, level, listed, halted>>

\* Nothing the first time: the current and the next set are exchanged.
Swap(c) ==
    /\ ~halted /\ at[c] = "first" /\ SeenBits("cur") = {}
    /\ queue' = [queue EXCEPT !["cur"] = queue["next"], !["next"] = queue["cur"]]
    /\ map' = [map EXCEPT !["cur"] = map["next"], !["next"] = map["cur"]]
    /\ at' = [at EXCEPT ![c] = "second"]
    /\ UNCHANGED <<running, away, level, listed, halted>>

GoIdle(c) ==
    /\ ~halted /\ at[c] = "second" /\ SeenBits("cur") = {}
    /\ at' = [at EXCEPT ![c] = "idle"]
    /\ UNCHANGED <<queue, map, running, away, level, listed, halted>>

ScanIdle(c) == ~halted /\ at[c] = "idle" /\ TakeFrom(c, "idle")

\* No idle task either: the core sets its own number in the map of the idle
\* queues, and waits for an interrupt.
MarkIdle(c) ==
    /\ ~halted /\ at[c] = "idle" /\ SeenBits("idle") = {}
    /\ map' = [map EXCEPT !["idle"] = @ \cup {c}]
    /\ at' = [at EXCEPT ![c] = "wait"]
    /\ UNCHANGED <<queue, running, away, level, listed, halted>>

Interrupt(c) ==
    /\ ~halted /\ at[c] = "wait"
    /\ at' = [at EXCEPT ![c] = "first"]
    /\ UNCHANGED <<queue, map, running, away, level, listed, halted>>

UleNext ==
    \E c \in Cores :
        \/ SwitchReady(c) \/ SwitchAway(c) \/ \E t \in Tasks : Wake(c, t)
        \/ Scan(c) \/ Swap(c) \/ GoIdle(c) \/ ScanIdle(c) \/ MarkIdle(c) \/ Interrupt(c)

UleSpec == UleInit /\ [][UleNext]_ulevars
---------------------------------------------------------------------------
QueueSlots == {s \in Tables \X (0 .. SCHEDNQUEUE + SCHEDNIDLE) : s[2] \in QueuesOf(s[1])}
Spots ==
    ({"core"} \X Cores) \cup ({"queue"} \X QueueSlots)
    \cup ({"list"} \X ((Keys \X Keys) \X Keys)) \cup ({"away"} \X {"slept", "gone"})
Queue(p) == IF p[1] = "queue" THEN queue[p[2][1]][p[2][2]] ELSE listed[p[2][1]][p[2][2]]
Held(p) ==
    CASE p[1] = "core" -> {running[p[2]]}
      [] p[1] = "away" -> away[p[2]]
      [] OTHER -> Range(Queue(p))

\* Every task is in exactly one place, on one core or in one queue and there once,
\* however the cores interleave; a queue that holds a task has its bit set in the
\* map of its own table, through swaps; and a list of deadlines is where its
\* keys lead (schedsetready, schedswitchtask, schedsetdeadline).
TasksKept ==
    ~halted =>
        /\ \A t \in Tasks : Cardinality({p \in Spots : t \in Held(p)}) = 1
        /\ \A p \in Spots : p[1] \in {"queue", "list"} => IsInjective(Queue(p))
        /\ \A s \in QueueSlots : queue[s[1]][s[2]] # <<>> => s[2] \in map[s[1]]
        /\ \A k0, k1 \in Keys : (\E j \in Keys : listed[<<k0, k1>>][j] # <<>>) =>
                level[k0] # NoLevel /\ level[k0][k1] = <<k0, k1>>

\* No task is passed over: a core takes the first task of the lowest queue of
\* the current set that has one, among the queues that are scanned, and the
\* sets are exchanged only when those hold none (schedswitchtask).
Waiting(q) == q \in WholeWords("cur") /\ queue["cur"][q] # <<>>
BestFirst ==
    [][/\ \A c \in Cores : at[c] \in {"first", "second"} /\ at'[c] = "run" =>
            \E q \in WholeWords("cur") :
                /\ queue["cur"][q] # <<>> /\ running'[c] = Head(queue["cur"][q])
                /\ \A r \in 0 .. q - 1 : ~Waiting(r)
       /\ (\E c \in Cores : at[c] = "first" /\ at'[c] = "second") =>
            \A q \in WholeWords("cur") : ~Waiting(q)]_ulevars
===========================================================================
