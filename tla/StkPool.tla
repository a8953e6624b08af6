------------------------------ MODULE StkPool ------------------------------
(***************************************************************************)
(* The lock-free stack pool of libmt (mt/tmp/stkpool.h over mt/lkpool.h):  *)
(* a table of chains that callers push to and pop from with one            *)
(* compare-and-swap on the head of a chain.  A push tries the slots        *)
(* backwards from a random one, a pop forwards.  Two reads of a pop are    *)
(* separate steps: the head of the chain, and the link of the item it      *)
(* found there, which by then another thread may have taken.               *)
(*                                                                         *)
(* stkpoolpushptr wraps the pointer in an item of its own from malloc;     *)
(* stkpoolputitem does nothing, so an item is never used again.            *)
(***************************************************************************)
EXTENDS Integers

CONSTANTS StkThreads,   \* the threads that share the pool
          NSlots,       \* LKPOOL_ITEMS
          NItems,       \* bound: how many items the allocator hands out
          NPops         \* bound: how many pops are called

ASSUME StkAssumption == NSlots \in Nat \ {0} /\ NItems \in Nat /\ NPops \in Nat

Slots == 0 .. NSlots - 1
StkItems == 1 .. NItems
NoItem == 0                      \* NULL
Links == StkItems \cup {NoItem}

VARIABLES slot,    \* pool->tab[ofs].data.chain: the head of each chain
          chain,   \* item->chain: the link of each item
          made,    \* the items malloc has handed out
          stack,   \* history: the items pushed and not yet popped
          gone,    \* history: how many pops have returned each item since its push
          spc,     \* where each thread is
          ofs,     \* the slot a thread is at
          left,    \* what remains of the push's count n; -1 once it has run out
          mine,    \* the item a thread pushes
          head,    \* the head a thread has read
          link,    \* the link a popping thread has read from that head
          pops,    \* how many pops have been called
          done     \* history: how many operations have returned

stkvars == <<slot, chain, made, stack, gone, spc, ofs, left, mine, head, link, pops, done>>

StkPCs == {"idle", "push_read", "push_swap", "pop_read", "pop_link", "pop_swap"}

\* lkpoolinit: the table is zeroed before it is shared.
StkInit ==
    /\ slot = [s \in Slots |-> NoItem]
    /\ chain = [i \in StkItems |-> NoItem]
    /\ made = {} /\ stack = {} /\ gone = [i \in StkItems |-> 0]
    /\ spc = [t \in StkThreads |-> "idle"]
    /\ ofs = [t \in StkThreads |-> 0]
    /\ left = [t \in StkThreads |-> 0]
    /\ mine = [t \in StkThreads |-> NoItem]
    /\ head = [t \in StkThreads |-> NoItem]
    /\ link = [t \in StkThreads |-> NoItem]
    /\ pops = 0 /\ done = 0

StkGoto(t, p) == spc' = [spc EXCEPT ![t] = p]

\* The operation returns; its local variables are no more.
StkReturn(t) ==
    /\ StkGoto(t, "idle")
    /\ done' = done + 1
    /\ ofs' = [ofs EXCEPT ![t] = 0]
    /\ left' = [left EXCEPT ![t] = 0]
    /\ mine' = [mine EXCEPT ![t] = NoItem]
    /\ head' = [head EXCEPT ![t] = NoItem]
    /\ link' = [link EXCEPT ![t] = NoItem]

\* m_cmpswapptr(&data->chain, seen, new): one locked instruction.
CmpSwapHead(t, new) == slot[ofs[t]] = head[t] /\ slot' = [slot EXCEPT ![ofs[t]] = new]

\* Mutant: stkpoolputitem reclaims the item and malloc hands it out again.
ReusedItem(i) == gone[i] > 0 \/ i \notin made

\* stkpoolgetitem: memory that nobody else has.  Items are numbered in the
\* order in which malloc hands them out.
FreshItem(i) == i \notin made /\ \A j \in StkItems : j < i => j \in made

\* stkpoolpushptr: an item for the pointer, a random slot to start from.
CallPush(t) ==
    /\ spc[t] = "idle"
    /\ \E i \in StkItems, s \in Slots :
        /\ FreshItem(i)
        /\ made' = made \cup {i}
        /\ mine' = [mine EXCEPT ![t] = i]
        /\ ofs' = [ofs EXCEPT ![t] = s]
    /\ left' = [left EXCEPT ![t] = NSlots]
    /\ StkGoto(t, "push_read")
    /\ UNCHANGED <<slot, chain, stack, gone, head, link, pops, done>>

\* chain = data->chain; item->chain = chain.  The item is not yet shared.
PushRead(t) ==
    /\ spc[t] = "push_read"
    /\ head' = [head EXCEPT ![t] = slot[ofs[t]]]
    /\ chain' = [chain EXCEPT ![mine[t]] = slot[ofs[t]]]
    /\ StkGoto(t, "push_swap")
    /\ UNCHANGED <<slot, made, stack, gone, ofs, left, mine, link, pops, done>>

PushSwap(t) ==
    /\ spc[t] = "push_swap"
    /\ CmpSwapHead(t, mine[t])
    /\ stack' = stack \cup {mine[t]} /\ gone' = [gone EXCEPT ![mine[t]] = 0]
    /\ StkReturn(t)
    /\ UNCHANGED <<chain, made, pops>>

\* The head has changed: one slot back, and once, when n has run out, to a
\* random slot.  (n goes on below zero from there and is not used again.)
PushMiss(t) ==
    /\ spc[t] = "push_swap"
    /\ slot[ofs[t]] # head[t]
    /\ \/ left[t] = 0 /\ \E s \in Slots : ofs' = [ofs EXCEPT ![t] = s]
       \/ left[t] # 0 /\ ofs' = [ofs EXCEPT ![t] = (@ - 1) % NSlots]
    /\ left' = [left EXCEPT ![t] = IF @ = -1 THEN -1 ELSE @ - 1]
    /\ StkGoto(t, "push_read")
    /\ UNCHANGED <<slot, chain, made, stack, gone, mine, head, link, pops, done>>

CallPop(t) ==
    /\ spc[t] = "idle"
    /\ pops < NPops /\ pops' = pops + 1
    /\ \E s \in Slots : ofs' = [ofs EXCEPT ![t] = s]
    /\ StkGoto(t, "pop_read")
    /\ UNCHANGED <<slot, chain, made, stack, gone, left, mine, head, link, done>>

\* Mutant: the offset is not masked.
StkRunOn(t) == ofs' = [ofs EXCEPT ![t] = @ + 1]

StkAdvance(t) == ofs' = [ofs EXCEPT ![t] = (@ + 1) % NSlots]

\* chain = data->chain; an empty chain sends the pop to the next slot.  The
\* scan never ends on its own: n only counts.
PopRead(t) ==
    /\ spc[t] = "pop_read"
    /\ head' = [head EXCEPT ![t] = slot[ofs[t]]]
    /\ \/ slot[ofs[t]] = NoItem /\ StkAdvance(t) /\ UNCHANGED spc
       \/ slot[ofs[t]] # NoItem /\ StkGoto(t, "pop_link") /\ UNCHANGED ofs
    /\ UNCHANGED <<slot, chain, made, stack, gone, left, mine, link, pops, done>>

\* The argument chain->chain of the compare-and-swap.
PopLink(t) ==
    /\ spc[t] = "pop_link"
    /\ link' = [link EXCEPT ![t] = chain[head[t]]]
    /\ StkGoto(t, "pop_swap")
    /\ UNCHANGED <<slot, chain, made, stack, gone, ofs, left, mine, head, pops, done>>

\* Mutant: the link is stored without looking at the head again.
PopBlindly(t) ==
    /\ spc[t] = "pop_swap"
    /\ slot' = [slot EXCEPT ![ofs[t]] = link[t]]
    /\ stack' = stack \ {head[t]}
    /\ gone' = [gone EXCEPT ![head[t]] = @ + 1]
    /\ StkReturn(t)
    /\ UNCHANGED <<chain, made, pops>>

\* Success: the item is the caller's, who returns its pointer.
PopSwap(t) ==
    /\ spc[t] = "pop_swap"
    /\ CmpSwapHead(t, link[t])
    /\ stack' = stack \ {head[t]}
    /\ gone' = [gone EXCEPT ![head[t]] = @ + 1]
    /\ StkReturn(t)
    /\ UNCHANGED <<chain, made, pops>>

PopMiss(t) ==
    /\ spc[t] = "pop_swap"
    /\ slot[ofs[t]] # head[t]
    /\ StkAdvance(t)
    /\ StkGoto(t, "pop_read")
    /\ UNCHANGED <<slot, chain, made, stack, gone, left, mine, head, link, pops, done>>

StkContinue(t) ==
    \/ PushRead(t) \/ PushSwap(t) \/ PushMiss(t)
    \/ PopRead(t) \/ PopLink(t) \/ PopSwap(t) \/ PopMiss(t)

StkNext == \E t \in StkThreads : CallPush(t) \/ CallPop(t) \/ StkContinue(t)

StkSpec == StkInit /\ [][StkNext]_stkvars

\* Every running thread is scheduled again.
StkFair == \A t \in StkThreads : WF_stkvars(StkContinue(t))
---------------------------------------------------------------------------
StkTypeOK ==
    /\ slot \in [Slots -> Links]
    /\ chain \in [StkItems -> Links]
    /\ made \subseteq StkItems /\ stack \subseteq StkItems
    /\ gone \in [StkItems -> Nat]
    /\ spc \in [StkThreads -> StkPCs]
    /\ ofs \in [StkThreads -> Slots]
    /\ left \in [StkThreads -> -1 .. NSlots]
    /\ mine \in [StkThreads -> Links]
    /\ head \in [StkThreads -> Links]
    /\ link \in [StkThreads -> Links]
    /\ pops \in Nat /\ done \in Nat

\* Heads and links of pushed items lead to pushed items.
StkClosed ==
    /\ \A s \in Slots : slot[s] # NoItem => slot[s] \in stack
    /\ \A i \in stack : chain[i] # NoItem => chain[i] \in stack

\* Into every part of the stack leads a head, or a link from the rest: no chain
\* goes in a circle that cannot be reached from the table.
StkReached ==
    \A part \in (SUBSET stack) \ {{}} :
        (\E s \in Slots : slot[s] \in part) \/ \E i \in stack \ part : chain[i] \in part

\* Exactly one head or link leads to each item that has been pushed and not
\* popped (stkpoolpush, stkpoolpop).
StkOneLink ==
    /\ \A r, s \in Slots : slot[r] = slot[s] /\ slot[s] # NoItem => r = s
    /\ \A i, j \in stack : chain[i] = chain[j] /\ chain[i] # NoItem => i = j
    /\ \A s \in Slots, i \in stack : slot[s] # NoItem => chain[i] # slot[s]
    /\ \A i \in stack : (\E s \in Slots : slot[s] = i) \/ (\E j \in stack : chain[j] = i)

\* Nothing is lost and nothing is in two places: the chains lead to exactly
\* the items pushed and not popped, by one way each, although the link a pop
\* writes into the head was read from an item that others may have taken
\* meanwhile (stkpoolpush, stkpoolpop).
StkKeeps == StkClosed /\ StkReached /\ StkOneLink

\* The table of chains is a pool: a pop returns an item that is in the pool
\* at that instant and that no other pop has returned since it was pushed.
StkAbs == INSTANCE ItemPool WITH Items <- StkItems, free <- stack, users <- gone
StkIsPool == StkAbs!Spec

\* Somebody is pushing, or popping while there is something to pop.
StkUseful == \E t \in StkThreads : spc[t] # "idle" /\ (stack # {} \/ spc[t] \in {"push_read", "push_swap"})

\* Lock-freedom: the threads do not send each other on for ever while there is
\* something to do; with a bounded number of calls it gets done.
StkProgress == []<>~StkUseful
===========================================================================
