--------------------------------- MODULE Slab ---------------------------------
(***************************************************************************)
(* The slab allocator above its buffer headers (zen/mem.c, zen/mem.h): the *)
(* queues of buffers, the size classes, and memget, memresize and memput   *)
(* of one thread.                                                          *)
(*                                                                         *)
(* The thread's table t_memtls is allocated nowhere; here it is there, and *)
(* empty.  The header of a buffer comes from memgetbuf (module HdrPool).   *)
(* meminit never sets the bit that memput asks for, so that memput aborts: *)
(* nothing is ever given back, the queues that the threads share stay      *)
(* empty, and what the table of hashes is told is never asked for.         *)
(***************************************************************************)
EXTENDS Integers, Sequences, FiniteSets

CONSTANTS CLSIZE, PAGESIZE,  \* a cache line and a page
          MEM_BUF_MAP_BITS,  \* bits of a word
          Requests0,         \* pairs of a size and an alignment
          QBufs,             \* buffers that are put into queues
          MaxGets,           \* bound: calls of memget
          MaxQueued          \* bound: what the queue's count may reach

\* A page has four lines or more and a word more bits than one; an alignment is a
\* power of two like the page, and divides it or is larger.
ASSUME SlabAssumption ==
    /\ CLSIZE \in Nat \ {0} /\ PAGESIZE \in Nat /\ PAGESIZE % CLSIZE = 0 /\ 4 * CLSIZE <= PAGESIZE
    /\ MEM_BUF_MAP_BITS \in Nat \ {0, 1} /\ MaxGets \in Nat /\ MaxQueued \in Nat
    /\ \A r \in Requests0 : /\ r[1] \in Nat /\ r[2] \in Nat \ {0}
                            /\ r[2] <= PAGESIZE => PAGESIZE % r[2] = 0

NoBuf == 0
ASSUME QBufsAssumption == NoBuf \notin QBufs

VARIABLES bufq,      \* a struct membufq: [head, tail, nbuf]
          links,     \* prev and next of each buffer
          inq,       \* history: the buffers of the queue in order
          pops,      \* history: how many of them mempopbuf has removed
          heads,     \* the buffer of each of the thread's queues: [adr, ofs]
          areas,     \* history: what callers were given
          mapped,    \* the end of what is mapped
          trouble    \* "no", or how the program ended

bufvars == <<bufq, links, inq, pops>>
memvars == <<heads, areas, mapped, trouble>>
slabvars == <<bufvars, memvars>>
---------------------------------------------------------------------------
(* Queues of buffers.                                                      *)

NoQueue ==
    /\ bufq = [head |-> NoBuf, tail |-> NoBuf, nbuf |-> 0]
    /\ links = [b \in QBufs |-> [prev |-> NoBuf, next |-> NoBuf]]
    /\ inq = <<>> /\ pops = 0

SetPrev(l, b, p) == IF b = NoBuf THEN l ELSE [l EXCEPT ![b].prev = p]
SetNext(l, b, n) == IF b = NoBuf THEN l ELSE [l EXCEPT ![b].next = n]

mempushbuf(b) ==
    LET head == bufq.head
    IN  /\ links' = SetPrev([links EXCEPT ![b] = [prev |-> NoBuf, next |-> head]], head, b)
        /\ bufq' = [head |-> b, tail |-> IF head = NoBuf THEN b ELSE bufq.tail, nbuf |-> bufq.nbuf + 1]

\* The count stays.
mempopbuf(b) ==
    LET next == links[b].next
    IN  /\ links' = SetPrev(links, next, NoBuf)
        /\ bufq' = [bufq EXCEPT !.head = next, !.tail = IF next = NoBuf THEN NoBuf ELSE @]

memqueuebuf(b) ==
    LET tail == bufq.tail
    IN  /\ links' = SetNext([links EXCEPT ![b] = [prev |-> tail, next |-> NoBuf]], tail, b)
        /\ bufq' = [head |-> IF tail = NoBuf THEN b ELSE bufq.head, tail |-> b, nbuf |-> bufq.nbuf + 1]

\* Mutant: a buffer taken out of the middle stays the successor's predecessor.
memdequebufHalf(b) ==
    LET prev == links[b].prev  next == links[b].next
    IN  /\ links' = SetNext(links, prev, next)
        /\ bufq' = [head |-> IF prev = NoBuf THEN next ELSE bufq.head,
                    tail |-> IF next = NoBuf THEN prev ELSE bufq.tail, nbuf |-> bufq.nbuf - 1]
memdequebuf(b) ==
    LET prev == links[b].prev  next == links[b].next
    IN  /\ links' = SetPrev(SetNext(links, prev, next), next, prev)
        /\ bufq' = [head |-> IF prev = NoBuf THEN next ELSE bufq.head,
                    tail |-> IF next = NoBuf THEN prev ELSE bufq.tail, nbuf |-> bufq.nbuf - 1]

\* Either a queue is used or memory is asked for, to keep the two apart.  As the
\* callers use it: what is pushed or queued is in no queue, and what is popped is
\* the head.
Queued0 == {inq[i] : i \in DOMAIN inq}
Push(b) == b \notin Queued0 /\ mempushbuf(b) /\ inq' = <<b>> \o inq /\ UNCHANGED pops
Enqueue(b) == b \notin Queued0 /\ memqueuebuf(b) /\ inq' = Append(inq, b) /\ UNCHANGED pops
Pop(b) == inq # <<>> /\ b = bufq.head /\ mempopbuf(b) /\ inq' = Tail(inq) /\ pops' = pops + 1
Shortened(s, i) == [j \in 1 .. Len(s) - 1 |-> IF j < i THEN s[j] ELSE s[j + 1]]
Dequeue(b) ==
    \E i \in DOMAIN inq :
        /\ inq[i] = b /\ memdequebuf(b)
        /\ inq' = Shortened(inq, i) /\ UNCHANGED pops

QueueNext ==
    \E b \in QBufs : /\ bufq.nbuf < MaxQueued /\ areas = {} /\ trouble = "no"
                     /\ Push(b) \/ Enqueue(b) \/ Pop(b) \/ Dequeue(b)
                     /\ UNCHANGED memvars
---------------------------------------------------------------------------
(* Size classes.                                                           *)

RoundUp(n, unit) == ((n + unit - 1) \div unit) * unit

MEM_BLK_MAX == PAGESIZE
MEM_BLK_QUEUES == PAGESIZE \div CLSIZE
MEM_RUN_MAX == MEM_BUF_MAP_BITS * PAGESIZE

membuftype(n) == IF n <= MEM_BLK_MAX THEN "blk" ELSE IF n <= MEM_RUN_MAX THEN "run" ELSE "big"
memblkqid(n) == (n + CLSIZE - 1) \div CLSIZE
memblksize(qid) == CLSIZE * qid
memblkslabsize(qid) ==
    IF qid <= MEM_BLK_QUEUES \div 4 THEN PAGESIZE
    ELSE IF qid <= MEM_BLK_QUEUES \div 2 THEN 4 * PAGESIZE ELSE 16 * PAGESIZE

\* meminitblktabs counts for blocks one line larger.
memnblk(qid) == memblkslabsize(qid) \div (CLSIZE * (qid + 1))

\* A size less than a line and one wraps, and is no longer below a page.
memalnsize(n, align) ==
    LET less == n - 1 - CLSIZE
    IN  IF align <= CLSIZE THEN n
        ELSE IF less \in 0 .. MEM_BLK_MAX - 1 THEN less
        ELSE IF align <= PAGESIZE THEN n ELSE n - 1 + align
---------------------------------------------------------------------------
(* memget.                                                                 *)

NoSlab == [adr |-> 0, ofs |-> 0]

\* Where the system maps next: whole pages, with one of someone else between.
NewMapping == RoundUp(mapped, PAGESIZE) + PAGESIZE

\* What a caller asked for and was given, and the mapping that it lies in.
Area(asked, align, from, room_, base, whole) ==
    [asked |-> asked, align |-> align, from |-> from, len |-> room_, base |-> base,
     end |-> base + whole]

Ends(how) == trouble' = how /\ UNCHANGED <<heads, areas, mapped>>

\* From the buffer of the thread's queue, which leaves it with its last block,
\* or from a new one, whose first block is taken.
memgetblk(qid, asked, align) ==
    LET old == heads[qid]
        buf == IF old = NoSlab THEN [adr |-> NewMapping, ofs |-> 0] ELSE old
        ret == RoundUp(buf.adr + buf.ofs * memblksize(qid), align)
    IN  /\ heads' = [heads EXCEPT ![qid] =
                       IF old # NoSlab /\ buf.ofs + 1 = memnblk(qid) THEN NoSlab
                       ELSE [buf EXCEPT !.ofs = @ + 1]]
        /\ areas' = areas \cup {Area(asked, align, ret, memblksize(qid), buf.adr, memblkslabsize(qid))}
        /\ mapped' = IF old = NoSlab THEN NewMapping + memblkslabsize(qid) ELSE mapped
        /\ UNCHANGED trouble

\* The class past the last one: its lock lies in the table behind, where a
\* count is, and is never free.  Without a header, or without memory, which
\* the address tested does not tell, the header is NULL or becomes it.
memgetblkFails(qid) ==
    \/ qid = MEM_BLK_QUEUES /\ Ends("waits for ever")
    \/ qid < MEM_BLK_QUEUES /\ heads[qid] = NoSlab /\ Ends("writes to NULL")

\* The thread's queue is empty, the buffer it looks for in the shared queue of
\* the blocks is NULL, and is filled in; the last class as with the blocks.
memgetrun(qid) == Ends(IF qid = MEM_BUF_MAP_BITS THEN "waits for ever" ELSE "writes to NULL")

memgetbig(blksz, asked, align) ==
    LET ret == RoundUp(NewMapping, align)
    IN  /\ areas' = areas \cup {Area(asked, align, ret, blksz - (ret - NewMapping), NewMapping, blksz)}
        /\ mapped' = NewMapping + blksz
        /\ UNCHANGED <<heads, trouble>>
memgetbigFails == UNCHANGED memvars

memget(asked, align0) ==
    LET align == IF align0 < CLSIZE THEN CLSIZE ELSE align0
        alnsz == memalnsize(asked, align)
        qid == memblkqid(RoundUp(alnsz, CLSIZE))
    IN  CASE membuftype(alnsz) = "blk" -> \/ qid < MEM_BLK_QUEUES /\ memgetblk(qid, asked, align)
                                          \/ memgetblkFails(qid)
          [] membuftype(alnsz) = "run" -> memgetrun(RoundUp(alnsz, PAGESIZE) \div PAGESIZE)
          [] membuftype(alnsz) = "big" -> \/ memgetbig(RoundUp(alnsz, PAGESIZE), asked, align)
                                          \/ memgetbigFails

\* The size of what was got is taken for 0: only nothing fits where it is.
\* For anything else a new area is got, and forgotten, and NULL is returned.
memresize(asked, align) == IF memalnsize(asked, align) = 0 THEN UNCHANGED memvars ELSE memget(asked, align)

memput == Ends("aborts")

MemNext ==
    /\ trouble = "no" /\ Cardinality(areas) < MaxGets /\ NoQueue
    /\ \/ \E r \in Requests0 : memget(r[1], r[2])
       \/ areas # {} /\ \E r \in Requests0 : memresize(r[1], r[2])
       \/ areas # {} /\ memput
    /\ UNCHANGED bufvars

SlabInit ==
    /\ NoQueue
    /\ heads = [qid \in 0 .. MEM_BLK_QUEUES - 1 |-> NoSlab] /\ areas = {} /\ mapped = 0
    /\ trouble = "no"

SlabNext == QueueNext \/ MemNext

SlabSpec == SlabInit /\ [][SlabNext]_slabvars
---------------------------------------------------------------------------
(* Properties.                                                             *)

SlabTypeOK ==
    /\ bufq \in [head : QBufs \cup {NoBuf}, tail : QBufs \cup {NoBuf}, nbuf : 0 .. MaxQueued]
    /\ links \in [QBufs -> [prev : QBufs \cup {NoBuf}, next : QBufs \cup {NoBuf}]]
    /\ mapped \in Nat /\ trouble \in {"no", "waits for ever", "writes to NULL", "aborts"}

\* The links lead through the buffers of the queue in their order, in both
\* directions and from both ends, whatever is pushed, queued, popped and taken
\* out; the count is behind by none but the pops (mempushbuf, memdequebuf).
QueueLinked ==
    LET n == Len(inq)
    IN  /\ bufq.head = (IF n = 0 THEN NoBuf ELSE inq[1])
        /\ bufq.tail = (IF n = 0 THEN NoBuf ELSE inq[n])
        /\ \A i \in 1 .. n : /\ links[inq[i]].prev = (IF i = 1 THEN NoBuf ELSE inq[i - 1])
                             /\ links[inq[i]].next = (IF i = n THEN NoBuf ELSE inq[i + 1])
        /\ bufq.nbuf = n + pops

\* Areas of the least alignment, and those with a mapping of their own, are as
\* large as was asked for and inside what was mapped, and no two of them overlap,
\* from first to last block of a buffer and from one buffer to the next
\* (memgetblk, memgetbig).
OwnRoom(a) == a.align <= CLSIZE \/ a.asked > MEM_RUN_MAX
AreasApart ==
    /\ \A a \in areas : OwnRoom(a) => /\ a.from % a.align = 0 /\ a.asked <= a.len
                                     /\ a.base <= a.from /\ a.from + a.len <= a.end
    /\ \A a, b \in areas : OwnRoom(a) /\ OwnRoom(b) /\ a # b =>
           a.from + a.len <= b.from \/ b.from + b.len <= a.from

\* The queue of buffers, and the blocks that memget has given out (memdequebuf,
\* memgetblk).
BlocksApart == SlabTypeOK /\ QueueLinked /\ AreasApart
===========================================================================
