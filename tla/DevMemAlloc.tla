---------------------------- MODULE DevMemAlloc -----------------------------
(***************************************************************************)
(* The device memory allocator: DevMemAllocImpl asks a raw allocator for   *)
(* chunks and hands blocks of them to one StreamMemAllocImpl per stream,   *)
(* which keeps the blocks its user frees.  With a single stream the device *)
(* level keeps no free blocks of its own.  When the raw allocator has      *)
(* nothing left, free blocks are gathered from the streams and complete    *)
(* chunks are given back.                                                  *)
(*                                                                         *)
(* Each allocator has a mutex, and a step of a thread is one critical      *)
(* section of it or one call of the raw allocator: an allocation drops     *)
(* every lock between its levels.  Sizes count units of the alignment.     *)
(* The maps m_free_blk_size and m_free_blk_addr hold the same blocks in    *)
(* two orders and are one set here.                                        *)
(***************************************************************************)
EXTENDS Integers, FiniteSets, FiniteSetsExt

CONSTANTS
    Streams,        \* the StreamKeys
    Threads,        \* threads that allocate
    NoStream,       \* the stream of a thread that does not
    Sizes,          \* what they ask for
    Memory,         \* the size of the device memory
    Reserves,       \* values of reserve_size
    MinReq, MaxOverhead, GrowthFactor,  \* PreAllocConfig
    MaxUsed         \* bound: no allocation begins with m_used_size above it

ASSUME StreamAssumption == NoStream \notin Streams
ASSUME MemoryAssumption == Memory \in Nat /\ Reserves \subseteq 0 .. Memory
ASSUME SizeAssumption == Sizes \subseteq Nat \ {0}
ASSUME ConfigAssumption == {MinReq, MaxOverhead, GrowthFactor, MaxUsed} \subseteq Nat

Chunk == [addr : 0 .. Memory, size : 1 .. Memory]
FreeBlock == [addr : 0 .. Memory, size : 1 .. Memory, is_head : BOOLEAN]

Block(a, n, head) == [addr |-> a, size |-> n, is_head |-> head]
End(b) == b.addr + b.size
SizeOf(blocks) == MapThenSumSet(LAMBDA b : b.size, blocks)

VARIABLES
    raw,                        \* chunks that the raw allocator has handed out
    m_alloc_from_raw,           \* those that DevMemAllocImpl has noted
    m_tot_allocated_from_raw,
    m_used_size,
    m_stream_alloc,             \* streams with an allocator
    dev_free,                   \* free blocks of DevMemAllocImpl
    free,                       \* free blocks of each StreamMemAllocImpl
    m_allocated_blocks,         \* of each StreamMemAllocImpl
    thr                         \* each thread's allocation in progress

rawVars == <<raw, m_alloc_from_raw, m_tot_allocated_from_raw>>
vars == <<rawVars, m_used_size, m_stream_alloc, dev_free, free, m_allocated_blocks, thr>>

NoBlock == Block(0, 0, FALSE)
\* alone: nothing else has happened since the allocation began
Idle == [pc |-> "idle", s |-> NoStream, n |-> 0, size_upper |-> 0, blk |-> NoBlock,
         alone |-> FALSE]

\* DevMemAllocImpl::DevMemAllocImpl()
Init ==
    /\ \E r \in Reserves :
          /\ raw = IF r = 0 THEN {} ELSE {[addr |-> 0, size |-> r]}
          /\ dev_free = IF r = 0 THEN {} ELSE {Block(0, r, TRUE)}
          /\ m_tot_allocated_from_raw = r
    /\ m_alloc_from_raw = raw
    /\ m_used_size = 0
    /\ m_stream_alloc = {}
    /\ free = [s \in Streams |-> {}]
    /\ m_allocated_blocks = [s \in Streams |-> {}]
    /\ thr = [t \in Threads |-> Idle]

-----------------------------------------------------------------------------
(* Free lists: MemAllocImplHelper.                                         *)

\* Mutant: a block of exactly the size is not taken.
Fitting_Larger(blocks, n) == {b \in blocks : b.size > n}

Fitting(blocks, n) == {b \in blocks : b.size >= n}

\* do_alloc(): the smallest block that fits, the lowest of these
BestFit(blocks, n) ==
    CHOOSE b \in Fitting(blocks, n) : \A c \in Fitting(blocks, n) :
        b.size < c.size \/ (b.size = c.size /\ b.addr <= c.addr)

Taken(b, n) == Block(b.addr, n, b.is_head)

Remainder(b, n) == IF b.size = n THEN {} ELSE {Block(b.addr + n, b.size - n, FALSE)}

\* Mutant: the merged block is taken for the head of a chunk only if the freed
\* one was.
MergedHead_Own(prev, b) == b.is_head

MergedHead(prev, b) == IF prev = {} THEN b.is_head ELSE \E p \in prev : p.is_head

\* Mutant: the block after is not looked at.
NextOf_None(blocks, b) == {}

NextOf(blocks, b) == {q \in blocks : ~q.is_head /\ q.addr = End(b)}

\* merge_free_unsafe()
Merge(blocks, b) ==
    LET prev == {p \in blocks : ~b.is_head /\ End(p) = b.addr}
        next == NextOf(blocks, b)
    IN  (blocks \ (prev \cup next))
            \cup {Block(b.addr - SizeOf(prev), SizeOf(prev \cup next) + b.size,
                        MergedHead(prev, b))}

\* get_single_child_stream_unsafe()
SingleChild == Cardinality(m_stream_alloc) = 1

\* Mutant: what goes to the single stream is not counted as used.
InsertUsed_None(blocks) == 0

InsertUsed(blocks) == IF SingleChild THEN SizeOf(blocks) ELSE 0

\* DevMemAllocImpl::insert_free_unsafe() of the blocks, after "dev" has become
\* the device's free list: a single stream takes them over
InsertFree(dev, blocks) ==
    IF SingleChild
    THEN /\ free' = [s \in Streams |-> IF s \in m_stream_alloc THEN free[s] \cup blocks
                                                               ELSE free[s]]
         /\ dev_free' = dev
    ELSE /\ dev_free' = dev \cup blocks
         /\ UNCHANGED free

-----------------------------------------------------------------------------
Goto(t, pc) == thr' = [thr EXCEPT ![t].pc = pc]
Got(t, pc, b) == thr' = [thr EXCEPT ![t].pc = pc, ![t].blk = b]

\* every thread's record after a step that another allocation may notice
Disturbed == [u \in Threads |-> [thr[u] EXCEPT !.alone = FALSE]]

AddStream(s) ==
    /\ s \notin m_stream_alloc
    /\ m_stream_alloc' = m_stream_alloc \cup {s}
    /\ thr' = Disturbed
    /\ UNCHANGED <<rawVars, m_used_size, dev_free, free, m_allocated_blocks>>

\* StreamMemAllocImpl::alloc() and its do_alloc()
Alloc(t, s, n) ==
    /\ thr[t].pc = "idle"
    /\ s \in m_stream_alloc
    /\ m_used_size <= MaxUsed
    /\ LET call == [Idle EXCEPT !.s = s, !.n = n,
                                !.alone = \A u \in Threads : thr[u].pc = "idle"]
       IN  IF Fitting(free[s], n) = {}
           THEN /\ thr' = [Disturbed EXCEPT ![t] = [call EXCEPT !.pc = "dev"]]
                /\ UNCHANGED free
           ELSE LET b == BestFit(free[s], n) IN
                /\ free' = [free EXCEPT ![s] = (@ \ {b}) \cup Remainder(b, n)]
                /\ thr' = [Disturbed EXCEPT ![t] = [call EXCEPT !.pc = "register",
                                                                !.blk = Taken(b, n)]]
    /\ UNCHANGED <<rawVars, m_used_size, m_stream_alloc, dev_free, m_allocated_blocks>>

\* do_alloc() of DevMemAllocImpl when there is a block
TakeDev(t, counted) ==
    /\ Fitting(dev_free, thr[t].n) # {}
    /\ LET n == thr[t].n
           b == BestFit(dev_free, n)
       IN  /\ InsertFree(dev_free \ {b}, Remainder(b, n))
           /\ m_used_size' = m_used_size + InsertUsed(Remainder(b, n)) + counted
           /\ Got(t, "count", Taken(b, n))
    /\ UNCHANGED <<rawVars, m_stream_alloc, m_allocated_blocks>>

\* DevMemAllocImpl::alloc() up to do_alloc()
DevAlloc(t) == thr[t].pc = "dev" /\ TakeDev(t, 0)

\* ... and into alloc_from_parent(): how much to ask for
DevAllocFromParent(t) ==
    /\ thr[t].pc = "dev"
    /\ LET n == thr[t].n IN
       /\ Fitting(dev_free, n) = {}
       /\ thr' = [thr EXCEPT ![t].pc = "raw",
                     ![t].size_upper = Min({Max({n, MinReq,
                                                 m_tot_allocated_from_raw * GrowthFactor}),
                                            n + MaxOverhead})]
    /\ UNCHANGED <<rawVars, m_used_size, m_stream_alloc, dev_free, free, m_allocated_blocks>>

\* where the raw allocator can place a chunk
RawFits(n) ==
    {a \in 0 .. Memory - n : \A c \in raw : a + n <= c.addr \/ End(c) <= a}

\* the next thing alloc_from_parent() does when the raw allocator fails
AfterRawFails(t) ==
    CASE thr[t].pc = "raw" -> IF thr[t].size_upper > thr[t].n THEN "raw_exact" ELSE "gather"
      [] thr[t].pc = "raw_exact" -> "gather"
      [] thr[t].pc = "raw_again" -> "gather_sync"
      [] thr[t].pc = "raw_last" -> "last"

RawAlloc(t) ==
    /\ thr[t].pc \in {"raw", "raw_exact", "raw_again", "raw_last"}
    /\ LET n == IF thr[t].pc = "raw_exact" THEN thr[t].n ELSE thr[t].size_upper IN
       IF RawFits(n) = {}
       THEN /\ thr' = [thr EXCEPT ![t].pc = AfterRawFails(t), ![t].size_upper = n]
            /\ UNCHANGED raw
       ELSE \E a \in RawFits(n) :
            /\ raw' = raw \cup {[addr |-> a, size |-> n]}
            /\ thr' = [thr EXCEPT ![t].pc = "insert", ![t].size_upper = n,
                                  ![t].blk = Block(a, thr[t].n, TRUE)]
    /\ UNCHANGED <<m_alloc_from_raw, m_tot_allocated_from_raw, m_used_size, m_stream_alloc,
                   dev_free, free, m_allocated_blocks>>

\* the end of alloc_from_parent(): the chunk is noted, the rest of it is free
InsertChunk(t) ==
    /\ thr[t].pc = "insert"
    /\ LET upper == thr[t].size_upper
           rest == Remainder(Block(thr[t].blk.addr, upper, TRUE), thr[t].n)
       IN  /\ m_alloc_from_raw' = m_alloc_from_raw
                                      \cup {[addr |-> thr[t].blk.addr, size |-> upper]}
           /\ m_tot_allocated_from_raw' = m_tot_allocated_from_raw + upper
           /\ InsertFree(dev_free, rest)
           /\ m_used_size' = m_used_size + InsertUsed(rest)
    /\ Goto(t, "count")
    /\ UNCHANGED <<raw, m_stream_alloc, m_allocated_blocks>>

ChildFree == UNION {free[s] : s \in m_stream_alloc}

\* Mutant: the head of a chunk is taken for the whole of it.
Full_Head(blocks) == {b \in blocks : b.is_head}

\* complete chunks among free blocks
Full(blocks) ==
    {b \in blocks : b.is_head /\ [addr |-> b.addr, size |-> b.size] \in m_alloc_from_raw}

\* gather_stream_free_blk_and_release_full().  A single stream keeps its
\* blocks, except for complete chunks.
GatherAndRelease ==
    LET gathered == IF SingleChild THEN Full(ChildFree) ELSE ChildFree
        dev == IF SingleChild THEN dev_free
               ELSE FoldSet(LAMBDA b, blocks : Merge(blocks, b), dev_free, ChildFree)
        full == Full(dev) \cup IF SingleChild THEN gathered ELSE {}
        released == {[addr |-> b.addr, size |-> b.size] : b \in full}
    IN  /\ free' = [s \in Streams |-> free[s] \ gathered]
        /\ dev_free' = dev \ full
        /\ m_used_size' = m_used_size - SizeOf(gathered)
        /\ m_alloc_from_raw' = m_alloc_from_raw \ released
        /\ m_tot_allocated_from_raw' = m_tot_allocated_from_raw - SizeOf(released)
        /\ raw' = raw \ released

Gather(t) ==
    /\ thr[t].pc \in {"gather", "gather_sync"}
    /\ GatherAndRelease
    /\ Goto(t, IF thr[t].pc = "gather" THEN "raw_again" ELSE "raw_last")
    /\ UNCHANGED <<m_stream_alloc, m_allocated_blocks>>

\* try_coalesce_all_free_memory() of the computing nodes
Coalesce ==
    /\ GatherAndRelease
    /\ thr' = Disturbed
    /\ UNCHANGED <<m_stream_alloc, m_allocated_blocks>>

\* alloc_from_parent(): "try to alloc from newly gathered but unreleased" blocks
LastAlloc(t) == thr[t].pc = "last" /\ TakeDev(t, thr[t].n)

\* MemAllocError "out of memory"
OutOfMemory(t) ==
    /\ thr[t].pc = "last"
    /\ Fitting(dev_free, thr[t].n) = {}
    /\ thr' = [thr EXCEPT ![t] = Idle]
    /\ UNCHANGED <<rawVars, m_used_size, m_stream_alloc, dev_free, free, m_allocated_blocks>>

\* DevMemAllocImpl::alloc() after do_alloc()
CountUsed(t) ==
    /\ thr[t].pc = "count"
    /\ m_used_size' = m_used_size + thr[t].n
    /\ Goto(t, "register")
    /\ UNCHANGED <<rawVars, m_stream_alloc, dev_free, free, m_allocated_blocks>>

\* StreamMemAllocImpl::alloc() after do_alloc()
Register(t) ==
    /\ thr[t].pc = "register"
    /\ m_allocated_blocks' = [m_allocated_blocks EXCEPT ![thr[t].s] = @ \cup {thr[t].blk}]
    /\ thr' = [thr EXCEPT ![t] = Idle]
    /\ UNCHANGED <<rawVars, m_used_size, m_stream_alloc, dev_free, free>>

\* StreamMemAllocImpl::free()
Free(s, b) ==
    /\ b \in m_allocated_blocks[s]
    /\ m_allocated_blocks' = [m_allocated_blocks EXCEPT ![s] = @ \ {b}]
    /\ free' = [free EXCEPT ![s] = Merge(@, b)]
    /\ thr' = Disturbed
    /\ UNCHANGED <<rawVars, m_used_size, m_stream_alloc, dev_free>>

-----------------------------------------------------------------------------
Next ==
    \/ Coalesce
    \/ \E s \in Streams : AddStream(s) \/ \E b \in m_allocated_blocks[s] : Free(s, b)
    \/ \E t \in Threads :
          \/ \E s \in Streams, n \in Sizes : Alloc(t, s, n)
          \/ DevAlloc(t) \/ DevAllocFromParent(t) \/ RawAlloc(t) \/ InsertChunk(t)
          \/ Gather(t) \/ LastAlloc(t) \/ OutOfMemory(t) \/ CountUsed(t) \/ Register(t)

Spec == Init /\ [][Next]_vars
-----------------------------------------------------------------------------
InFlight == {t \in Threads : thr[t].pc \in {"count", "register"}}

TypeOK ==
    /\ raw \subseteq Chunk
    /\ m_alloc_from_raw \subseteq Chunk
    /\ m_tot_allocated_from_raw = SizeOf(m_alloc_from_raw)
    /\ m_used_size \in Nat
    /\ m_stream_alloc \subseteq Streams
    /\ dev_free \subseteq FreeBlock
    /\ free \in [Streams -> SUBSET FreeBlock]
    /\ m_allocated_blocks \in [Streams -> SUBSET FreeBlock]
    /\ thr \in [Threads ->
          [pc : {"idle", "dev", "raw", "raw_exact", "gather", "raw_again", "gather_sync",
                 "raw_last", "last", "insert", "count", "register"},
           s : Streams \cup {NoStream}, n : Sizes \cup {0}, size_upper : 0 .. Memory + MaxOverhead,
           blk : FreeBlock \cup {NoBlock}, alone : BOOLEAN]]

Covering(blocks, a) == {b \in blocks : b.addr <= a /\ a < End(b)}

\* How many free lists, users and allocations in progress hold the address.
Holders(a) ==
    Cardinality(Covering(dev_free, a))
        + MapThenSumSet(LAMBDA s : Cardinality(Covering(free[s], a))
                                       + Cardinality(Covering(m_allocated_blocks[s], a)),
                        Streams)
        + Cardinality({t \in InFlight : Covering({thr[t].blk}, a) # {}})

\* No byte is handed out twice, lost, or given back to the raw allocator while
\* somebody holds it, although alloc() drops every lock between its levels and
\* gather_stream_free_blk_and_release_full() runs in between: each address of
\* the chunks in m_alloc_from_raw has exactly one holder and no other address
\* has one, and the raw allocator agrees about the chunks.
Partition ==
    /\ \A a \in 0 .. Memory : Holders(a) = Cardinality(Covering(m_alloc_from_raw, a))
    /\ raw = m_alloc_from_raw
                 \cup {[addr |-> thr[t].blk.addr, size |-> thr[t].size_upper] :
                           t \in {u \in Threads : thr[u].pc = "insert"}}

Blocks ==
    dev_free \cup UNION {free[s] \cup m_allocated_blocks[s] : s \in Streams}
             \cup {thr[t].blk : t \in InFlight}

\* is_head is "whether it is head of a chunk from raw allocator" and stays so
\* through splits, merges and hand-overs; then no block spans two chunks.  It is
\* what the assertion in gather_stream_free_blk_and_release_full() on the block
\* found in m_alloc_from_raw rests on.
HeadExact ==
    \A b \in Blocks :
        /\ b.is_head <=> \E c \in m_alloc_from_raw : c.addr = b.addr
        /\ \E c \in m_alloc_from_raw : c.addr <= b.addr /\ End(b) <= End(c)

\* Free neighbours within a chunk are always merged, although
\* insert_free_unsafe() inserts remainders without merging.
Coalesced ==
    \A blocks \in {dev_free} \cup {free[s] : s \in Streams} :
        \A p, q \in blocks : End(p) = q.addr => q.is_head

\* m_used_size covers what the streams hold, in use or free, so that the
\* assertions gathered_size <= m_used_size and free_size <= m_used_size hold
\* whenever another thread gathers, and the counter never wraps below zero.
UsedCovers ==
    SizeOf(ChildFree) + SizeOf(UNION {m_allocated_blocks[s] : s \in Streams}) <= m_used_size

\* Where n bytes in a row of one chunk are free.
FreeRuns(n) ==
    {a \in 0 .. Memory - n :
        /\ \A i \in a .. a + n - 1 : Covering(dev_free \cup ChildFree, i) # {}
        /\ \E c \in m_alloc_from_raw : c.addr <= a /\ a + n <= End(c)}

\* "out of memory" is thrown only when there is none: if nothing else happened
\* since the allocation began, neither the raw allocator nor the free blocks of
\* all the streams together have the room, whichever chunks they are scattered
\* over.
OomOnlyWhenFull ==
    [][\A t \in Threads :
          (thr[t].pc = "last" /\ thr[t].alone /\ thr'[t].pc = "idle")
              => RawFits(thr[t].n) = {} /\ FreeRuns(thr[t].n) = {}]_vars

\* get_used_memory() is documented as "get total size of allocated memory": with
\* no allocation in progress it is at most what came from the raw allocator.
UsedWithinTotal ==
    (\A t \in Threads : thr[t].pc = "idle") => m_used_size <= m_tot_allocated_from_raw

=============================================================================
