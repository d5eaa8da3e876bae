------------------------- MODULE AsyncQueueSCThreads ------------------------
(***************************************************************************)
(* The steps of the two waits and of the worker keep the counts of         *)
(* AsyncQueueSC; those of the threads that call add_task() and the waits   *)
(* keep its invariant, but for the one that makes a block (module          *)
(* AsyncQueueSCBlocks), and map to steps of TaskFifo. That the steps of    *)
(* add_task() keep the counts, and that the invariant implies Derived, are *)
(* hypotheses here that AsyncQueueSCProofs discharges.                     *)
(***************************************************************************)
EXTENDS AsyncQueueSCInvariant, TLAPS

\* The prover of the steps that name no other, and the time it has for each.
USE ZenonT(20)

-----------------------------------------------------------------------------
(* The counts.                                                             *)

\* A thread that goes on inside or outside that section does not change them.
LEMMA ClaimedSame ==
    ASSUME pc \in [Threads -> Pcs], NEW t \in Threads, NEW l, Goto(t, l),
           pc[t] \in ClaimedPc <=> l \in ClaimedPc
    PROVE  Claimed' = Claimed
<1>1. \A u \in Threads : pc'[u] = IF u = t THEN l ELSE pc[u]
  BY DEF Goto
<1> QED BY <1>1 DEF Claimed

\* A step of one thread that changes no count keeps the invariant.
LEMMA ThreadStep ==
    ASSUME CountInv, NEW t \in Threads, NEW l \in Pcs, Goto(t, l),
           pc[t] \in ClaimedPc <=> l \in ClaimedPc, l # "e_tgt",
           tgt' \in [Threads -> Nat], \A u \in Threads : u # t => tgt'[u] = tgt[u],
           wpc' = "count" <=> wpc = "count",
           UNCHANGED <<m_queue_tail_tid, m_finished_task, tot, finished, fetched>>
    PROVE  CountInv'
<1>1. pc \in [Threads -> Pcs]
  BY DEF CountInv, CountTypes
<1>2. Claimed' = Claimed
  BY <1>1, ClaimedSame
<1>3. /\ pc' \in [Threads -> Pcs]
      /\ \A u \in Threads : pc'[u] = IF u = t THEN l ELSE pc[u]
  BY <1>1 DEF Goto
<1>4. \A p \in Producers : pc'[p] = "e_tgt" => tgt'[p] <= m_finished_task'
  BY <1>3 DEF CountInv, Threads
<1> QED BY <1>2, <1>3, <1>4 DEF CountInv, CountTypes

\* ... so does a step of the worker that changes no program counter and no count.
LEMMA QuietStep ==
    ASSUME CountInv, pc' = pc, tgt' = tgt, wpc' = "count" <=> wpc = "count",
           UNCHANGED <<m_queue_tail_tid, m_finished_task, tot, finished, fetched>>
    PROVE  CountInv'
<1>1. Claimed' = Claimed
  BY DEF Claimed
<1> QED BY <1>1 DEF CountInv, CountTypes

\* The steps of wait_all_task_finish() and wait_task_queue_empty().
LEMMA WaitCounts ==
    ASSUME CountInv, NEW p \in Producers, WaitAllBegin(p) \/ WaitEmptyBegin(p) \/ WaitStep(p)
    PROVE  CountInv'
<1> USE DEF ClaimedPc, AddPc, WaitPc, Pcs
<1>1. /\ tgt \in [Threads -> Nat] /\ pc \in [Threads -> Pcs] /\ p \in Threads
      /\ m_queue_tail_tid \in Nat /\ m_finished_task \in Nat
  BY DEF CountInv, CountTypes, Threads
<1>2. UNCHANGED <<m_queue_tail_tid, m_finished_task, tot, finished, fetched, wpc>>
  BY DEF WaitAllBegin, WaitEmptyBegin, WaitStep, SyncWaitEnter, SyncWaitReturn, WaitAllCheck,
     WaitAllReturn, WaitEmptyDone, WaitEmptyCheck, Sync!WaitBegin, Sync!WaitEnd, worker, sync
<1>3. CASE WaitEmptyDone(p)
  <2>1. /\ pc[p] = "e_done" /\ pc' = [pc EXCEPT ![p] = "e_tgt"]
        /\ tgt' = [tgt EXCEPT ![p] = m_finished_task] /\ Goto(p, "e_tgt")
    BY <1>3 DEF WaitEmptyDone, Goto
  <2>2. Claimed' = Claimed
    BY <1>1, <2>1, ClaimedSame
  <2>3. \A q \in Producers : pc'[q] = "e_tgt" => tgt'[q] <= m_finished_task'
    BY <1>1, <1>2, <2>1, SMT DEF CountInv, Threads
  <2>4. CountTypes'
    BY <1>1, <1>2, <2>1 DEF CountInv, CountTypes
  <2> QED BY <1>2, <2>2, <2>3, <2>4 DEF CountInv
<1>4. CASE ~WaitEmptyDone(p)
  <2>1. /\ pc[p] \in {"idle"} \cup WaitPc
        /\ \E l \in ({"idle"} \cup WaitPc) \ {"e_tgt"} : Goto(p, l)
    BY <1>4 DEF WaitAllBegin, WaitEmptyBegin, WaitStep, SyncWaitEnter, SyncWaitReturn,
       WaitAllCheck, WaitAllReturn, WaitEmptyCheck
  <2>2. tgt' = tgt \/ \E n \in Nat : tgt' = [tgt EXCEPT ![p] = n]
    BY <1>1, <1>4 DEF WaitAllBegin, WaitEmptyBegin, WaitStep, SyncWaitEnter, SyncWaitReturn,
       WaitAllCheck, WaitAllReturn, WaitEmptyCheck, locals
  <2>3. tgt' \in [Threads -> Nat] /\ \A u \in Threads : u # p => tgt'[u] = tgt[u]
    BY <1>1, <2>2
  <2> QED BY <1>1, <1>2, <2>1, <2>3, ThreadStep
<1> QED BY <1>3, <1>4

\* The steps of the worker, its exit and a spurious wakeup.
LEMMA WorkerCounts ==
    ASSUME CountInv, WorkerStep \/ WorkerExit \/ SpuriousWakeup
    PROVE  CountInv'
<1> USE DEF ClaimedPc, AddPc, WaitPc, Pcs
<1>1. tgt \in [Threads -> Nat] /\ pc \in [Threads -> Pcs]
  BY DEF CountInv, CountTypes
<1>2. CASE WorkerFetch
  <2>1. /\ wpc = "fetch" /\ wpc' \in {"head", "param"} /\ finished < tot /\ fetched' = TRUE
        /\ UNCHANGED <<pc, tgt, m_queue_tail_tid, m_finished_task, tot, finished>>
    BY <1>2 DEF WorkerFetch, Sync!Fetch, WGoto, locals
  <2>2. Claimed' = Claimed
    BY <2>1 DEF Claimed
  <2> QED BY <2>1, <2>2 DEF CountInv, CountTypes
<1>3. CASE WorkerNextHead \/ SpuriousWakeup
  <2>1. /\ UNCHANGED <<m_queue_tail_tid, m_finished_task, tot, finished, fetched, tgt>>
        /\ wpc' = "count" <=> wpc = "count"
    BY <1>3 DEF WorkerNextHead, RecycleHead, WGoto, SpuriousWakeup, locals, sync, worker
  <2>2. pc' = pc \/ \E t \in Threads : pc[t] = "a_sleeping" /\ Goto(t, "a_woken")
    BY <1>3 DEF WorkerNextHead, NotifyOne, SpuriousWakeup
  <2> QED BY <1>1, <2>1, <2>2, QuietStep, ThreadStep
<1>4. CASE WorkerTake \/ WorkerProcess \/ WorkerExit
  <2>1. /\ UNCHANGED <<pc, tgt, m_queue_tail_tid, m_finished_task, tot, finished, fetched>>
        /\ wpc # "count" /\ wpc' # "count"
    BY <1>4 DEF WorkerTake, WorkerProcess, WorkerExit, Sync!Exit, WGoto, locals, sync
  <2> QED BY <2>1, QuietStep
<1>5. CASE WorkerCommit
  <2>1. /\ wpc = "commit" /\ wpc' = "count" /\ fetched /\ fetched' = FALSE /\ finished' = finished + 1
        /\ UNCHANGED <<pc, tgt, m_queue_tail_tid, m_finished_task, tot>>
    BY <1>5 DEF WorkerCommit, Sync!Commit, WGoto, locals
  <2>2. Claimed' = Claimed
    BY <2>1 DEF Claimed
  <2>3. finished < tot /\ finished = m_finished_task
    <3>1. wpc # "count" /\ fetched
      BY <2>1
    <3> QED BY <3>1 DEF CountInv
  <2>4. CountTypes' /\ ~fetched'
    <3>1. finished \in Nat /\ finished' \in Nat
      BY <2>1, SMT DEF CountInv, CountTypes
    <3> QED BY <2>1, <3>1 DEF CountInv, CountTypes
  <2>5. finished' <= tot' /\ finished' = m_finished_task' + 1
    BY <2>1, <2>3, SMT DEF CountInv, CountTypes
  <2>6. /\ m_queue_tail_tid' = tot' + Cardinality(Claimed')
        /\ \A p \in Producers : pc'[p] = "e_tgt" => tgt'[p] <= m_finished_task'
    BY <2>1, <2>2 DEF CountInv
  <2> QED BY <2>1, <2>4, <2>5, <2>6 DEF CountInv
<1>6. CASE WorkerCount
  <2>1. /\ wpc = "count" /\ wpc' = "fetch" /\ m_finished_task' = m_finished_task + 1
        /\ UNCHANGED <<pc, tgt, m_queue_tail_tid, tot, finished, fetched>>
    BY <1>6 DEF WorkerCount, WGoto, locals, sync
  <2>2. Claimed' = Claimed
    BY <2>1 DEF Claimed
  <2>3. \A p \in Producers : pc[p] = "e_tgt" => tgt[p] <= m_finished_task + 1
    BY <1>1, SMT DEF CountInv, CountTypes, Threads
  <2> QED BY <2>1, <2>2, <2>3 DEF CountInv, CountTypes
<1> QED BY <1>2, <1>3, <1>4, <1>5, <1>6 DEF WorkerStep

\* wait_task_queue_empty() finds the two counters equal only when they are equal
\* at that instant: it read the count of finished tasks before, and that count
\* does not pass the number of ids.
LEMMA SeenEmpty ==
    ASSUME CountInv, Cardinality(Claimed) \in Nat, [Next]_vars,
           NEW p \in Producers, pc[p] = "e_tgt", pc'[p] = "e_again"
    PROVE  m_finished_task = m_queue_tail_tid
<1>1. p \in Threads /\ pc \in [Threads -> Pcs]
  BY DEF CountInv, CountTypes, Threads
<1>2. ASSUME NEW t \in Threads, NEW l, Goto(t, l), pc[t] # "e_tgt" \/ l # "e_again" PROVE FALSE
  BY <1>1, <1>2 DEF Goto
<1>3. WaitEmptyCheck(p)
  <2>1. ASSUME NEW t \in Threads, AddBegin(t) \/ AddStep(t) PROVE FALSE
    <3>1. pc[t] # "e_tgt" /\ \E l : Goto(t, l)
      BY <2>1 DEF AddBegin, AddStep, ClaimTid, FastPath, LockTail, AllocBlock, AllocWait,
         AllocWake, InitParam, Publish
    <3> QED BY <1>2, <3>1
  <2>2. ASSUME NEW q \in Producers, WaitAllBegin(q) \/ WaitEmptyBegin(q) \/ WaitStep(q),
               ~WaitEmptyCheck(q)
        PROVE  FALSE
    <3>1. pc[q] # "e_tgt" /\ \E l : Goto(q, l)
      BY <2>2 DEF WaitAllBegin, WaitEmptyBegin, WaitStep, SyncWaitEnter, SyncWaitReturn,
         WaitAllCheck, WaitAllReturn, WaitEmptyDone
    <3> QED BY <1>2, <3>1 DEF Threads
  <2>3. ASSUME NEW q \in Producers, WaitEmptyCheck(q) PROVE q = p
    BY <1>1, <2>3 DEF WaitEmptyCheck, Goto, Threads
  <2>4. ASSUME WorkerStep \/ WorkerExit \/ SpuriousWakeup \/ UNCHANGED vars PROVE FALSE
    <3>1. pc' = pc \/ \E t \in Threads : pc[t] = "a_sleeping" /\ Goto(t, "a_woken")
      BY <2>4 DEF WorkerStep, WorkerFetch, WorkerNextHead, NotifyOne, WorkerTake,
         WorkerProcess, WorkerCommit, WorkerCount, WorkerExit, SpuriousWakeup, vars
    <3> QED BY <1>2, <3>1
  <2> QED BY <2>1, <2>2, <2>3, <2>4 DEF Next, Terminated
<1>4. m_queue_tail_tid = tgt[p]
  BY <1>1, <1>3 DEF WaitEmptyCheck, Goto
<1>5. tgt[p] \in Nat /\ tgt[p] <= m_finished_task
  BY <1>1 DEF CountInv, CountTypes
<1> QED BY <1>4, <1>5, SMT DEF CountInv, CountTypes

-----------------------------------------------------------------------------
(* What the invariant says of blocks and threads.                          *)

\* A block has a number that is not Null.
LEMMA BlockFacts ==
    /\ Quota \in Nat /\ BlockSize \in Nat /\ BlockSize > 0 /\ Blocks \subseteq Nat
    /\ Null \notin Blocks /\ NoTask \notin Nat /\ Slots \subseteq Nat
    /\ \A b : b \in Blocks <=> b \in Nat /\ 1 <= b /\ b <= Quota
    /\ \A o : o \in Slots <=> o \in Nat /\ o < BlockSize
BY QuotaAssumption, BlockSizeAssumption, SMT DEF Quota, Blocks, Slots, Null, NoTask

\* The parts of the invariant.
LEMMA QParts ==
    ASSUME QInv
    PROVE  /\ QTypes /\ CountInv /\ LockInv /\ FreeInv /\ ChainInv /\ PlaceInv /\ ThreadInv
           /\ IdsInv /\ SlotInv /\ BeyondInv /\ WaitInv /\ BoundInv
BY DEF QInv

\* While the lists of blocks stay as they are, so do the live blocks.
LEMMA ListsSame ==
    ASSUME UNCHANGED lists
    PROVE  /\ Live' = Live /\ Allocated' = Allocated
           /\ FreeInv => FreeInv'
           /\ ChainInv => ChainInv'
<1>1. /\ UNCHANGED <<first_tid, prev, next, freed, m_queue_head, m_queue_tail>>
      /\ UNCHANGED <<m_new_block_first_tid, m_block_quota, m_free_task_block>>
  BY DEF lists
<1>2. Free' = Free /\ Allocated' = Allocated
  BY <1>1 DEF Free, Allocated
<1>3. Live' = Live
  BY <1>2 DEF Live
<1>4. FreeInv => FreeInv'
  BY <1>1, <1>2, <1>3 DEF FreeInv
<1>5. ChainInv => ChainInv'
  BY <1>1, <1>3 DEF ChainInv
<1> QED BY <1>2, <1>3, <1>4, <1>5

\* A block is live, recycled or not yet made.
LEMMA LiveFacts ==
    ASSUME QTypes
    PROVE  /\ Live \subseteq Blocks /\ Free \subseteq Blocks /\ Allocated \in 0 .. Quota
           /\ \A b \in Blocks : b \in Live <=> b <= Allocated /\ b \notin Free
           /\ \A b \in Live : first_tid[b] \in Nat
<1>1. Free \subseteq Blocks
  BY SMT DEF Free, QTypes
<1>2. Allocated \in 0 .. Quota
  BY BlockFacts, SMT DEF Allocated, QTypes
<1> QED BY <1>1, <1>2 DEF Live, QTypes

\* The types of what the threads and the worker count with.
LEMMA QFacts ==
    ASSUME QInv
    PROVE  /\ tail \in [Threads -> Blocks \cup {Null}] /\ tid \in [Threads -> Nat]
           /\ slot \in [Threads -> (Blocks \cup {Null}) \X Int]
           /\ pc \in [Threads -> Pcs] /\ tgt \in [Threads -> Nat]
           /\ m_queue_tail_tid \in Nat /\ m_new_block_first_tid \in Nat
           /\ tot \in Nat /\ finished \in Nat /\ m_finished_task \in Nat
BY QParts DEF QTypes, CountInv, CountTypes

-----------------------------------------------------------------------------
(* What a step of one thread leaves alone.                                 *)

\* A step of thread t of which the other threads see at most a new id: what
\* is to be shown of the threads and of the slots is what concerns t.
LEMMA OneThread ==
    ASSUME QInv, NEW t \in Threads, NEW l \in Pcs, Goto(t, l), UNCHANGED <<lists, params, qh>>,
           m_queue_tail_tid' \in Nat, m_queue_tail_tid <= m_queue_tail_tid',
           tail' \in [Threads -> Blocks \cup {Null}], tid' \in [Threads -> Nat],
           slot' \in [Threads -> (Blocks \cup {Null}) \X Int],
           \A u \in Threads : u # t => tail'[u] = tail[u] /\ tid'[u] = tid[u] /\ slot'[u] = slot[u],
           ThreadOK(t)',
           l \in HasTid => \/ pc[t] \in HasTid /\ tid'[t] = tid[t]
                          \/ tid'[t] = m_queue_tail_tid
    PROVE  QTypes' /\ FreeInv' /\ ChainInv' /\ ThreadInv' /\ IdsInv' /\ SlotInv'
<1>1. /\ UNCHANGED <<first_tid, prev, next, freed, m_queue_head, m_queue_tail>>
      /\ UNCHANGED <<m_new_block_first_tid, m_block_quota, m_free_task_block, params, qh>>
  BY DEF lists
<1>2. Live' = Live /\ Allocated' = Allocated /\ FreeInv' /\ ChainInv' /\ Pos' = Pos
  BY <1>1, ListsSame, QParts DEF Pos
<1>3. QTypes'
  BY <1>1, QParts DEF QTypes
<1>4. \A u \in Threads : pc'[u] = IF u = t THEN l ELSE pc[u]
  BY QParts DEF Goto, CountInv, CountTypes
<1>5. m_queue_tail_tid \in Nat /\ tid \in [Threads -> Nat]
  BY QParts DEF CountInv, CountTypes, QTypes
<1>6. ThreadInv'
  <2> SUFFICES ASSUME NEW u \in Threads, u # t PROVE ThreadOK(u)'
    BY DEF ThreadInv
  <2>1. ThreadOK(u) /\ tid[u] \in Nat
    BY <1>5, QParts DEF ThreadInv
  <2>2. pc'[u] = pc[u] /\ tail'[u] = tail[u] /\ tid'[u] = tid[u] /\ slot'[u] = slot[u]
    BY <1>4
  <2>3. tid[u] < m_queue_tail_tid => tid[u] < m_queue_tail_tid'
    BY <1>5, <2>1, SMT
  <2> QED BY <1>1, <1>2, <2>1, <2>2, <2>3 DEF ThreadOK
<1>7. \A u \in Threads : pc[u] \in HasTid => tid[u] < m_queue_tail_tid
  BY QParts DEF ThreadInv, ThreadOK, HasTid, ClaimedPc, AddPc
<1>8. IdsInv'
  BY <1>4, <1>5, <1>7, QParts, SMT DEF IdsInv
<1>9. SlotInv'
  <2> SUFFICES ASSUME NEW b \in Blocks, NEW o \in Slots, params[b][o] # NoTask
               PROVE  /\ b \in Live /\ params[b][o] = first_tid[b] + o
                      /\ Pos <= params[b][o] /\ params[b][o] < m_queue_tail_tid'
                      /\ \A u \in Threads : pc'[u] \in HasTid => tid'[u] # params[b][o]
    BY <1>1, <1>2, SMT DEF SlotInv
  <2>1. /\ b \in Live /\ params[b][o] = first_tid[b] + o
        /\ Pos <= params[b][o] /\ params[b][o] < m_queue_tail_tid
        /\ \A u \in Threads : pc[u] \in HasTid => tid[u] # params[b][o]
    BY QParts DEF SlotInv
  <2>2. params[b][o] \in Nat
    BY QParts, SMT DEF QTypes
  <2> QED BY <1>4, <1>5, <2>1, <2>2, SMT
<1> QED BY <1>2, <1>3, <1>6, <1>8, <1>9

\* The lock: a thread that goes on outside allocate_task_block_unsafe().
LEMMA LockSame ==
    ASSUME QInv, NEW t \in Threads, NEW l, Goto(t, l), pc[t] \notin AllocPc, l \notin AllocPc,
           m_mutex' = m_mutex
    PROVE  LockInv'
<1>1. \A u \in Threads : pc'[u] = IF u = t THEN l ELSE pc[u]
  BY QParts DEF Goto, CountInv, CountTypes
<1> QED BY <1>1, QParts DEF LockInv, AllocPc

\* The worker: a step of another thread, or one that keeps the worker in
\* process_one_task().
LEMMA PlaceSame ==
    ASSUME QInv, NEW t \in Threads, NEW l, Goto(t, l),
           UNCHANGED <<m_queue_head, first_tid, qh, cur, finished>>, tot' \in Nat, tot <= tot',
           wpc' = wpc \/ (wpc = "none" /\ wpc' = "fetch"),
           t = Worker /\ l # "idle" => wpc = "process" /\ WorkerAdds
    PROVE  PlaceInv'
<1>1. \A u \in Threads : pc'[u] = IF u = t THEN l ELSE pc[u]
  BY QParts DEF Goto, CountInv, CountTypes
<1>2. Pos' = Pos
  BY DEF Pos
<1>3. pc'[Worker] # "idle" => wpc' = "process" /\ WorkerAdds
  BY <1>1, QParts DEF PlaceInv, Threads
<1>4. finished \in Nat /\ tot \in Nat
  BY QParts DEF CountInv, CountTypes
<1> QED BY <1>2, <1>3, <1>4, QParts, SMT DEF PlaceInv

\* Ids without a slot: a thread that keeps its id, or gives back one that has a
\* slot.
LEMMA BeyondSame ==
    ASSUME QInv, NEW t \in Threads, NEW l, Goto(t, l), UNCHANGED m_queue_tail_tid,
           m_new_block_first_tid' \in Nat, m_new_block_first_tid <= m_new_block_first_tid',
           \A u \in Threads : u # t => tid'[u] = tid[u],
           \/ pc[t] \notin ClaimedPc
           \/ l \in ClaimedPc /\ tid'[t] = tid[t]
           \/ tid[t] < m_new_block_first_tid
    PROVE  BeyondInv'
<1>1. \A u \in Threads : pc'[u] = IF u = t THEN l ELSE pc[u]
  BY QParts DEF Goto, CountInv, CountTypes
<1>2. m_queue_tail_tid \in Nat /\ tid \in [Threads -> Nat] /\ m_new_block_first_tid \in Nat
  BY QParts DEF CountInv, CountTypes, QTypes
<1> SUFFICES ASSUME NEW i \in 0 .. m_queue_tail_tid - 1, m_new_block_first_tid' <= i
             PROVE  \E u \in Claimed' : tid'[u] = i
  BY DEF BeyondInv
<1>3. m_new_block_first_tid <= i
  BY <1>2, SMT
<1>4. PICK u \in Claimed : tid[u] = i
  BY <1>3, QParts DEF BeyondInv
<1>5. u \in Threads /\ pc[u] \in ClaimedPc
  BY DEF Claimed
<1>6. u \in Claimed' /\ tid'[u] = i
  BY <1>1, <1>2, <1>3, <1>4, <1>5, SMT DEF Claimed
<1> QED BY <1>6

\* The number of ids: a thread that neither enters add_task() nor claims an id.
LEMMA BoundSame ==
    ASSUME QInv, NEW t \in Threads, NEW l, Goto(t, l), pc[t] # "a_claim", l # "a_claim",
           QuotaSuffices => l \notin {"a_sleeping", "a_woken"},
           UNCHANGED <<m_queue_tail_tid, m_new_block_first_tid, m_block_quota>>
    PROVE  BoundInv'
<1>1. \A u \in Threads : pc'[u] = IF u = t THEN l ELSE pc[u]
  BY QParts DEF Goto, CountInv, CountTypes
<1>2. InFlight' = InFlight
  BY <1>1 DEF InFlight
<1>3. Allocated' = Allocated
  BY DEF Allocated
<1> QED BY <1>1, <1>2, <1>3, QParts DEF BoundInv

-----------------------------------------------------------------------------
(* The steps of add_task() that leave the blocks alone.                    *)

\* The entry of add_task() reads the tail without the mutex.
LEMMA AddBeginStep ==
    ASSUME QInv, CountInv', NEW t \in Threads, AddBegin(t),
           m_queue_tail_tid' + Cardinality(InFlight') <= MaxTask
    PROVE  QInv'
<1> USE DEF ClaimedPc, HasTid, AllocPc, AddPc, WaitPc, Pcs
<1>1. /\ pc[t] = "idle" /\ Goto(t, "a_claim") /\ tail' = [tail EXCEPT ![t] = m_queue_tail]
      /\ t = Worker => WorkerAdds /\ wpc = "process"
      /\ m_queue_tail_tid + Cardinality(InFlight) < MaxTask
      /\ UNCHANGED <<m_queue_tail_tid, m_finished_task, m_mutex, tid, slot, tgt>>
      /\ UNCHANGED <<lists, params, wpc, qh, cur, tot, finished>>
  BY DEF AddBegin, blocks, queue, worker, sync, lists
<1>2. \A u \in Threads : pc'[u] = IF u = t THEN "a_claim" ELSE pc[u]
  BY <1>1, QFacts DEF Goto
<1>3. /\ tail' \in [Threads -> Blocks \cup {Null}] /\ tail'[t] = m_queue_tail
      /\ \A u \in Threads : u # t => tail'[u] = tail[u]
  BY <1>1, QFacts, QParts DEF QTypes
<1>4. ThreadOK(t)'
  <2>1. m_queue_tail <= Allocated
    BY LiveFacts, BlockFacts, QParts, SMT DEF ChainInv, Null
  <2>2. Allocated' = Allocated
    BY <1>1, ListsSame
  <2> QED BY <1>2, <1>3, <2>1, <2>2 DEF ThreadOK
<1>5. QTypes' /\ FreeInv' /\ ChainInv' /\ ThreadInv' /\ IdsInv' /\ SlotInv'
  BY <1>1, <1>3, <1>4, QFacts, OneThread, SMT
<1>6. LockInv'
  BY <1>1, LockSame
<1>7. PlaceInv'
  BY <1>1, QFacts, PlaceSame, SMT DEF lists
<1>8. BeyondInv'
  BY <1>1, QFacts, BeyondSame, SMT DEF lists
<1>9. WaitInv'
  BY <1>1, <1>2, QParts DEF WaitInv, Threads
<1>10. BoundInv'
  <2>1. Allocated' = Allocated /\ m_new_block_first_tid' = m_new_block_first_tid
    BY <1>1, ListsSame DEF lists
  <2>2. QuotaSuffices => \A u \in Threads : pc'[u] \notin {"a_sleeping", "a_woken"}
    BY <1>2, QParts DEF BoundInv
  <2> QED BY <2>1, <2>2, QParts DEF BoundInv
<1> QED BY <1>5, <1>6, <1>7, <1>8, <1>9, <1>10 DEF QInv

\* The claim of an id.
LEMMA ClaimTidStep ==
    ASSUME QInv, CountInv', Derived, NEW t \in Threads, ClaimTid(t),
           m_queue_tail_tid' + Cardinality(InFlight') <= MaxTask
    PROVE  QInv'
<1> USE DEF ClaimedPc, HasTid, AllocPc, AddPc, WaitPc, Pcs
<1>1. /\ pc[t] = "a_claim" /\ Goto(t, "a_fast") /\ tid' = [tid EXCEPT ![t] = m_queue_tail_tid]
      /\ m_queue_tail_tid' = m_queue_tail_tid + 1
      /\ UNCHANGED <<m_finished_task, m_mutex, tail, slot, tgt>>
      /\ UNCHANGED <<lists, params, wpc, qh, cur, tot, finished>>
  BY DEF ClaimTid, blocks, queue, worker, sync, lists
<1>2. \A u \in Threads : pc'[u] = IF u = t THEN "a_fast" ELSE pc[u]
  BY <1>1, QFacts DEF Goto
<1>3. /\ tid' \in [Threads -> Nat] /\ m_queue_tail_tid \in Nat /\ m_queue_tail_tid' \in Nat
      /\ m_queue_tail_tid <= m_queue_tail_tid' /\ tid'[t] = m_queue_tail_tid
      /\ \A u \in Threads : u # t => tid'[u] = tid[u]
  BY <1>1, QParts, SMT DEF QTypes, CountInv, CountTypes
<1>4. ThreadOK(t)'
  <2>1. Allocated' = Allocated /\ Pos' = Pos
    BY <1>1, ListsSame DEF Pos, lists
  <2>2. Pos <= m_queue_tail_tid
    <3>1. Pos <= tot /\ Pos \in Nat /\ tot \in Nat
      BY QParts, SMT DEF PlaceInv, CountInv, CountTypes
    <3> QED BY <1>3, <3>1, SMT DEF Derived
  <2> QED BY <1>1, <1>2, <1>3, <2>1, <2>2, QParts, SMT DEF ThreadOK, ThreadInv
<1>5. QTypes' /\ FreeInv' /\ ChainInv' /\ ThreadInv' /\ IdsInv' /\ SlotInv'
  BY <1>1, <1>3, <1>4, QFacts, OneThread
<1>6. LockInv'
  BY <1>1, LockSame
<1>7. PlaceInv'
  <2>1. t = Worker => wpc = "process" /\ WorkerAdds
    BY <1>1, QParts DEF PlaceInv
  <2> QED BY <1>1, <2>1, QFacts, PlaceSame, SMT DEF lists
<1>8. BeyondInv'
  <2> SUFFICES ASSUME NEW i \in 0 .. m_queue_tail_tid' - 1, m_new_block_first_tid <= i
               PROVE  \E u \in Claimed' : tid'[u] = i
    BY <1>1 DEF BeyondInv, lists
  <2>1. CASE i = m_queue_tail_tid
    BY <1>2, <1>3, <2>1 DEF Claimed
  <2>2. CASE i # m_queue_tail_tid
    <3>1. i \in 0 .. m_queue_tail_tid - 1
      BY <1>1, <1>3, <2>2, SMT
    <3>2. PICK u \in Claimed : tid[u] = i
      BY <3>1, QParts DEF BeyondInv
    <3>3. u \in Claimed' /\ tid'[u] = i
      BY <1>1, <1>2, <1>3, <3>2 DEF Claimed
    <3> QED BY <3>3
  <2> QED BY <2>1, <2>2
<1>9. WaitInv'
  BY <1>1, <1>2, QParts DEF WaitInv, Threads
<1>10. BoundInv'
  <2>1. Allocated' = Allocated /\ m_new_block_first_tid' = m_new_block_first_tid
    BY <1>1, ListsSame DEF lists
  <2>2. QuotaSuffices => \A u \in Threads : pc'[u] \notin {"a_sleeping", "a_woken"}
    BY <1>2, QParts DEF BoundInv
  <2> QED BY <2>1, <2>2, QParts DEF BoundInv
<1> QED BY <1>5, <1>6, <1>7, <1>8, <1>9, <1>10 DEF QInv

\* The block of an id that has a slot: the unlocked read of the tail may be out
\* of date, but the block it names is not used for an id outside it.
LEMMA FastPathStep == ASSUME QInv, CountInv', NEW t \in Threads, FastPath(t) PROVE QInv'
<1> USE DEF ClaimedPc, HasTid, AllocPc, AddPc, WaitPc, Pcs
<1>1. /\ pc[t] = "a_fast"
      /\ UNCHANGED <<m_queue_tail_tid, m_finished_task, m_mutex, tail, tid, tgt>>
      /\ UNCHANGED <<lists, params, wpc, qh, cur, tot, finished>>
  BY DEF FastPath, blocks, queue, worker, sync, lists
<1>2. /\ Live' = Live /\ Allocated' = Allocated /\ Pos' = Pos
      /\ UNCHANGED <<first_tid, m_new_block_first_tid, m_queue_tail>>
  BY <1>1, ListsSame DEF Pos, lists
<1>3. ThreadOK(t) /\ tid[t] \in Nat /\ tail[t] \in Blocks \cup {Null}
  BY QFacts, QParts DEF ThreadInv
<1>4. \E l \in {"a_init", "a_lock"} :
            /\ Goto(t, l) /\ ThreadOK(t)'
            /\ slot' \in [Threads -> (Blocks \cup {Null}) \X Int]
            /\ \A u \in Threads : u # t => slot'[u] = slot[u]
  <2>1. CASE tail[t] # Null /\ InBlock(tail[t], tid[t])
    <3> DEFINE b == tail[t]
    <3>1. /\ slot' = [slot EXCEPT ![t] = <<b, tid[t] - first_tid[b]>>] /\ Goto(t, "a_init")
          /\ b \in Blocks /\ first_tid[b] <= tid[t] /\ tid[t] < first_tid[b] + BlockSize
      BY <1>1, <1>3, <2>1 DEF FastPath, InBlock
    <3>2. first_tid[b] \in Nat
      BY <3>1, QParts DEF QTypes
    <3>3. b \in Live
      <4>1. b <= Allocated
        BY <1>3 DEF ThreadOK
      <4>2. b \notin Free
        <5> SUFFICES ASSUME b \in Free PROVE FALSE
          OBVIOUS
        <5>1. m_queue_head # Null /\ first_tid[b] + BlockSize <= first_tid[m_queue_head]
          BY QParts DEF FreeInv
        <5>2. first_tid[m_queue_head] \in Nat /\ qh \in Nat /\ Pos = first_tid[m_queue_head] + qh
          BY <5>1, BlockFacts, QParts, SMT DEF QTypes, Pos
        <5>3. Pos <= tid[t]
          BY <1>1, <1>3 DEF ThreadOK
        <5> QED BY <1>3, <3>1, <3>2, <5>1, <5>2, <5>3, BlockFacts, SMT
      <4> QED BY <3>1, <4>1, <4>2 DEF Live
    <3>4. first_tid[b] + BlockSize <= m_new_block_first_tid
      BY <3>3, QParts DEF ChainInv
    <3>5. tid[t] < m_new_block_first_tid /\ tid[t] - first_tid[b] \in Slots
      BY <1>3, <3>1, <3>2, <3>4, BlockFacts, QFacts, SMT
    <3>6. slot'[t] = <<b, tid[t] - first_tid[b]>> /\ pc'[t] = "a_init"
      BY <3>1, QFacts DEF Goto
    <3>7. first_tid[b] + (tid[t] - first_tid[b]) = tid[t]
      BY <1>3, <3>2, SMT
    <3>8. ThreadOK(t)'
      BY <1>1, <1>2, <1>3, <3>3, <3>5, <3>6, <3>7, SMT DEF ThreadOK
    <3>9. slot' \in [Threads -> (Blocks \cup {Null}) \X Int] /\ \A u \in Threads : u # t => slot'[u] = slot[u]
      BY <1>3, <3>1, <3>2, QFacts, SMT
    <3> QED BY <3>1, <3>8, <3>9
  <2>2. CASE ~(tail[t] # Null /\ InBlock(tail[t], tid[t]))
    <3>1. slot' = slot /\ Goto(t, "a_lock")
      BY <2>2 DEF FastPath
    <3>2. pc'[t] = "a_lock"
      BY <3>1, QFacts DEF Goto
    <3>3. ThreadOK(t)'
      BY <1>1, <1>2, <1>3, <3>2 DEF ThreadOK
    <3> QED BY <3>1, <3>3, QFacts
  <2> QED BY <2>1, <2>2
<1>5. PICK l \in {"a_init", "a_lock"} :
            /\ Goto(t, l) /\ ThreadOK(t)'
            /\ slot' \in [Threads -> (Blocks \cup {Null}) \X Int]
            /\ \A u \in Threads : u # t => slot'[u] = slot[u]
  BY <1>4
<1>6. \A u \in Threads : pc'[u] = IF u = t THEN l ELSE pc[u]
  BY <1>5, QFacts DEF Goto
<1>7. QTypes' /\ FreeInv' /\ ChainInv' /\ ThreadInv' /\ IdsInv' /\ SlotInv'
  BY <1>1, <1>5, QFacts, OneThread, SMT
<1>8. LockInv'
  BY <1>1, <1>5, LockSame
<1>9. PlaceInv'
  <2>1. t = Worker => wpc = "process" /\ WorkerAdds
    BY <1>1, QParts DEF PlaceInv
  <2> QED BY <1>1, <1>5, <2>1, QFacts, PlaceSame, SMT DEF lists
<1>10. BeyondInv'
  BY <1>1, <1>5, QFacts, BeyondSame, SMT DEF lists
<1>11. WaitInv'
  BY <1>1, <1>6, QParts DEF WaitInv, Threads
<1>12. BoundInv'
  BY <1>1, <1>5, BoundSame DEF lists
<1> QED BY <1>7, <1>8, <1>9, <1>10, <1>11, <1>12 DEF QInv

\* A thread that enters allocate_task_block_unsafe() is the only one in there.
LEMMA OneAllocator ==
    ASSUME QInv, Allowed, NEW t \in Threads, pc[t] = "a_lock", m_mutex = {}
    PROVE  \A u \in Threads : pc[u] \notin AllocPc
<1> USE DEF AllocPc
<1>1. \A u \in Threads : pc[u] # "a_alloc"
  BY QParts DEF LockInv
<1>2. CASE QuotaSuffices
  BY <1>1, <1>2, QParts DEF BoundInv
<1>3. CASE SingleAdder
  <2>1. pc[Worker] = "idle"
    BY <1>3, QParts DEF PlaceInv, SingleAdder
  <2>2. \A u \in Threads : u # t => pc[u] \notin AllocPc
    BY <1>3, <2>1 DEF SingleAdder, Threads
  <2> QED BY <2>2
<1> QED BY <1>2, <1>3 DEF Allowed

\* Under the lock an id behind the tail finds its block by walking back.
LEMMA WalkBack ==
    ASSUME QInv, Derived, NEW t \in Threads, pc[t] = "a_lock", m_queue_tail # Null,
           tid[t] < first_tid[m_queue_tail] + BlockSize, NEW b \in Backwards(m_queue_tail),
           first_tid[b] <= tid[t],
           \A c \in Backwards(m_queue_tail) : first_tid[c] <= tid[t] => first_tid[c] <= first_tid[b]
    PROVE  /\ b \in Live /\ tid[t] - first_tid[b] \in Slots /\ first_tid[b] \in Nat
           /\ first_tid[b] + (tid[t] - first_tid[b]) = tid[t]
           /\ tid[t] < m_new_block_first_tid
<1>1. Backwards(m_queue_tail) = Live
  BY DEF Derived, Backwards
<1>2. b \in Live /\ first_tid[b] \in Nat /\ tid[t] \in Nat
  BY <1>1, QFacts, LiveFacts, QParts
<1>3. m_new_block_first_tid # 0
  BY QParts DEF ChainInv
<1>4. tid[t] < m_new_block_first_tid
  BY <1>3, QParts DEF ChainInv
<1>5. tid[t] < first_tid[b] + BlockSize
  <2>1. CASE b = m_queue_tail
    BY <2>1
  <2>2. CASE b # m_queue_tail
    <3>1. next[b] \in Live /\ first_tid[next[b]] = first_tid[b] + BlockSize
      BY <1>2, <2>2, QParts DEF ChainInv
    <3>2. ~(first_tid[next[b]] <= first_tid[b])
      BY <1>2, <3>1, BlockFacts, SMT
    <3>3. ~(first_tid[next[b]] <= tid[t])
      BY <1>1, <3>1, <3>2
    <3> QED BY <1>2, <3>1, <3>3, BlockFacts, SMT
  <2> QED BY <2>1, <2>2
<1> QED BY <1>2, <1>4, <1>5, BlockFacts, SMT

\* Under the mutex, get_task_block() walks back from the tail or begins to
\* allocate.
LEMMA LockTailStep == ASSUME QInv, Derived, CountInv', Allowed, NEW t \in Threads, LockTail(t) PROVE QInv'
<1> USE DEF ClaimedPc, HasTid, AllocPc, AddPc, WaitPc, Pcs
<1>1. /\ pc[t] = "a_lock" /\ m_mutex = {} /\ tail' = [tail EXCEPT ![t] = m_queue_tail]
      /\ wpc' = wpc \/ (wpc = "none" /\ wpc' = "fetch")
      /\ UNCHANGED <<m_queue_tail_tid, m_finished_task, tid, tgt>>
      /\ UNCHANGED <<lists, params, qh, cur, tot, finished>>
  BY DEF LockTail, blocks, queue, sync, lists
<1>2. /\ Live' = Live /\ Allocated' = Allocated /\ Pos' = Pos
      /\ UNCHANGED <<first_tid, m_new_block_first_tid, m_queue_tail>>
  BY <1>1, ListsSame DEF Pos, lists
<1>3. ThreadOK(t) /\ tid[t] \in Nat /\ tail'[t] = m_queue_tail /\ m_queue_tail <= Allocated
  <2>1. m_queue_tail <= Allocated
    BY LiveFacts, BlockFacts, QParts, SMT DEF ChainInv, Null
  <2> QED BY <1>1, <2>1, QFacts, QParts DEF ThreadInv
<1>4. /\ tail' \in [Threads -> Blocks \cup {Null}] /\ \A u \in Threads : u # t => tail'[u] = tail[u]
  BY <1>1, QFacts, QParts DEF QTypes
<1>5. \A u \in Threads : pc[u] \notin AllocPc
  BY <1>1, OneAllocator
<1> DEFINE Fit(l) ==
            /\ Goto(t, l) /\ ThreadOK(t)' /\ m_mutex' = IF l = "a_alloc" THEN {t} ELSE {}
            /\ slot' \in [Threads -> (Blocks \cup {Null}) \X Int]
            /\ \A u \in Threads : u # t => slot'[u] = slot[u]
<1>6. \E l \in {"a_init", "a_alloc"} : Fit(l)
  <2>1. CASE m_queue_tail = Null \/ tid[t] >= first_tid[m_queue_tail] + BlockSize
    <3>1. slot' = slot /\ Goto(t, "a_alloc") /\ m_mutex' = {t}
      BY <2>1 DEF LockTail
    <3>2. pc'[t] = "a_alloc"
      BY <3>1, QFacts DEF Goto
    <3>3. m_new_block_first_tid <= tid[t]
      <4>1. CASE m_new_block_first_tid = 0
        BY <1>3, <4>1, SMT
      <4>2. CASE m_new_block_first_tid # 0
        <5>1. m_queue_tail \in Live /\ first_tid[m_queue_tail] + BlockSize = m_new_block_first_tid
          BY <4>2, QParts DEF ChainInv
        <5>2. m_queue_tail # Null
          BY <5>1, LiveFacts, BlockFacts, QParts
        <5> QED BY <2>1, <5>1, <5>2, <1>3, QFacts
      <4> QED BY <4>1, <4>2
    <3>4. ThreadOK(t)'
      BY <1>1, <1>2, <1>3, <3>2, <3>3 DEF ThreadOK
    <3>5. Fit("a_alloc")
      BY <3>1, <3>4, QFacts
    <3> QED BY <3>5
  <2>2. CASE ~(m_queue_tail = Null \/ tid[t] >= first_tid[m_queue_tail] + BlockSize)
    <3>1. PICK b \in Backwards(m_queue_tail) :
                /\ first_tid[b] <= tid[t]
                /\ \A c \in Backwards(m_queue_tail) :
                        first_tid[c] <= tid[t] => first_tid[c] <= first_tid[b]
                /\ slot' = [slot EXCEPT ![t] = <<b, tid[t] - first_tid[b]>>]
      BY <2>2 DEF LockTail
    <3>2. Goto(t, "a_init") /\ m_mutex' = {}
      BY <2>2 DEF LockTail
    <3>3. tid[t] < first_tid[m_queue_tail] + BlockSize
      <4>1. first_tid[m_queue_tail] \in Nat
        BY <2>2, QParts DEF QTypes
      <4> QED BY <1>3, <2>2, <4>1, BlockFacts, SMT
    <3>4. /\ b \in Live /\ tid[t] - first_tid[b] \in Slots /\ first_tid[b] \in Nat
          /\ first_tid[b] + (tid[t] - first_tid[b]) = tid[t]
          /\ tid[t] < m_new_block_first_tid
      BY <1>1, <2>2, <3>1, <3>3, WalkBack
    <3>5. slot'[t] = <<b, tid[t] - first_tid[b]>> /\ pc'[t] = "a_init"
      BY <3>1, <3>2, QFacts DEF Goto
    <3>6. ThreadOK(t)'
      BY <1>1, <1>2, <1>3, <3>4, <3>5, SMT DEF ThreadOK
    <3>7. b \in Blocks
      BY <3>4, LiveFacts, QParts
    <3>8. slot' \in [Threads -> (Blocks \cup {Null}) \X Int] /\ \A u \in Threads : u # t => slot'[u] = slot[u]
      BY <1>3, <3>1, <3>4, <3>7, QFacts, SMT
    <3>9. Fit("a_init")
      BY <3>2, <3>6, <3>8
    <3> QED BY <3>9
  <2> QED BY <2>1, <2>2
<1>7. PICK l \in {"a_init", "a_alloc"} : Fit(l)
  BY <1>6
<1>8. \A u \in Threads : pc'[u] = IF u = t THEN l ELSE pc[u]
  BY <1>7, QFacts DEF Goto
<1>9. QTypes' /\ FreeInv' /\ ChainInv' /\ ThreadInv' /\ IdsInv' /\ SlotInv'
  BY <1>1, <1>4, <1>7, QFacts, OneThread, SMT
<1>10. LockInv'
  BY <1>5, <1>7, <1>8 DEF LockInv
<1>11. PlaceInv'
  <2>1. t = Worker => wpc = "process" /\ WorkerAdds
    BY <1>1, QParts DEF PlaceInv
  <2> QED BY <1>1, <1>7, <2>1, QFacts, PlaceSame, SMT DEF lists
<1>12. BeyondInv'
  BY <1>1, <1>7, QFacts, BeyondSame, SMT DEF lists
<1>13. WaitInv'
  BY <1>1, <1>8, QParts DEF WaitInv, Threads
<1>14. BoundInv'
  BY <1>1, <1>7, BoundSame DEF lists
<1> QED BY <1>9, <1>10, <1>11, <1>12, <1>13, <1>14 DEF QInv

\* When the quota is enough for all tasks, a block is always there.
LEMMA NoWait ==
    ASSUME QInv, Derived, NEW t \in Threads, pc[t] = "a_alloc", ~BlockAvailable
    PROVE  ~QuotaSuffices
<1>1. m_block_quota = 0
  BY BlockFacts, QParts, SMT DEF BlockAvailable, QTypes
<1>2. BlockSize * Quota <= m_new_block_first_tid
  BY <1>1, BlockFacts, QParts, SMT DEF BoundInv, Allocated
<1>3. m_new_block_first_tid <= tid[t] /\ tid[t] < m_queue_tail_tid
  BY QParts DEF ThreadInv, ThreadOK, AllocPc, ClaimedPc, AddPc
<1>4. m_queue_tail_tid <= MaxTask
  BY DEF Derived
<1>5. BlockSize * Quota \in Nat
  BY BlockFacts, SMT
<1> QED BY <1>2, <1>3, <1>4, <1>5, QFacts, MaxTaskAssumption, SMT DEF QuotaSuffices

\* The wait for a block.
LEMMA AllocWaitStep ==
    ASSUME QInv, Derived, CountInv', NEW t \in Threads, AllocWait(t) \/ AllocWake(t)
    PROVE  QInv'
<1> USE DEF ClaimedPc, HasTid, AllocPc, AddPc, WaitPc, Pcs
<1>1. /\ UNCHANGED <<m_queue_tail_tid, m_finished_task, tail, tid, slot, tgt>>
      /\ UNCHANGED <<lists, params, wpc, qh, cur, tot, finished>>
  BY DEF AllocWait, AllocWake, blocks, queue, worker, sync, lists, locals
<1>2. \E l \in {"a_alloc", "a_sleeping"} :
            /\ Goto(t, l) /\ pc[t] \in {"a_alloc", "a_woken"}
            /\ m_mutex' = IF l = "a_alloc" THEN {t} ELSE {}
            /\ QuotaSuffices => l # "a_sleeping"
  BY NoWait DEF AllocWait, AllocWake
<1>3. PICK l \in {"a_alloc", "a_sleeping"} :
            /\ Goto(t, l) /\ pc[t] \in {"a_alloc", "a_woken"}
            /\ m_mutex' = IF l = "a_alloc" THEN {t} ELSE {}
            /\ QuotaSuffices => l # "a_sleeping"
  BY <1>2
<1>4. /\ Live' = Live /\ Allocated' = Allocated /\ Pos' = Pos
      /\ UNCHANGED <<first_tid, m_new_block_first_tid, m_queue_tail>>
  BY <1>1, ListsSame DEF Pos, lists
<1>5. \A u \in Threads : pc'[u] = IF u = t THEN l ELSE pc[u]
  BY <1>3, QFacts DEF Goto
<1>6. ThreadOK(t)'
  BY <1>1, <1>3, <1>4, <1>5, QParts DEF ThreadOK, ThreadInv
<1>7. QTypes' /\ FreeInv' /\ ChainInv' /\ ThreadInv' /\ IdsInv' /\ SlotInv'
  BY <1>1, <1>3, <1>6, QFacts, OneThread, SMT
<1>8. LockInv'
  BY <1>3, <1>5, QParts DEF LockInv
<1>9. PlaceInv'
  <2>1. t = Worker => wpc = "process" /\ WorkerAdds
    BY <1>3, QParts DEF PlaceInv
  <2> QED BY <1>1, <1>3, <2>1, QFacts, PlaceSame, SMT DEF lists
<1>10. BeyondInv'
  BY <1>1, <1>3, QFacts, BeyondSame, SMT DEF lists
<1>11. WaitInv'
  BY <1>1, <1>5, QParts DEF WaitInv, Threads
<1>12. BoundInv'
  BY <1>1, <1>3, BoundSame DEF lists
<1> QED BY <1>7, <1>8, <1>9, <1>10, <1>11, <1>12 DEF QInv

\* The publication: the task has a slot, so no id without one is given back.
LEMMA PublishStep == ASSUME QInv, CountInv', NEW t \in Threads, Publish(t) PROVE QInv'
<1> USE DEF ClaimedPc, HasTid, AllocPc, AddPc, WaitPc, Pcs
<1>1. /\ pc[t] = "a_publish" /\ Goto(t, "idle") /\ tot' = tot + 1
      /\ tail' = [tail EXCEPT ![t] = Null] /\ tid' = [tid EXCEPT ![t] = 0]
      /\ slot' = [slot EXCEPT ![t] = <<Null, 0>>]
      /\ UNCHANGED <<m_queue_tail_tid, m_finished_task, m_mutex, tgt>>
      /\ UNCHANGED <<lists, params, wpc, qh, cur, finished>>
  BY DEF Publish, Sync!Add, blocks, queue, worker, lists
<1>2. \A u \in Threads : pc'[u] = IF u = t THEN "idle" ELSE pc[u]
  BY <1>1, QFacts DEF Goto
<1>3. /\ tail' \in [Threads -> Blocks \cup {Null}] /\ tid' \in [Threads -> Nat]
      /\ slot' \in [Threads -> (Blocks \cup {Null}) \X Int]
      /\ tail'[t] = Null
      /\ \A u \in Threads : u # t => tail'[u] = tail[u] /\ tid'[u] = tid[u] /\ slot'[u] = slot[u]
  BY <1>1, QFacts, SMT
<1>4. ThreadOK(t)'
  <2>1. Allocated' = Allocated /\ Null <= Allocated
    BY <1>1, ListsSame, LiveFacts, QParts, SMT DEF Null
  <2> QED BY <1>2, <1>3, <2>1 DEF ThreadOK
<1>5. QTypes' /\ FreeInv' /\ ChainInv' /\ ThreadInv' /\ IdsInv' /\ SlotInv'
  BY <1>1, <1>3, <1>4, QFacts, OneThread, SMT
<1>6. LockInv'
  BY <1>1, LockSame
<1>7. PlaceInv'
  <2>1. tot' \in Nat /\ tot <= tot'
    BY <1>1, QFacts, SMT
  <2> QED BY <1>1, <2>1, PlaceSame DEF lists
<1>8. BeyondInv'
  <2>1. tid[t] < m_new_block_first_tid
    BY <1>1, QParts DEF ThreadInv, ThreadOK
  <2> QED BY <1>1, <1>3, <2>1, QFacts, BeyondSame, SMT DEF lists
<1>9. WaitInv'
  BY <1>1, <1>2, QParts DEF WaitInv, Threads
<1>10. BoundInv'
  BY <1>1, BoundSame DEF lists
<1> QED BY <1>5, <1>6, <1>7, <1>8, <1>9, <1>10 DEF QInv

\* The construction of the task in its slot.
LEMMA InitParamStep == ASSUME QInv, CountInv', NEW t \in Threads, InitParam(t) PROVE QInv'
<1> USE DEF ClaimedPc, HasTid, AllocPc, AddPc, WaitPc, Pcs
<1> DEFINE b == slot[t][1]
           o == slot[t][2]
<1>1. /\ pc[t] = "a_init" /\ Goto(t, "a_publish") /\ params' = [params EXCEPT ![b][o] = tid[t]]
      /\ UNCHANGED <<m_queue_tail_tid, m_finished_task, m_mutex, tail, tid, slot, tgt>>
      /\ UNCHANGED <<lists, wpc, qh, cur, tot, finished>>
  BY DEF InitParam, queue, worker, locals, sync, lists
<1>2. \A u \in Threads : pc'[u] = IF u = t THEN "a_publish" ELSE pc[u]
  BY <1>1, QFacts DEF Goto
<1>3. /\ UNCHANGED <<first_tid, prev, next, m_queue_head, m_queue_tail>>
      /\ UNCHANGED <<m_new_block_first_tid, m_block_quota, m_free_task_block>>
      /\ Live' = Live /\ Allocated' = Allocated /\ Pos' = Pos /\ FreeInv' /\ ChainInv'
  BY <1>1, ListsSame, QParts DEF Pos, lists
<1>4. /\ b \in Live /\ o \in Slots /\ first_tid[b] + o = tid[t] /\ tid[t] \in Nat
      /\ Pos <= tid[t] /\ tid[t] < m_queue_tail_tid /\ tid[t] < m_new_block_first_tid
  BY <1>1, QFacts, QParts DEF ThreadInv, ThreadOK
<1>5. b \in Blocks
  BY <1>4, LiveFacts, QParts
<1>6. /\ params' \in [Blocks -> [Slots -> Nat \cup {NoTask}]]
      /\ \A c \in Blocks, i \in Slots :
            params'[c][i] = IF c = b /\ i = o THEN tid[t] ELSE params[c][i]
  <2> HIDE DEF b, o
  <2>1. params \in [Blocks -> [Slots -> Nat \cup {NoTask}]]
    BY QParts DEF QTypes
  <2> QED BY <1>1, <1>4, <1>5, <2>1
<1>7. QTypes'
  BY <1>1, <1>3, <1>6, QParts DEF QTypes
<1>8. ThreadInv' /\ IdsInv'
  <2>1. \A u \in Threads : ThreadOK(u)'
    BY <1>1, <1>2, <1>3, <1>4, QParts DEF ThreadInv, ThreadOK
  <2>2. IdsInv'
    BY <1>1, <1>2, QParts DEF IdsInv
  <2> QED BY <2>1, <2>2 DEF ThreadInv
<1>9. SlotInv'
  <2> SUFFICES ASSUME NEW c \in Blocks, NEW i \in Slots, params'[c][i] # NoTask
               PROVE  /\ c \in Live /\ params'[c][i] = first_tid[c] + i
                      /\ Pos <= params'[c][i] /\ params'[c][i] < m_queue_tail_tid
                      /\ \A u \in Threads : pc'[u] \in HasTid => tid[u] # params'[c][i]
    BY <1>1, <1>3 DEF SlotInv
  <2>1. CASE c = b /\ i = o
    <3>1. \A u \in Threads : pc'[u] \in HasTid => tid[u] # tid[t]
      BY <1>1, <1>2, QParts DEF IdsInv
    <3> QED BY <1>4, <1>6, <2>1, <3>1
  <2>2. CASE ~(c = b /\ i = o)
    <3>1. params'[c][i] = params[c][i]
      BY <1>6, <2>2
    <3>2. \A u \in Threads : pc'[u] \in HasTid => pc[u] \in HasTid
      BY <1>1, <1>2
    <3> QED BY <3>1, <3>2, QParts DEF SlotInv
  <2> QED BY <2>1, <2>2
<1>10. LockInv'
  BY <1>1, LockSame
<1>11. PlaceInv'
  <2>1. t = Worker => wpc = "process" /\ WorkerAdds
    BY <1>1, QParts DEF PlaceInv
  <2> QED BY <1>1, <1>3, <2>1, QFacts, PlaceSame, SMT
<1>12. BeyondInv'
  BY <1>1, <1>3, QFacts, BeyondSame, SMT
<1>13. WaitInv'
  BY <1>1, <1>2, QParts DEF WaitInv, Threads
<1>14. BoundInv'
  BY <1>1, <1>3, BoundSame
<1> QED BY <1>3, <1>7, <1>8, <1>9, <1>10, <1>11, <1>12, <1>13, <1>14 DEF QInv

-----------------------------------------------------------------------------
(* The two waits.                                                          *)

\* The steps of the two waits.
LEMMA WaitSteps ==
    ASSUME QInv, CountInv', NEW p \in Producers, WaitAllBegin(p) \/ WaitEmptyBegin(p) \/ WaitStep(p)
    PROVE  QInv'
<1> USE DEF ClaimedPc, HasTid, AllocPc, AddPc, WaitPc, Pcs
<1>1. /\ UNCHANGED <<m_queue_tail_tid, m_finished_task, m_mutex, tail, tid, slot>>
      /\ UNCHANGED <<lists, params, wpc, qh, cur, tot, finished>>
  BY DEF WaitAllBegin, WaitEmptyBegin, WaitStep, SyncWaitEnter, SyncWaitReturn, WaitAllCheck,
     WaitAllReturn, WaitEmptyDone, WaitEmptyCheck, Sync!WaitBegin, Sync!WaitEnd, blocks, queue,
     worker, sync, lists, locals
<1>2. p \in Threads /\ p # Worker
  BY WorkerAssumption DEF Threads
<1>3. pc[p] \in {"idle"} \cup WaitPc /\ \E l \in {"idle"} \cup WaitPc : Goto(p, l)
  BY DEF WaitAllBegin, WaitEmptyBegin, WaitStep, SyncWaitEnter, SyncWaitReturn,
     WaitAllCheck, WaitAllReturn, WaitEmptyDone, WaitEmptyCheck
<1>4. PICK l \in {"idle"} \cup WaitPc : Goto(p, l)
  BY <1>3
<1>5. \A u \in Threads : pc'[u] = IF u = p THEN l ELSE pc[u]
  BY <1>4, QFacts DEF Goto
<1>6. ThreadOK(p)'
  <2>1. Allocated' = Allocated
    BY <1>1, ListsSame
  <2> QED BY <1>1, <1>2, <1>5, <2>1, QParts DEF ThreadOK, ThreadInv
<1>7. QTypes' /\ FreeInv' /\ ChainInv' /\ ThreadInv' /\ IdsInv' /\ SlotInv'
  BY <1>1, <1>2, <1>4, <1>6, QFacts, OneThread, SMT
<1>8. LockInv'
  BY <1>1, <1>2, <1>3, <1>4, LockSame
<1>9. PlaceInv'
  BY <1>1, <1>2, <1>4, QFacts, PlaceSame, SMT DEF lists
<1>10. BeyondInv'
  BY <1>1, <1>2, <1>3, <1>4, QFacts, BeyondSame, SMT DEF lists
<1>11. WaitInv'
  <2>1. \A q \in Producers : q # p => tgt'[q] = tgt[q]
    BY <1>2, QFacts DEF WaitAllBegin, WaitEmptyBegin, WaitStep, SyncWaitEnter, SyncWaitReturn,
       WaitAllCheck, WaitAllReturn, WaitEmptyDone, WaitEmptyCheck, locals, Threads
  <2>2. pc'[p] = "v_exc" => tgt'[p] <= m_finished_task
    <3>1. pc'[p] = "v_exc" => WaitAllCheck(p)
      BY <1>2, QFacts DEF WaitAllBegin, WaitEmptyBegin, WaitStep, SyncWaitEnter, SyncWaitReturn,
         WaitAllReturn, WaitEmptyDone, WaitEmptyCheck, Goto
    <3>2. ASSUME WaitAllCheck(p), pc'[p] = "v_exc" PROVE tgt[p] <= m_finished_task
      BY <1>2, <3>2, QFacts, SMT DEF WaitAllCheck, Goto
    <3>3. WaitAllCheck(p) => tgt' = tgt
      BY DEF WaitAllCheck, locals
    <3> QED BY <3>1, <3>2, <3>3
  <2> QED BY <1>1, <1>5, <2>1, <2>2, QParts DEF WaitInv, Threads
<1>12. BoundInv'
  BY <1>1, <1>2, <1>3, <1>4, BoundSame DEF lists
<1> QED BY <1>7, <1>8, <1>9, <1>10, <1>11, <1>12 DEF QInv

-----------------------------------------------------------------------------
(* The steps map to steps of TaskFifo.                                     *)

\* The slot that a thread is about to construct its task in is the slot of its
\* id, in a block in use, and empty.
LEMMA SlotIsOwn == ASSUME QInv, Derived PROVE SlotValid
<1> SUFFICES ASSUME NEW t \in Threads, pc[t] = "a_init"
             PROVE  /\ slot[t][1] \in Live /\ slot[t][2] \in Slots
                    /\ first_tid[slot[t][1]] + slot[t][2] = tid[t]
                    /\ params[slot[t][1]][slot[t][2]] = NoTask
  BY DEF SlotValid, Chain, Owned, Derived
<1>1. /\ slot[t][1] \in Live /\ slot[t][2] \in Slots
      /\ first_tid[slot[t][1]] + slot[t][2] = tid[t]
  BY QParts DEF ThreadInv, ThreadOK
<1>2. slot[t][1] \in Blocks
  BY <1>1, LiveFacts, QParts
<1>3. pc[t] \in HasTid
  BY DEF HasTid, AddPc
<1> QED BY <1>1, <1>2, <1>3, QParts DEF SlotInv

\* The worker has read the slots of the tasks counted as finished, and of the
\* task it is at.
LEMMA Behind == ASSUME QInv PROVE /\ Pos \in Nat /\ m_finished_task <= Pos
                                  /\ wpc \in {"process", "commit", "count"} => m_finished_task < Pos
                                  /\ wpc \notin {"process", "commit", "count"} => m_finished_task = Pos
BY QFacts, QParts, SMT DEF PlaceInv, CountInv

\* A step that TaskFifo does not see.
LEMMA Unseen ==
    ASSUME UNCHANGED <<m_queue_tail_tid, params, Running, m_finished_task, Waits>>
    PROVE  [Fifo!Next]_(Fifo!vars)
<1>1. Ready' = Ready
  BY SMT DEF Ready
<1> QED BY <1>1 DEF Fifo!vars

\* The waits are the same when a thread that is not in wait_all_task_finish()
\* goes on outside it, and when one that is inside goes on there.
LEMMA WaitsSame ==
    ASSUME pc \in [Threads -> Pcs], NEW t \in Threads, NEW l, Goto(t, l),
           pc[t] \in VPc <=> l \in VPc,
           \A u \in Threads : u # t \/ pc[u] \in VPc => tgt'[u] = tgt[u]
    PROVE  Waits' = Waits
<1>1. \A p \in Producers : /\ p \in Threads
                           /\ pc'[p] \in VPc <=> pc[p] \in VPc
                           /\ pc[p] \in VPc => tgt'[p] = tgt[p]
  BY DEF Goto, Threads
<1> DEFINE W(p) == IF pc[p] \in VPc THEN {tgt[p]} ELSE {}
           V(p) == IF pc'[p] \in VPc THEN {tgt'[p]} ELSE {}
<1>2. Waits = [p \in Producers |-> W(p)] /\ Waits' = [p \in Producers |-> V(p)]
  BY DEF Waits, VPc
<1>3. \A p \in Producers : V(p) = W(p)
  BY <1>1
<1> QED BY <1>2, <1>3

\* The steps of add_task(): claiming an id issues a task, constructing the
\* parameter makes it ready.
LEMMA AddFifo ==
    ASSUME QInv, Derived, NEW t \in Threads, AddBegin(t) \/ AddStep(t)
    PROVE  [Fifo!Next]_(Fifo!vars)
<1> USE DEF AddPc, VPc
<1>1. /\ pc[t] \notin VPc /\ \E l : l \notin VPc /\ Goto(t, l)
      /\ tgt' = tgt /\ m_finished_task' = m_finished_task
      /\ wpc' = wpc \/ (wpc = "none" /\ wpc' = "fetch")
  <2>1. pc[t] \notin VPc /\ \E l \in AddPc \cup {"idle"} : Goto(t, l)
    BY DEF AddBegin, AddStep, ClaimTid, FastPath, LockTail, AllocBlock, AllocWait, AllocWake,
       InitParam, Publish
  <2>2. /\ tgt' = tgt /\ m_finished_task' = m_finished_task
        /\ wpc' = wpc \/ (wpc = "none" /\ wpc' = "fetch")
    BY DEF AddBegin, AddStep, ClaimTid, FastPath, LockTail, AllocBlock, AllocWait, AllocWake,
       InitParam, Publish, locals, worker
  <2> QED BY <2>1, <2>2
<1>2. Waits' = Waits
  BY <1>1, QFacts, WaitsSame
<1>3. Running' = Running
  BY <1>1, SMT DEF Running
<1>4. CASE ClaimTid(t)
  <2>1. m_queue_tail_tid' = m_queue_tail_tid + 1 /\ params' = params
    BY <1>4 DEF ClaimTid, blocks
  <2>2. Ready' = Ready
    BY <2>1, SMT DEF Ready
  <2>3. Fifo!Issue
    BY <1>1, <1>2, <1>3, <2>1, <2>2 DEF Fifo!Issue
  <2> QED BY <2>3 DEF Fifo!Next
<1>5. CASE InitParam(t)
  <2> DEFINE b == slot[t][1]
             o == slot[t][2]
             i == tid[t]
  <2>1. /\ params' = [params EXCEPT ![b][o] = i] /\ pc[t] = "a_init"
        /\ m_queue_tail_tid' = m_queue_tail_tid
    BY <1>5 DEF InitParam
  <2>2. b \in Blocks /\ o \in Slots /\ params[b][o] = NoTask
    <3>1. b \in Live /\ o \in Slots /\ params[b][o] = NoTask
      BY <2>1, SlotIsOwn DEF SlotValid, Chain, Owned, Derived
    <3> QED BY <3>1, LiveFacts, QParts
  <2>3. pc[t] \in HasTid /\ pc[t] \in ClaimedPc
    BY <2>1 DEF HasTid, ClaimedPc
  <2>4. i \in Nat /\ i < m_queue_tail_tid /\ Pos <= i
    BY <2>3, QFacts, QParts DEF ThreadInv, ThreadOK
  <2>5. i \notin Ready
    BY <2>3, QParts, SMT DEF SlotInv, Ready
  <2>6. IF Running THEN i > m_finished_task ELSE i >= m_finished_task
    BY <2>4, Behind, QFacts, SMT DEF Running
  <2>7. Ready' = Ready \cup {i}
    <3>1. params \in [Blocks -> [Slots -> Nat \cup {NoTask}]]
      BY QParts DEF QTypes
    <3> HIDE DEF b, o, i
    <3>2. \A c \in Blocks, k \in Slots : params'[c][k] = IF c = b /\ k = o THEN i ELSE params[c][k]
      BY <2>1, <2>2, <3>1
    <3>3. i # NoTask
      BY <2>4, SMT DEF NoTask
    <3>4. Ready' \subseteq Ready \cup {i}
      BY <3>2, SMT DEF Ready
    <3>5. i \in Ready'
      BY <2>2, <3>2, <3>3, SMT DEF Ready
    <3>6. Ready \subseteq Ready'
      <4> SUFFICES ASSUME NEW x \in Ready PROVE x \in Ready'
        OBVIOUS
      <4>1. PICK c \in Blocks, k \in Slots : x = params[c][k] /\ x # NoTask
        BY SMT DEF Ready
      <4>2. x = params'[c][k]
        BY <2>2, <3>2, <4>1
      <4> QED BY <4>1, <4>2, SMT DEF Ready
    <3> QED BY <3>4, <3>5, <3>6
  <2> HIDE DEF i
  <2>8. Fifo!Construct(i)
    BY <1>1, <1>2, <1>3, <2>1, <2>4, <2>5, <2>6, <2>7 DEF Fifo!Construct
  <2>9. i \in 0 .. m_queue_tail_tid
    BY <2>4, QFacts, SMT
  <2> QED BY <2>8, <2>9 DEF Fifo!Next
<1>6. CASE ~ClaimTid(t) /\ ~InitParam(t)
  <2>1. UNCHANGED <<m_queue_tail_tid, params>>
    BY <1>6 DEF AddBegin, AddStep, FastPath, LockTail, AllocBlock, AllocWait, AllocWake,
       Publish, blocks
  <2> QED BY <1>1, <1>2, <1>3, <2>1, Unseen
<1> QED BY <1>4, <1>5, <1>6

\* The steps of the waits: wait_all_task_finish() begins and ends a wait.
LEMMA WaitFifo ==
    ASSUME QInv, NEW p \in Producers, WaitAllBegin(p) \/ WaitEmptyBegin(p) \/ WaitStep(p)
    PROVE  [Fifo!Next]_(Fifo!vars)
<1> USE DEF VPc
<1>1. /\ p \in Threads /\ pc \in [Threads -> Pcs] /\ tgt \in [Threads -> Nat]
      /\ Producers \subseteq Threads
  BY QFacts DEF Threads
<1>2. UNCHANGED <<m_queue_tail_tid, params, wpc, m_finished_task>>
  BY DEF WaitAllBegin, WaitEmptyBegin, WaitStep, SyncWaitEnter, SyncWaitReturn, WaitAllCheck,
     WaitAllReturn, WaitEmptyDone, WaitEmptyCheck, blocks, worker
<1>3. Ready' = Ready /\ Running' = Running
  BY <1>2, SMT DEF Ready, Running
<1>4. CASE WaitAllBegin(p)
  <2>1. pc[p] = "idle" /\ pc' = [pc EXCEPT ![p] = "v_wait"] /\ tgt' = [tgt EXCEPT ![p] = m_queue_tail_tid]
    BY <1>4 DEF WaitAllBegin, Goto
  <2>2. Waits[p] = {}
    BY <2>1 DEF Waits
  <2>3. Waits' = [Waits EXCEPT ![p] = {m_queue_tail_tid}]
    <3>1. \A q \in Producers : /\ pc'[q] = IF q = p THEN "v_wait" ELSE pc[q]
                               /\ tgt'[q] = IF q = p THEN m_queue_tail_tid ELSE tgt[q]
      BY <1>1, <2>1
    <3> QED BY <3>1 DEF Waits
  <2>4. Fifo!WaitBegin(p)
    BY <1>2, <1>3, <2>2, <2>3 DEF Fifo!WaitBegin
  <2> QED BY <2>4 DEF Fifo!Next
<1>5. CASE WaitAllReturn(p)
  <2>1. pc[p] = "v_exc" /\ pc' = [pc EXCEPT ![p] = "idle"] /\ tgt' = [tgt EXCEPT ![p] = 0]
    BY <1>5 DEF WaitAllReturn, Goto
  <2>2. Waits[p] = {tgt[p]}
    BY <2>1 DEF Waits
  <2>3. tgt[p] <= m_finished_task /\ tgt[p] \in Nat /\ m_finished_task \in Nat
    BY <1>1, <2>1, QFacts, QParts DEF WaitInv
  <2>4. Waits' = [Waits EXCEPT ![p] = {}]
    <3>1. \A q \in Producers : /\ pc'[q] = IF q = p THEN "idle" ELSE pc[q]
                               /\ tgt'[q] = IF q = p THEN 0 ELSE tgt[q]
      BY <1>1, <2>1
    <3> QED BY <3>1 DEF Waits
  <2>5. Waits[p] # {} /\ \A n \in Waits[p] : m_finished_task >= n
    BY <2>2, <2>3
  <2>6. Fifo!WaitEnd(p)
    BY <1>2, <1>3, <2>4, <2>5 DEF Fifo!WaitEnd
  <2> QED BY <2>6 DEF Fifo!Next
<1>6. CASE ~WaitAllBegin(p) /\ ~WaitAllReturn(p)
  <2>1. \E l : Goto(p, l) /\ (pc[p] \in VPc <=> l \in VPc)
    BY <1>6, SMT DEF WaitEmptyBegin, WaitStep, SyncWaitEnter, SyncWaitReturn, WaitAllCheck,
       WaitEmptyDone, WaitEmptyCheck
  <2>2. tgt' = tgt \/ (pc[p] \notin VPc /\ \E n : tgt' = [tgt EXCEPT ![p] = n])
    BY <1>6 DEF WaitEmptyBegin, WaitStep, SyncWaitEnter, SyncWaitReturn, WaitAllCheck,
       WaitEmptyDone, WaitEmptyCheck, locals
  <2>3. \A u \in Threads : u # p \/ pc[u] \in VPc => tgt'[u] = tgt[u]
    BY <1>1, <2>2
  <2>4. Waits' = Waits
    BY <1>1, <2>1, <2>3, WaitsSame
  <2> QED BY <1>2, <1>3, <2>4, Unseen
<1> QED BY <1>4, <1>5, <1>6
=============================================================================
