----------------------- MODULE AsyncQueueSCInvariant -----------------------
(***************************************************************************)
(* The inductive invariant of AsyncQueueSC: the counters (CountInv), the   *)
(* list of blocks and the free list (FreeInv, ChainInv), the worker's      *)
(* place in that list (PlaceInv), what a thread inside add_task() holds    *)
(* (LockInv, ThreadInv, IdsInv), what the slots hold (SlotInv) and the ids *)
(* that have no slot yet (BeyondInv).                                      *)
(***************************************************************************)
EXTENDS AsyncQueueSC

-----------------------------------------------------------------------------
(* The counters.                                                           *)

\* where add_task() has an id and has not yet published its task
ClaimedPc == AddPc \ {"a_claim"}
Claimed == {t \in Threads : pc[t] \in ClaimedPc}

Pcs == {"idle"} \cup AddPc \cup WaitPc

\* The types of the counters and of what wait_task_queue_empty() reads.
CountTypes ==
    /\ pc \in [Threads -> Pcs] /\ tgt \in [Threads -> Nat]
    /\ m_queue_tail_tid \in Nat /\ m_finished_task \in Nat
    /\ tot \in Nat /\ finished \in Nat /\ fetched \in BOOLEAN

\* Every id that was claimed is published once, or still in the hands of the one
\* thread that claimed it; the worker fetches no task that is not published and
\* counts each one after it has committed it.  The count that
\* wait_task_queue_empty() has read may be out of date but not too large.
CountInv ==
    /\ CountTypes
    /\ m_queue_tail_tid = tot + Cardinality(Claimed)
    /\ fetched => finished < tot
    /\ finished <= tot
    /\ finished = IF wpc = "count" THEN m_finished_task + 1 ELSE m_finished_task
    /\ \A p \in Producers : pc[p] = "e_tgt" => tgt[p] <= m_finished_task

-----------------------------------------------------------------------------
(* The blocks.                                                             *)

Quota == BlockQuota(MaxItems)

\* Blocks are numbered in the order in which they are made.
Allocated == Quota - m_block_quota

\* the recycled blocks, and the blocks in use
Free == {m_free_task_block[i] : i \in 1 .. Len(m_free_task_block)}
Live == {b \in Blocks : b <= Allocated /\ b \notin Free}

\* the id of the slot that the worker reads next
Pos == IF m_queue_head = Null THEN 0 ELSE first_tid[m_queue_head] + qh

\* where add_task() is inside allocate_task_block_unsafe()
AllocPc == {"a_alloc", "a_sleeping", "a_woken"}

\* The first block is made without the loop that makes the later ones, so the ids
\* of the threads that race for it must fit in it.
FewProducers == Cardinality(Producers) <= BlockSize

\* Nobody waits for a block ...
QuotaSuffices == MaxTask <= BlockSize * Quota

\* ... or only one thread adds tasks, so that no other thread finds the mutex
\* free while that thread waits for a block with the tail it has read.
SingleAdder == ~WorkerAdds /\ \A p, q \in Producers : p = q

Allowed == FewProducers /\ (QuotaSuffices \/ SingleAdder)

\* m_mutex is held in allocate_task_block_unsafe(), and one thread at most is
\* inside it, waiting or not.
LockInv ==
    /\ m_mutex = {t \in Threads : pc[t] = "a_alloc"}
    /\ \A t, u \in Threads : pc[t] \in AllocPc /\ pc[u] \in AllocPc => t = u

\* A recycled block is in the free list once, lies behind the head and owns no
\* block; no block is destroyed.
FreeInv ==
    /\ freed = {}
    /\ \A i, j \in 1 .. Len(m_free_task_block) :
            m_free_task_block[i] = m_free_task_block[j] => i = j
    /\ \A b \in Free :
            /\ b <= Allocated
            /\ m_queue_head # Null
            /\ first_tid[b] + BlockSize <= first_tid[m_queue_head]
    /\ \A b \in Blocks : b \notin Live => next[b] = Null

\* The blocks in use form one list from head to tail, linked both ways, each
\* with the ids that follow those of the block before it.
ChainInv ==
    /\ m_new_block_first_tid = 0 => m_queue_head = Null /\ m_queue_tail = Null /\ Live = {}
    /\ m_new_block_first_tid # 0 =>
            /\ m_queue_head \in Live /\ m_queue_tail \in Live
            /\ first_tid[m_queue_tail] + BlockSize = m_new_block_first_tid
            /\ next[m_queue_tail] = Null /\ prev[m_queue_head] = Null
    /\ \A b \in Live : /\ first_tid[m_queue_head] <= first_tid[b]
                       /\ first_tid[b] + BlockSize <= m_new_block_first_tid
    /\ \A b \in Live : b # m_queue_tail =>
            /\ next[b] \in Live /\ prev[next[b]] = b
            /\ first_tid[next[b]] = first_tid[b] + BlockSize
    /\ \A b \in Live : b # m_queue_head =>
            /\ prev[b] \in Live /\ next[prev[b]] = b
            /\ first_tid[b] = first_tid[prev[b]] + BlockSize

\* The worker has read the slots of the ids before the one it is at.
PlaceInv ==
    /\ m_queue_head = Null => qh = 0
    /\ Pos = IF wpc \in {"process", "commit"} THEN finished + 1 ELSE finished
    /\ wpc \in {"head", "param", "process", "commit"} => finished < tot
    /\ wpc = "head" => qh = BlockSize
    /\ wpc = "param" => qh < BlockSize
    /\ wpc = "process" => cur = finished
    /\ wpc # "process" => cur = NoTask
    /\ pc[Worker] # "idle" => wpc = "process" /\ WorkerAdds

\* A thread in add_task(): its id is not yet read by the worker; the tail it has
\* read names a block that was made, and is the tail while the thread makes
\* blocks; the slot it was given is the one of its id.
ThreadOK(t) ==
    /\ pc[t] \in ClaimedPc => tid[t] < m_queue_tail_tid
    /\ pc[t] \in HasTid => Pos <= tid[t]
    /\ tail[t] <= Allocated
    /\ pc[t] \in AllocPc => tail[t] = m_queue_tail /\ m_new_block_first_tid <= tid[t]
    /\ pc[t] \in {"a_init", "a_publish"} => tid[t] < m_new_block_first_tid
    /\ pc[t] = "a_init" =>
            /\ slot[t][1] \in Live /\ slot[t][2] \in Slots
            /\ first_tid[slot[t][1]] + slot[t][2] = tid[t]

ThreadInv == \A t \in Threads : ThreadOK(t)

\* Two threads that still need their ids have different ones.
IdsInv ==
    \A t, u \in Threads :
        pc[t] \in HasTid /\ pc[u] \in HasTid /\ tid[t] = tid[u] => t = u

\* A constructed parameter is in the slot of its id, the worker has not passed it,
\* and no thread is about to construct it again.
SlotInv ==
    \A b \in Blocks, o \in Slots : params[b][o] # NoTask =>
        /\ b \in Live /\ params[b][o] = first_tid[b] + o
        /\ Pos <= params[b][o] /\ params[b][o] < m_queue_tail_tid
        /\ \A t \in Threads : pc[t] \in HasTid => tid[t] # params[b][o]

\* An id beyond the last block is held by a thread that has not published it.
BeyondInv ==
    \A i \in 0 .. m_queue_tail_tid - 1 :
        m_new_block_first_tid <= i => \E t \in Claimed : tid[t] = i

\* wait_all_task_finish() rechecks for exceptions after its tasks are finished.
WaitInv == \A p \in Producers : pc[p] = "v_exc" => tgt[p] <= m_finished_task

\* The ids claimed, and those about to be, are within the bound of the model; a
\* new block is made when the ids of the blocks made before are used up.
BoundInv ==
    /\ m_queue_tail_tid + Cardinality(InFlight) <= MaxTask
    /\ BlockSize * Allocated <= m_new_block_first_tid
    /\ QuotaSuffices => \A t \in Threads : pc[t] \notin {"a_sleeping", "a_woken"}

QTypes ==
    /\ first_tid \in [Blocks -> Nat]
    /\ prev \in [Blocks -> Blocks \cup {Null}] /\ next \in [Blocks -> Blocks \cup {Null}]
    /\ params \in [Blocks -> [Slots -> Nat \cup {NoTask}]]
    /\ m_queue_head \in Blocks \cup {Null} /\ m_queue_tail \in Blocks \cup {Null}
    /\ m_new_block_first_tid \in Nat
    /\ m_block_quota \in 0 .. Quota /\ m_free_task_block \in Seq(Blocks)
    /\ tail \in [Threads -> Blocks \cup {Null}] /\ tid \in [Threads -> Nat]
    /\ slot \in [Threads -> (Blocks \cup {Null}) \X Int] /\ qh \in 0 .. BlockSize

QInv == /\ QTypes /\ CountInv /\ LockInv /\ FreeInv /\ ChainInv /\ PlaceInv /\ ThreadInv
        /\ IdsInv /\ SlotInv /\ BeyondInv /\ WaitInv /\ BoundInv

\* What follows from QInv by counting and by well-founded induction: the tasks
\* published have slots, the first block is made for an id that fits in it, the
\* blocks reached from either end of the list are the ones in use.
Derived ==
    /\ tot <= m_new_block_first_tid /\ tot <= m_queue_tail_tid /\ m_queue_tail_tid <= MaxTask
    /\ FewProducers /\ m_new_block_first_tid = 0 =>
            \A t \in Threads : pc[t] \in ClaimedPc => tid[t] < BlockSize
    /\ Reach(m_queue_head, next) = Live /\ Reach(m_queue_tail, prev) = Live

\* the lists of blocks
lists == <<first_tid, prev, next, freed, m_queue_head, m_queue_tail,
           m_new_block_first_tid, m_block_quota, m_free_task_block>>

\* where wait_all_task_finish() is between its entry and its return
VPc == {"v_wait", "v_waiting", "v_check", "v_exc"}
=============================================================================
