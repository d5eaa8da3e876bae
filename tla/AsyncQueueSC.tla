---------------------------- MODULE AsyncQueueSC ----------------------------
(***************************************************************************)
(* The "multi producer, single consumer asynchronous queue": tasks live in *)
(* a chain of blocks of BlockSize slots.  A producer claims a task id,     *)
(* finds or allocates the block of that id, constructs the task in its     *)
(* slot and publishes it; the worker walks the slots in id order and       *)
(* recycles each block it has consumed.                                    *)
(*                                                                         *)
(* The queue is composed with the synchronizer it contains, taken here by  *)
(* its interface TaskSync, which SCQueueSynchronizer implements.           *)
(***************************************************************************)
EXTENDS Integers, Sequences, FiniteSets

CONSTANTS
    Producers,      \* threads that add tasks and wait
    Worker,         \* the worker thread
    WorkerAdds,     \* whether process_one_task() calls add_task()
    BlockSize,      \* BLOCK_SIZE
    MaxItems,       \* max_items given to the constructor or update_max_items()
    SizeBits,       \* width of size_t
    MaxTask         \* bound on the number of task ids claimed

ASSUME BlockSizeAssumption == BlockSize \in Nat \ {0}
ASSUME ProducersAssumption == IsFiniteSet(Producers)
ASSUME WorkerAssumption == Worker \notin Producers
ASSUME MaxTaskAssumption == MaxTask \in Nat

Threads == Producers \cup {Worker}
Null == 0

\* (max_items - 1) / BLOCK_SIZE + 1, evaluated in size_t because BLOCK_SIZE is
\* one
BlockQuota(max_items) == ((max_items - 1) % (2 ^ SizeBits)) \div BlockSize + 1

\* m_block_quota is a size_t
ASSUME QuotaAssumption == BlockQuota(MaxItems) \in Nat

\* blocks are numbered in the order make_unique creates them
Blocks == 1 .. BlockQuota(MaxItems)
Slots == 0 .. BlockSize - 1
NoTask == -1

VARIABLES
    first_tid, prev, next,  \* fields of each TaskBlock
    params,                 \* params[b][o]: task id constructed there, or NoTask
    m_queue_head, m_queue_tail,
    m_new_block_first_tid,
    m_queue_tail_tid,       \* id of the next task
    m_finished_task,
    m_block_quota,
    m_free_task_block,      \* stack of recycled blocks
    freed,                  \* blocks whose memory a unique_ptr has released
    m_mutex,                \* set of the threads holding the spinlock
    m_worker_exc,           \* {} or {id of the task that threw}
    pc, tail, tid, slot,    \* locals of add_task() in each thread
    tgt,                    \* local of the two waits
    wpc, qh, cur,           \* the worker: counter, index in the head block, task
    tot, finished, fetched, waiting, exited     \* the synchronizer

blocks == <<first_tid, prev, next, params, freed>>
queue  == <<m_queue_head, m_queue_tail, m_new_block_first_tid, m_block_quota,
            m_free_task_block>>
locals == <<tail, tid, slot, tgt>>
worker == <<wpc, qh, cur>>
sync   == <<tot, finished, fetched, waiting, exited>>
vars == <<blocks, queue, m_queue_tail_tid, m_finished_task, m_mutex,
          m_worker_exc, pc, locals, worker, sync>>

Sync == INSTANCE TaskSync WITH Producers <- Threads

Init ==
    /\ first_tid = [b \in Blocks |-> 0]
    /\ prev = [b \in Blocks |-> Null]
    /\ next = [b \in Blocks |-> Null]
    /\ params = [b \in Blocks |-> [o \in Slots |-> NoTask]]
    /\ freed = {}
    /\ m_queue_head = Null
    /\ m_queue_tail = Null
    /\ m_new_block_first_tid = 0
    /\ m_queue_tail_tid = 0
    /\ m_finished_task = 0
    /\ m_block_quota = BlockQuota(MaxItems)
    /\ m_free_task_block = <<>>
    /\ m_mutex = {}
    /\ m_worker_exc = {}
    /\ pc = [t \in Threads |-> "idle"]
    /\ tail = [t \in Threads |-> Null]
    /\ tid = [t \in Threads |-> 0]
    /\ slot = [t \in Threads |-> <<Null, 0>>]
    /\ tgt = [t \in Threads |-> 0]
    /\ wpc = "none"
    /\ qh = 0
    /\ cur = NoTask
    /\ Sync!Init

Goto(t, l) == pc' = [pc EXCEPT ![t] = l]

-----------------------------------------------------------------------------
(* add_task() and allocate_task()                                          *)

InFlight == {t \in Threads : pc[t] = "a_claim"}

\* A thread may add a task when it is outside the queue; the worker does so
\* only from inside process_one_task().  The tail is read without the lock.
AddBegin(t) ==
    /\ pc[t] = "idle"
    /\ ~exited
    /\ t = Worker => WorkerAdds /\ wpc = "process"
    /\ m_queue_tail_tid + Cardinality(InFlight) < MaxTask
    /\ tail' = [tail EXCEPT ![t] = m_queue_tail]
    /\ Goto(t, "a_claim")
    /\ UNCHANGED <<blocks, queue, m_queue_tail_tid, m_finished_task, m_mutex,
                   m_worker_exc, tid, slot, tgt, worker, sync>>

ClaimTid(t) ==
    /\ pc[t] = "a_claim"
    /\ tid' = [tid EXCEPT ![t] = m_queue_tail_tid]
    /\ m_queue_tail_tid' = m_queue_tail_tid + 1
    /\ Goto(t, "a_fast")
    /\ UNCHANGED <<blocks, queue, m_finished_task, m_mutex, m_worker_exc, tail,
                   slot, tgt, worker, sync>>

\* Mutant: the end of a block is taken to be inside it.
InBlock_Closed(b, i) == first_tid[b] <= i /\ i <= first_tid[b] + BlockSize

InBlock(b, i) == first_tid[b] <= i /\ i < first_tid[b] + BlockSize

FastPath(t) ==
    /\ pc[t] = "a_fast"
    /\ IF tail[t] # Null /\ InBlock(tail[t], tid[t])
       THEN /\ slot' = [slot EXCEPT ![t] = <<tail[t], tid[t] - first_tid[tail[t]]>>]
            /\ Goto(t, "a_init")
       ELSE Goto(t, "a_lock") /\ UNCHANGED slot
    /\ UNCHANGED <<blocks, queue, m_queue_tail_tid, m_finished_task, m_mutex,
                   m_worker_exc, tail, tid, tgt, worker, sync>>

\* The blocks reached from b along link: the least set that has b and is closed
\* under link.
Reach(b, link) ==
    {c \in Blocks : \A S \in SUBSET Blocks :
        (b # Null => b \in S) /\ (\A d \in S : link[d] # Null => link[d] \in S) => c \in S}

\* the chain of blocks from b backwards, by the prev pointers
Backwards(b) == Reach(b, prev)

\* Under the lock: reload the tail, start the worker on the first call, then
\* either allocate (holding the lock) or walk back to the block of the id.
LockTail(t) ==
    /\ pc[t] = "a_lock"
    /\ m_mutex = {}
    /\ tail' = [tail EXCEPT ![t] = m_queue_tail]
    /\ wpc' = IF wpc = "none" THEN "fetch" ELSE wpc
    /\ IF m_queue_tail = Null \/ tid[t] >= first_tid[m_queue_tail] + BlockSize
       THEN /\ m_mutex' = {t}
            /\ Goto(t, "a_alloc")
            /\ UNCHANGED slot
       ELSE /\ \E b \in Backwards(m_queue_tail) :
                /\ first_tid[b] <= tid[t]
                /\ \A c \in Backwards(m_queue_tail) :
                        first_tid[c] <= tid[t] => first_tid[c] <= first_tid[b]
                /\ slot' = [slot EXCEPT ![t] = <<b, tid[t] - first_tid[b]>>]
            /\ m_mutex' = {}
            /\ Goto(t, "a_init")
    /\ UNCHANGED <<blocks, queue, m_queue_tail_tid, m_finished_task,
                   m_worker_exc, tid, tgt, qh, cur, sync>>

\* allocate_task_block_unsafe(): the block it returns
BlockAvailable == m_free_task_block # <<>> \/ m_block_quota > 0
NewBlock ==
    IF m_free_task_block # <<>>
    THEN m_free_task_block[Len(m_free_task_block)]
    ELSE BlockQuota(MaxItems) + 1 - m_block_quota

\* Mutant: a block taken from the free list stays in it.
TakeBlock_KeepFree ==
    /\ m_block_quota' = IF m_free_task_block # <<>> THEN m_block_quota ELSE m_block_quota - 1
    /\ UNCHANGED m_free_task_block

TakeBlock ==
    IF m_free_task_block # <<>>
    THEN /\ m_free_task_block' = SubSeq(m_free_task_block, 1, Len(m_free_task_block) - 1)
         /\ UNCHANGED m_block_quota
    ELSE /\ m_block_quota' = m_block_quota - 1
         /\ UNCHANGED m_free_task_block

\* the blocks that the destruction of b releases: b and those it owns
Owned(b) == Reach(b, next)

\* One turn of the allocation loop.  tail[t] is the block that was the tail
\* when the lock was last taken at LockTail, also after a wait for a block.
AllocBlock(t) ==
    LET b == NewBlock
        first == m_new_block_first_tid
        last == tail[t] = Null \/ tid[t] < first + BlockSize
    IN
    /\ pc[t] = "a_alloc"
    /\ BlockAvailable
    /\ TakeBlock
    /\ first_tid' = [first_tid EXCEPT ![b] = first]
    /\ m_new_block_first_tid' = first + BlockSize
    /\ prev' = [prev EXCEPT ![b] = tail[t]]
    /\ IF tail[t] = Null
       THEN /\ m_queue_head' = b
            /\ freed' = freed \cup Owned(m_queue_head)
            /\ UNCHANGED next
       ELSE /\ next' = [next EXCEPT ![tail[t]] = b]
            /\ freed' = freed \cup Owned(next[tail[t]])
            /\ UNCHANGED m_queue_head
    /\ m_queue_tail' = b
    /\ tail' = [tail EXCEPT ![t] = b]
    /\ m_mutex' = IF last THEN {} ELSE m_mutex
    /\ slot' = IF last THEN [slot EXCEPT ![t] = <<b, tid[t] - first>>] ELSE slot
    /\ Goto(t, IF last THEN "a_init" ELSE "a_alloc")
    /\ UNCHANGED <<params, m_queue_tail_tid, m_finished_task, m_worker_exc, tid,
                   tgt, worker, sync>>

\* m_cv.wait(m_mutex): no free block and no quota left
AllocWait(t) ==
    /\ pc[t] = "a_alloc"
    /\ ~BlockAvailable
    /\ m_mutex' = {}
    /\ Goto(t, "a_sleeping")
    /\ UNCHANGED <<blocks, queue, m_queue_tail_tid, m_finished_task,
                   m_worker_exc, locals, worker, sync>>

AllocWake(t) ==
    /\ pc[t] = "a_woken"
    /\ m_mutex = {}
    /\ m_mutex' = {t}
    /\ Goto(t, "a_alloc")
    /\ UNCHANGED <<blocks, queue, m_queue_tail_tid, m_finished_task,
                   m_worker_exc, locals, worker, sync>>

\* construct the task in its slot and set init_done
InitParam(t) ==
    /\ pc[t] = "a_init"
    /\ params' = [params EXCEPT ![slot[t][1]][slot[t][2]] = tid[t]]
    /\ Goto(t, "a_publish")
    /\ UNCHANGED <<first_tid, prev, next, freed, queue, m_queue_tail_tid,
                   m_finished_task, m_mutex, m_worker_exc, locals, worker, sync>>

\* m_synchronizer.producer_add(); the locals go out of scope
Publish(t) ==
    /\ pc[t] = "a_publish"
    /\ Sync!Add(t)
    /\ Goto(t, "idle")
    /\ tail' = [tail EXCEPT ![t] = Null]
    /\ tid' = [tid EXCEPT ![t] = 0]
    /\ slot' = [slot EXCEPT ![t] = <<Null, 0>>]
    /\ UNCHANGED <<blocks, queue, m_queue_tail_tid, m_finished_task, m_mutex,
                   m_worker_exc, tgt, worker>>

-----------------------------------------------------------------------------
(* wait_all_task_finish()                                                  *)

WaitAllBegin(p) ==
    /\ pc[p] = "idle" /\ ~exited
    /\ tgt' = [tgt EXCEPT ![p] = m_queue_tail_tid]
    /\ Goto(p, "v_wait")
    /\ UNCHANGED <<blocks, queue, m_queue_tail_tid, m_finished_task, m_mutex,
                   m_worker_exc, tail, tid, slot, worker, sync>>

\* m_synchronizer.producer_wait(), from each place that calls it
SyncWaitEnter(p) ==
    /\ pc[p] \in {"v_wait", "e_wait", "e_again"}
    /\ Sync!WaitBegin(p)
    /\ Goto(p, CASE pc[p] = "v_wait" -> "v_waiting"
                 [] pc[p] = "e_wait" -> "e_waiting"
                 [] pc[p] = "e_again" -> "e_last")
    /\ UNCHANGED <<blocks, queue, m_queue_tail_tid, m_finished_task, m_mutex,
                   m_worker_exc, locals, worker>>

SyncWaitReturn(p) ==
    /\ pc[p] \in {"v_waiting", "e_waiting", "e_last"}
    /\ Sync!WaitEnd(p)
    /\ Goto(p, CASE pc[p] = "v_waiting" -> "v_check"
                 [] pc[p] = "e_waiting" -> "e_done"
                 [] pc[p] = "e_last" -> "idle")
    /\ tgt' = IF pc[p] = "e_last" THEN [tgt EXCEPT ![p] = 0] ELSE tgt
    /\ UNCHANGED <<blocks, queue, m_queue_tail_tid, m_finished_task, m_mutex,
                   m_worker_exc, tail, tid, slot, worker>>

\* Mutant: one producer_wait() is taken to be enough.
WaitAllCheck_NoLoop(p) ==
    /\ pc[p] = "v_check"
    /\ Goto(p, "v_exc")
    /\ UNCHANGED <<blocks, queue, m_queue_tail_tid, m_finished_task, m_mutex,
                   m_worker_exc, locals, worker, sync>>

WaitAllCheck(p) ==
    /\ pc[p] = "v_check"
    /\ Goto(p, IF m_finished_task < tgt[p] THEN "v_wait" ELSE "v_exc")
    /\ UNCHANGED <<blocks, queue, m_queue_tail_tid, m_finished_task, m_mutex,
                   m_worker_exc, locals, worker, sync>>

\* check_exception(): rethrow the worker's exception to this caller, once
WaitAllReturn(p) ==
    /\ pc[p] = "v_exc"
    /\ m_worker_exc' = {}
    /\ tgt' = [tgt EXCEPT ![p] = 0]
    /\ Goto(p, "idle")
    /\ UNCHANGED <<blocks, queue, m_queue_tail_tid, m_finished_task, m_mutex,
                   tail, tid, slot, worker, sync>>

-----------------------------------------------------------------------------
(* wait_task_queue_empty()                                                 *)

WaitEmptyBegin(p) ==
    /\ pc[p] = "idle" /\ ~exited
    /\ Goto(p, "e_wait")
    /\ UNCHANGED <<blocks, queue, m_queue_tail_tid, m_finished_task, m_mutex,
                   m_worker_exc, locals, worker, sync>>

\* done = m_finished_task, kept in tgt[p]
WaitEmptyDone(p) ==
    /\ pc[p] = "e_done"
    /\ tgt' = [tgt EXCEPT ![p] = m_finished_task]
    /\ Goto(p, "e_tgt")
    /\ UNCHANGED <<blocks, queue, m_queue_tail_tid, m_finished_task, m_mutex,
                   m_worker_exc, tail, tid, slot, worker, sync>>

\* Mutant: the published tasks are counted, not the claimed ones.
WaitEmptyCheck_Published(p) ==
    /\ pc[p] = "e_tgt"
    /\ Goto(p, IF tot # tgt[p] THEN "e_wait" ELSE "e_again")
    /\ UNCHANGED <<blocks, queue, m_queue_tail_tid, m_finished_task, m_mutex,
                   m_worker_exc, locals, worker, sync>>

WaitEmptyCheck(p) ==
    /\ pc[p] = "e_tgt"
    /\ Goto(p, IF m_queue_tail_tid # tgt[p] THEN "e_wait" ELSE "e_again")
    /\ UNCHANGED <<blocks, queue, m_queue_tail_tid, m_finished_task, m_mutex,
                   m_worker_exc, locals, worker, sync>>

-----------------------------------------------------------------------------
(* worker_thread_impl() and worker_thread_impl_no_exc()                    *)

WGoto(l) == wpc' = l

WorkerFetch ==
    /\ wpc = "fetch"
    /\ Sync!Fetch
    /\ WGoto(IF qh = BlockSize THEN "head" ELSE "param")
    /\ UNCHANGED <<blocks, queue, m_queue_tail_tid, m_finished_task, m_mutex,
                   m_worker_exc, pc, locals, qh, cur>>

\* The effect of recycling the head block, but for qh and the notification.
RecycleHead ==
    LET h == next[m_queue_head] IN
    /\ wpc = "head"
    /\ m_mutex = {}
    /\ m_free_task_block' = Append(m_free_task_block, m_queue_head)
    /\ m_queue_head' = h
    /\ next' = [next EXCEPT ![m_queue_head] = Null]
    /\ IF h # Null
       THEN prev' = [prev EXCEPT ![h] = Null] /\ UNCHANGED m_queue_tail
       ELSE m_queue_tail' = Null /\ UNCHANGED prev
    /\ WGoto("param")
    /\ UNCHANGED <<first_tid, params, freed, m_new_block_first_tid,
                   m_block_quota, m_queue_tail_tid, m_finished_task, m_mutex,
                   m_worker_exc, locals, cur, sync>>

\* m_cv.notify_one()
NotifyOne ==
    LET sleepers == {t \in Threads : pc[t] = "a_sleeping"} IN
    IF sleepers = {} THEN UNCHANGED pc ELSE \E t \in sleepers : Goto(t, "a_woken")

\* Mutant: nobody is told that a block is free.
WorkerNextHead_NoNotify == RecycleHead /\ UNCHANGED pc /\ qh' = 0

\* Recycle the head block and notify one of the threads waiting for a block.
WorkerNextHead == RecycleHead /\ NotifyOne /\ qh' = 0

\* spin until init_done, then take the task out of its slot
WorkerTake ==
    /\ wpc = "param"
    /\ m_queue_head # Null
    /\ params[m_queue_head][qh] # NoTask
    /\ cur' = params[m_queue_head][qh]
    /\ params' = [params EXCEPT ![m_queue_head][qh] = NoTask]
    /\ qh' = qh + 1
    /\ WGoto("process")
    /\ UNCHANGED <<first_tid, prev, next, freed, queue, m_queue_tail_tid,
                   m_finished_task, m_mutex, m_worker_exc, pc, locals, sync>>

\* process_one_task() returns, or throws and leaves the exception behind
WorkerProcess ==
    /\ wpc = "process"
    /\ pc[Worker] = "idle"
    /\ m_worker_exc' \in {m_worker_exc, {cur}}
    /\ cur' = NoTask
    /\ WGoto("commit")
    /\ UNCHANGED <<blocks, queue, m_queue_tail_tid, m_finished_task, m_mutex,
                   pc, locals, qh, sync>>

WorkerCommit ==
    /\ wpc = "commit"
    /\ Sync!Commit
    /\ WGoto("count")
    /\ UNCHANGED <<blocks, queue, m_queue_tail_tid, m_finished_task, m_mutex,
                   m_worker_exc, pc, locals, qh, cur>>

\* Mutant: the head block is recycled as soon as it is used up, not when the
\* next task is fetched.
WorkerCount_Eager ==
    /\ wpc = "count"
    /\ m_finished_task' = m_finished_task + 1
    /\ WGoto(IF qh = BlockSize THEN "head" ELSE "fetch")
    /\ UNCHANGED <<blocks, queue, m_queue_tail_tid, m_mutex, m_worker_exc, pc,
                   locals, qh, cur, sync>>

WorkerCount ==
    /\ wpc = "count"
    /\ m_finished_task' = m_finished_task + 1
    /\ WGoto("fetch")
    /\ UNCHANGED <<blocks, queue, m_queue_tail_tid, m_mutex, m_worker_exc, pc,
                   locals, qh, cur, sync>>

\* The owner waits for the tasks and destroys the queue: the worker leaves its
\* loop.
WorkerExit ==
    /\ wpc \in {"none", "fetch"}
    /\ \A t \in Threads : pc[t] = "idle"
    /\ finished = tot
    /\ Sync!Exit
    /\ WGoto("exit")
    /\ UNCHANGED <<blocks, queue, m_queue_tail_tid, m_finished_task, m_mutex,
                   m_worker_exc, pc, locals, qh, cur>>

-----------------------------------------------------------------------------
(* The specification                                                       *)

SpuriousWakeup ==
    /\ \E t \in Threads : pc[t] = "a_sleeping" /\ Goto(t, "a_woken")
    /\ UNCHANGED <<blocks, queue, m_queue_tail_tid, m_finished_task, m_mutex,
                   m_worker_exc, locals, worker, sync>>

Terminated == exited /\ UNCHANGED vars

AddStep(t) ==
    \/ ClaimTid(t) \/ FastPath(t) \/ LockTail(t) \/ AllocBlock(t) \/ AllocWait(t)
    \/ AllocWake(t) \/ InitParam(t) \/ Publish(t)
WaitStep(p) ==
    \/ SyncWaitEnter(p) \/ SyncWaitReturn(p) \/ WaitAllCheck(p) \/ WaitAllReturn(p)
    \/ WaitEmptyDone(p) \/ WaitEmptyCheck(p)
WorkerStep ==
    \/ WorkerFetch \/ WorkerNextHead \/ WorkerTake \/ WorkerProcess
    \/ WorkerCommit \/ WorkerCount

Next ==
    \/ \E t \in Threads : AddBegin(t) \/ AddStep(t)
    \/ \E p \in Producers : WaitAllBegin(p) \/ WaitEmptyBegin(p) \/ WaitStep(p)
    \/ WorkerStep
    \/ WorkerExit
    \/ SpuriousWakeup
    \/ Terminated

Spec == Init /\ [][Next]_vars

\* Every thread inside a call keeps being scheduled; strong fairness because
\* the spinlock is free only now and then.
Fairness ==
    /\ \A t \in Threads : SF_vars(AddStep(t))
    /\ \A p \in Producers : WF_vars(WaitStep(p))
    /\ SF_vars(WorkerStep)

FairSpec == Spec /\ Fairness

-----------------------------------------------------------------------------
(* Properties                                                              *)

AddPc == {"a_claim", "a_fast", "a_lock", "a_alloc", "a_sleeping", "a_woken",
          "a_init", "a_publish"}
WaitPc == {"v_wait", "v_waiting", "v_check", "v_exc", "e_wait", "e_waiting",
           "e_done", "e_tgt", "e_again", "e_last"}
\* an id is claimed and its task not yet constructed
HasTid == AddPc \ {"a_claim", "a_publish"}

\* Every variable keeps its type.
TypeOK ==
    /\ first_tid \in [Blocks -> Nat]
    /\ prev \in [Blocks -> Blocks \cup {Null}]
    /\ next \in [Blocks -> Blocks \cup {Null}]
    /\ params \in [Blocks -> [Slots -> Nat \cup {NoTask}]]
    /\ freed \subseteq Blocks
    /\ m_queue_head \in Blocks \cup {Null}
    /\ m_queue_tail \in Blocks \cup {Null}
    /\ m_new_block_first_tid \in Nat
    /\ m_queue_tail_tid \in Nat
    /\ m_finished_task \in Nat
    /\ m_block_quota \in 0 .. BlockQuota(MaxItems)
    /\ m_free_task_block \in Seq(Blocks)
    /\ m_mutex \subseteq Threads
    /\ m_worker_exc \subseteq Nat
    /\ pc \in [Threads -> {"idle"} \cup AddPc \cup WaitPc]
    /\ tail \in [Threads -> Blocks \cup {Null}]
    /\ tid \in [Threads -> Nat]
    /\ slot \in [Threads -> (Blocks \cup {Null}) \X Int]
    /\ tgt \in [Threads -> Nat]
    /\ wpc \in {"none", "fetch", "head", "param", "process", "commit", "count", "exit"}
    /\ qh \in 0 .. BlockSize
    /\ cur \in Nat \cup {NoTask}
    /\ Sync!TypeOK

\* The blocks the queue still uses are those reachable from the head.
Chain == Owned(m_queue_head)

\* The slot add_task() is about to construct into is inside a live block of the
\* chain, is the slot of its own id, and holds no other task: the unlocked
\* tail read, the recycling of blocks and the waits for a block never hand out
\* a wrong slot.
SlotValid ==
    \A t \in Threads : pc[t] = "a_init" =>
        LET b == slot[t][1]  o == slot[t][2] IN
        /\ b \in Chain
        /\ o \in Slots
        /\ first_tid[b] + o = tid[t]
        /\ params[b][o] = NoTask

\* No block is lost: none is destroyed while the queue lives, the tail is always
\* reachable from the head, the blocks of the chain, the free ones and the quota
\* left add up to the initial quota, and a recycled block is not in the chain.
BlocksAccounted ==
    /\ freed = {}
    /\ m_queue_head # Null => m_queue_tail \in Chain
    /\ Cardinality(Chain) + Len(m_free_task_block) + m_block_quota
            = BlockQuota(MaxItems)
    /\ \A i \in 1 .. Len(m_free_task_block) : m_free_task_block[i] \notin Chain

\* The branch of the worker that resets m_queue_tail to null is never taken:
\* the next block is there whenever the head block is used up, because a task
\* beyond it has been published.
HeadNeverRunsOut == wpc = "head" => next[m_queue_head] # Null

\* When wait_all_task_finish() returns, every task whose id was claimed before
\* the call has been processed: none is still in a producer's hands, in a slot
\* or with the worker.
WaitAllSound ==
    \A p \in Producers : pc[p] = "v_exc" =>
        /\ \A t \in Threads :
                pc[t] \in HasTid => tid[t] >= tgt[p]
        /\ \A b \in Chain, o \in Slots :
                params[b][o] # NoTask => params[b][o] >= tgt[p]
        /\ cur # NoTask => cur >= tgt[p]

\* wait_task_queue_empty() leaves its loop only at an instant at which every
\* claimed task is finished, although it reads the two counters one after the
\* other.
EmptyWhenSeenEmpty ==
    [][\A p \in Producers :
        pc[p] = "e_tgt" /\ pc'[p] = "e_again" => m_finished_task = m_queue_tail_tid]_vars

\* Every add_task() and every wait returns.
CallsReturn == \A t \in Threads : pc[t] # "idle" ~> pc[t] = "idle"

-----------------------------------------------------------------------------
(* The queue implements TaskFifo                                           *)

Ready == {params[b][o] : b \in Blocks, o \in Slots} \ {NoTask}
Running == wpc \in {"process", "commit", "count"}
Waits == [p \in Producers |->
             IF pc[p] \in {"v_wait", "v_waiting", "v_check", "v_exc"} THEN {tgt[p]} ELSE {}]

Fifo == INSTANCE TaskFifo WITH
    issued <- m_queue_tail_tid,
    ready <- Ready,
    running <- Running,
    executed <- m_finished_task,
    waits <- Waits

\* The block queue is a first-in first-out queue of tasks with a sound wait.
ImplementsTaskFifo == Fifo!Spec
=============================================================================
