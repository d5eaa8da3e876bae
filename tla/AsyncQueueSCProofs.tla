------------------------- MODULE AsyncQueueSCProofs -------------------------
(***************************************************************************)
(* The counts of AsyncQueueSC, for any number of producers, any block size *)
(* and any quota; its inductive invariant, under the conditions that       *)
(* Allowed states; and the properties that follow from the two, the        *)
(* refinement of TaskFifo among them.                                      *)
(***************************************************************************)
EXTENDS AsyncQueueSCBlocks, FiniteSetTheorems

\* The prover of the steps that name no other, and the time it has for each.
USE ZenonT(20)

-----------------------------------------------------------------------------
(* The counts.                                                             *)

\* The threads between the claim of an id and its publication are finitely many.
LEMMA ClaimedFinite == IsFiniteSet(Claimed) /\ Cardinality(Claimed) \in Nat
<1>1. IsFiniteSet(Threads)
  BY ProducersAssumption, FS_AddElement DEF Threads
<1>2. Claimed \subseteq Threads
  BY DEF Claimed
<1> QED BY <1>1, <1>2, FS_Subset, FS_CardinalityType

\* The steps of add_task().
LEMMA AddCounts ==
    ASSUME CountInv, NEW t \in Threads, AddBegin(t) \/ AddStep(t)
    PROVE  CountInv'
<1> USE DEF ClaimedPc, AddPc, WaitPc, Pcs
<1>1. tgt \in [Threads -> Nat] /\ pc \in [Threads -> Pcs]
  BY DEF CountInv, CountTypes
<1>2. CASE \/ AddBegin(t) \/ FastPath(t) \/ LockTail(t) \/ AllocBlock(t) \/ AllocWait(t)
           \/ AllocWake(t) \/ InitParam(t)
  <2>1. UNCHANGED <<m_queue_tail_tid, m_finished_task, tot, finished, fetched, tgt>>
    BY <1>2 DEF AddBegin, FastPath, LockTail, AllocBlock, AllocWait, AllocWake, InitParam,
       locals, sync
  <2>2. wpc' = "count" <=> wpc = "count"
    BY <1>2 DEF AddBegin, FastPath, LockTail, AllocBlock, AllocWait, AllocWake, InitParam,
       worker
  <2>3. CASE AddBegin(t)
    <3>1. pc[t] = "idle" /\ Goto(t, "a_claim")
      BY <2>3 DEF AddBegin
    <3> QED BY <1>1, <2>1, <2>2, <3>1, ThreadStep
  <2>4. CASE ~AddBegin(t)
    <3>1. pc[t] \in {"a_fast", "a_lock", "a_alloc", "a_woken", "a_init"}
      BY <1>2, <2>4 DEF FastPath, LockTail, AllocBlock, AllocWait, AllocWake, InitParam
    <3>2. \E l \in ClaimedPc : Goto(t, l)
      BY <1>2, <2>4 DEF FastPath, LockTail, AllocBlock, AllocWait, AllocWake, InitParam
    <3> QED BY <1>1, <2>1, <2>2, <3>1, <3>2, ThreadStep
  <2> QED BY <2>3, <2>4
<1>3. CASE ClaimTid(t)
  <2>1. /\ pc[t] = "a_claim" /\ pc' = [pc EXCEPT ![t] = "a_fast"]
        /\ m_queue_tail_tid' = m_queue_tail_tid + 1
        /\ UNCHANGED <<m_finished_task, tot, finished, fetched, wpc, tgt>>
    BY <1>3 DEF ClaimTid, Goto, sync, worker
  <2>2. Claimed' = Claimed \cup {t} /\ t \notin Claimed
    BY <1>1, <2>1 DEF Claimed
  <2>3. Cardinality(Claimed') = Cardinality(Claimed) + 1
    BY <2>2, ClaimedFinite, FS_AddElement
  <2>4. m_queue_tail_tid' = tot' + Cardinality(Claimed')
    BY <2>1, <2>3, ClaimedFinite, SMT DEF CountInv, CountTypes
  <2>5. \A p \in Producers : pc'[p] = "e_tgt" => pc[p] = "e_tgt"
    BY <1>1, <2>1 DEF Threads
  <2>6. CountTypes'
    BY <2>1, SMT DEF CountInv, CountTypes
  <2> QED BY <2>1, <2>4, <2>5, <2>6 DEF CountInv
<1>4. CASE Publish(t)
  <2>1. /\ pc[t] = "a_publish" /\ pc' = [pc EXCEPT ![t] = "idle"] /\ tot' = tot + 1
        /\ UNCHANGED <<m_queue_tail_tid, m_finished_task, finished, fetched, wpc, tgt>>
    BY <1>4 DEF Publish, Sync!Add, Goto, worker
  <2>2. Claimed' = Claimed \ {t} /\ t \in Claimed
    BY <1>1, <2>1 DEF Claimed
  <2>3. Cardinality(Claimed') = Cardinality(Claimed) - 1
    BY <2>2, ClaimedFinite, FS_RemoveElement
  <2>4. m_queue_tail_tid' = tot' + Cardinality(Claimed')
    BY <2>1, <2>3, ClaimedFinite, SMT DEF CountInv, CountTypes
  <2>5. \A p \in Producers : pc'[p] = "e_tgt" => pc[p] = "e_tgt"
    BY <1>1, <2>1 DEF Threads
  <2>6. CountTypes'
    BY <2>1, SMT DEF CountInv, CountTypes
  <2> QED BY <2>1, <2>4, <2>5, <2>6, SMT DEF CountInv, CountTypes
<1> QED BY <1>2, <1>3, <1>4 DEF AddStep

\* In the initial state all the counts are zero.
LEMMA CountInit == ASSUME Init PROVE CountInv
<1>1. /\ pc = [t \in Threads |-> "idle"] /\ tgt = [t \in Threads |-> 0] /\ wpc = "none"
      /\ m_queue_tail_tid = 0 /\ m_finished_task = 0 /\ tot = 0 /\ finished = 0 /\ fetched = FALSE
  BY DEF Init, Sync!Init
<1>2. Claimed = {} /\ Cardinality({}) = 0
  BY <1>1, FS_EmptySet DEF Claimed, ClaimedPc, AddPc
<1>3. pc \in [Threads -> Pcs] /\ \A p \in Producers : pc[p] = "idle"
  BY <1>1 DEF Pcs, Threads
<1>4. CountTypes /\ ~fetched
  BY <1>1, <1>3 DEF CountTypes
<1>5. m_queue_tail_tid = tot + Cardinality(Claimed) /\ finished <= tot
  BY <1>1, <1>2, SMT
<1> QED BY <1>1, <1>3, <1>4, <1>5 DEF CountInv

\* The counts of the queue and of its synchronizer fit together in every state.
THEOREM Counts == Spec => []CountInv
<1>1. Init => CountInv
  BY CountInit
<1>2. CountInv /\ [Next]_vars => CountInv'
  <2> SUFFICES ASSUME CountInv, [Next]_vars PROVE CountInv'
    OBVIOUS
  <2>1. CASE UNCHANGED vars
    BY <2>1, QuietStep DEF vars, locals, worker, sync
  <2> QED BY <2>1, AddCounts, WaitCounts, WorkerCounts DEF Next, Terminated
<1> QED BY <1>1, <1>2, PTL DEF Spec

\* wait_task_queue_empty() reads the two counters one after the other; when it
\* finds them equal, the queue is empty at that instant.
THEOREM EmptySeen == Spec => EmptyWhenSeenEmpty
<1>1. ASSUME CountInv, [Next]_vars, NEW p \in Producers, pc[p] = "e_tgt", pc'[p] = "e_again"
      PROVE  m_finished_task = m_queue_tail_tid
  BY <1>1, ClaimedFinite, SeenEmpty
<1>2. CountInv /\ [Next]_vars => [\A p \in Producers :
        pc[p] = "e_tgt" /\ pc'[p] = "e_again" => m_finished_task = m_queue_tail_tid]_vars
  BY <1>1
<1> QED BY <1>2, Counts, PTL DEF Spec, EmptyWhenSeenEmpty

-----------------------------------------------------------------------------
(* What follows from the invariant by counting and induction.              *)

\* Every set of numbers that is not empty has a least element.
LEMMA LeastNat ==
    ASSUME NEW T \in SUBSET Nat, T # {}
    PROVE  \E n \in T : \A m \in T : n <= m
<1>1. \E n \in T : \A m \in T : ~(<<m, n>> \in OpToRel(<, Nat))
  BY NatLessThanWellFounded, WFMin
<1>2. PICK n \in T : \A m \in T : ~(<<m, n>> \in OpToRel(<, Nat))
  BY <1>1
<1>3. \A m \in T : ~(m < n)
  BY <1>2 DEF OpToRel
<1>4. \A m \in T : n <= m
  BY <1>3, SMT
<1> QED BY <1>4

\* The blocks reached from the head are the ones in use.
LEMMA ChainIsLive ==
    ASSUME QTypes, ChainInv
    PROVE  Reach(m_queue_head, next) = Live
<1>1. Live \in SUBSET Blocks
  BY DEF Live
<1>2. Reach(m_queue_head, next) \subseteq Live
  <2>1. m_queue_head # Null => m_queue_head \in Live
    BY DEF ChainInv
  <2>2. \A d \in Live : next[d] # Null => next[d] \in Live
    <3>1. Live # {} => m_new_block_first_tid # 0
      BY DEF ChainInv
    <3> QED BY <3>1 DEF ChainInv
  <2> QED BY <1>1, <2>1, <2>2 DEF Reach
<1>3. ASSUME NEW c \in Live, NEW S \in SUBSET Blocks, m_queue_head # Null => m_queue_head \in S,
             \A d \in S : next[d] # Null => next[d] \in S
      PROVE  c \in S
  <2> SUFFICES ASSUME c \notin S PROVE FALSE
    OBVIOUS
  <2> DEFINE T == {first_tid[d] : d \in Live \ S}
  <2>1. T \in SUBSET Nat /\ T # {}
    BY <1>1, <1>3, SMT DEF QTypes
  <2>2. PICK n \in T : \A m \in T : n <= m
    BY <2>1, LeastNat
  <2>3. PICK d \in Live \ S : n = first_tid[d]
    BY <2>2
  <2>4. d # m_queue_head
    BY <1>1, <1>3, <2>3, BlockFacts DEF ChainInv
  <2>5. prev[d] \in Live /\ next[prev[d]] = d /\ first_tid[d] = first_tid[prev[d]] + BlockSize
    BY <2>3, <2>4 DEF ChainInv
  <2>6. prev[d] \in S
    <3>1. first_tid[prev[d]] \in Nat
      BY <1>1, <2>5 DEF QTypes
    <3>2. ~ n <= first_tid[prev[d]]
      BY <2>3, <2>5, <3>1, BlockFacts, SMT
    <3>3. first_tid[prev[d]] \notin T
      BY <2>2, <3>2
    <3> QED BY <2>5, <3>3
  <2> QED BY <1>1, <1>3, <2>3, <2>5, <2>6, BlockFacts
<1> QED BY <1>1, <1>2, <1>3 DEF Reach

\* So are the blocks reached backwards from the tail.
LEMMA BackIsLive ==
    ASSUME QTypes, ChainInv
    PROVE  Reach(m_queue_tail, prev) = Live
<1>1. Live \in SUBSET Blocks
  BY DEF Live
<1>2. Reach(m_queue_tail, prev) \subseteq Live
  <2>1. m_queue_tail # Null => m_queue_tail \in Live
    BY DEF ChainInv
  <2>2. \A d \in Live : prev[d] # Null => prev[d] \in Live
    <3>1. Live # {} => m_new_block_first_tid # 0
      BY DEF ChainInv
    <3> QED BY <3>1 DEF ChainInv
  <2> QED BY <1>1, <2>1, <2>2 DEF Reach
<1>3. ASSUME NEW c \in Live, NEW S \in SUBSET Blocks, m_queue_tail # Null => m_queue_tail \in S,
             \A d \in S : prev[d] # Null => prev[d] \in S
      PROVE  c \in S
  <2> SUFFICES ASSUME c \notin S PROVE FALSE
    OBVIOUS
  <2> DEFINE T == {m_new_block_first_tid - first_tid[d] : d \in Live \ S}
  <2>1. T \in SUBSET Nat /\ T # {}
    <3>1. \A d \in Live : m_new_block_first_tid - first_tid[d] \in Nat
      <4> SUFFICES ASSUME NEW d \in Live PROVE m_new_block_first_tid - first_tid[d] \in Nat
        OBVIOUS
      <4>1. first_tid[d] \in Nat /\ m_new_block_first_tid \in Nat
        BY <1>1 DEF QTypes
      <4>2. first_tid[d] + BlockSize <= m_new_block_first_tid
        BY DEF ChainInv
      <4> QED BY <4>1, <4>2, BlockFacts, SMT
    <3> QED BY <1>3, <3>1
  <2>2. PICK n \in T : \A m \in T : n <= m
    BY <2>1, LeastNat
  <2>3. PICK d \in Live \ S : n = m_new_block_first_tid - first_tid[d]
    BY <2>2
  <2>4. d # m_queue_tail
    BY <1>1, <1>3, <2>3, BlockFacts DEF ChainInv
  <2>5. next[d] \in Live /\ prev[next[d]] = d /\ first_tid[next[d]] = first_tid[d] + BlockSize
    BY <2>3, <2>4 DEF ChainInv
  <2>6. next[d] \in S
    <3>1. first_tid[d] \in Nat /\ first_tid[next[d]] \in Nat /\ m_new_block_first_tid \in Nat
      BY <1>1, <2>3, <2>5 DEF QTypes
    <3>2. ~ n <= m_new_block_first_tid - first_tid[next[d]]
      BY <2>3, <2>5, <3>1, BlockFacts, SMT
    <3>3. m_new_block_first_tid - first_tid[next[d]] \notin T
      BY <2>2, <3>2
    <3> QED BY <2>5, <3>3
  <2> QED BY <1>1, <1>3, <2>3, <2>5, <2>6, BlockFacts
<1> QED BY <1>1, <1>2, <1>3 DEF Reach

\* No more tasks are published than the blocks made so far have slots: an id
\* beyond them is in the hands of a thread that has no slot yet.
LEMMA TotBound ==
    ASSUME QTypes, CountInv, BeyondInv
    PROVE  tot <= m_new_block_first_tid
<1> DEFINE f == [t \in Claimed |-> tid[t]]
           N == m_new_block_first_tid
           M == m_queue_tail_tid
           R == {tid[t] : t \in Claimed}
<1>1. N \in Nat /\ M \in Nat /\ tot \in Nat /\ M = tot + Cardinality(Claimed)
  BY DEF QTypes, CountInv, CountTypes
<1>2. IsFiniteSet(Claimed) /\ Cardinality(Claimed) \in Nat
  BY ClaimedFinite
<1>3. f \in Surjection(Claimed, R)
  BY DEF Surjection
<1>4. IsFiniteSet(R) /\ Cardinality(R) <= Cardinality(Claimed)
  BY <1>2, <1>3, FS_Surjection
<1>5. Cardinality(R) \in Nat
  BY <1>4, FS_CardinalityType
<1>6. N .. M - 1 \in SUBSET R
  BY <1>1, SMT DEF BeyondInv
<1>7. Cardinality(N .. M - 1) <= Cardinality(R)
  BY <1>4, <1>6, FS_Subset
<1>8. Cardinality(N .. M - 1) = IF N > M - 1 THEN 0 ELSE M - 1 - N + 1
  <2>1. N \in Int /\ M - 1 \in Int
    BY <1>1, SMT
  <2> QED BY <2>1, FS_Interval
<1> HIDE DEF N, M, R
<1>9. tot <= N
  BY <1>1, <1>2, <1>4, <1>5, <1>7, <1>8, SMT
<1> QED BY <1>9 DEF N

\* The worker is not in add_task() before the first task is published, so that
\* the first block is made for an id that is smaller than the number of
\* producers.
LEMMA FirstBlock ==
    ASSUME QInv, FewProducers, m_new_block_first_tid = 0, NEW t \in Threads, pc[t] \in ClaimedPc
    PROVE  tid[t] < BlockSize
<1>1. tot = 0
  BY TotBound, QParts, SMT DEF CountInv, CountTypes
<1>2. pc[Worker] = "idle"
  BY <1>1, QParts, SMT DEF PlaceInv, CountInv, CountTypes
<1>3. Claimed \in SUBSET Producers
  BY <1>2 DEF Claimed, Threads, ClaimedPc, AddPc
<1>4. Cardinality(Claimed) <= Cardinality(Producers) /\ Cardinality(Producers) \in Nat
  BY <1>3, ProducersAssumption, FS_Subset, FS_CardinalityType
<1>5. m_queue_tail_tid = Cardinality(Claimed) /\ Cardinality(Claimed) \in Nat
  BY <1>1, ClaimedFinite, QParts, SMT DEF CountInv, CountTypes
<1>6. tid[t] \in Nat /\ tid[t] < m_queue_tail_tid
  BY QParts DEF QTypes, ThreadInv, ThreadOK
<1> QED BY <1>4, <1>5, <1>6, BlockFacts, SMT DEF FewProducers

\* The consequences of the invariant that are proved by counting and induction.
LEMMA DerivedHolds == ASSUME QInv PROVE Derived
<1>1. tot <= m_new_block_first_tid
  BY TotBound, QParts
<1>2. tot <= m_queue_tail_tid
  BY ClaimedFinite, QFacts, QParts, SMT DEF CountInv
<1>3. m_queue_tail_tid <= MaxTask
  <2>1. IsFiniteSet(InFlight)
    BY ProducersAssumption, FS_AddElement, FS_Subset DEF Threads, InFlight
  <2>2. Cardinality(InFlight) \in Nat
    BY <2>1, FS_CardinalityType
  <2> QED BY <2>2, QFacts, MaxTaskAssumption, QParts, SMT DEF BoundInv
<1>4. FewProducers /\ m_new_block_first_tid = 0 =>
            \A t \in Threads : pc[t] \in ClaimedPc => tid[t] < BlockSize
  BY FirstBlock
<1>5. Reach(m_queue_head, next) = Live /\ Reach(m_queue_tail, prev) = Live
  BY ChainIsLive, BackIsLive, QParts
<1> QED BY <1>1, <1>2, <1>3, <1>4, <1>5 DEF Derived

\* The ids claimed and those about to be claimed stay within the bound: add_task()
\* begins below it, and an id that is claimed is no longer about to be.
LEMMA InFlightBound ==
    ASSUME QInv, NEW t \in Threads, AddBegin(t) \/ ClaimTid(t)
    PROVE  m_queue_tail_tid' + Cardinality(InFlight') <= MaxTask
<1>1. IsFiniteSet(InFlight)
  BY ProducersAssumption, FS_AddElement, FS_Subset DEF Threads, InFlight
<1>2. Cardinality(InFlight) \in Nat /\ m_queue_tail_tid \in Nat /\ MaxTask \in Nat
  BY <1>1, FS_CardinalityType, QFacts, MaxTaskAssumption
<1>3. CASE AddBegin(t)
  <2>1. /\ pc[t] = "idle" /\ Goto(t, "a_claim") /\ m_queue_tail_tid' = m_queue_tail_tid
        /\ m_queue_tail_tid + Cardinality(InFlight) < MaxTask
    BY <1>3 DEF AddBegin
  <2>2. \A u \in Threads : pc'[u] = IF u = t THEN "a_claim" ELSE pc[u]
    BY <2>1, QFacts DEF Goto
  <2>3. InFlight' = InFlight \cup {t} /\ t \notin InFlight
    BY <2>1, <2>2 DEF InFlight
  <2>4. Cardinality(InFlight') = Cardinality(InFlight) + 1
    BY <1>1, <2>3, FS_AddElement
  <2> QED BY <1>2, <2>1, <2>4, SMT
<1>4. CASE ClaimTid(t)
  <2>1. pc[t] = "a_claim" /\ Goto(t, "a_fast") /\ m_queue_tail_tid' = m_queue_tail_tid + 1
    BY <1>4 DEF ClaimTid
  <2>2. \A u \in Threads : pc'[u] = IF u = t THEN "a_fast" ELSE pc[u]
    BY <2>1, QFacts DEF Goto
  <2>3. InFlight' = InFlight \ {t} /\ t \in InFlight
    BY <2>1, <2>2 DEF InFlight
  <2>4. Cardinality(InFlight') = Cardinality(InFlight) - 1
    BY <1>1, <2>3, FS_RemoveElement
  <2>5. m_queue_tail_tid + Cardinality(InFlight) <= MaxTask
    BY QParts DEF BoundInv
  <2> QED BY <1>2, <2>1, <2>4, <2>5, SMT
<1> QED BY <1>3, <1>4

-----------------------------------------------------------------------------
(* The invariant.                                                          *)

\* The invariant holds in the initial state.
LEMMA QInit == ASSUME Init PROVE QInv
BY CountInit, FS_EmptySet, InitWithCounts

\* Every step keeps the invariant.
LEMMA QNext == ASSUME Allowed, QInv, [Next]_vars PROVE QInv'
<1>1. Derived
  BY DerivedHolds
<1>2. ASSUME NEW t \in Threads, AddBegin(t) \/ AddStep(t) PROVE QInv'
  <2>1. CountInv'
    BY <1>2, AddCounts, QParts
  <2>2. AddBegin(t) \/ ClaimTid(t) => m_queue_tail_tid' + Cardinality(InFlight') <= MaxTask
    BY InFlightBound
  <2> QED BY <1>1, <1>2, <2>1, <2>2, AddBeginStep, ClaimTidStep, FastPathStep, LockTailStep,
             AllocBlockStep, AllocWaitStep, InitParamStep, PublishStep DEF AddStep
<1>3. ASSUME NEW p \in Producers, WaitAllBegin(p) \/ WaitEmptyBegin(p) \/ WaitStep(p) PROVE QInv'
  <2>1. CountInv'
    BY <1>3, WaitCounts, QParts
  <2> QED BY <1>3, <2>1, WaitSteps
<1>4. ASSUME WorkerStep \/ WorkerExit \/ SpuriousWakeup PROVE QInv'
  <2>1. CountInv'
    BY <1>4, WorkerCounts, QParts
  <2> QED BY <1>1, <1>4, <2>1, WorkerCounting, NextHeadStep, TakeStep, SpuriousStep
          DEF WorkerStep
<1> QED BY <1>2, <1>3, <1>4, Unchanged DEF Next, Terminated

\* The blocks form one list with consecutive ids, a thread constructs its task
\* in the slot of its id, and the worker reads the slots in the order of the
\* ids: under the conditions that Allowed states, QInv holds in every reachable
\* state.
THEOREM QueueInvariant == Allowed => (Spec => []QInv)
<1> SUFFICES ASSUME Allowed PROVE Spec => []QInv
  OBVIOUS
<1>1. Init => QInv
  BY QInit
<1>2. QInv /\ [Next]_vars => QInv'
  BY QNext
<1> QED BY <1>1, <1>2, PTL DEF Spec

-----------------------------------------------------------------------------
(* What the invariant shows.                                               *)

\* add_task(): whatever was read of the tail before the mutex was taken, and
\* whatever the worker recycled meanwhile, the slot in which a task is
\* constructed is in a block of the queue, is the slot of its id, and is empty.
THEOREM SlotsValid == Allowed => (Spec => []SlotValid)
<1>1. QInv => SlotValid
  BY SlotIsOwn, DerivedHolds
<1> QED BY <1>1, QueueInvariant, PTL

\* A block is in use, recycled, or part of the quota that is left.
LEMMA BlockCount ==
    ASSUME QTypes, FreeInv
    PROVE  Cardinality(Live) + Len(m_free_task_block) + m_block_quota = Quota
<1> DEFINE s == m_free_task_block
           n == Len(m_free_task_block)
<1>1. /\ s \in Seq(Blocks) /\ n \in Nat /\ m_block_quota \in 0 .. Quota /\ Quota \in Nat
      /\ Allocated \in 0 .. Quota /\ Allocated = Quota - m_block_quota
  BY BlockFacts, LiveFacts, SMT DEF QTypes, Allocated
<1>2. Free \subseteq Blocks /\ Free = {s[i] : i \in 1 .. n} /\ \A b \in Free : b <= Allocated
  BY LiveFacts DEF Free, FreeInv
<1>3. \A i, j \in 1 .. n : s[i] = s[j] => i = j
  BY DEF FreeInv
<1> HIDE DEF s, n
<1>4. Cardinality(Free) = n
  <2> DEFINE f == [i \in 1 .. n |-> s[i]]
  <2>1. f \in Bijection(1 .. n, Free)
    <3>1. f \in [1 .. n -> Free]
      BY <1>2
    <3>2. \A i, j \in 1 .. n : f[i] = f[j] => i = j
      BY <1>3
    <3>3. \A b \in Free : \E i \in 1 .. n : f[i] = b
      BY <1>2
    <3> QED BY <3>1, <3>2, <3>3 DEF Bijection, Injection, Surjection, IsInjective
  <2> QED BY <1>1, <2>1, FS_CountingElements DEF ExistsBijection
<1>5. 1 .. Allocated = Live \cup Free /\ Live \cap Free = {}
  BY <1>1, <1>2, BlockFacts, SMT DEF Live
<1>6. IsFiniteSet(1 .. Allocated) /\ Cardinality(1 .. Allocated) = Allocated
  BY <1>1, FS_Interval, SMT
<1>7. IsFiniteSet(Live) /\ IsFiniteSet(Free) /\ Cardinality(Live) \in Nat
  BY <1>5, <1>6, FS_Subset, FS_CardinalityType
<1>8. Cardinality(Live \cup Free) = Cardinality(Live) + Cardinality(Free) - 0
  BY <1>5, <1>7, FS_Union, FS_EmptySet, SMT
<1>9. Cardinality(1 .. Allocated) = Cardinality(Live) + n
  <2>1. Cardinality(1 .. Allocated) = Cardinality(Live \cup Free)
    BY <1>5
  <2> QED BY <1>1, <1>4, <1>7, <1>8, <2>1, SMT
<1>10. Cardinality(Live) + n = Quota - m_block_quota
  BY <1>1, <1>6, <1>9
<1>11. Cardinality(Live) + n + m_block_quota = Quota
  BY <1>1, <1>7, <1>10, SMT
<1> QED BY <1>11 DEF n

\* No block is lost, freed twice or in two places: the blocks of the queue,
\* those of m_free_task_block and the quota that is left add up to the quota.
THEOREM BlocksAllAccounted == Allowed => (Spec => []BlocksAccounted)
<1>1. ASSUME QInv PROVE BlocksAccounted
  <2>1. Chain = Live
    BY <1>1, ChainIsLive, QParts DEF Chain, Owned
  <2>2. freed = {} /\ (m_queue_head # Null => m_queue_tail \in Live)
    BY <1>1, QParts DEF FreeInv, ChainInv
  <2>3. Cardinality(Live) + Len(m_free_task_block) + m_block_quota = BlockQuota(MaxItems)
    BY <1>1, BlockCount, QParts DEF Quota
  <2>4. \A i \in 1 .. Len(m_free_task_block) : m_free_task_block[i] \notin Live
    BY DEF Live, Free
  <2> QED BY <2>1, <2>2, <2>3, <2>4 DEF BlocksAccounted
<1> QED BY <1>1, QueueInvariant, PTL

\* The worker, at the end of its block, always finds the next one linked.
THEOREM HeadHasNext == Allowed => (Spec => []HeadNeverRunsOut)
<1>1. ASSUME QInv PROVE HeadNeverRunsOut
  BY <1>1, DerivedHolds, NextThere, LiveFacts, BlockFacts, QParts DEF HeadNeverRunsOut
<1> QED BY <1>1, QueueInvariant, PTL

\* When wait_all_task_finish() rechecks for exceptions, no task issued before
\* its call is in the hands of a thread, in a slot or being processed.
THEOREM WaitAllIsSound == Allowed => (Spec => []WaitAllSound)
<1>1. ASSUME QInv, NEW p \in Producers, pc[p] = "v_exc"
      PROVE  /\ \A t \in Threads : pc[t] \in HasTid => tid[t] >= tgt[p]
             /\ \A b \in Chain, o \in Slots : params[b][o] # NoTask => params[b][o] >= tgt[p]
             /\ cur # NoTask => cur >= tgt[p]
  <2>1. tgt[p] \in Nat /\ tgt[p] <= m_finished_task /\ m_finished_task \in Nat
    BY <1>1, QFacts, QParts DEF WaitInv, Threads
  <2>2. Pos \in Nat /\ m_finished_task <= Pos
    BY <1>1, Behind
  <2>3. \A t \in Threads : pc[t] \in HasTid => Pos <= tid[t] /\ tid[t] \in Nat
    BY <1>1, QFacts, QParts DEF ThreadInv, ThreadOK
  <2>4. \A b \in Chain, o \in Slots : params[b][o] # NoTask => Pos <= params[b][o] /\ params[b][o] \in Nat
    <3>1. Chain \subseteq Blocks
      BY DEF Chain, Owned, Reach
    <3>2. params \in [Blocks -> [Slots -> Nat \cup {NoTask}]]
      BY <1>1, QParts DEF QTypes
    <3> QED BY <1>1, <3>1, <3>2, QParts, SMT DEF SlotInv
  <2>5. cur # NoTask => cur = m_finished_task
    <3>1. cur # NoTask => wpc = "process" /\ cur = finished
      BY <1>1, QParts DEF PlaceInv
    <3>2. wpc = "process" => finished = m_finished_task
      BY <1>1, QParts DEF CountInv
    <3> QED BY <3>1, <3>2
  <2> QED BY <2>1, <2>2, <2>3, <2>4, <2>5, SMT
<1>2. QInv => WaitAllSound
  BY <1>1 DEF WaitAllSound
<1> QED BY <1>2, QueueInvariant, PTL

\* AsyncQueueSC implements TaskFifo: tasks are executed one at a time, each
\* once, in the order of the ids, and wait_all_task_finish() returns after the
\* tasks issued before its call.
THEOREM QueueIsFifo == Allowed => (Spec => ImplementsTaskFifo)
<1>1. Init => Fifo!Init
  <2> SUFFICES ASSUME Init PROVE Fifo!Init
    OBVIOUS
  <2>1. /\ m_queue_tail_tid = 0 /\ m_finished_task = 0 /\ wpc = "none"
        /\ params = [b \in Blocks |-> [o \in Slots |-> NoTask]]
        /\ pc = [t \in Threads |-> "idle"]
    BY DEF Init
  <2>2. Ready = {}
    BY <2>1, SMT DEF Ready
  <2>3. Running = FALSE
    BY <2>1, SMT DEF Running
  <2>4. Waits = [p \in Producers |-> {}]
    BY <2>1 DEF Waits, Threads
  <2> QED BY <2>1, <2>2, <2>3, <2>4 DEF Fifo!Init
<1>2. QInv /\ [Next]_vars => [Fifo!Next]_(Fifo!vars)
  <2> SUFFICES ASSUME QInv, [Next]_vars PROVE [Fifo!Next]_(Fifo!vars)
    OBVIOUS
  <2>1. CASE UNCHANGED vars
    <3>1. UNCHANGED <<m_queue_tail_tid, params, wpc, m_finished_task, pc, tgt>>
      BY <2>1 DEF vars, blocks, locals, worker
    <3>2. Running' = Running /\ Waits' = Waits
      BY <3>1 DEF Running, Waits
    <3> QED BY <3>1, <3>2, Unseen
  <2>2. ASSUME WorkerStep \/ WorkerExit \/ SpuriousWakeup PROVE [Fifo!Next]_(Fifo!vars)
    BY <2>2, WorkerCounts, WorkerFifo, QParts
  <2> QED BY <2>1, <2>2, DerivedHolds, AddFifo, WaitFifo DEF Next, Terminated
<1> QED BY <1>1, <1>2, QueueInvariant, PTL DEF Spec, ImplementsTaskFifo, Fifo!Spec
=============================================================================
