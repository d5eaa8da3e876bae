------------------------- MODULE AsyncQueueSCBlocks -------------------------
(***************************************************************************)
(* The steps that make, recycle or read blocks keep the invariant of       *)
(* AsyncQueueSC: one turn of the loop of allocate_task_block_unsafe(), and *)
(* the steps of the worker, which also map to steps of TaskFifo.           *)
(***************************************************************************)
EXTENDS AsyncQueueSCThreads

\* The prover of the steps that name no other, and the time it has for each.
USE ZenonT(20)

-----------------------------------------------------------------------------
(* A block is made.                                                        *)

\* From no block none is reached.
LEMMA ReachNull == ASSUME NEW link PROVE Reach(Null, link) = {}
<1>1. {} \in SUBSET Blocks /\ \A c \in Blocks : c \notin {}
  OBVIOUS
<1> QED BY <1>1 DEF Reach

\* A sequence without its last element.
LEMMA FrontProperties ==
    ASSUME NEW S, NEW s \in Seq(S), Len(s) > 0
    PROVE  LET f == SubSeq(s, 1, Len(s) - 1)
           IN  /\ f \in Seq(S) /\ Len(f) = Len(s) - 1
               /\ \A i \in 1 .. Len(s) - 1 : f[i] = s[i]
<1> DEFINE n == Len(s) - 1
<1>1. n \in Nat /\ n < Len(s) /\ Len(s) \in Nat
  BY SMT
<1> HIDE DEF n
<1>2. Len(SubSeq(s, 1, n)) = n
  BY <1>1, SMT
<1>3. \A i \in 1 .. n : SubSeq(s, 1, n)[i] = s[i]
  BY <1>1, SMT
<1>4. SubSeq(s, 1, n) \in Seq(S)
  BY <1>1, SMT
<1> QED BY <1>2, <1>3, <1>4 DEF n

\* allocate_task_block_unsafe() takes a block that is not in use.
LEMMA Taken ==
    ASSUME QTypes, FreeInv, BlockAvailable, TakeBlock
    PROVE  /\ NewBlock \in Blocks /\ NewBlock \notin Live /\ next[NewBlock] = Null
           /\ m_block_quota' \in 0 .. Quota /\ m_free_task_block' \in Seq(Blocks)
           /\ Allocated' \in Nat /\ Allocated <= Allocated' /\ NewBlock <= Allocated'
           /\ Allocated' <= Allocated + 1
           /\ Free' = Free \ {NewBlock} /\ Live' = Live \cup {NewBlock}
           /\ \A i, j \in 1 .. Len(m_free_task_block') :
                    m_free_task_block'[i] = m_free_task_block'[j] => i = j
<1> DEFINE b == NewBlock
           s == m_free_task_block
<1>1. /\ s \in Seq(Blocks) /\ m_block_quota \in 0 .. Quota /\ Len(s) \in Nat
      /\ Allocated = Quota - m_block_quota /\ Allocated' = Quota - m_block_quota'
      /\ \A i, j \in 1 .. Len(s) : s[i] = s[j] => i = j
      /\ \A c \in Free : c <= Allocated
  BY SMT DEF QTypes, Allocated, FreeInv
<1>2. CASE s # <<>>
  <2>1. Len(s) > 0 /\ b = s[Len(s)] /\ s' = SubSeq(s, 1, Len(s) - 1) /\ m_block_quota' = m_block_quota
    BY <1>1, <1>2, SMT DEF NewBlock, TakeBlock
  <2>2. /\ s' \in Seq(Blocks) /\ Len(s') = Len(s) - 1
        /\ \A i \in 1 .. Len(s) - 1 : s'[i] = s[i]
    BY <1>1, <2>1, FrontProperties
  <2>3. Free' = Free \ {b}
    <3>1. Free = {s[i] : i \in 1 .. Len(s)} /\ Free' = {s'[i] : i \in 1 .. Len(s')}
      BY DEF Free
    <3> QED BY <1>1, <2>1, <2>2, <3>1, SMT
  <2>4. b \in Blocks /\ b \in Free /\ b <= Allocated
    BY <1>1, <2>1, SMT DEF Free
  <2>5. b \notin Live /\ Live' = Live \cup {b} /\ Allocated' = Allocated
    BY <1>1, <2>1, <2>3, <2>4 DEF Live
  <2>6. \A i, j \in 1 .. Len(s') : s'[i] = s'[j] => i = j
    BY <1>1, <2>2, SMT
  <2>7. next[b] = Null
    BY <2>4, <2>5 DEF FreeInv
  <2> QED BY <1>1, <2>1, <2>2, <2>3, <2>4, <2>5, <2>6, <2>7, BlockFacts, SMT
<1>3. CASE s = <<>>
  <2>1. /\ m_block_quota > 0 /\ b = Quota + 1 - m_block_quota
        /\ s' = s /\ m_block_quota' = m_block_quota - 1
    BY <1>3 DEF BlockAvailable, NewBlock, TakeBlock, Quota
  <2>2. Free = {} /\ Free' = {}
    BY <1>3, <2>1, SMT DEF Free
  <2>3. b \in Blocks /\ b = Allocated + 1 /\ Allocated' = Allocated + 1 /\ Allocated \in Nat
    BY <1>1, <2>1, BlockFacts, SMT
  <2>4. b \notin Live /\ Live' = Live \cup {b}
    BY <2>2, <2>3, BlockFacts, SMT DEF Live
  <2>5. next[b] = Null
    BY <2>3, <2>4 DEF FreeInv
  <2> QED BY <1>1, <2>1, <2>2, <2>3, <2>4, <2>5, BlockFacts, SMT
<1> QED BY <1>2, <1>3

\* One turn of the allocation loop: the new block follows the tail and is the
\* new tail.
LEMMA AllocBlockFacts ==
    ASSUME QInv, NEW t \in Threads, AllocBlock(t)
    PROVE  LET b == NewBlock IN
           /\ pc[t] = "a_alloc" /\ tail[t] = m_queue_tail /\ freed' = {}
           /\ b \in Blocks /\ b \notin Live /\ b # m_queue_tail /\ b # m_queue_head /\ next[b] = Null
           /\ Live' = Live \cup {b}
           /\ \A c \in Blocks :
                /\ first_tid'[c] = IF c = b THEN m_new_block_first_tid ELSE first_tid[c]
                /\ prev'[c] = IF c = b THEN m_queue_tail ELSE prev[c]
                /\ next'[c] = IF c = m_queue_tail THEN b ELSE next[c]
           /\ first_tid' \in [Blocks -> Nat] /\ prev' \in [Blocks -> Blocks \cup {Null}]
           /\ next' \in [Blocks -> Blocks \cup {Null}]
           /\ m_new_block_first_tid' = m_new_block_first_tid + BlockSize
           /\ m_queue_head' = IF m_queue_tail = Null THEN b ELSE m_queue_head
           /\ m_queue_tail' = b
<1> DEFINE b == NewBlock
<1>1. /\ pc[t] = "a_alloc" /\ BlockAvailable /\ TakeBlock
      /\ first_tid' = [first_tid EXCEPT ![b] = m_new_block_first_tid]
      /\ m_new_block_first_tid' = m_new_block_first_tid + BlockSize
      /\ prev' = [prev EXCEPT ![b] = tail[t]] /\ m_queue_tail' = b
      /\ IF tail[t] = Null
         THEN /\ m_queue_head' = b
              /\ freed' = freed \cup Owned(m_queue_head)
              /\ UNCHANGED next
         ELSE /\ next' = [next EXCEPT ![tail[t]] = b]
              /\ freed' = freed \cup Owned(next[tail[t]])
              /\ UNCHANGED m_queue_head
  BY DEF AllocBlock
<1>2. tail[t] = m_queue_tail
  BY <1>1, QParts DEF ThreadInv, ThreadOK, AllocPc
<1>3. b \in Blocks /\ b \notin Live /\ next[b] = Null /\ Live' = Live \cup {b}
  BY <1>1, Taken, QParts
<1> HIDE DEF b
<1>4. /\ first_tid \in [Blocks -> Nat] /\ prev \in [Blocks -> Blocks \cup {Null}]
      /\ next \in [Blocks -> Blocks \cup {Null}] /\ m_new_block_first_tid \in Nat
      /\ m_queue_tail \in Blocks \cup {Null} /\ Null \notin Blocks /\ freed = {}
  BY BlockFacts, QParts DEF QTypes, FreeInv
<1>5. /\ m_queue_tail = Null => m_queue_head = Null /\ m_new_block_first_tid = 0
      /\ m_queue_tail # Null => m_queue_tail \in Live /\ m_queue_head \in Live /\ next[m_queue_tail] = Null
      /\ Live \subseteq Blocks
  BY <1>4, LiveFacts, QParts DEF ChainInv
<1>6. b # m_queue_tail /\ b # m_queue_head
  BY <1>3, <1>4, <1>5
<1>7. freed' = {}
  BY <1>1, <1>2, <1>4, <1>5, ReachNull DEF Owned
<1>8. /\ \A c \in Blocks :
            /\ first_tid'[c] = IF c = b THEN m_new_block_first_tid ELSE first_tid[c]
            /\ prev'[c] = IF c = b THEN m_queue_tail ELSE prev[c]
      /\ first_tid' \in [Blocks -> Nat] /\ prev' \in [Blocks -> Blocks \cup {Null}]
  BY <1>1, <1>2, <1>4
<1>9. /\ next' \in [Blocks -> Blocks \cup {Null}]
      /\ \A c \in Blocks : next'[c] = IF c = m_queue_tail THEN b ELSE next[c]
  BY <1>1, <1>2, <1>3, <1>4
<1>10. m_queue_head' = IF m_queue_tail = Null THEN b ELSE m_queue_head
  BY <1>1, <1>2
<1> QED BY <1>1, <1>2, <1>3, <1>6, <1>7, <1>8, <1>9, <1>10 DEF b

\* The new block is linked behind the tail.
LEMMA AllocChain == ASSUME QInv, NEW t \in Threads, AllocBlock(t) PROVE ChainInv'
<1> DEFINE b == NewBlock
           N == m_new_block_first_tid
<1>1. /\ b \in Blocks /\ b \notin Live /\ b # m_queue_tail /\ b # m_queue_head /\ next[b] = Null
      /\ Live' = Live \cup {b} /\ m_queue_tail' = b /\ N' = N + BlockSize
      /\ m_queue_head' = IF m_queue_tail = Null THEN b ELSE m_queue_head
      /\ \A c \in Blocks :
            /\ first_tid'[c] = IF c = b THEN N ELSE first_tid[c]
            /\ prev'[c] = IF c = b THEN m_queue_tail ELSE prev[c]
            /\ next'[c] = IF c = m_queue_tail THEN b ELSE next[c]
  BY AllocBlockFacts
<1>2. /\ N \in Nat /\ N' # 0 /\ BlockSize \in Nat /\ BlockSize > 0 /\ N' \in Nat
      /\ Live \subseteq Blocks /\ \A c \in Live : first_tid[c] \in Nat
      /\ Null \notin Blocks /\ ChainInv
  BY <1>1, QFacts, BlockFacts, LiveFacts, QParts, SMT
<1> HIDE DEF b
<1>3. CASE N = 0
  <2>1. Live = {} /\ m_queue_tail = Null
    BY <1>2, <1>3 DEF ChainInv
  <2>2. Live' = {b} /\ m_queue_head' = b /\ next'[b] = Null /\ prev'[b] = Null /\ first_tid'[b] = N
    BY <1>1, <2>1
  <2> QED BY <1>1, <1>2, <2>2, SMT DEF ChainInv
<1>4. CASE N # 0
  <2>1. /\ m_queue_tail \in Live /\ m_queue_head \in Live /\ m_queue_tail # Null
        /\ first_tid[m_queue_tail] + BlockSize = N /\ prev[m_queue_head] = Null
        /\ next[m_queue_tail] = Null
    BY <1>2, <1>4 DEF ChainInv
  <2>2. m_queue_head' = m_queue_head /\ next'[b] = Null /\ first_tid'[b] = N /\ prev'[b] = m_queue_tail
    BY <1>1, <2>1
  <2>3. \A c \in Live : /\ first_tid'[c] = first_tid[c] /\ prev'[c] = prev[c]
                        /\ next'[c] = IF c = m_queue_tail THEN b ELSE next[c]
    BY <1>1, <1>2
  <2>4. \A c \in Live' : /\ first_tid'[m_queue_head'] <= first_tid'[c]
                         /\ first_tid'[c] + BlockSize <= N'
    <3>1. ASSUME NEW c \in Live PROVE first_tid[m_queue_head] <= first_tid[c] /\ first_tid[c] + BlockSize <= N
      BY <1>2 DEF ChainInv
    <3>2. first_tid[m_queue_head] \in Nat /\ first_tid[m_queue_tail] \in Nat
      BY <1>2, <2>1
    <3>3. first_tid[m_queue_head] <= N
      BY <1>2, <2>1, <3>1, <3>2, SMT
    <3> QED BY <1>1, <1>2, <2>1, <2>2, <2>3, <3>1, <3>3, SMT
  <2>5. \A c \in Live' : c # b =>
            /\ next'[c] \in Live' /\ prev'[next'[c]] = c
            /\ first_tid'[next'[c]] = first_tid'[c] + BlockSize
    <3> SUFFICES ASSUME NEW c \in Live
                 PROVE  /\ next'[c] \in Live' /\ prev'[next'[c]] = c
                        /\ first_tid'[next'[c]] = first_tid'[c] + BlockSize
      BY <1>1
    <3>1. CASE c = m_queue_tail
      BY <1>1, <2>1, <2>2, <2>3, <3>1
    <3>2. CASE c # m_queue_tail
      <4>1. next[c] \in Live /\ prev[next[c]] = c /\ first_tid[next[c]] = first_tid[c] + BlockSize
        BY <1>2, <3>2 DEF ChainInv
      <4> QED BY <1>1, <2>3, <3>2, <4>1
    <3> QED BY <3>1, <3>2
  <2>6. \A c \in Live' : c # m_queue_head =>
            /\ prev'[c] \in Live' /\ next'[prev'[c]] = c
            /\ first_tid'[c] = first_tid'[prev'[c]] + BlockSize
    <3> SUFFICES ASSUME NEW c \in Live', c # m_queue_head
                 PROVE  /\ prev'[c] \in Live' /\ next'[prev'[c]] = c
                        /\ first_tid'[c] = first_tid'[prev'[c]] + BlockSize
      OBVIOUS
    <3>1. CASE c = b
      BY <1>1, <2>1, <2>2, <2>3, <3>1
    <3>2. CASE c # b
      <4>1. c \in Live
        BY <1>1, <3>2
      <4>2. prev[c] \in Live /\ next[prev[c]] = c /\ first_tid[c] = first_tid[prev[c]] + BlockSize
        BY <1>2, <4>1 DEF ChainInv
      <4>3. prev[c] # m_queue_tail
        BY <1>2, <2>1, <4>1, <4>2
      <4> QED BY <1>1, <2>3, <4>1, <4>2, <4>3
    <3> QED BY <3>1, <3>2
  <2>7. m_queue_tail' \in Live' /\ m_queue_head' \in Live' /\ first_tid'[m_queue_tail'] + BlockSize = N'
    BY <1>1, <2>1, <2>2
  <2>8. next'[m_queue_tail'] = Null /\ prev'[m_queue_head'] = Null
    BY <1>1, <2>1, <2>2, <2>3
  <2> QED BY <1>1, <1>2, <2>2, <2>4, <2>5, <2>6, <2>7, <2>8 DEF ChainInv
<1> QED BY <1>3, <1>4

\* The new block leaves the free list, or is one that was not in it.
LEMMA AllocFree == ASSUME QInv, NEW t \in Threads, AllocBlock(t) PROVE FreeInv'
<1> DEFINE b == NewBlock
<1>1. /\ b \in Blocks /\ b \notin Live /\ b # m_queue_tail /\ b # m_queue_head /\ next[b] = Null
      /\ Live' = Live \cup {b} /\ freed' = {}
      /\ m_queue_head' = IF m_queue_tail = Null THEN b ELSE m_queue_head
      /\ \A c \in Blocks :
            /\ first_tid'[c] = IF c = b THEN m_new_block_first_tid ELSE first_tid[c]
            /\ next'[c] = IF c = m_queue_tail THEN b ELSE next[c]
  BY AllocBlockFacts
<1>2. /\ Free' = Free \ {b} /\ Allocated <= Allocated' /\ Allocated' \in Nat /\ Allocated \in Nat
      /\ \A i, j \in 1 .. Len(m_free_task_block') :
                m_free_task_block'[i] = m_free_task_block'[j] => i = j
  BY Taken, LiveFacts, QParts, SMT DEF AllocBlock
<1>3. /\ Live \subseteq Blocks /\ Free \subseteq Blocks /\ Null \notin Blocks /\ Blocks \subseteq Nat
      /\ m_queue_tail # Null => m_queue_tail \in Live /\ m_queue_head \in Live
      /\ m_queue_tail = Null => m_queue_head = Null
  BY LiveFacts, BlockFacts, QParts DEF ChainInv
<1> HIDE DEF b
<1>4. \A c \in Blocks : c \notin Live' => next'[c] = Null
  <2> SUFFICES ASSUME NEW c \in Blocks, c \notin Live' PROVE next'[c] = Null
    OBVIOUS
  <2>1. c # m_queue_tail /\ c \notin Live
    BY <1>1, <1>3
  <2> QED BY <1>1, <2>1, QParts DEF FreeInv
<1>5. \A c \in Free' :
            /\ c <= Allocated'
            /\ m_queue_head' # Null
            /\ first_tid'[c] + BlockSize <= first_tid'[m_queue_head']
  <2> SUFFICES ASSUME NEW c \in Free' PROVE  /\ c <= Allocated'
            /\ m_queue_head' # Null
            /\ first_tid'[c] + BlockSize <= first_tid'[m_queue_head']
    OBVIOUS
  <2>1. c \in Free /\ c # b /\ c \in Blocks /\ c \in Nat
    BY <1>2, <1>3
  <2>2. c <= Allocated /\ m_queue_head # Null /\ first_tid[c] + BlockSize <= first_tid[m_queue_head]
    BY <2>1, QParts DEF FreeInv
  <2>3. m_queue_head' = m_queue_head /\ m_queue_head \in Blocks
    BY <1>1, <1>3, <2>2
  <2> QED BY <1>1, <1>2, <2>1, <2>2, <2>3, SMT
<1> QED BY <1>1, <1>2, <1>4, <1>5 DEF FreeInv

\* One turn of the allocation loop keeps the invariant; after the last one the
\* thread has the slot of its id.
LEMMA AllocBlockStep == ASSUME QInv, Derived, CountInv', Allowed, NEW t \in Threads, AllocBlock(t) PROVE QInv'
<1> USE DEF ClaimedPc, HasTid, AllocPc, AddPc, WaitPc, Pcs
<1> DEFINE b == NewBlock
           N == m_new_block_first_tid
           last == tail[t] = Null \/ tid[t] < N + BlockSize
           l == IF last THEN "a_init" ELSE "a_alloc"
<1>1. /\ pc[t] = "a_alloc" /\ tail' = [tail EXCEPT ![t] = b]
      /\ m_mutex' = IF last THEN {} ELSE m_mutex
      /\ slot' = IF last THEN [slot EXCEPT ![t] = <<b, tid[t] - N>>] ELSE slot
      /\ Goto(t, l)
      /\ UNCHANGED <<params, m_queue_tail_tid, m_finished_task, tid, tgt, wpc, qh, cur, tot, finished>>
  BY DEF AllocBlock, worker, sync
<1>2. /\ b \in Blocks /\ b \notin Live /\ Live' = Live \cup {b} /\ m_queue_tail' = b
      /\ N' = N + BlockSize /\ tail[t] = m_queue_tail
      /\ m_queue_head' = IF m_queue_tail = Null THEN b ELSE m_queue_head
      /\ \A c \in Blocks : first_tid'[c] = IF c = b THEN N ELSE first_tid[c]
      /\ first_tid' \in [Blocks -> Nat] /\ prev' \in [Blocks -> Blocks \cup {Null}]
      /\ next' \in [Blocks -> Blocks \cup {Null}]
  BY AllocBlockFacts
<1>3. /\ Allocated' \in Nat /\ Allocated \in Nat /\ Allocated <= Allocated' /\ b <= Allocated'
      /\ Allocated' <= Allocated + 1
      /\ m_block_quota' \in 0 .. Quota /\ m_free_task_block' \in Seq(Blocks)
  BY Taken, LiveFacts, QParts, SMT DEF AllocBlock
<1>4. FreeInv' /\ ChainInv'
  BY AllocFree, AllocChain
<1>5. /\ N \in Nat /\ N' \in Nat /\ tid[t] \in Nat /\ BlockSize \in Nat /\ BlockSize > 0
      /\ Live \subseteq Blocks /\ Null \notin Blocks /\ Blocks \subseteq Nat
      /\ ThreadOK(t)
  BY <1>2, QFacts, BlockFacts, LiveFacts, QParts, SMT DEF ThreadInv
<1> HIDE DEF b
<1>6. Pos' = Pos
  <2>1. CASE m_queue_tail = Null
    <3>1. N = 0 /\ m_queue_head = Null
      BY <1>5, <2>1, QParts DEF ChainInv
    <3>2. qh = 0
      BY <3>1, QParts DEF PlaceInv
    <3> QED BY <1>1, <1>2, <1>5, <2>1, <3>1, <3>2, SMT DEF Pos
  <2>2. CASE m_queue_tail # Null
    <3>1. m_queue_head \in Live
      BY <2>2, QParts DEF ChainInv
    <3> QED BY <1>1, <1>2, <1>5, <2>2, <3>1 DEF Pos
  <2> QED BY <2>1, <2>2
<1>7. \A u \in Threads : pc'[u] = IF u = t THEN l ELSE pc[u]
  BY <1>1, QFacts DEF Goto
<1>8. tail' \in [Threads -> Blocks \cup {Null}] /\ slot' \in [Threads -> (Blocks \cup {Null}) \X Int]
  BY <1>1, <1>2, <1>5, QFacts, SMT
<1>9. QTypes'
  <2>1. m_queue_head' \in Blocks \cup {Null} /\ m_queue_tail' \in Blocks \cup {Null}
    BY <1>2, QParts DEF QTypes
  <2> QED BY <1>1, <1>2, <1>3, <1>5, <1>8, <2>1, QParts DEF QTypes
<1>10. tid[t] >= N /\ (last => tid[t] < N + BlockSize) /\ tid[t] < m_queue_tail_tid /\ Pos <= tid[t]
  <2>1. tid[t] >= N /\ tid[t] < m_queue_tail_tid /\ Pos <= tid[t]
    BY <1>1, <1>5 DEF ThreadOK
  <2>2. ASSUME tail[t] = Null PROVE tid[t] < N + BlockSize
    <3>1. N = 0
      BY <1>2, <1>5, <2>2, QParts DEF ChainInv
    <3>2. tid[t] < BlockSize
      BY <1>1, <3>1 DEF Allowed, Derived
    <3> QED BY <1>5, <3>1, <3>2, SMT
  <2> QED BY <2>1, <2>2
<1>11. ThreadOK(t)'
  <2>1. tail'[t] = b /\ pc'[t] = l /\ tid'[t] = tid[t]
    BY <1>1, <1>7, QFacts
  <2>2. CASE last
    <3>1. slot'[t] = <<b, tid[t] - N>>
      BY <1>1, <2>2, QFacts
    <3>2. tid[t] - N \in Slots /\ N + (tid[t] - N) = tid[t] /\ tid[t] < N'
      BY <1>2, <1>5, <1>10, <2>2, BlockFacts, SMT
    <3>3. first_tid'[b] = N /\ b \in Live'
      BY <1>2
    <3> QED BY <1>1, <1>3, <1>6, <1>10, <2>1, <2>2, <3>1, <3>2, <3>3, SMT DEF ThreadOK
  <2>3. CASE ~last
    <3>1. N' <= tid[t]
      BY <1>2, <1>5, <2>3, SMT
    <3> QED BY <1>1, <1>2, <1>3, <1>6, <1>10, <2>1, <2>3, <3>1 DEF ThreadOK
  <2> QED BY <2>2, <2>3
<1>12. ThreadInv'
  <2> SUFFICES ASSUME NEW u \in Threads, u # t PROVE ThreadOK(u)'
    BY <1>11 DEF ThreadInv
  <2>1. ThreadOK(u) /\ tid[u] \in Nat /\ tail[u] \in Nat /\ tail[u] <= Allocated
    <3>1. tail[u] \in Blocks \cup {Null} /\ tid[u] \in Nat
      BY QFacts
    <3>2. ThreadOK(u)
      BY QParts DEF ThreadInv
    <3>3. tail[u] <= Allocated
      BY <3>2 DEF ThreadOK
    <3>4. tail[u] \in Nat
      <4>1. Null \in Nat
        BY SMT DEF Null
      <4> QED BY <1>5, <3>1, <4>1
    <3> QED BY <3>1, <3>2, <3>3, <3>4
  <2>2. /\ pc'[u] = pc[u] /\ tid'[u] = tid[u] /\ slot'[u] = slot[u] /\ tail'[u] = tail[u]
        /\ pc[u] \notin AllocPc
    <3>1. pc'[u] = pc[u] /\ tid'[u] = tid[u]
      BY <1>1, <1>7
    <3>2. tail'[u] = tail[u] /\ slot'[u] = slot[u]
      BY <1>1, QFacts
    <3>3. pc[u] \notin AllocPc
      BY <1>1, QParts DEF LockInv
    <3> QED BY <3>1, <3>2, <3>3
  <2>3. pc[u] = "a_init" => slot[u][1] \in Live' /\ first_tid'[slot[u][1]] = first_tid[slot[u][1]]
    <3>1. pc[u] = "a_init" => slot[u][1] \in Live
      BY <2>1 DEF ThreadOK
    <3> QED BY <1>2, <1>5, <3>1
  <2>4. tail[u] <= Allocated'
    BY <1>3, <2>1, SMT
  <2>5. tid[u] < N => tid[u] < N'
    BY <1>2, <1>5, <2>1, SMT
  <2> QED BY <1>1, <1>6, <2>1, <2>2, <2>3, <2>4, <2>5 DEF ThreadOK
<1>13. IdsInv'
  BY <1>1, <1>7, QParts, SMT DEF IdsInv
<1>14. SlotInv'
  <2> SUFFICES ASSUME NEW c \in Blocks, NEW i \in Slots, params[c][i] # NoTask
               PROVE  /\ c \in Live' /\ params[c][i] = first_tid'[c] + i
                      /\ Pos <= params[c][i] /\ params[c][i] < m_queue_tail_tid
                      /\ \A u \in Threads : pc'[u] \in HasTid => tid[u] # params[c][i]
    BY <1>1, <1>6 DEF SlotInv
  <2>1. /\ c \in Live /\ params[c][i] = first_tid[c] + i
        /\ Pos <= params[c][i] /\ params[c][i] < m_queue_tail_tid
        /\ \A u \in Threads : pc[u] \in HasTid => tid[u] # params[c][i]
    BY QParts DEF SlotInv
  <2>2. \A u \in Threads : pc'[u] \in HasTid => pc[u] \in HasTid
    BY <1>1, <1>7, SMT
  <2> QED BY <1>2, <2>1, <2>2
<1>15. LockInv'
  <2>1. m_mutex = {t}
    BY <1>1, QParts DEF LockInv
  <2>2. \A u \in Threads : u # t => pc[u] \notin AllocPc
    BY <1>1, QParts DEF LockInv
  <2> QED BY <1>1, <1>7, <2>1, <2>2 DEF LockInv
<1>16. PlaceInv'
  <2>1. pc'[Worker] # "idle" => wpc = "process" /\ WorkerAdds
    BY <1>1, <1>7, QParts DEF PlaceInv, Threads
  <2>2. m_queue_head' = Null => qh = 0
    BY <1>2, <1>5, QParts DEF PlaceInv
  <2> QED BY <1>1, <1>6, <2>1, <2>2, QParts DEF PlaceInv
<1>17. BeyondInv'
  <2>1. N <= N'
    BY <1>2, <1>5, SMT
  <2> QED BY <1>1, <1>5, <2>1, BeyondSame
<1>18. WaitInv'
  BY <1>1, <1>7, QParts DEF WaitInv, Threads
<1>19. BoundInv'
  <2>1. InFlight' = InFlight
    BY <1>1, <1>7 DEF InFlight
  <2>2. BlockSize * Allocated' <= N'
    <3>1. BlockSize * Allocated <= N
      BY QParts DEF BoundInv
    <3>2. Allocated' = Allocated \/ Allocated' = Allocated + 1
      BY <1>3, SMT
    <3>3. BlockSize * (Allocated + 1) = BlockSize * Allocated + BlockSize /\ BlockSize * Allocated \in Nat
      BY <1>3, <1>5, SMT
    <3> QED BY <1>2, <1>5, <3>1, <3>2, <3>3, SMT
  <2>3. QuotaSuffices => \A u \in Threads : pc'[u] \notin {"a_sleeping", "a_woken"}
    BY <1>7, QParts DEF BoundInv
  <2> QED BY <1>1, <2>1, <2>2, <2>3, QParts DEF BoundInv
<1> QED BY <1>4, <1>9, <1>12, <1>13, <1>14, <1>15, <1>16, <1>17, <1>18, <1>19 DEF QInv

-----------------------------------------------------------------------------
(* The worker.                                                             *)

\* A step of the worker that leaves blocks, slots and threads alone.
LEMMA WorkerQuiet ==
    ASSUME QInv, UNCHANGED <<lists, params, qh, pc, tail, tid, slot, tgt, m_queue_tail_tid, m_mutex>>,
           m_finished_task' \in Nat, m_finished_task <= m_finished_task'
    PROVE  /\ QTypes' /\ LockInv' /\ FreeInv' /\ ChainInv' /\ ThreadInv' /\ IdsInv'
           /\ SlotInv' /\ BeyondInv' /\ WaitInv' /\ BoundInv' /\ Pos' = Pos
<1>1. /\ UNCHANGED <<first_tid, prev, next, freed, m_queue_head, m_queue_tail>>
      /\ UNCHANGED <<m_new_block_first_tid, m_block_quota, m_free_task_block, params, qh>>
      /\ UNCHANGED <<pc, tail, tid, slot, tgt, m_queue_tail_tid, m_mutex>>
  BY DEF lists
<1>2. Live' = Live /\ Allocated' = Allocated /\ FreeInv' /\ ChainInv' /\ Pos' = Pos
  BY <1>1, ListsSame, QParts DEF Pos
<1>3. QTypes'
  BY <1>1, QParts DEF QTypes
<1>4. LockInv' /\ IdsInv'
  BY <1>1, QParts DEF LockInv, IdsInv
<1>5. ThreadInv'
  BY <1>1, <1>2, QParts DEF ThreadInv, ThreadOK
<1>6. SlotInv'
  BY <1>1, <1>2, QParts, SMT DEF SlotInv
<1>7. BeyondInv' /\ BoundInv'
  <2>1. Claimed' = Claimed /\ InFlight' = InFlight
    BY <1>1 DEF Claimed, InFlight
  <2> QED BY <1>1, <1>2, <2>1, QParts DEF BeyondInv, BoundInv
<1>8. WaitInv'
  <2>1. \A p \in Producers : tgt[p] \in Nat
    BY QFacts DEF Threads
  <2> QED BY <1>1, <2>1, QFacts, QParts, SMT DEF WaitInv
<1> QED BY <1>2, <1>3, <1>4, <1>5, <1>6, <1>7, <1>8

\* The steps of the worker between a fetch and the next, but for the recycling
\* of the head block and the slot it reads.
LEMMA WorkerCounting ==
    ASSUME QInv, CountInv', WorkerFetch \/ WorkerProcess \/ WorkerCommit \/ WorkerCount \/ WorkerExit
    PROVE  QInv'
<1>1. UNCHANGED <<lists, params, qh, pc, tail, tid, slot, tgt, m_queue_tail_tid, m_mutex>>
  BY DEF WorkerFetch, WorkerProcess, WorkerCommit, WorkerCount, WorkerExit, blocks, queue,
     lists, locals
<1>2. m_finished_task' \in Nat /\ m_finished_task <= m_finished_task'
  <2>1. m_finished_task' = m_finished_task \/ m_finished_task' = m_finished_task + 1
    BY DEF WorkerFetch, WorkerProcess, WorkerCommit, WorkerCount, WorkerExit
  <2> QED BY <2>1, QFacts, SMT
<1>3. /\ QTypes' /\ LockInv' /\ FreeInv' /\ ChainInv' /\ ThreadInv' /\ IdsInv'
      /\ SlotInv' /\ BeyondInv' /\ WaitInv' /\ BoundInv' /\ Pos' = Pos
  BY <1>1, <1>2, WorkerQuiet
<1>4. m_queue_head' = m_queue_head /\ qh' = qh /\ pc' = pc
  BY <1>1 DEF lists
<1>5. PlaceInv /\ qh \in 0 .. BlockSize /\ BlockSize \in Nat
  BY BlockFacts, QParts DEF QTypes
<1>6. CASE WorkerFetch
  <2>1. /\ wpc = "fetch" /\ finished < tot /\ wpc' = IF qh = BlockSize THEN "head" ELSE "param"
        /\ UNCHANGED <<cur, tot, finished>>
    BY <1>6 DEF WorkerFetch, Sync!Fetch, WGoto
  <2>2. pc[Worker] = "idle"
    BY <1>5, <2>1 DEF PlaceInv
  <2> QED BY <1>3, <1>4, <1>5, <2>1, <2>2, SMT DEF PlaceInv, QInv
<1>7. CASE WorkerProcess
  <2>1. /\ wpc = "process" /\ pc[Worker] = "idle" /\ cur' = NoTask /\ wpc' = "commit"
        /\ UNCHANGED <<tot, finished>>
    BY <1>7 DEF WorkerProcess, WGoto, sync
  <2> QED BY <1>3, <1>4, <1>5, <2>1 DEF PlaceInv, QInv
<1>8. CASE WorkerCommit
  <2>1. wpc = "commit" /\ wpc' = "count" /\ finished' = finished + 1 /\ UNCHANGED <<cur, tot>>
    BY <1>8 DEF WorkerCommit, Sync!Commit, WGoto
  <2> QED BY <1>3, <1>4, <1>5, <2>1 DEF PlaceInv, QInv
<1>9. CASE WorkerCount \/ WorkerExit
  <2>1. /\ wpc \in {"count", "none", "fetch"} /\ wpc' \in {"fetch", "exit"}
        /\ UNCHANGED <<cur, tot, finished>>
    BY <1>9 DEF WorkerCount, WorkerExit, Sync!Exit, WGoto, sync
  <2> QED BY <1>3, <1>4, <1>5, <2>1 DEF PlaceInv, QInv
<1> QED BY <1>6, <1>7, <1>8, <1>9

\* A spurious wakeup.
LEMMA SpuriousStep == ASSUME QInv, CountInv', SpuriousWakeup PROVE QInv'
<1> USE DEF ClaimedPc, HasTid, AllocPc, AddPc, WaitPc, Pcs
<1>1. /\ UNCHANGED <<m_queue_tail_tid, m_finished_task, tail, tid, slot, tgt, m_mutex>>
      /\ UNCHANGED <<lists, params, wpc, qh, cur, tot, finished>>
  BY DEF SpuriousWakeup, blocks, queue, worker, sync, lists, locals
<1>2. PICK t \in Threads : pc[t] = "a_sleeping" /\ Goto(t, "a_woken")
  BY DEF SpuriousWakeup
<1>3. \A u \in Threads : pc'[u] = IF u = t THEN "a_woken" ELSE pc[u]
  BY <1>2, QFacts DEF Goto
<1>4. /\ Live' = Live /\ Allocated' = Allocated /\ Pos' = Pos
      /\ UNCHANGED <<first_tid, m_new_block_first_tid, m_queue_tail>>
  BY <1>1, ListsSame DEF Pos, lists
<1>5. ThreadOK(t)'
  BY <1>1, <1>2, <1>3, <1>4, QParts DEF ThreadOK, ThreadInv
<1>6. QTypes' /\ FreeInv' /\ ChainInv' /\ ThreadInv' /\ IdsInv' /\ SlotInv'
  BY <1>1, <1>2, <1>5, QFacts, OneThread, SMT
<1>7. LockInv'
  BY <1>1, <1>2, <1>3, QParts DEF LockInv
<1>8. PlaceInv'
  <2>1. t = Worker => wpc = "process" /\ WorkerAdds
    BY <1>2, QParts DEF PlaceInv
  <2> QED BY <1>1, <1>2, <2>1, QFacts, PlaceSame, SMT DEF lists
<1>9. BeyondInv'
  BY <1>1, <1>2, QFacts, BeyondSame, SMT DEF lists
<1>10. WaitInv'
  BY <1>1, <1>3, QParts DEF WaitInv, Threads
<1>11. BoundInv'
  <2>1. ~QuotaSuffices
    BY <1>2, QParts DEF BoundInv
  <2> QED BY <1>1, <1>2, <2>1, BoundSame DEF lists
<1> QED BY <1>6, <1>7, <1>8, <1>9, <1>10, <1>11 DEF QInv

\* The worker reads the slots in the order of the ids.
LEMMA TakeStep == ASSUME QInv, CountInv', WorkerTake PROVE QInv'
<1> USE DEF ClaimedPc, HasTid, AllocPc, AddPc, WaitPc, Pcs
<1> DEFINE h == m_queue_head
<1>1. /\ wpc = "param" /\ h # Null /\ params[h][qh] # NoTask /\ cur' = params[h][qh]
      /\ params' = [params EXCEPT ![h][qh] = NoTask] /\ qh' = qh + 1 /\ wpc' = "process"
      /\ UNCHANGED <<m_queue_tail_tid, m_finished_task, m_mutex, tail, tid, slot, tgt>>
      /\ UNCHANGED <<lists, pc, tot, finished>>
  BY DEF WorkerTake, WGoto, queue, locals, sync, lists
<1>2. /\ UNCHANGED <<first_tid, prev, next, m_queue_head, m_queue_tail>>
      /\ UNCHANGED <<m_new_block_first_tid, m_block_quota, m_free_task_block>>
      /\ Live' = Live /\ Allocated' = Allocated /\ FreeInv' /\ ChainInv'
  BY <1>1, ListsSame, QParts DEF lists
<1>3. /\ h \in Blocks /\ first_tid[h] \in Nat /\ qh \in Nat /\ qh < BlockSize /\ qh \in Slots
      /\ Pos = first_tid[h] + qh /\ Pos = finished /\ Pos' = Pos + 1 /\ BlockSize \in Nat
  <2>1. h \in Blocks /\ first_tid[h] \in Nat /\ qh \in Nat
    BY <1>1, BlockFacts, QParts, SMT DEF QTypes
  <2>2. qh < BlockSize /\ Pos = finished
    BY <1>1, QParts DEF PlaceInv
  <2> QED BY <1>1, <1>2, <2>1, <2>2, BlockFacts, SMT DEF Pos
<1>4. /\ h \in Live /\ params[h][qh] = Pos
      /\ \A t \in Threads : pc[t] \in HasTid => tid[t] # Pos
  BY <1>1, <1>3, QParts DEF SlotInv
<1>5. /\ params' \in [Blocks -> [Slots -> Nat \cup {NoTask}]]
      /\ \A c \in Blocks, i \in Slots :
            params'[c][i] = IF c = h /\ i = qh THEN NoTask ELSE params[c][i]
  <2>1. params \in [Blocks -> [Slots -> Nat \cup {NoTask}]]
    BY QParts DEF QTypes
  <2> QED BY <1>1, <1>3, <2>1
<1>6. QTypes'
  <2>1. qh' \in 0 .. BlockSize
    BY <1>1, <1>3, SMT
  <2> QED BY <1>1, <1>2, <1>5, <2>1, QParts DEF QTypes
<1>7. ThreadInv'
  <2> SUFFICES ASSUME NEW t \in Threads PROVE ThreadOK(t)'
    BY DEF ThreadInv
  <2>1. ThreadOK(t) /\ tid[t] \in Nat
    BY QFacts, QParts DEF ThreadInv
  <2>2. pc[t] \in HasTid => Pos' <= tid[t]
    <3>1. pc[t] \in HasTid => Pos <= tid[t]
      BY <2>1 DEF ThreadOK
    <3> QED BY <1>3, <1>4, <2>1, <3>1, SMT
  <2> QED BY <1>1, <1>2, <2>1, <2>2 DEF ThreadOK
<1>8. IdsInv' /\ LockInv'
  BY <1>1, QParts DEF IdsInv, LockInv
<1>9. SlotInv'
  <2> SUFFICES ASSUME NEW c \in Blocks, NEW i \in Slots, params'[c][i] # NoTask
               PROVE  /\ c \in Live /\ params'[c][i] = first_tid[c] + i
                      /\ Pos' <= params'[c][i] /\ params'[c][i] < m_queue_tail_tid
                      /\ \A u \in Threads : pc[u] \in HasTid => tid[u] # params'[c][i]
    BY <1>1, <1>2 DEF SlotInv
  <2>1. params'[c][i] = params[c][i] /\ ~(c = h /\ i = qh) /\ i \in Nat
    BY <1>5, BlockFacts
  <2>2. /\ c \in Live /\ params[c][i] = first_tid[c] + i
        /\ Pos <= params[c][i] /\ params[c][i] < m_queue_tail_tid
        /\ \A u \in Threads : pc[u] \in HasTid => tid[u] # params[c][i]
    BY <2>1, QParts DEF SlotInv
  <2>3. first_tid[c] \in Nat
    BY QParts DEF QTypes
  <2>4. Pos # params[c][i]
    <3>1. CASE c = h
      BY <1>3, <2>1, <2>2, <3>1, SMT
    <3>2. CASE c # h
      <4>1. prev[c] \in Live /\ first_tid[c] = first_tid[prev[c]] + BlockSize
        BY <2>2, <3>2, QParts DEF ChainInv
      <4>2. first_tid[h] <= first_tid[prev[c]] /\ first_tid[prev[c]] \in Nat
        BY <4>1, LiveFacts, QParts DEF ChainInv
      <4> QED BY <1>3, <2>1, <2>2, <2>3, <4>1, <4>2, SMT
    <3> QED BY <3>1, <3>2
  <2>5. Pos' <= params[c][i]
    BY <1>3, <2>1, <2>2, <2>3, <2>4, SMT
  <2> QED BY <2>1, <2>2, <2>5
<1>10. PlaceInv'
  <2>1. pc[Worker] = "idle" /\ finished < tot
    BY <1>1, QParts DEF PlaceInv
  <2> QED BY <1>1, <1>2, <1>3, <1>4, <2>1 DEF PlaceInv
<1>11. BeyondInv' /\ BoundInv'
  <2>1. Claimed' = Claimed /\ InFlight' = InFlight
    BY <1>1 DEF Claimed, InFlight
  <2> QED BY <1>1, <1>2, <2>1, QParts DEF BeyondInv, BoundInv
<1>12. WaitInv'
  BY <1>1, QParts DEF WaitInv
<1> QED BY <1>2, <1>6, <1>7, <1>8, <1>9, <1>10, <1>11, <1>12 DEF QInv

\* The steps of the worker: taking a parameter starts the task that is next in
\* the order of the ids, counting it finishes that task.
LEMMA WorkerFifo ==
    ASSUME QInv, CountInv', WorkerStep \/ WorkerExit \/ SpuriousWakeup
    PROVE  [Fifo!Next]_(Fifo!vars)
<1> USE DEF VPc
<1>1. UNCHANGED <<m_queue_tail_tid, tgt>>
  BY DEF WorkerStep, WorkerFetch, WorkerNextHead, RecycleHead, WorkerTake, WorkerProcess,
     WorkerCommit, WorkerCount, WorkerExit, SpuriousWakeup, locals
<1>2. Waits' = Waits
  <2>1. pc' = pc \/ \E t \in Threads : pc[t] = "a_sleeping" /\ Goto(t, "a_woken")
    BY DEF WorkerStep, WorkerFetch, WorkerNextHead, NotifyOne, WorkerTake, WorkerProcess,
       WorkerCommit, WorkerCount, WorkerExit, SpuriousWakeup
  <2>2. CASE pc' = pc
    BY <1>1, <2>2 DEF Waits
  <2> QED BY <1>1, <2>1, <2>2, QFacts, WaitsSame
<1>3. CASE WorkerTake
  <2> DEFINE h == m_queue_head
  <2>1. /\ wpc = "param" /\ wpc' = "process" /\ h # Null /\ params[h][qh] # NoTask
        /\ params' = [params EXCEPT ![h][qh] = NoTask] /\ m_finished_task' = m_finished_task
        /\ h' = h /\ first_tid' = first_tid /\ qh' = qh + 1
    BY <1>3 DEF WorkerTake, WGoto, queue
  <2>2. ~Running /\ Running' = TRUE
    BY <2>1 DEF Running
  <2>3. Pos = m_finished_task /\ Pos = first_tid[h] + qh
    <3>1. Pos = m_finished_task
      BY <2>1, Behind
    <3> QED BY <2>1, <3>1 DEF Pos
  <2>4. h \in Blocks /\ qh \in Slots /\ first_tid[h] \in Nat
    <3>1. qh < BlockSize /\ qh \in Nat
      BY <2>1, BlockFacts, QParts, SMT DEF QTypes, PlaceInv
    <3> QED BY <2>1, <3>1, BlockFacts, QParts DEF QTypes
  <2>5. params[h][qh] = m_finished_task
    BY <2>1, <2>3, <2>4, QParts DEF SlotInv
  <2>6. m_finished_task \in Ready
    BY <2>1, <2>4, <2>5, SMT DEF Ready
  <2>7. Ready' = Ready \ {m_finished_task}
    <3>1. params \in [Blocks -> [Slots -> Nat \cup {NoTask}]]
      BY QParts DEF QTypes
    <3>2. Pos' = Pos + 1 /\ SlotInv'
      <4>1. QInv'
        BY <1>3, TakeStep
      <4>2. Pos' = first_tid[h] + (qh + 1)
        BY <2>1 DEF Pos
      <4> QED BY <2>3, <2>4, <4>1, <4>2, BlockFacts, SMT DEF QInv
    <3> HIDE DEF h
    <3>3. \A c \in Blocks, k \in Slots :
              params'[c][k] = IF c = h /\ k = qh THEN NoTask ELSE params[c][k]
      BY <2>1, <2>4, <3>1
    <3>4. m_finished_task \notin Ready'
      <4> SUFFICES ASSUME NEW c \in Blocks, NEW k \in Slots, params'[c][k] = m_finished_task,
                          params'[c][k] # NoTask
                   PROVE  FALSE
        BY SMT DEF Ready
      <4>1. Pos + 1 <= m_finished_task
        BY <3>2 DEF SlotInv
      <4> QED BY <2>3, <4>1, QFacts, SMT
    <3>5. Ready' \subseteq Ready
      BY <3>3, SMT DEF Ready
    <3>6. \A x \in Ready : x # m_finished_task => x \in Ready'
      <4> SUFFICES ASSUME NEW c \in Blocks, NEW k \in Slots, params[c][k] # m_finished_task,
                          params[c][k] # NoTask
                   PROVE  params[c][k] \in Ready'
        BY SMT DEF Ready
      <4>1. params'[c][k] = params[c][k]
        BY <2>5, <3>3
      <4> QED BY <4>1, SMT DEF Ready
    <3> QED BY <3>4, <3>5, <3>6
  <2>8. Fifo!Start
    BY <1>1, <1>2, <2>1, <2>2, <2>6, <2>7 DEF Fifo!Start
  <2> QED BY <2>8 DEF Fifo!Next
<1>4. CASE WorkerCount
  <2>1. /\ wpc = "count" /\ wpc' = "fetch" /\ m_finished_task' = m_finished_task + 1
        /\ params' = params
    BY <1>4 DEF WorkerCount, WGoto, blocks
  <2>2. Running /\ Running' = FALSE /\ Ready' = Ready
    BY <2>1, SMT DEF Running, Ready
  <2>3. Fifo!Finish
    BY <1>1, <1>2, <2>1, <2>2 DEF Fifo!Finish
  <2> QED BY <2>3 DEF Fifo!Next
<1>5. CASE ~WorkerTake /\ ~WorkerCount
  <2>1. UNCHANGED <<params, m_finished_task>>
    BY <1>5 DEF WorkerStep, WorkerFetch, WorkerNextHead, RecycleHead, WorkerProcess,
       WorkerCommit, WorkerExit, SpuriousWakeup, blocks
  <2>2. Running' = Running
    BY <1>5, SMT DEF WorkerStep, WorkerFetch, WorkerNextHead, RecycleHead, WorkerProcess,
       WorkerCommit, WorkerExit, SpuriousWakeup, worker, WGoto, Running
  <2> QED BY <1>1, <1>2, <2>1, <2>2, Unseen
<1> QED BY <1>3, <1>4, <1>5

-----------------------------------------------------------------------------
(* The worker recycles the head block.                                     *)

\* When the head block is used up there is a block behind it.
LEMMA NextThere ==
    ASSUME QInv, Derived, wpc = "head"
    PROVE  /\ m_queue_head \in Live /\ next[m_queue_head] \in Live
           /\ m_queue_head # m_queue_tail /\ m_new_block_first_tid # 0
           /\ qh = BlockSize
<1>1. tot <= m_new_block_first_tid
  BY DEF Derived
<1>2. finished < tot /\ Pos = finished /\ qh = BlockSize
  BY QParts DEF PlaceInv
<1>3. finished \in Nat /\ tot \in Nat /\ m_new_block_first_tid \in Nat
  BY QParts DEF CountInv, CountTypes, QTypes
<1>4. m_new_block_first_tid # 0
  BY <1>1, <1>2, <1>3, SMT
<1>5. m_queue_head \in Live /\ first_tid[m_queue_tail] + BlockSize = m_new_block_first_tid
  BY <1>4, QParts DEF ChainInv
<1>6. m_queue_head # m_queue_tail
  <2>1. Pos = first_tid[m_queue_head] + BlockSize
    BY <1>2, <1>5, BlockFacts DEF Pos, Live
  <2> QED BY <1>1, <1>2, <1>3, <1>5, <2>1, SMT
<1> QED BY <1>2, <1>4, <1>5, <1>6, QParts DEF ChainInv

\* The head block goes to the free list and the block behind it becomes the
\* head.
LEMMA RecycleFacts ==
    ASSUME QInv, Derived, RecycleHead
    PROVE  LET h == m_queue_head
               k == next[m_queue_head]
           IN  /\ h \in Live /\ k \in Live /\ h # k /\ h # m_queue_tail /\ qh = BlockSize
               /\ m_new_block_first_tid # 0 /\ first_tid[k] = first_tid[h] + BlockSize /\ prev[k] = h
               /\ m_queue_head' = k /\ m_queue_tail' = m_queue_tail
               /\ next' \in [Blocks -> Blocks \cup {Null}] /\ prev' \in [Blocks -> Blocks \cup {Null}]
               /\ \A c \in Blocks : /\ next'[c] = IF c = h THEN Null ELSE next[c]
                                    /\ prev'[c] = IF c = k THEN Null ELSE prev[c]
               /\ Allocated' = Allocated /\ Free' = Free \cup {h} /\ Live' = Live \ {h}
               /\ m_free_task_block' \in Seq(Blocks)
               /\ \A i, j \in 1 .. Len(m_free_task_block') :
                        m_free_task_block'[i] = m_free_task_block'[j] => i = j
<1> DEFINE h == m_queue_head
           k == next[m_queue_head]
           s == m_free_task_block
<1>1. /\ wpc = "head" /\ s' = Append(s, h) /\ h' = k /\ next' = [next EXCEPT ![h] = Null]
      /\ IF k # Null THEN prev' = [prev EXCEPT ![k] = Null] /\ UNCHANGED m_queue_tail
                     ELSE m_queue_tail' = Null /\ UNCHANGED prev
      /\ m_block_quota' = m_block_quota
  BY DEF RecycleHead
<1>2. h \in Live /\ k \in Live /\ h # m_queue_tail /\ m_new_block_first_tid # 0 /\ qh = BlockSize
  BY <1>1, NextThere
<1>3. first_tid[k] = first_tid[h] + BlockSize /\ prev[k] = h
  BY <1>2, QParts DEF ChainInv
<1>4. h \in Blocks /\ k \in Blocks /\ k # Null /\ h \notin Free /\ h # k
  <2>1. first_tid[h] \in Nat
    BY <1>2, LiveFacts, QParts
  <2> QED BY <1>2, <1>3, <2>1, LiveFacts, BlockFacts, QParts, SMT
<1>5. next \in [Blocks -> Blocks \cup {Null}] /\ prev \in [Blocks -> Blocks \cup {Null}]
  BY QParts DEF QTypes
<1>6. /\ s \in Seq(Blocks) /\ Len(s) \in Nat /\ s' \in Seq(Blocks) /\ Len(s') = Len(s) + 1
      /\ \A i \in 1 .. Len(s) : s'[i] = s[i]
      /\ s'[Len(s) + 1] = h
      /\ \A i, j \in 1 .. Len(s) : s[i] = s[j] => i = j
  <2>1. s \in Seq(Blocks) /\ Len(s) \in Nat
    BY QParts, SMT DEF QTypes
  <2>2. s' = Append(s, h)
    BY <1>1
  <2>3. \A i, j \in 1 .. Len(s) : s[i] = s[j] => i = j
    BY QParts DEF FreeInv
  <2> HIDE DEF h, k, s
  <2> QED BY <1>4, <2>1, <2>2, <2>3, SMT
<1> HIDE DEF h, k, s
<1>7. Free' = Free \cup {h}
  <2>1. Free = {s[i] : i \in 1 .. Len(s)} /\ Free' = {s'[i] : i \in 1 .. Len(s')}
    BY DEF Free, s
  <2> QED BY <1>6, <2>1, SMT
<1>8. \A i, j \in 1 .. Len(s') : s'[i] = s'[j] => i = j
  <2>1. \A i \in 1 .. Len(s) : s[i] # h
    BY <1>4 DEF Free, s
  <2>2. \A i \in 1 .. Len(s') : i # Len(s) + 1 => i \in 1 .. Len(s)
    BY <1>6, SMT
  <2> QED BY <1>6, <2>1, <2>2
<1>9. Allocated' = Allocated
  BY <1>1 DEF Allocated
<1>10. Live' = Live \ {h}
  BY <1>7, <1>9 DEF Live
<1>11. /\ next' \in [Blocks -> Blocks \cup {Null}] /\ prev' \in [Blocks -> Blocks \cup {Null}]
       /\ \A c \in Blocks : /\ next'[c] = IF c = h THEN Null ELSE next[c]
                            /\ prev'[c] = IF c = k THEN Null ELSE prev[c]
       /\ m_queue_tail' = m_queue_tail
  BY <1>1, <1>4, <1>5
<1> QED BY <1>1, <1>2, <1>3, <1>4, <1>6, <1>7, <1>8, <1>9, <1>10, <1>11 DEF h, k, s

\* Recycling the head keeps the list of the blocks and the free list.
LEMMA RecycleLists == ASSUME QInv, Derived, RecycleHead PROVE ChainInv' /\ FreeInv'
<1> DEFINE h == m_queue_head
           k == next[m_queue_head]
           N == m_new_block_first_tid
<1>1. /\ h \in Live /\ k \in Live /\ h # k /\ h # m_queue_tail
      /\ N # 0 /\ first_tid[k] = first_tid[h] + BlockSize /\ prev[k] = h
      /\ m_queue_head' = k /\ m_queue_tail' = m_queue_tail
      /\ \A c \in Blocks : /\ next'[c] = IF c = h THEN Null ELSE next[c]
                           /\ prev'[c] = IF c = k THEN Null ELSE prev[c]
      /\ Allocated' = Allocated /\ Free' = Free \cup {h} /\ Live' = Live \ {h}
      /\ \A i, j \in 1 .. Len(m_free_task_block') :
                        m_free_task_block'[i] = m_free_task_block'[j] => i = j
  BY RecycleFacts
<1>2. first_tid' = first_tid /\ freed' = freed /\ N' = N
  BY DEF RecycleHead
<1>3. /\ Live \subseteq Blocks /\ Free \subseteq Blocks /\ \A c \in Live : first_tid[c] \in Nat
      /\ Null \notin Blocks /\ BlockSize \in Nat /\ BlockSize > 0 /\ N \in Nat
      /\ ChainInv /\ FreeInv /\ \A c \in Live : c <= Allocated
      /\ first_tid \in [Blocks -> Nat]
  BY LiveFacts, BlockFacts, QFacts, QParts DEF QTypes
<1>4. h = m_queue_head /\ k = next[h]
  OBVIOUS
<1> HIDE DEF h, k
<1>5. /\ m_queue_tail \in Live /\ next[m_queue_tail] = Null
      /\ first_tid[m_queue_tail] + BlockSize = N
      /\ \A c \in Live : first_tid[h] <= first_tid[c] /\ first_tid[c] + BlockSize <= N
      /\ \A c \in Live : c # m_queue_tail =>
            /\ next[c] \in Live /\ prev[next[c]] = c
            /\ first_tid[next[c]] = first_tid[c] + BlockSize
      /\ \A c \in Live : c # h =>
            /\ prev[c] \in Live /\ next[prev[c]] = c
            /\ first_tid[c] = first_tid[prev[c]] + BlockSize
  BY <1>1, <1>3, <1>4 DEF ChainInv
<1>6. ChainInv'
  <2>1. /\ k \in Live' /\ m_queue_tail \in Live' /\ prev'[k] = Null /\ next'[m_queue_tail] = Null
    BY <1>1, <1>3, <1>5
  <2>2. \A c \in Live' : first_tid[k] <= first_tid[c]
    <3> SUFFICES ASSUME NEW c \in Live' PROVE first_tid[k] <= first_tid[c]
      OBVIOUS
    <3>1. c \in Live /\ c # h
      BY <1>1
    <3>2. prev[c] \in Live /\ first_tid[c] = first_tid[prev[c]] + BlockSize
      BY <1>5, <3>1
    <3>3. first_tid[h] <= first_tid[prev[c]] /\ first_tid[h] \in Nat /\ first_tid[prev[c]] \in Nat
      BY <1>1, <1>3, <1>5, <3>2
    <3> QED BY <1>1, <1>3, <3>2, <3>3, SMT
  <2>3. \A c \in Live' : c # m_queue_tail =>
            /\ next'[c] \in Live' /\ prev'[next'[c]] = c
            /\ first_tid[next'[c]] = first_tid[c] + BlockSize
    <3> SUFFICES ASSUME NEW c \in Live', c # m_queue_tail
                 PROVE  /\ next'[c] \in Live' /\ prev'[next'[c]] = c
                        /\ first_tid[next'[c]] = first_tid[c] + BlockSize
      OBVIOUS
    <3>1. c \in Live /\ c # h /\ next'[c] = next[c]
      BY <1>1, <1>3
    <3>2. next[c] \in Live /\ prev[next[c]] = c /\ first_tid[next[c]] = first_tid[c] + BlockSize
      BY <1>5, <3>1
    <3>3. next[c] # h
      BY <1>1, <1>3, <1>5, <3>1, <3>2, SMT
    <3>4. next[c] # k
      BY <1>1, <3>1, <3>2
    <3> QED BY <1>1, <1>3, <3>1, <3>2, <3>3, <3>4
  <2>4. \A c \in Live' : c # k =>
            /\ prev'[c] \in Live' /\ next'[prev'[c]] = c
            /\ first_tid[c] = first_tid[prev'[c]] + BlockSize
    <3> SUFFICES ASSUME NEW c \in Live', c # k
                 PROVE  /\ prev'[c] \in Live' /\ next'[prev'[c]] = c
                        /\ first_tid[c] = first_tid[prev'[c]] + BlockSize
      OBVIOUS
    <3>1. c \in Live /\ c # h /\ prev'[c] = prev[c]
      BY <1>1, <1>3
    <3>2. prev[c] \in Live /\ next[prev[c]] = c /\ first_tid[c] = first_tid[prev[c]] + BlockSize
      BY <1>5, <3>1
    <3>3. prev[c] # h
      BY <1>4, <3>2
    <3> QED BY <1>1, <1>3, <3>1, <3>2, <3>3
  <2>5. \A c \in Live' : first_tid[c] + BlockSize <= N
    BY <1>1, <1>5
  <2> QED BY <1>1, <1>2, <1>5, <2>1, <2>2, <2>3, <2>4, <2>5 DEF ChainInv
<1>7. FreeInv'
  <2>1. \A c \in Blocks : c \notin Live' => next'[c] = Null
    BY <1>1, <1>3 DEF FreeInv
  <2>2. \A c \in Free' : c <= Allocated /\ k # Null /\ first_tid[c] + BlockSize <= first_tid[k]
    <3> SUFFICES ASSUME NEW c \in Free'
                 PROVE  c <= Allocated /\ k # Null /\ first_tid[c] + BlockSize <= first_tid[k]
      OBVIOUS
    <3>1. k # Null /\ first_tid[h] \in Nat /\ first_tid[k] \in Nat
      BY <1>1, <1>3
    <3>2. CASE c = h
      BY <1>1, <1>3, <3>1, <3>2, SMT
    <3>3. CASE c # h
      <4>1. c \in Free /\ c \in Blocks
        BY <1>1, <1>3, <3>3
      <4>2. c <= Allocated /\ first_tid[c] + BlockSize <= first_tid[h] /\ first_tid[c] \in Nat
        BY <1>3, <1>4, <4>1 DEF FreeInv
      <4> QED BY <1>1, <1>3, <3>1, <4>2, SMT
    <3> QED BY <3>2, <3>3
  <2> QED BY <1>1, <1>2, <1>3, <2>1, <2>2 DEF FreeInv
<1> QED BY <1>6, <1>7

\* The recycling of the head block, with the wakeup of a thread that waits for
\* a block.
LEMMA NextHeadStep == ASSUME QInv, Derived, CountInv', WorkerNextHead PROVE QInv'
<1> USE DEF ClaimedPc, HasTid, AllocPc, AddPc, WaitPc, Pcs
<1> DEFINE h == m_queue_head
           k == next[m_queue_head]
<1>1. /\ RecycleHead /\ qh' = 0 /\ wpc = "head" /\ wpc' = "param" /\ m_mutex = {}
      /\ UNCHANGED <<first_tid, params, m_new_block_first_tid, m_block_quota, m_queue_tail_tid>>
      /\ UNCHANGED <<m_finished_task, m_mutex, tail, tid, slot, tgt, cur, tot, finished>>
  BY DEF WorkerNextHead, RecycleHead, WGoto, locals, sync
<1>2. /\ h \in Live /\ k \in Live /\ h # k /\ qh = BlockSize
      /\ first_tid[k] = first_tid[h] + BlockSize
      /\ m_queue_head' = k /\ m_queue_tail' = m_queue_tail
      /\ next' \in [Blocks -> Blocks \cup {Null}] /\ prev' \in [Blocks -> Blocks \cup {Null}]
      /\ Allocated' = Allocated /\ Live' = Live \ {h}
      /\ m_free_task_block' \in Seq(Blocks)
  BY <1>1, RecycleFacts
<1>3. ChainInv' /\ FreeInv'
  BY <1>1, RecycleLists
<1>4. /\ h \in Blocks /\ k \in Blocks /\ h # Null /\ k # Null /\ Live \subseteq Blocks
      /\ first_tid[h] \in Nat /\ BlockSize \in Nat /\ h = m_queue_head
  BY <1>2, LiveFacts, BlockFacts, QParts
<1> HIDE DEF h, k
<1>5. Pos' = Pos /\ Pos = first_tid[h] + BlockSize
  BY <1>1, <1>2, <1>4, SMT DEF Pos
<1>6. \A u \in Threads : pc'[u] = pc[u] \/ (pc[u] = "a_sleeping" /\ pc'[u] = "a_woken")
  <2>1. pc' = pc \/ \E t \in Threads : pc[t] = "a_sleeping" /\ pc' = [pc EXCEPT ![t] = "a_woken"]
    BY DEF WorkerNextHead, NotifyOne, Goto
  <2> QED BY <2>1, QFacts
<1>7. QTypes'
  <2>1. 0 \in 0 .. BlockSize
    BY <1>4, SMT
  <2> QED BY <1>1, <1>2, <1>4, <2>1, QParts DEF QTypes
<1>8. ThreadInv'
  <2> SUFFICES ASSUME NEW u \in Threads PROVE ThreadOK(u)'
    BY DEF ThreadInv
  <2>1. ThreadOK(u) /\ tid[u] \in Nat
    BY QFacts, QParts DEF ThreadInv
  <2>2. pc[u] = "a_init" => slot[u][1] \in Live'
    <3> SUFFICES ASSUME pc[u] = "a_init" PROVE slot[u][1] # h
      BY <1>2, <2>1 DEF ThreadOK
    <3>1. slot[u][2] \in Slots /\ first_tid[slot[u][1]] + slot[u][2] = tid[u] /\ Pos <= tid[u]
      BY <2>1 DEF ThreadOK
    <3> QED BY <1>4, <1>5, <3>1, BlockFacts, SMT
  <2>3. pc'[u] = pc[u] \/ (pc[u] = "a_sleeping" /\ pc'[u] = "a_woken")
    BY <1>6
  <2> QED BY <1>1, <1>2, <1>5, <2>1, <2>2, <2>3 DEF ThreadOK
<1>9. IdsInv'
  BY <1>1, <1>6, QParts DEF IdsInv
<1>10. LockInv'
  BY <1>1, <1>6, QParts DEF LockInv
<1>11. SlotInv'
  <2> SUFFICES ASSUME NEW c \in Blocks, NEW i \in Slots, params[c][i] # NoTask
               PROVE  /\ c \in Live' /\ params[c][i] = first_tid[c] + i
                      /\ Pos <= params[c][i] /\ params[c][i] < m_queue_tail_tid
                      /\ \A u \in Threads : pc'[u] \in HasTid => tid[u] # params[c][i]
    BY <1>1, <1>5 DEF SlotInv
  <2>1. /\ c \in Live /\ params[c][i] = first_tid[c] + i
        /\ Pos <= params[c][i] /\ params[c][i] < m_queue_tail_tid
        /\ \A u \in Threads : pc[u] \in HasTid => tid[u] # params[c][i]
    BY QParts DEF SlotInv
  <2>2. c # h
    BY <1>4, <1>5, <2>1, BlockFacts, SMT
  <2>3. \A u \in Threads : pc'[u] \in HasTid => pc[u] \in HasTid
    BY <1>6
  <2> QED BY <1>2, <2>1, <2>2, <2>3
<1>12. PlaceInv'
  <2>1. pc[Worker] = "idle" /\ finished < tot /\ cur = NoTask /\ Pos = finished
    BY <1>1, QParts DEF PlaceInv
  <2>2. pc'[Worker] = "idle"
    BY <1>6, <2>1 DEF Threads
  <2> QED BY <1>1, <1>4, <1>5, <2>1, <2>2, BlockFacts DEF PlaceInv
<1>13. BeyondInv' /\ BoundInv'
  <2>1. Claimed' = Claimed /\ InFlight' = InFlight
    BY <1>6 DEF Claimed, InFlight
  <2>2. QuotaSuffices => \A u \in Threads : pc'[u] \notin {"a_sleeping", "a_woken"}
    BY <1>6, QParts DEF BoundInv
  <2>3. BeyondInv'
    BY <1>1, <2>1, QParts DEF BeyondInv
  <2> QED BY <1>1, <1>2, <2>1, <2>2, <2>3, QParts DEF BoundInv
<1>14. WaitInv'
  BY <1>1, <1>6, QParts DEF WaitInv, Threads
<1> QED BY <1>3, <1>7, <1>8, <1>9, <1>10, <1>11, <1>12, <1>13, <1>14 DEF QInv

-----------------------------------------------------------------------------
(* The initial state, and a step that changes nothing.                     *)

\* The invariant holds in the initial state.
LEMMA InitWithCounts == ASSUME Init, CountInv, Cardinality({}) = 0 PROVE QInv
<1> USE DEF ClaimedPc, HasTid, AllocPc, AddPc, WaitPc, Pcs
<1>1. /\ first_tid = [b \in Blocks |-> 0] /\ prev = [b \in Blocks |-> Null]
      /\ next = [b \in Blocks |-> Null] /\ params = [b \in Blocks |-> [o \in Slots |-> NoTask]]
      /\ freed = {} /\ m_queue_head = Null /\ m_queue_tail = Null /\ m_new_block_first_tid = 0
      /\ m_queue_tail_tid = 0 /\ m_block_quota = Quota /\ m_free_task_block = <<>> /\ m_mutex = {}
      /\ pc = [t \in Threads |-> "idle"] /\ tail = [t \in Threads |-> Null]
      /\ tid = [t \in Threads |-> 0] /\ slot = [t \in Threads |-> <<Null, 0>>]
      /\ wpc = "none" /\ qh = 0 /\ cur = NoTask /\ finished = 0 /\ tot = 0
  BY DEF Init, Sync!Init, Quota
<1>2. CountInv
  OBVIOUS
<1>3. Allocated = 0 /\ Free = {} /\ Live = {} /\ Pos = 0
  BY <1>1, BlockFacts, SMT DEF Allocated, Free, Live, Pos
<1>4. QTypes
  BY <1>1, BlockFacts, SMT DEF QTypes
<1>5. \A t \in Threads : pc[t] = "idle" /\ tail[t] = 0
  BY <1>1 DEF Null
<1>6. LockInv /\ FreeInv /\ ChainInv
  <2>1. LockInv
    BY <1>1, <1>5 DEF LockInv
  <2>2. FreeInv
    BY <1>1, <1>3, SMT DEF FreeInv
  <2> QED BY <1>1, <1>3, <2>1, <2>2 DEF ChainInv
<1>7. PlaceInv
  BY <1>1, <1>3, <1>5 DEF PlaceInv, Threads
<1>8. ThreadInv /\ IdsInv
  BY <1>3, <1>5, SMT DEF ThreadInv, ThreadOK, IdsInv
<1>9. SlotInv
  BY <1>1 DEF SlotInv
<1>10. BeyondInv
  BY <1>1, SMT DEF BeyondInv
<1>11. WaitInv
  BY <1>5 DEF WaitInv, Threads
<1>12. BoundInv
  <2>1. InFlight = {}
    BY <1>5 DEF InFlight
  <2>2. BlockSize * Allocated <= 0
    BY <1>3, BlockFacts, SMT
  <2> QED BY <1>1, <1>5, <2>1, <2>2, MaxTaskAssumption, SMT DEF BoundInv
<1> QED BY <1>2, <1>4, <1>6, <1>7, <1>8, <1>9, <1>10, <1>11, <1>12 DEF QInv

\* A step that changes nothing.
LEMMA Unchanged == ASSUME QInv, UNCHANGED vars PROVE QInv'
<1>1. /\ UNCHANGED <<lists, params, qh, pc, tail, tid, slot, tgt, m_queue_tail_tid, m_mutex>>
      /\ UNCHANGED <<wpc, cur, finished, tot, fetched, m_finished_task>>
  BY DEF vars, lists, blocks, queue, locals, worker, sync
<1>2. /\ QTypes' /\ LockInv' /\ FreeInv' /\ ChainInv' /\ ThreadInv' /\ IdsInv'
      /\ SlotInv' /\ BeyondInv' /\ WaitInv' /\ BoundInv' /\ Pos' = Pos
  BY <1>1, WorkerQuiet, QFacts, SMT
<1>3. CountInv'
  BY <1>1, QuietStep, QParts
<1>4. PlaceInv'
  <2>1. m_queue_head' = m_queue_head
    BY <1>1 DEF lists
  <2> QED BY <1>1, <1>2, <2>1, QParts DEF PlaceInv
<1> QED BY <1>2, <1>3, <1>4 DEF QInv
=============================================================================
