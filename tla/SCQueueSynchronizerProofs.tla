--------------------- MODULE SCQueueSynchronizerProofs ---------------------
(***************************************************************************)
(* The inductive invariant of SCQueueSynchronizer, for any set of          *)
(* producers, any spin bound and any bound on the task count: its locks    *)
(* and its flag, its counts and its targets, the waiters, the wakeups.     *)
(* The safety properties follow from it, and with it the synchronizer      *)
(* implements TaskSync.                                                    *)
(*                                                                         *)
(* None of the safety properties is inductive alone.  IInv adds who holds  *)
(* each lock and the flag, what the shared target queue contains, what     *)
(* each waiter knows about its own target, and when the destructor runs.   *)
(***************************************************************************)
EXTENDS SCQueueSynchronizer, TLAPS

\* The time the provers have for a step.
USE SMTT(30), ZenonT(30)

\* The holder of a lock is known from the program counters, and is unique.
MutexInv ==
    /\ \A p \in Producers : p \in m_mtx_finished <=> pc[p] \in HoldsFinished
    /\ \A p, q \in m_mtx_finished : p = q
    /\ m_mtx_more_task <=> cpc \in {"check_tot", "sleep"}

\* m_consumer_waiting is set exactly while one thread is inside its section.
FlagInv ==
    /\ FlagExclusive
    /\ m_consumer_waiting <=> (cpc \in HoldsFlag \/ \E p \in Producers : pc[p] = "clear")

\* Nothing is counted before the worker runs.
StartInv == ~m_worker_started => cpc = "none" /\ m_tot_task = 0

\* The counters stay in range.
CountInv == NeverAhead /\ m_tot_task < SizeMax

\* The target queue is increasing, and m_waiter_target is its first element.
QueueInv ==
    /\ \A i \in 1 .. Len(m_waiter_target_queue) :
            m_waiter_target_queue[i] <= m_tot_task
    /\ \A i, j \in 1 .. Len(m_waiter_target_queue) :
            i < j => m_waiter_target_queue[i] < m_waiter_target_queue[j]
    /\ m_waiter_target_queue = <<>> => m_waiter_target = SizeMax
    /\ m_waiter_target_queue # <<>> => m_waiter_target = m_waiter_target_queue[1]

\* p is between its enqueueing and its last look at m_finished_task.
Enqueued(p) == pc[p] \in {"w_check", "w_sleep", "w_sleeping", "w_woken"}

\* What p knows: its target covers the tasks added before its call, and while
\* that target is not reached it is in the queue.
WaiterInv(p) ==
    /\ pc[p] \in WaitPc => entry_tot[p] <= wait_target[p]
    /\ pc[p] \in WaitPc => wait_target[p] <= m_tot_task
    /\ pc[p] = "w_enqueue" =>
            \A i \in 1 .. Len(m_waiter_target_queue) :
                m_waiter_target_queue[i] <= wait_target[p]
    /\ Enqueued(p) /\ m_finished_task < wait_target[p] =>
            \E i \in 1 .. Len(m_waiter_target_queue) :
                m_waiter_target_queue[i] = wait_target[p]
    /\ pc[p] = "w_pop" => wait_target[p] <= done[p] /\ done[p] <= m_finished_task

\* The destructor runs alone, and the consumer leaves only because of it.
DtorInv ==
    /\ dtor # "live" => \A p \in Producers : pc[p] = "idle"
    /\ m_should_exit => dtor # "live"
    /\ cpc \in {"unflag_exit", "exit"} => m_should_exit

\* The inductive invariant.
IInv ==
    /\ TypeOK
    /\ MutexInv
    /\ StartInv
    /\ FlagInv
    /\ CountInv
    /\ QueueInv
    /\ \A p \in Producers : WaiterInv(p)
    /\ DtorInv
    /\ WaitSound
    /\ ConsumerWakeup
    /\ ProducerWakeup

-----------------------------------------------------------------------------
(* Type correctness                                                        *)

\* The sets of program counters as lists, for the provers.
USE DEF AddPc, HoldsFinished, WaitPc, HoldsFlag, ConsumerPc

\* TypeOK holds initially: the constructor initialises every field.
LEMMA TypeInit == Init => TypeOK
<1>. SUFFICES ASSUME Init PROVE TypeOK
    OBVIOUS
<1>1. FlagTypes
    BY Zenon DEF Init, FlagTypes
<1>. QED
    BY <1>1, SizeMaxAssumption DEF Init, TypeOK

\* Every operation assigns Boolean values to the Boolean fields.
LEMMA FlagTypesStep ==
    ASSUME FlagTypes, [Next]_vars
    PROVE  FlagTypes'
<1>1. CASE StartWorker
    BY <1>1, Zenon DEF FlagTypes, StartWorker, mutexes
<1>2. ASSUME NEW p \in Producers, AddTask(p) \/ WaitEnter(p) \/ AddStep(p)
      PROVE  FlagTypes'
    BY <1>2, Zenon DEF FlagTypes, AddTask, WaitEnter, AddStep, AddTestAndSet,
                       AddClear, AddNotify, flags, mutexes
<1>3. ASSUME NEW p \in Producers, WaitStep(p)
      PROVE  FlagTypes'
    BY <1>3, Zenon DEF FlagTypes, WaitStep, WaitFastPath, WaitLock, WaitLoad,
                       WaitEnqueue, WaitCheck, WaitSleep, WaitWake, WaitPop,
                       WaitReturn, flags, mutexes
<1>4. CASE FetchStep
    BY <1>4, Zenon DEF FlagTypes, FetchStep, FetchLoop, FetchTestAndSet,
                       FetchLock, FetchCheckTot, FetchSleep, FetchWake,
                       FetchUnflag, FetchCheckExit, flags, mutexes
<1>5. CASE CommitStep \/ DtorStep
    BY <1>5, Zenon DEF FlagTypes, CommitStep, CommitAdd, CommitCheckTarget,
                       CommitNotify, DtorStep, DtorEnter, DtorSignal, DtorJoin,
                       flags, mutexes
<1>6. CASE SpuriousWakeup \/ UNCHANGED vars
    BY <1>6, Zenon DEF FlagTypes, SpuriousWakeup, vars, flags, mutexes
<1>. QED
    BY <1>1, <1>2, <1>3, <1>4, <1>5, <1>6 DEF Next, Terminated

\* notify_all on m_cv_finished only moves sleepers to "woken".
LEMMA WokenType ==
    ASSUME NEW f \in [Producers -> {"idle"} \cup AddPc \cup WaitPc]
    PROVE  Woken(f) \in [Producers -> {"idle"} \cup AddPc \cup WaitPc]
BY DEF Woken

\* Every operation of the synchronizer keeps the types of its variables.
LEMMA TypeStep ==
    ASSUME TypeOK, [Next]_vars
    PROVE  TypeOK'
<1>. FlagTypes'
    BY FlagTypesStep DEF TypeOK
<1>1. CASE StartWorker
    BY <1>1 DEF TypeOK, StartWorker, counters, targets, mutexes, waitlocal
<1>2. ASSUME NEW p \in Producers, AddTask(p) \/ WaitEnter(p)
      PROVE  TypeOK'
  <2>1. CASE AddTask(p)
    BY <2>1 DEF TypeOK, AddTask, Goto, targets, mutexes, waitlocal, consumer
  <2>2. CASE WaitEnter(p)
    BY <2>2 DEF TypeOK, WaitEnter, Goto, counters, targets, mutexes, consumer
  <2>. QED
    BY <1>2, <2>1, <2>2
<1>3. ASSUME NEW p \in Producers, AddStep(p)
      PROVE  TypeOK'
  <2>1. CASE AddTestAndSet(p)
    BY <2>1, ZenonT(30) DEF TypeOK, AddTestAndSet, Goto, counters, flags, targets, mutexes,
                waitlocal, consumer
  <2>2. CASE AddClear(p)
    BY <2>2 DEF TypeOK, AddClear, Goto, counters, flags, targets, mutexes,
                waitlocal, consumer
  <2>3. CASE AddNotify(p)
    BY <2>3 DEF TypeOK, AddNotify, ConsumerAfterNotify, Goto, counters, flags,
                targets, mutexes, waitlocal
  <2>. QED
    BY <1>3, <2>1, <2>2, <2>3 DEF AddStep
<1>4. ASSUME NEW p \in Producers, WaitStep(p)
      PROVE  TypeOK'
  <2>1. CASE WaitFastPath(p)
    BY <2>1, ZenonT(30) DEF TypeOK, WaitFastPath, Goto, counters, targets, mutexes,
                waitlocal, consumer
  <2>8. CASE WaitLock(p)
    BY <2>8 DEF TypeOK, WaitLock, Goto, counters, targets, waitlocal, consumer
  <2>6. CASE WaitLoad(p)
    BY <2>6 DEF TypeOK, WaitLoad, Goto, counters, flags, targets, mutexes, consumer
  <2>2. CASE WaitEnqueue(p)
    BY <2>2 DEF TypeOK, WaitEnqueue, Goto, counters, flags, mutexes, waitlocal,
                consumer
  <2>3. CASE WaitCheck(p)
    BY <2>3 DEF TypeOK, WaitCheck, Goto, counters, targets, mutexes, consumer
  <2>7. CASE WaitSleep(p)
    BY <2>7 DEF TypeOK, WaitSleep, Goto, counters, targets, waitlocal, consumer
  <2>9. CASE WaitWake(p)
    BY <2>9 DEF TypeOK, WaitWake, Goto, counters, targets, waitlocal, consumer
  <2>5. CASE WaitReturn(p)
    BY <2>5 DEF TypeOK, WaitReturn, Goto, counters, targets, mutexes, consumer
  <2>4. CASE WaitPop(p)
    <3>1. m_waiter_target_queue' \in Seq(Nat)
      <4>1. PICK n \in 0 .. Len(m_waiter_target_queue) :
              m_waiter_target_queue' =
                SubSeq(m_waiter_target_queue, n + 1, Len(m_waiter_target_queue))
        BY <2>4 DEF WaitPop
      <4>2. m_waiter_target_queue \in Seq(Nat)
        BY DEF TypeOK
      <4>. QED
        BY <4>1, <4>2
    <3>2. m_waiter_target' \in Nat
      BY <2>4, <3>1, SizeMaxAssumption DEF WaitPop
    <3>3. pc' \in [Producers -> {"idle"} \cup AddPc \cup WaitPc]
      BY <2>4, WokenType DEF TypeOK, WaitPop
    <3>. QED
      BY <2>4, <3>1, <3>2, <3>3, ZenonT(30) DEF TypeOK, WaitPop, counters, flags, waitlocal,
                                    consumer
  <2>. QED
    BY <1>4, <2>1, <2>2, <2>3, <2>4, <2>5, <2>6, <2>7, <2>8, <2>9
    DEF WaitStep
<1>5. CASE FetchStep
  <2>1. UNCHANGED <<counters, targets, m_mtx_finished, pc, waitlocal, dtor>>
    BY <1>5 DEF FetchStep, FetchLoop, FetchTestAndSet, FetchLock, FetchCheckTot,
                FetchSleep, FetchWake, FetchUnflag, FetchCheckExit, mutexes
  <2>2. cpc' \in ConsumerPc
    BY <1>5 DEF FetchStep, FetchLoop, FetchTestAndSet, FetchLock, FetchCheckTot,
                FetchSleep, FetchWake, FetchUnflag, FetchCheckExit, CGoto,
                ConsumerPc, HoldsFlag
  <2>3. spin' \in Nat
    <3>1. spin \in Nat
      BY DEF TypeOK
    <3>. QED
      BY <1>5, <3>1 DEF FetchStep, FetchLoop, FetchTestAndSet, FetchLock,
                        FetchCheckTot, FetchSleep, FetchWake, FetchUnflag,
                        FetchCheckExit
  <2>. QED
    BY <2>1, <2>2, <2>3 DEF TypeOK, counters, targets, waitlocal
<1>6. CASE CommitStep
  <2>1. CASE CommitAdd \/ CommitCheckTarget
    BY <2>1 DEF TypeOK, CommitAdd, CommitCheckTarget, CGoto, counters, flags,
                targets, mutexes, waitlocal
  <2>2. CASE CommitNotify
    BY <2>2, WokenType DEF TypeOK, CommitNotify, CGoto, counters, flags,
                           targets, mutexes, waitlocal
  <2>. QED
    BY <1>6, <2>1, <2>2 DEF CommitStep
<1>7. CASE DtorStep
    BY <1>7 DEF TypeOK, DtorStep, DtorEnter, DtorSignal, DtorJoin,
                ConsumerAfterNotify, counters, flags, targets, mutexes,
                waitlocal, consumer
<1>8. CASE SpuriousWakeup
  <2>1. /\ UNCHANGED <<counters, targets, m_mtx_finished, waitlocal, spin, dtor>>
        /\ cpc' \in {cpc, "woken"}
    BY <1>8 DEF SpuriousWakeup, mutexes, consumer
  <2>2. pc' \in [Producers -> {"idle"} \cup AddPc \cup WaitPc]
    BY <1>8 DEF TypeOK, SpuriousWakeup, Goto, WaitPc
  <2>. QED
    BY <2>1, <2>2 DEF TypeOK, counters, targets, waitlocal, ConsumerPc, HoldsFlag
<1>9. CASE UNCHANGED vars
    BY <1>9 DEF TypeOK, vars, counters, flags, targets, mutexes, waitlocal, consumer
<1>. QED
    BY <1>1, <1>2, <1>3, <1>4, <1>5, <1>6, <1>7, <1>8, <1>9 DEF Next, Terminated

\* Every variable of the synchronizer keeps its type in every execution.
THEOREM TypeCorrect == Spec => []TypeOK
BY TypeInit, TypeStep, PTL DEF Spec

-----------------------------------------------------------------------------
(* The parts of the inductive invariant, one lemma each                    *)

\* The worker leaves "none" only in start_worker().
LEMMA StartStep ==
    ASSUME TypeOK, StartInv, [Next]_vars
    PROVE  StartInv'
<1>1. CASE StartWorker
    BY <1>1 DEF StartInv, StartWorker
<1>2. ASSUME NEW p \in Producers, AddTask(p) \/ WaitEnter(p) \/ AddStep(p)
      PROVE  StartInv'
    BY <1>2 DEF StartInv, AddTask, WaitEnter, AddStep, AddTestAndSet, AddClear,
                AddNotify, ConsumerAfterNotify, counters, flags, consumer
<1>3. ASSUME NEW p \in Producers, WaitStep(p)
      PROVE  StartInv'
    BY <1>3 DEF StartInv, WaitStep, WaitFastPath, WaitLock, WaitLoad,
                WaitEnqueue, WaitCheck, WaitSleep, WaitWake, WaitPop,
                WaitReturn, counters, flags, consumer
<1>4. CASE FetchStep
    BY <1>4 DEF StartInv, FetchStep, FetchLoop, FetchTestAndSet, FetchLock,
                FetchCheckTot, FetchSleep, FetchWake, FetchUnflag,
                FetchCheckExit, CGoto, counters, flags
<1>5. CASE CommitStep \/ DtorStep
    BY <1>5 DEF StartInv, CommitStep, CommitAdd, CommitCheckTarget,
                CommitNotify, DtorStep, DtorEnter, DtorSignal, DtorJoin,
                ConsumerAfterNotify, CGoto, counters, flags, consumer
<1>6. CASE SpuriousWakeup \/ UNCHANGED vars
    BY <1>6 DEF StartInv, SpuriousWakeup, vars, counters, flags, consumer
<1>. QED
    BY <1>1, <1>2, <1>3, <1>4, <1>5, <1>6 DEF Next, Terminated

\* The mutexes are held exactly between the lock and the unlock or wait.
LEMMA MutexStep ==
    ASSUME TypeOK, StartInv, MutexInv, [Next]_vars
    PROVE  MutexInv'
<1>1. CASE StartWorker
    BY <1>1 DEF TypeOK, StartInv, MutexInv, StartWorker, mutexes
<1>2. ASSUME NEW p \in Producers, AddTask(p) \/ WaitEnter(p) \/ AddStep(p)
      PROVE  MutexInv'
  <2>1. CASE AddNotify(p)
    BY <2>1 DEF TypeOK, MutexInv, AddNotify, ConsumerAfterNotify, Goto, mutexes
  <2>2. CASE AddTask(p) \/ WaitEnter(p) \/ AddTestAndSet(p) \/ AddClear(p)
    <3>1. \A q \in Producers : pc'[q] \in HoldsFinished <=> pc[q] \in HoldsFinished
      BY <2>2 DEF TypeOK, AddTask, WaitEnter, AddTestAndSet, AddClear, Goto
    <3>2. UNCHANGED <<cpc, mutexes>>
      BY <2>2 DEF AddTask, WaitEnter, AddTestAndSet, AddClear, consumer
    <3>. QED
      BY <3>1, <3>2 DEF MutexInv, mutexes
  <2>. QED
    BY <1>2, <2>1, <2>2 DEF AddStep
<1>3. ASSUME NEW p \in Producers, WaitStep(p)
      PROVE  MutexInv'
  <2>1. CASE WaitFastPath(p) \/ WaitLoad(p) \/ WaitEnqueue(p) \/ WaitCheck(p)
    <3>1. \A q \in Producers : pc'[q] \in HoldsFinished <=> pc[q] \in HoldsFinished
      BY <2>1 DEF TypeOK, WaitFastPath, WaitLoad, WaitEnqueue, WaitCheck, Goto
    <3>2. UNCHANGED <<cpc, mutexes>>
      BY <2>1 DEF WaitFastPath, WaitLoad, WaitEnqueue, WaitCheck, consumer
    <3>. QED
      BY <3>1, <3>2 DEF MutexInv, mutexes
  <2>2. CASE WaitLock(p) \/ WaitWake(p)
    BY <2>2 DEF TypeOK, MutexInv, WaitLock, WaitWake, Goto, consumer
  <2>3. CASE WaitSleep(p)
    BY <2>3 DEF TypeOK, MutexInv, WaitSleep, Goto, consumer
  <2>4. CASE WaitPop(p)
    BY <2>4, ZenonT(30) DEF TypeOK, MutexInv, WaitPop, Woken, consumer
  <2>5. CASE WaitReturn(p)
    BY <2>5 DEF TypeOK, MutexInv, WaitReturn, Goto, mutexes, consumer
  <2>. QED
    BY <1>3, <2>1, <2>2, <2>3, <2>4, <2>5 DEF WaitStep
<1>4. CASE FetchStep
  <2>1. CASE FetchLoop \/ FetchTestAndSet \/ FetchLock
    BY <2>1 DEF TypeOK, MutexInv, FetchLoop, FetchTestAndSet, FetchLock, CGoto, mutexes
  <2>2. CASE FetchCheckTot \/ FetchSleep
    BY <2>2 DEF TypeOK, MutexInv, FetchCheckTot, FetchSleep, CGoto, mutexes
  <2>3. CASE FetchWake \/ FetchUnflag \/ FetchCheckExit
    BY <2>3 DEF TypeOK, MutexInv, FetchWake, FetchUnflag, FetchCheckExit, CGoto, mutexes
  <2>. QED
    BY <1>4, <2>1, <2>2, <2>3 DEF FetchStep
<1>5. CASE CommitStep
  <2>1. \A q \in Producers : pc'[q] \in HoldsFinished <=> pc[q] \in HoldsFinished
    BY <1>5 DEF CommitStep, CommitAdd, CommitCheckTarget, CommitNotify, Woken,
                HoldsFinished
  <2>2. /\ UNCHANGED mutexes
        /\ cpc \notin {"check_tot", "sleep"} /\ cpc' \notin {"check_tot", "sleep"}
    BY <1>5 DEF CommitStep, CommitAdd, CommitCheckTarget, CommitNotify, CGoto
  <2>. QED
    BY <2>1, <2>2 DEF MutexInv, mutexes
<1>6. CASE DtorStep
    BY <1>6 DEF TypeOK, MutexInv, DtorStep, DtorEnter, DtorSignal, DtorJoin,
                ConsumerAfterNotify, mutexes, consumer
<1>7. CASE SpuriousWakeup
  <2>1. \A q \in Producers : pc'[q] \in HoldsFinished <=> pc[q] \in HoldsFinished
    BY <1>7 DEF TypeOK, SpuriousWakeup, Goto
  <2>2. UNCHANGED mutexes /\ (cpc' \in {"check_tot", "sleep"} <=> cpc \in {"check_tot", "sleep"})
    BY <1>7 DEF SpuriousWakeup, consumer
  <2>. QED
    BY <2>1, <2>2 DEF MutexInv, mutexes
<1>8. CASE UNCHANGED vars
    BY <1>8 DEF MutexInv, vars, mutexes, consumer
<1>. QED
    BY <1>1, <1>2, <1>3, <1>4, <1>5, <1>6, <1>7, <1>8 DEF Next, Terminated

\* m_consumer_waiting is a lock: its test_and_set and clear are paired.
LEMMA FlagStep ==
    ASSUME TypeOK, StartInv, FlagInv, [Next]_vars
    PROVE  FlagInv'
<1>1. CASE StartWorker
    BY <1>1 DEF TypeOK, StartInv, FlagInv, FlagExclusive, StartWorker
<1>2. ASSUME NEW p \in Producers, AddTask(p) \/ WaitEnter(p) \/ AddNotify(p)
      PROVE  FlagInv'
  <2>1. CASE AddNotify(p)
    BY <2>1 DEF TypeOK, FlagInv, FlagExclusive, AddNotify, ConsumerAfterNotify, Goto
  <2>2. CASE AddTask(p) \/ WaitEnter(p)
    <3>1. \A q \in Producers : pc'[q] = "clear" <=> pc[q] = "clear"
      BY <2>2 DEF TypeOK, AddTask, WaitEnter, Goto
    <3>2. UNCHANGED <<cpc, m_consumer_waiting>>
      BY <2>2 DEF AddTask, WaitEnter, consumer
    <3>. QED
      BY <3>1, <3>2 DEF FlagInv, FlagExclusive
  <2>. QED
    BY <1>2, <2>1, <2>2
<1>3. ASSUME NEW p \in Producers, AddTestAndSet(p) \/ AddClear(p)
      PROVE  FlagInv'
  <2>1. CASE AddTestAndSet(p) /\ m_consumer_waiting
    <3>1. \A q \in Producers : pc'[q] = "clear" <=> pc[q] = "clear"
      BY <2>1 DEF TypeOK, AddTestAndSet, Goto
    <3>2. cpc' = cpc /\ m_consumer_waiting'
      BY <2>1 DEF AddTestAndSet, consumer
    <3>. QED
      BY <2>1, <3>1, <3>2 DEF FlagInv, FlagExclusive
  <2>3. CASE AddTestAndSet(p) /\ ~m_consumer_waiting
    <3>1. cpc \notin HoldsFlag /\ \A q \in Producers : pc[q] # "clear"
      BY <2>3 DEF FlagInv
    <3>2. \A q \in Producers : pc'[q] = "clear" <=> q = p
      BY <2>3, <3>1 DEF TypeOK, AddTestAndSet, Goto
    <3>3. cpc' = cpc /\ m_consumer_waiting'
      BY <2>3 DEF AddTestAndSet, consumer
    <3>. QED
      BY <3>1, <3>2, <3>3 DEF FlagInv, FlagExclusive
  <2>2. CASE AddClear(p)
    BY <2>2 DEF TypeOK, FlagInv, FlagExclusive, AddClear, Goto, consumer
  <2>. QED
    BY <1>3, <2>1, <2>2, <2>3
<1>4. ASSUME NEW p \in Producers, WaitStep(p)
      PROVE  FlagInv'
  <2>1. \A q \in Producers : pc'[q] = "clear" <=> pc[q] = "clear"
    <3>1. CASE WaitPop(p)
      BY <3>1 DEF TypeOK, WaitPop, Woken
    <3>2. CASE WaitFastPath(p) \/ WaitLock(p) \/ WaitLoad(p) \/ WaitEnqueue(p)
      BY <3>2 DEF TypeOK, WaitFastPath, WaitLock, WaitLoad, WaitEnqueue, Goto
    <3>3. CASE WaitCheck(p) \/ WaitSleep(p) \/ WaitWake(p) \/ WaitReturn(p)
      BY <3>3 DEF TypeOK, WaitCheck, WaitSleep, WaitWake, WaitReturn, Goto
    <3>. QED
      BY <1>4, <3>1, <3>2, <3>3 DEF WaitStep
  <2>2. UNCHANGED <<cpc, m_consumer_waiting>>
    BY <1>4 DEF WaitStep, WaitFastPath, WaitLock, WaitLoad, WaitEnqueue,
                WaitCheck, WaitSleep, WaitWake, WaitPop, WaitReturn, consumer
  <2>. QED
    BY <2>1, <2>2 DEF FlagInv, FlagExclusive
<1>5. CASE FetchStep
  <2>1. CASE FetchLoop \/ FetchLock \/ FetchCheckTot \/ FetchSleep
    BY <2>1 DEF TypeOK, FlagInv, FlagExclusive, FetchLoop, FetchLock,
                FetchCheckTot, FetchSleep, CGoto
  <2>2. CASE FetchTestAndSet \/ FetchUnflag
    BY <2>2 DEF TypeOK, FlagInv, FlagExclusive, FetchTestAndSet, FetchUnflag, CGoto
  <2>3. CASE FetchWake \/ FetchCheckExit
    BY <2>3 DEF TypeOK, FlagInv, FlagExclusive, FetchWake, FetchCheckExit, CGoto
  <2>. QED
    BY <1>5, <2>1, <2>2, <2>3 DEF FetchStep
<1>6. CASE CommitStep
  <2>1. CASE CommitAdd \/ CommitCheckTarget
    BY <2>1 DEF TypeOK, FlagInv, FlagExclusive, CommitAdd, CommitCheckTarget, CGoto
  <2>2. CASE CommitNotify
    BY <2>2 DEF TypeOK, FlagInv, FlagExclusive, CommitNotify, Woken, CGoto
  <2>. QED
    BY <1>6, <2>1, <2>2 DEF CommitStep
<1>7. CASE DtorStep
    BY <1>7 DEF TypeOK, FlagInv, FlagExclusive, DtorStep, DtorEnter, DtorSignal,
                DtorJoin, ConsumerAfterNotify, consumer
<1>8. CASE SpuriousWakeup
    BY <1>8 DEF TypeOK, FlagInv, FlagExclusive, SpuriousWakeup, Goto, consumer
<1>9. CASE UNCHANGED vars
    BY <1>9 DEF FlagInv, FlagExclusive, vars, consumer
<1>. QED
    BY <1>1, <1>2, <1>3, <1>4, <1>5, <1>6, <1>7, <1>8, <1>9
    DEF Next, AddStep, Terminated

-----------------------------------------------------------------------------
(* Who changes what                                                        *)

\* The two task counts never decrease.
LEMMA CountersGrow ==
    ASSUME TypeOK, [Next]_vars
    PROVE  m_finished_task <= m_finished_task' /\ m_tot_task <= m_tot_task'
<1>1. ASSUME NEW p \in Producers, AddTask(p) \/ WaitEnter(p) \/ AddStep(p) \/ WaitStep(p)
      PROVE  m_finished_task <= m_finished_task' /\ m_tot_task <= m_tot_task'
  <2>1. CASE AddTask(p)
    BY <2>1 DEF TypeOK, AddTask
  <2>2. CASE WaitEnter(p) \/ AddStep(p) \/ WaitStep(p)
    <3>1. UNCHANGED counters
      BY <2>2, Zenon DEF WaitEnter, AddStep, AddTestAndSet, AddClear, AddNotify,
                         WaitStep, WaitFastPath, WaitLock, WaitLoad, WaitEnqueue,
                         WaitCheck, WaitSleep, WaitWake, WaitPop, WaitReturn
    <3>. QED
      BY <3>1 DEF TypeOK, counters
  <2>. QED
    BY <1>1, <2>1, <2>2
<1>2. CASE FetchStep
    BY <1>2 DEF TypeOK, FetchStep, FetchLoop, FetchTestAndSet, FetchLock,
                FetchCheckTot, FetchSleep, FetchWake, FetchUnflag,
                FetchCheckExit, counters
<1>3. CASE StartWorker \/ CommitStep \/ DtorStep
    BY <1>3 DEF TypeOK, StartWorker, CommitStep, CommitAdd, CommitCheckTarget,
                CommitNotify, DtorStep, DtorEnter, DtorSignal, DtorJoin, counters
<1>4. CASE SpuriousWakeup \/ UNCHANGED vars
    BY <1>4 DEF TypeOK, SpuriousWakeup, vars, counters
<1>. QED
    BY <1>1, <1>2, <1>3, <1>4 DEF Next, Terminated

\* Only producer_wait() touches the targets, and only producer_add() the total.
LEMMA TargetsFrame ==
    ASSUME [Next]_vars
    PROVE  \/ UNCHANGED <<m_tot_task, targets>>
           \/ \E p \in Producers : AddTask(p) \/ WaitEnqueue(p) \/ WaitPop(p)
<1>1. ASSUME NEW p \in Producers, WaitEnter(p) \/ AddStep(p)
      PROVE  UNCHANGED <<m_tot_task, targets>>
    BY <1>1 DEF WaitEnter, AddStep, AddTestAndSet, AddClear, AddNotify, counters
<1>2. ASSUME NEW p \in Producers, WaitStep(p), ~WaitEnqueue(p), ~WaitPop(p)
      PROVE  UNCHANGED <<m_tot_task, targets>>
    BY <1>2 DEF WaitStep, WaitFastPath, WaitLock, WaitLoad, WaitCheck,
                WaitSleep, WaitWake, WaitReturn, counters
<1>3. CASE FetchStep
    BY <1>3 DEF FetchStep, FetchLoop, FetchTestAndSet, FetchLock, FetchCheckTot,
                FetchSleep, FetchWake, FetchUnflag, FetchCheckExit, counters
<1>4. CASE StartWorker \/ CommitStep \/ DtorStep
    BY <1>4 DEF StartWorker, CommitStep, CommitAdd, CommitCheckTarget,
                CommitNotify, DtorStep, DtorEnter, DtorSignal, DtorJoin, counters
<1>5. CASE SpuriousWakeup \/ UNCHANGED vars
    BY <1>5 DEF SpuriousWakeup, vars, counters
<1>. QED
    BY <1>1, <1>2, <1>3, <1>4, <1>5 DEF Next, Terminated

\* p takes no step of its own: it is at most woken up.
Passive(p) ==
    /\ wait_target'[p] = wait_target[p]
    /\ done'[p] = done[p]
    /\ entry_tot'[p] = entry_tot[p]
    /\ pc'[p] = pc[p] \/ (pc[p] = "w_sleeping" /\ pc'[p] = "w_woken")

\* p is inside a call and goes on, or begins one.
OwnStep(p) == AddTask(p) \/ WaitEnter(p) \/ AddStep(p) \/ WaitStep(p)

\* The other threads leave the locals of p alone, and wake it at most.
LEMMA OtherSteps ==
    ASSUME TypeOK, [Next]_vars, NEW p \in Producers
    PROVE  OwnStep(p) \/ Passive(p)
<1>1. ASSUME NEW q \in Producers, OwnStep(q), q # p
      PROVE  Passive(p)
  <2>1. CASE AddTask(q) \/ WaitEnter(q) \/ AddStep(q)
    BY <1>1, <2>1 DEF TypeOK, Passive, AddTask, WaitEnter, AddStep,
                AddTestAndSet, AddClear, AddNotify, Goto, waitlocal
  <2>2. CASE WaitStep(q) /\ ~WaitPop(q)
    BY <1>1, <2>2 DEF TypeOK, Passive, WaitStep, WaitFastPath, WaitLock,
                WaitLoad, WaitEnqueue, WaitCheck, WaitSleep, WaitWake,
                WaitReturn, Goto, waitlocal
  <2>3. CASE WaitPop(q)
    BY <1>1, <2>3 DEF TypeOK, Passive, WaitPop, Woken, waitlocal
  <2>. QED
    BY <1>1, <2>1, <2>2, <2>3 DEF OwnStep
<1>2. CASE FetchStep
    BY <1>2 DEF Passive, FetchStep, FetchLoop, FetchTestAndSet, FetchLock,
                FetchCheckTot, FetchSleep, FetchWake, FetchUnflag,
                FetchCheckExit, waitlocal
<1>3. CASE StartWorker \/ DtorStep
    BY <1>3 DEF Passive, StartWorker, DtorStep, DtorEnter, DtorSignal, DtorJoin,
                waitlocal
<1>4. CASE CommitStep
    BY <1>4 DEF TypeOK, Passive, CommitStep, CommitAdd, CommitCheckTarget,
                CommitNotify, Woken, waitlocal
<1>5. CASE SpuriousWakeup \/ UNCHANGED vars
    BY <1>5 DEF TypeOK, Passive, SpuriousWakeup, Goto, vars, waitlocal
<1>. QED
    BY <1>1, <1>2, <1>3, <1>4, <1>5 DEF Next, OwnStep, Terminated

-----------------------------------------------------------------------------
(* The counts and the target queue                                         *)

\* The consumer commits only what it has fetched, and fetches only what is
\* there.
LEMMA CountStep ==
    ASSUME TypeOK, CountInv, [Next]_vars
    PROVE  CountInv'
<1>1. CASE StartWorker
    BY <1>1 DEF CountInv, NeverAhead, StartWorker, counters
<1>2. ASSUME NEW p \in Producers, AddTask(p)
      PROVE  CountInv'
    BY <1>2, SizeMaxAssumption DEF TypeOK, CountInv, NeverAhead, AddTask, consumer
<1>3. ASSUME NEW p \in Producers, WaitEnter(p) \/ AddStep(p)
      PROVE  CountInv'
    BY <1>3 DEF CountInv, NeverAhead, WaitEnter, AddStep, AddTestAndSet,
                AddClear, AddNotify, ConsumerAfterNotify, counters, consumer
<1>4. ASSUME NEW p \in Producers, WaitStep(p)
      PROVE  CountInv'
    BY <1>4 DEF CountInv, NeverAhead, WaitStep, WaitFastPath, WaitLock,
                WaitLoad, WaitEnqueue, WaitCheck, WaitSleep, WaitWake, WaitPop,
                WaitReturn, counters, consumer
<1>5. CASE FetchStep
    BY <1>5 DEF TypeOK, CountInv, NeverAhead, HasTask, FetchStep, FetchLoop,
                FetchTestAndSet, FetchLock, FetchCheckTot, FetchSleep,
                FetchWake, FetchUnflag, FetchCheckExit, CGoto, counters
<1>6. CASE CommitStep
    BY <1>6 DEF TypeOK, CountInv, NeverAhead, CommitStep, CommitAdd,
                CommitCheckTarget, CommitNotify, CGoto, counters
<1>7. CASE DtorStep
    BY <1>7 DEF CountInv, NeverAhead, DtorStep, DtorEnter, DtorSignal, DtorJoin,
                ConsumerAfterNotify, counters, consumer
<1>8. CASE SpuriousWakeup \/ UNCHANGED vars
    BY <1>8 DEF CountInv, NeverAhead, SpuriousWakeup, vars, counters, consumer
<1>. QED
    BY <1>1, <1>2, <1>3, <1>4, <1>5, <1>6, <1>7, <1>8 DEF Next, Terminated

\* What the pop loop of producer_wait() leaves: the queue without its first n
\* elements, all of which are at most the count the waiter has seen.
LEMMA PopEffect ==
    ASSUME TypeOK, NEW p \in Producers, WaitPop(p)
    PROVE  \E n \in 0 .. Len(m_waiter_target_queue) :
               /\ \A j \in 1 .. n : m_waiter_target_queue[j] <= done[p]
               /\ Len(m_waiter_target_queue') = Len(m_waiter_target_queue) - n
               /\ \A i \in 1 .. Len(m_waiter_target_queue) - n :
                      m_waiter_target_queue'[i] = m_waiter_target_queue[n + i]
<1>1. PICK n \in 0 .. Len(m_waiter_target_queue) :
        /\ PopLength(done[p], n)
        /\ m_waiter_target_queue' =
               SubSeq(m_waiter_target_queue, n + 1, Len(m_waiter_target_queue))
    BY DEF WaitPop
<1>2. \A j \in 1 .. n : m_waiter_target_queue[j] <= done[p]
    BY <1>1 DEF PopLength
<1>3. /\ Len(m_waiter_target_queue') = Len(m_waiter_target_queue) - n
      /\ \A i \in 1 .. Len(m_waiter_target_queue) - n :
             m_waiter_target_queue'[i] = m_waiter_target_queue[n + i]
  <2>1. m_waiter_target_queue \in Seq(Nat)
    BY DEF TypeOK
  <2>. QED
    BY <1>1, <2>1
<1>. QED
    BY <1>2, <1>3

\* Waiters keep the target queue increasing and m_waiter_target at its front.
LEMMA QueueStep ==
    ASSUME TypeOK, QueueInv, \A p \in Producers : WaiterInv(p), [Next]_vars
    PROVE  QueueInv'
<1>1. CASE UNCHANGED <<m_tot_task, targets>>
    BY <1>1 DEF QueueInv, targets
<1>2. ASSUME NEW p \in Producers, AddTask(p)
      PROVE  QueueInv'
  <2>1. UNCHANGED targets /\ m_tot_task' = m_tot_task + 1
    BY <1>2 DEF AddTask
  <2>2. /\ m_tot_task \in Nat
        /\ \A i \in 1 .. Len(m_waiter_target_queue) : m_waiter_target_queue[i] \in Nat
    BY DEF TypeOK
  <2>3. \A i \in 1 .. Len(m_waiter_target_queue) : m_waiter_target_queue[i] <= m_tot_task + 1
    BY <2>2 DEF QueueInv
  <2>. QED
    BY <2>1, <2>3 DEF QueueInv, targets
<1>3. ASSUME NEW p \in Producers, WaitEnqueue(p)
      PROVE  QueueInv'
  <2>1. wait_target[p] <= m_tot_task /\ wait_target[p] \in Nat
    BY <1>3 DEF TypeOK, WaiterInv, WaitEnqueue
  <2>2. CASE m_waiter_target_queue = <<>>
    BY <1>3, <2>1, <2>2 DEF TypeOK, QueueInv, WaitEnqueue, counters
  <2>3. CASE m_waiter_target_queue # <<>> /\ wait_target[p] > QueueBack
    <3>. DEFINE len == Len(m_waiter_target_queue)
    <3>1. /\ m_waiter_target_queue' = Append(m_waiter_target_queue, wait_target[p])
          /\ m_waiter_target' = m_waiter_target
          /\ m_tot_task' = m_tot_task
      BY <1>3, <2>3 DEF WaitEnqueue, counters
    <3>2. /\ len \in Nat \ {0}
          /\ Len(m_waiter_target_queue') = len + 1
          /\ \A i \in 1 .. len : m_waiter_target_queue'[i] = m_waiter_target_queue[i]
          /\ m_waiter_target_queue'[len + 1] = wait_target[p]
      BY <2>1, <2>3, <3>1 DEF TypeOK
    <3>3. ASSUME NEW i \in 1 .. len
          PROVE  m_waiter_target_queue[i] < wait_target[p]
      <4>1. m_waiter_target_queue[i] \in Nat /\ m_waiter_target_queue[len] \in Nat
        BY <3>2 DEF TypeOK
      <4>2. m_waiter_target_queue[len] < wait_target[p]
        BY <2>1, <2>3, <4>1 DEF QueueBack
      <4>3. i = len \/ m_waiter_target_queue[i] < m_waiter_target_queue[len]
        BY <3>2 DEF QueueInv
      <4>. QED
        BY <2>1, <4>1, <4>2, <4>3
    <3>. HIDE DEF len
    <3>4. \A i \in 1 .. len + 1 : m_waiter_target_queue'[i] <= m_tot_task'
      BY <2>1, <3>1, <3>2 DEF QueueInv, len
    <3>5. ASSUME NEW i \in 1 .. len + 1, NEW j \in 1 .. len + 1, i < j
          PROVE  m_waiter_target_queue'[i] < m_waiter_target_queue'[j]
      <4>1. i \in 1 .. len
        BY <3>2, <3>5
      <4>2. CASE j = len + 1
        BY <3>2, <3>3, <4>1, <4>2
      <4>3. CASE j \in 1 .. len
        BY <3>2, <3>5, <4>1, <4>3 DEF QueueInv, len
      <4>. QED
        BY <3>2, <4>2, <4>3
    <3>6. m_waiter_target_queue' # <<>> /\ m_waiter_target' = m_waiter_target_queue'[1]
      BY <2>3, <3>1, <3>2 DEF QueueInv
    <3>. QED
      BY <3>2, <3>4, <3>5, <3>6 DEF QueueInv
  <2>4. CASE m_waiter_target_queue # <<>> /\ ~(wait_target[p] > QueueBack)
    BY <1>3, <2>4 DEF QueueInv, WaitEnqueue, counters
  <2>. QED
    BY <2>2, <2>3, <2>4
<1>4. ASSUME NEW p \in Producers, WaitPop(p)
      PROVE  QueueInv'
  <2>1. PICK n \in 0 .. Len(m_waiter_target_queue) :
          /\ Len(m_waiter_target_queue') = Len(m_waiter_target_queue) - n
          /\ \A i \in 1 .. Len(m_waiter_target_queue) - n :
                 m_waiter_target_queue'[i] = m_waiter_target_queue[n + i]
    BY <1>4, PopEffect
  <2>2. m_tot_task' = m_tot_task
    BY <1>4 DEF WaitPop, counters
  <2>3. \A i \in 1 .. Len(m_waiter_target_queue') :
            m_waiter_target_queue'[i] <= m_tot_task'
    <3>1. ASSUME NEW i \in 1 .. Len(m_waiter_target_queue) - n
          PROVE  m_waiter_target_queue[n + i] <= m_tot_task
      BY n + i \in 1 .. Len(m_waiter_target_queue) DEF TypeOK, QueueInv
    <3>. QED
      BY <2>1, <2>2, <3>1
  <2>4. \A i, j \in 1 .. Len(m_waiter_target_queue') :
            i < j => m_waiter_target_queue'[i] < m_waiter_target_queue'[j]
    <3>1. ASSUME NEW i \in 1 .. Len(m_waiter_target_queue) - n,
                 NEW j \in 1 .. Len(m_waiter_target_queue) - n, i < j
          PROVE  m_waiter_target_queue[n + i] < m_waiter_target_queue[n + j]
      <4>1. /\ n + i \in 1 .. Len(m_waiter_target_queue)
            /\ n + j \in 1 .. Len(m_waiter_target_queue)
            /\ n + i < n + j
        BY <3>1 DEF TypeOK
      <4>. QED
        BY <4>1 DEF QueueInv
    <3>. QED
      BY <2>1, <3>1
  <2>. QED
    BY <1>4, <2>3, <2>4, ZenonT(30) DEF QueueInv, WaitPop
<1>. QED
    BY <1>1, <1>2, <1>3, <1>4, TargetsFrame

-----------------------------------------------------------------------------
(* The waiters                                                             *)

\* Whether v is one of the pending targets.
InQueue(v) ==
    \E i \in 1 .. Len(m_waiter_target_queue) : m_waiter_target_queue[i] = v

\* A target that is not reached stays in the queue, whoever pops it.
LEMMA TargetStays ==
    ASSUME TypeOK, \A p \in Producers : WaiterInv(p), [Next]_vars,
           NEW v \in Nat, m_finished_task < v, InQueue(v)
    PROVE  InQueue(v)'
<1>1. CASE UNCHANGED targets
    BY <1>1 DEF InQueue, targets
<1>2. ASSUME NEW p \in Producers, WaitEnqueue(p)
      PROVE  InQueue(v)'
  <2>1. CASE m_waiter_target_queue' = m_waiter_target_queue
    BY <2>1 DEF InQueue
  <2>2. CASE m_waiter_target_queue' = Append(m_waiter_target_queue, wait_target[p])
    BY <2>2 DEF TypeOK, InQueue
  <2>. QED
    BY <1>2, <2>1, <2>2 DEF WaitEnqueue
<1>3. ASSUME NEW p \in Producers, WaitPop(p)
      PROVE  InQueue(v)'
  <2>1. PICK i \in 1 .. Len(m_waiter_target_queue) : m_waiter_target_queue[i] = v
    BY DEF InQueue
  <2>2. PICK n \in 0 .. Len(m_waiter_target_queue) :
          /\ \A j \in 1 .. n : m_waiter_target_queue[j] <= done[p]
          /\ Len(m_waiter_target_queue') = Len(m_waiter_target_queue) - n
          /\ \A j \in 1 .. Len(m_waiter_target_queue) - n :
                 m_waiter_target_queue'[j] = m_waiter_target_queue[n + j]
    BY <1>3, PopEffect
  <2>3. done[p] <= m_finished_task /\ done[p] \in Nat
    BY <1>3 DEF TypeOK, WaiterInv, WaitPop
  <2>4. i > n
    BY <2>1, <2>2, <2>3 DEF TypeOK
  <2>5. i - n \in 1 .. Len(m_waiter_target_queue) - n /\ n + (i - n) = i
    BY <2>4 DEF TypeOK
  <2>. QED
    BY <2>1, <2>2, <2>5, ZenonT(30) DEF InQueue
<1>4. ASSUME NEW p \in Producers, AddTask(p)
      PROVE  UNCHANGED targets
    BY <1>4 DEF AddTask
<1>. QED
    BY <1>1, <1>2, <1>3, <1>4, TargetsFrame

\* What a waiter knows stays true while others run.
LEMMA WaiterPassive ==
    ASSUME TypeOK, MutexInv, \A q \in Producers : WaiterInv(q), [Next]_vars,
           NEW p \in Producers, Passive(p), ~OwnStep(p)
    PROVE  WaiterInv(p)'
<1>1. /\ pc'[p] \in WaitPc <=> pc[p] \in WaitPc
      /\ pc'[p] = "w_enqueue" <=> pc[p] = "w_enqueue"
      /\ Enqueued(p)' <=> Enqueued(p)
      /\ pc'[p] = "w_pop" <=> pc[p] = "w_pop"
    BY DEF Passive, Enqueued
<1>2. /\ m_finished_task <= m_finished_task' /\ m_tot_task <= m_tot_task'
      /\ m_finished_task \in Nat /\ m_finished_task' \in Nat
      /\ m_tot_task \in Nat /\ m_tot_task' \in Nat
      /\ wait_target[p] \in Nat /\ done[p] \in Nat /\ entry_tot[p] \in Nat
    BY CountersGrow, TypeStep, ZenonT(30) DEF TypeOK
<1>3. /\ wait_target'[p] = wait_target[p] /\ done'[p] = done[p]
      /\ entry_tot'[p] = entry_tot[p]
    BY DEF Passive
<1>4. ASSUME pc'[p] = "w_enqueue"
      PROVE  \A i \in 1 .. Len(m_waiter_target_queue') :
                 m_waiter_target_queue'[i] <= wait_target'[p]
  <2>1. p \in m_mtx_finished
    BY <1>1, <1>4 DEF MutexInv
  <2>2. ASSUME NEW q \in Producers, WaitEnqueue(q) \/ WaitPop(q)
        PROVE  FALSE
    <3>1. q \in m_mtx_finished
      BY <2>2 DEF MutexInv, WaitEnqueue, WaitPop
    <3>2. q = p
      BY <2>1, <3>1 DEF MutexInv
    <3>. QED
      BY <2>2, <3>2 DEF OwnStep, WaitStep
  <2>3. UNCHANGED targets
    BY <2>2, TargetsFrame, ZenonT(30) DEF AddTask
  <2>. QED
    BY <1>1, <1>3, <1>4, <2>3 DEF WaiterInv, targets
<1>5. ASSUME Enqueued(p)', m_finished_task' < wait_target'[p]
      PROVE  \E i \in 1 .. Len(m_waiter_target_queue') :
                 m_waiter_target_queue'[i] = wait_target'[p]
  <2>1. m_finished_task < wait_target[p]
    BY <1>2, <1>3, <1>5
  <2>2. InQueue(wait_target[p])
    BY <1>1, <1>5, <2>1 DEF WaiterInv, InQueue
  <2>3. PICK v \in Nat : v = wait_target[p]
    BY <1>2
  <2>4. InQueue(v)'
    BY <2>1, <2>2, <2>3, TargetStays
  <2>. QED
    BY <1>3, <2>3, <2>4 DEF InQueue
<1>6. ASSUME pc'[p] = "w_pop"
      PROVE  wait_target'[p] <= done'[p] /\ done'[p] <= m_finished_task'
  <2>1. wait_target[p] <= done[p] /\ done[p] <= m_finished_task
    BY <1>1, <1>6, ZenonT(30) DEF WaiterInv
  <2>. QED
    BY <1>2, <1>3, <2>1
<1>7. /\ pc'[p] \in WaitPc => entry_tot'[p] <= wait_target'[p]
      /\ pc'[p] \in WaitPc => wait_target'[p] <= m_tot_task'
  <2>. SUFFICES ASSUME pc[p] \in WaitPc
                PROVE  entry_tot[p] <= wait_target[p] /\ wait_target[p] <= m_tot_task'
    BY <1>1, <1>3
  <2>1. entry_tot[p] <= wait_target[p] /\ wait_target[p] <= m_tot_task
    BY DEF WaiterInv
  <2>. QED
    BY <1>2, <2>1
<1>. QED
    BY <1>4, <1>5, <1>6, <1>7 DEF WaiterInv

\* A waiter establishes what it knows by its own steps.
LEMMA WaiterOwn ==
    ASSUME TypeOK, QueueInv, NEW p \in Producers, WaiterInv(p), OwnStep(p)
    PROVE  WaiterInv(p)'
<1>1. CASE AddTask(p) \/ AddStep(p) \/ WaitReturn(p)
    BY <1>1 DEF TypeOK, WaiterInv, Enqueued, AddTask, AddStep, AddTestAndSet,
                AddClear, AddNotify, WaitReturn, Goto
<1>2. CASE WaitEnter(p)
    BY <1>2 DEF TypeOK, WaiterInv, Enqueued, WaitEnter, Goto, counters
<1>3. CASE WaitFastPath(p) \/ WaitLock(p)
    BY <1>3 DEF TypeOK, WaiterInv, Enqueued, WaitFastPath, WaitLock, Goto,
                counters, waitlocal
<1>4. CASE WaitLoad(p)
  <2>1. /\ pc[p] \in WaitPc /\ pc'[p] = "w_enqueue"
        /\ wait_target'[p] = m_tot_task /\ m_tot_task' = m_tot_task
        /\ m_waiter_target_queue' = m_waiter_target_queue /\ entry_tot' = entry_tot
    BY <1>4 DEF TypeOK, WaitLoad, Goto, WaitPc, HoldsFinished, counters, targets
  <2>2. entry_tot[p] \in Nat /\ wait_target[p] \in Nat /\ m_tot_task \in Nat
    BY DEF TypeOK
  <2>5. entry_tot[p] <= wait_target[p] /\ wait_target[p] <= m_tot_task
    BY <2>1, ZenonT(30) DEF WaiterInv
  <2>6. entry_tot[p] <= m_tot_task /\ m_tot_task <= m_tot_task
    BY <2>2, <2>5
  <2>3. entry_tot'[p] <= wait_target'[p] /\ wait_target'[p] <= m_tot_task'
    BY <2>1, <2>6
  <2>4. \A i \in 1 .. Len(m_waiter_target_queue') :
            m_waiter_target_queue'[i] <= wait_target'[p]
    BY <2>1 DEF QueueInv
  <2>. QED
    BY <2>1, <2>3, <2>4 DEF WaiterInv, Enqueued
<1>5. CASE WaitEnqueue(p)
  <2>1. /\ pc'[p] = "w_check"
        /\ UNCHANGED <<counters, waitlocal>>
        /\ wait_target[p] \in Nat
    BY <1>5 DEF TypeOK, WaitEnqueue, Goto
  <2>2. \E i \in 1 .. Len(m_waiter_target_queue') :
            m_waiter_target_queue'[i] = wait_target[p]
    <3>1. CASE m_waiter_target_queue' = Append(m_waiter_target_queue, wait_target[p])
      <4>1. /\ Len(m_waiter_target_queue) + 1 \in 1 .. Len(m_waiter_target_queue')
            /\ m_waiter_target_queue'[Len(m_waiter_target_queue) + 1] = wait_target[p]
        BY <2>1, <3>1 DEF TypeOK
      <4>. QED
        BY <4>1
    <3>2. CASE /\ m_waiter_target_queue # <<>>
               /\ ~(wait_target[p] > QueueBack)
               /\ m_waiter_target_queue' = m_waiter_target_queue
      <4>1. Len(m_waiter_target_queue) \in 1 .. Len(m_waiter_target_queue)
        BY <3>2 DEF TypeOK
      <4>2. QueueBack \in Nat /\ QueueBack <= wait_target[p]
        BY <1>5, <4>1 DEF TypeOK, WaiterInv, QueueBack, WaitEnqueue
      <4>3. QueueBack = wait_target[p]
        BY <2>1, <3>2, <4>2
      <4>. QED
        BY <3>2, <4>1, <4>3 DEF QueueBack
    <3>. QED
      BY <1>5, <3>1, <3>2 DEF WaitEnqueue
  <2>3. entry_tot[p] <= wait_target[p] /\ wait_target[p] <= m_tot_task
    BY <1>5 DEF WaiterInv, WaitEnqueue
  <2>. QED
    BY <2>1, <2>2, <2>3 DEF WaiterInv, counters, waitlocal
<1>6. CASE WaitCheck(p)
  <2>1. /\ pc'[p] = IF m_finished_task >= wait_target[p] THEN "w_pop" ELSE "w_sleep"
        /\ done'[p] = m_finished_task
        /\ UNCHANGED <<m_tot_task, m_finished_task, m_waiter_target_queue,
                       wait_target, entry_tot>>
    BY <1>6 DEF TypeOK, WaitCheck, Goto, counters, targets
  <2>2. m_finished_task \in Nat /\ wait_target[p] \in Nat
    BY DEF TypeOK
  <2>3. pc[p] \in WaitPc /\ Enqueued(p)
    BY <1>6 DEF WaitCheck, WaitPc, Enqueued
  <2>4. entry_tot[p] <= wait_target[p] /\ wait_target[p] <= m_tot_task
    BY <2>3 DEF WaiterInv
  <2>5. CASE m_finished_task >= wait_target[p]
    <3>1. pc'[p] = "w_pop" /\ ~Enqueued(p)'
      BY <2>1, <2>5 DEF Enqueued
    <3>2. wait_target'[p] <= done'[p] /\ done'[p] <= m_finished_task'
      BY <2>1, <2>2, <2>5
    <3>3. entry_tot'[p] <= wait_target'[p] /\ wait_target'[p] <= m_tot_task'
      BY <2>1, <2>4
    <3>. QED
      BY <3>1, <3>2, <3>3, Zenon DEF WaiterInv
  <2>6. CASE ~(m_finished_task >= wait_target[p])
    <3>1. \E i \in 1 .. Len(m_waiter_target_queue) :
              m_waiter_target_queue[i] = wait_target[p]
      <4>1. m_finished_task < wait_target[p]
        BY <2>2, <2>6
      <4>. QED
        BY <2>3, <4>1, Zenon DEF WaiterInv
    <3>2. \E i \in 1 .. Len(m_waiter_target_queue') :
              m_waiter_target_queue'[i] = wait_target'[p]
      BY <2>1, <3>1
    <3>3. entry_tot'[p] <= wait_target'[p] /\ wait_target'[p] <= m_tot_task'
      BY <2>1, <2>4
    <3>4. pc'[p] # "w_enqueue" /\ pc'[p] # "w_pop"
      BY <2>1, <2>6
    <3>. QED
      BY <3>2, <3>3, <3>4, Zenon DEF WaiterInv
  <2>. QED
    BY <2>5, <2>6
<1>7. CASE WaitSleep(p) \/ WaitWake(p)
    BY <1>7 DEF TypeOK, WaiterInv, Enqueued, WaitSleep, WaitWake, Goto,
                counters, targets, waitlocal
<1>8. CASE WaitPop(p)
    BY <1>8 DEF TypeOK, WaiterInv, Enqueued, WaitPop, Woken, counters, waitlocal
<1>. QED
    BY <1>1, <1>2, <1>3, <1>4, <1>5, <1>6, <1>7, <1>8 DEF OwnStep, WaitStep

\* producer_wait() returns only with its tasks finished.
LEMMA WaitSoundStep ==
    ASSUME TypeOK, StartInv, \A p \in Producers : WaiterInv(p), WaitSound,
           [Next]_vars
    PROVE  WaitSound'
<1>. SUFFICES ASSUME NEW p \in Producers, pc'[p] = "w_end"
              PROVE  m_finished_task' >= entry_tot'[p]
    BY DEF WaitSound
<1>1. /\ m_finished_task <= m_finished_task'
      /\ m_finished_task \in Nat /\ m_finished_task' \in Nat /\ m_tot_task \in Nat
      /\ wait_target[p] \in Nat /\ done[p] \in Nat /\ entry_tot[p] \in Nat
    BY CountersGrow, TypeStep, ZenonT(30) DEF TypeOK
<1>2. CASE Passive(p)
    BY <1>1, <1>2 DEF Passive, WaitSound
<1>3. CASE OwnStep(p)
  <2>1. WaitFastPath(p) \/ WaitPop(p)
    <3>1. ~AddTask(p) /\ ~WaitEnter(p) /\ ~AddStep(p)
      BY DEF TypeOK, AddTask, WaitEnter, AddStep, AddTestAndSet, AddClear,
             AddNotify, Goto
    <3>2. ~WaitLock(p) /\ ~WaitLoad(p) /\ ~WaitEnqueue(p) /\ ~WaitCheck(p)
      BY DEF TypeOK, WaitLock, WaitLoad, WaitEnqueue, WaitCheck, Goto
    <3>3. ~WaitSleep(p) /\ ~WaitWake(p) /\ ~WaitReturn(p)
      BY DEF TypeOK, WaitSleep, WaitWake, WaitReturn, Goto
    <3>. QED
      BY <1>3, <3>1, <3>2, <3>3 DEF OwnStep, WaitStep
  <2>2. CASE WaitFastPath(p)
    <3>1. /\ entry_tot'[p] = entry_tot[p]
          /\ m_finished_task' = m_finished_task
          /\ entry_tot[p] <= wait_target[p] /\ wait_target[p] <= m_tot_task
      BY <2>2, ZenonT(30) DEF WaitFastPath, WaiterInv, counters, waitlocal
    <3>2. ~m_worker_started \/ m_finished_task >= wait_target[p]
      BY <2>2 DEF TypeOK, WaitFastPath, Goto
    <3>. QED
      BY <1>1, <3>1, <3>2 DEF StartInv
  <2>3. CASE WaitPop(p)
    <3>1. /\ entry_tot'[p] = entry_tot[p]
          /\ entry_tot[p] <= wait_target[p] /\ wait_target[p] <= done[p]
          /\ done[p] <= m_finished_task
      BY <2>3, ZenonT(30) DEF WaitPop, WaiterInv, waitlocal
    <3>. QED
      BY <1>1, <3>1
  <2>. QED
    BY <2>1, <2>2, <2>3
<1>. QED
    BY <1>2, <1>3, OtherSteps

-----------------------------------------------------------------------------
(* The two wakeups                                                         *)

\* A task added while the consumer goes to sleep is always announced: the flag
\* is set, so the producer notifies, and it cannot notify before the consumer
\* is in the wait because of m_mtx_more_task.
LEMMA ConsumerWakeupStep ==
    ASSUME TypeOK, MutexInv, FlagInv, ConsumerWakeup, [Next]_vars
    PROVE  ConsumerWakeup'
<1>. SUFFICES ASSUME cpc' \in {"sleep", "sleeping"}, HasTask'
              PROVE  \E p \in Producers : pc'[p] \in {"tas", "notify"}
    BY DEF ConsumerWakeup
<1>1. CASE StartWorker
    BY <1>1 DEF StartWorker
<1>2. ASSUME NEW p \in Producers, AddTask(p)
      PROVE  pc'[p] \in {"tas", "notify"}
    BY <1>2 DEF TypeOK, AddTask, Goto
<1>3. ASSUME NEW p \in Producers, WaitEnter(p) \/ WaitStep(p)
      PROVE  \E q \in Producers : pc'[q] \in {"tas", "notify"}
  <2>1. UNCHANGED <<cpc, counters>>
    BY <1>3 DEF WaitEnter, WaitStep, WaitFastPath, WaitLock, WaitLoad,
                WaitEnqueue, WaitCheck, WaitSleep, WaitWake, WaitPop,
                WaitReturn, consumer
  <2>2. PICK q \in Producers : pc[q] \in {"tas", "notify"}
    BY <2>1 DEF ConsumerWakeup, HasTask, counters
  <2>3. pc[p] \notin {"tas", "notify"}
    BY <1>3 DEF WaitEnter, WaitStep, WaitFastPath, WaitLock, WaitLoad,
                WaitEnqueue, WaitCheck, WaitSleep, WaitWake, WaitPop, WaitReturn
  <2>4. CASE WaitPop(p)
    BY <2>2, <2>3, <2>4 DEF TypeOK, WaitPop, Woken
  <2>5. CASE ~WaitPop(p)
    <3>1. pc'[q] = pc[q]
      BY <1>3, <2>2, <2>3, <2>5
      DEF TypeOK, WaitEnter, WaitStep, WaitFastPath, WaitLock, WaitLoad,
          WaitEnqueue, WaitCheck, WaitSleep, WaitWake, WaitReturn, Goto
    <3>. QED
      BY <2>2, <3>1
  <2>. QED
    BY <2>4, <2>5
<1>4. ASSUME NEW p \in Producers, AddTestAndSet(p)
      PROVE  pc'[p] \in {"tas", "notify"}
  <2>1. cpc \in HoldsFlag
    BY <1>4 DEF AddTestAndSet, consumer
  <2>2. m_consumer_waiting
    BY <2>1 DEF FlagInv
  <2>. QED
    BY <1>4, <2>2 DEF TypeOK, AddTestAndSet, Goto
<1>5. ASSUME NEW p \in Producers, AddClear(p)
      PROVE  FALSE
    BY <1>5 DEF FlagInv, FlagExclusive, AddClear, consumer
<1>6. ASSUME NEW p \in Producers, AddNotify(p)
      PROVE  FALSE
    BY <1>6 DEF MutexInv, AddNotify, ConsumerAfterNotify
<1>7. CASE FetchStep
  <2>1. CASE FetchCheckTot
    BY <2>1 DEF FetchCheckTot, HasTask, CGoto, counters
  <2>2. CASE FetchSleep
    BY <2>2 DEF ConsumerWakeup, FetchSleep, HasTask, CGoto, counters
  <2>. QED
    BY <1>7, <2>1, <2>2 DEF FetchStep, FetchLoop, FetchTestAndSet, FetchLock,
                            FetchWake, FetchUnflag, FetchCheckExit, CGoto
<1>8. CASE CommitStep
    BY <1>8 DEF CommitStep, CommitAdd, CommitCheckTarget, CommitNotify, CGoto
<1>9. CASE DtorStep
  <2>1. CASE DtorSignal
    BY <2>1 DEF MutexInv, DtorSignal, ConsumerAfterNotify
  <2>2. CASE DtorEnter \/ DtorJoin
    BY <2>2 DEF ConsumerWakeup, DtorEnter, DtorJoin, HasTask, counters, consumer
  <2>. QED
    BY <1>9, <2>1, <2>2 DEF DtorStep
<1>10. CASE SpuriousWakeup
    BY <1>10 DEF TypeOK, ConsumerWakeup, SpuriousWakeup, HasTask, Goto, counters, consumer
<1>11. CASE UNCHANGED vars
    BY <1>11 DEF ConsumerWakeup, HasTask, vars, counters, consumer
<1>. QED
    BY <1>1, <1>2, <1>3, <1>4, <1>5, <1>6, <1>7, <1>8, <1>9, <1>10, <1>11
    DEF Next, AddStep, Terminated

\* The comparison of consumer_commit() that must succeed for the notification.
WillNotify == cpc = "notify" \/ (cpc = "check_target" /\ m_finished_task >= m_waiter_target)

\* A reached target of a sleeper is at or behind the front of the queue when
\* the consumer counts, and whoever moves the front before the consumer has
\* compared wakes all the sleepers itself.
LEMMA ProducerWakeupStep ==
    ASSUME TypeOK, StartInv, MutexInv, CountInv, QueueInv,
           \A p \in Producers : WaiterInv(p), ProducerWakeup, [Next]_vars
    PROVE  ProducerWakeup'
<1>. SUFFICES ASSUME NEW p \in Producers, pc'[p] \in {"w_sleep", "w_sleeping"},
                     m_finished_task' >= wait_target'[p]
              PROVE  WillNotify'
    BY DEF ProducerWakeup, WillNotify
<1>1. /\ m_finished_task \in Nat /\ m_tot_task \in Nat /\ m_waiter_target \in Nat
      /\ wait_target[p] \in Nat
    BY DEF TypeOK
<1>2. CASE OwnStep(p)
  <2>1. WaitCheck(p) \/ WaitSleep(p)
    <3>1. ~AddTask(p) /\ ~WaitEnter(p) /\ ~AddStep(p)
      BY DEF TypeOK, AddTask, WaitEnter, AddStep, AddTestAndSet, AddClear,
             AddNotify, Goto
    <3>2. ~WaitFastPath(p) /\ ~WaitLock(p) /\ ~WaitLoad(p) /\ ~WaitEnqueue(p)
      BY DEF TypeOK, WaitFastPath, WaitLock, WaitLoad, WaitEnqueue, Goto
    <3>3. ~WaitPop(p) /\ ~WaitWake(p) /\ ~WaitReturn(p)
      BY DEF TypeOK, WaitPop, Woken, WaitWake, WaitReturn, Goto
    <3>. QED
      BY <1>2, <3>1, <3>2, <3>3, ZenonT(30) DEF OwnStep, WaitStep
  <2>2. ~WaitCheck(p)
    BY <1>1 DEF TypeOK, WaitCheck, Goto, counters
  <2>3. CASE WaitSleep(p)
    BY <2>3 DEF ProducerWakeup, WillNotify, WaitSleep, counters, targets,
                waitlocal, consumer
  <2>. QED
    BY <2>1, <2>2, <2>3
<1>3. CASE Passive(p) /\ ~OwnStep(p)
  <2>1. pc'[p] = pc[p] /\ wait_target'[p] = wait_target[p]
    BY <1>3 DEF Passive
  <2>2. CASE CommitAdd
    <3>1. m_finished_task < wait_target[p]
      BY <1>1, <2>1, <2>2 DEF ProducerWakeup, CommitAdd
    <3>2. PICK i \in 1 .. Len(m_waiter_target_queue) :
                 m_waiter_target_queue[i] = wait_target[p]
      BY <2>1, <3>1 DEF WaiterInv, Enqueued
    <3>3. m_waiter_target <= wait_target[p]
      <4>4. m_waiter_target_queue \in Seq(Nat)
        BY DEF TypeOK
      <4>1. /\ 1 \in 1 .. Len(m_waiter_target_queue)
            /\ m_waiter_target_queue # <<>>
        BY <3>2, <4>4
      <4>2. m_waiter_target = m_waiter_target_queue[1]
        BY <4>1 DEF QueueInv
      <4>3. i = 1 \/ m_waiter_target_queue[1] < m_waiter_target_queue[i]
        BY <3>2, <4>1 DEF QueueInv
      <4>. QED
        BY <1>1, <3>2, <4>2, <4>3
    <3>4. /\ m_waiter_target' = m_waiter_target
          /\ m_finished_task' = m_finished_task + 1
          /\ cpc' = "check_target"
      BY <2>2 DEF CommitAdd, CGoto, targets
    <3>. QED
      BY <1>1, <2>1, <3>3, <3>4 DEF WillNotify
  <2>3. CASE CommitCheckTarget
    BY <2>1, <2>3 DEF ProducerWakeup, WillNotify, CommitCheckTarget, CGoto,
                      counters, waitlocal
  <2>4. CASE CommitNotify
    BY <2>1, <2>4 DEF TypeOK, MutexInv, CommitNotify, Woken
  <2>5. ASSUME m_finished_task' = m_finished_task
        PROVE  WillNotify
    BY <2>1, <2>5 DEF ProducerWakeup, WillNotify
  <2>6. ASSUME NEW q \in Producers, WaitEnqueue(q)
        PROVE  WillNotify'
    <3>1. WillNotify
      BY <2>5, <2>6 DEF WaitEnqueue, counters
    <3>2. CASE m_waiter_target_queue = <<>>
      <4>1. m_waiter_target = SizeMax
        BY <3>2 DEF QueueInv
      <4>2. m_finished_task < SizeMax
        BY <1>1, SizeMaxAssumption DEF CountInv, NeverAhead
      <4>3. cpc = "notify"
        BY <1>1, <3>1, <4>1, <4>2, SizeMaxAssumption DEF WillNotify
      <4>4. cpc' = cpc
        BY <2>6 DEF WaitEnqueue, consumer
      <4>. QED
        BY <4>3, <4>4 DEF WillNotify
    <3>3. CASE m_waiter_target_queue # <<>>
      BY <2>6, <3>1, <3>3 DEF WillNotify, WaitEnqueue, counters, consumer
    <3>. QED
      BY <3>2, <3>3
  <2>7. ASSUME NEW q \in Producers, WaitPop(q)
        PROVE  WillNotify'
    <3>1. WillNotify
      BY <2>5, <2>7, ZenonT(30) DEF WaitPop, counters
    <3>2. q # p
      BY <1>3, <2>7, ZenonT(30) DEF OwnStep, WaitStep
    <3>3. CASE m_waiter_target_queue = <<>>
      <4>1. m_waiter_target_queue' = <<>>
        <5>1. m_waiter_target_queue' \in Seq(Nat)
          BY TypeStep DEF TypeOK
        <5>2. Len(m_waiter_target_queue) = 0
          BY <3>3
        <5>3. Len(m_waiter_target_queue') = 0
          BY <2>7, <5>2, PopEffect
        <5>. QED
          BY <5>1, <5>3
      <4>2. m_waiter_target' = m_waiter_target
        BY <2>7, <3>3, <4>1 DEF WaitPop, QueueInv
      <4>. QED
        BY <2>7, <3>1, <4>2, ZenonT(30) DEF WillNotify, WaitPop, counters, consumer
    <3>4. CASE m_waiter_target_queue # <<>>
      <4>1. pc[p] # "w_sleeping"
        BY <2>1, <2>7, <3>2, <3>4 DEF TypeOK, WaitPop, Woken
      <4>2. pc[p] # "w_sleep"
        BY <2>7, <3>2 DEF MutexInv, WaitPop
      <4>. QED
        BY <2>1, <4>1, <4>2
    <3>. QED
      BY <3>3, <3>4
  <2>8. ASSUME UNCHANGED <<counters, targets>>, cpc' = cpc \/ cpc = "sleeping"
        PROVE  WillNotify'
    BY <2>5, <2>8 DEF WillNotify, counters, targets
  <2>9. CASE StartWorker
    BY <2>5, <2>9 DEF StartInv, WillNotify, StartWorker, counters
  <2>10. CASE FetchStep
    BY <2>5, <2>10 DEF WillNotify, FetchStep, FetchLoop, FetchTestAndSet,
                       FetchLock, FetchCheckTot, FetchSleep, FetchWake,
                       FetchUnflag, FetchCheckExit, counters
  <2>11. ASSUME NEW q \in Producers, AddTask(q)
         PROVE  WillNotify'
    BY <2>5, <2>11 DEF WillNotify, AddTask, targets, consumer
  <2>12. ASSUME NEW q \in Producers, WaitEnter(q) \/ AddStep(q)
         PROVE  WillNotify'
    BY <2>8, <2>12 DEF WaitEnter, AddStep, AddTestAndSet, AddClear, AddNotify,
                       ConsumerAfterNotify, consumer
  <2>13. ASSUME NEW q \in Producers, WaitStep(q), ~WaitEnqueue(q), ~WaitPop(q)
         PROVE  WillNotify'
    BY <2>8, <2>13, ZenonT(30) DEF WaitStep, WaitFastPath, WaitLock, WaitLoad, WaitCheck,
                       WaitSleep, WaitWake, WaitReturn, consumer
  <2>14. CASE DtorStep
    BY <2>8, <2>14, ZenonT(30) DEF DtorStep, DtorEnter, DtorSignal, DtorJoin,
                       ConsumerAfterNotify, consumer
  <2>15. CASE SpuriousWakeup \/ UNCHANGED vars
    BY <2>8, <2>15 DEF SpuriousWakeup, vars, consumer
  <2>. QED
    BY <2>2, <2>3, <2>4, <2>6, <2>7, <2>9, <2>10, <2>11, <2>12, <2>13, <2>14,
       <2>15
    DEF Next, CommitStep, Terminated
<1>. QED
    BY <1>2, <1>3, OtherSteps

-----------------------------------------------------------------------------
(* The destructor, and the theorems                                        *)

\* No call is in progress once the destructor has begun, and the consumer
\* returns 0 only because of it.
LEMMA DtorInvStep ==
    ASSUME TypeOK, DtorInv, [Next]_vars
    PROVE  DtorInv'
<1>1. CASE StartWorker
    BY <1>1 DEF DtorInv, StartWorker
<1>2. ASSUME NEW p \in Producers, OwnStep(p)
      PROVE  DtorInv'
  <2>1. dtor = "live"
    BY <1>2, ZenonT(30) DEF DtorInv, OwnStep, AddTask, WaitEnter, AddStep, AddTestAndSet,
                AddClear, AddNotify, WaitStep, WaitFastPath, WaitLock, WaitLoad,
                WaitEnqueue, WaitCheck, WaitSleep, WaitWake, WaitPop, WaitReturn
  <2>2. UNCHANGED <<dtor, m_should_exit>>
    BY <1>2, ZenonT(30) DEF OwnStep, AddTask, WaitEnter, AddStep, AddTestAndSet, AddClear,
                AddNotify, WaitStep, WaitFastPath, WaitLock, WaitLoad,
                WaitEnqueue, WaitCheck, WaitSleep, WaitWake, WaitPop,
                WaitReturn, flags
  <2>3. cpc' = cpc \/ cpc' = "woken"
    BY <1>2, ZenonT(30) DEF OwnStep, AddTask, WaitEnter, AddStep, AddTestAndSet, AddClear,
                AddNotify, ConsumerAfterNotify, WaitStep, WaitFastPath,
                WaitLock, WaitLoad, WaitEnqueue, WaitCheck, WaitSleep, WaitWake,
                WaitPop, WaitReturn, consumer
  <2>. QED
    BY <2>1, <2>2, <2>3 DEF DtorInv
<1>3. CASE FetchStep
    BY <1>3 DEF DtorInv, FetchStep, FetchLoop, FetchTestAndSet, FetchLock,
                FetchCheckTot, FetchSleep, FetchWake, FetchUnflag,
                FetchCheckExit, CGoto, flags
<1>4. CASE CommitStep
    BY <1>4 DEF TypeOK, DtorInv, CommitStep, CommitAdd, CommitCheckTarget,
                CommitNotify, Woken, CGoto, flags
<1>5. CASE DtorStep
    BY <1>5 DEF DtorInv, DtorStep, DtorEnter, DtorSignal, DtorJoin,
                ConsumerAfterNotify, flags, consumer
<1>6. CASE SpuriousWakeup
    BY <1>6 DEF TypeOK, DtorInv, SpuriousWakeup, Goto, flags, consumer
<1>7. CASE UNCHANGED vars
    BY <1>7 DEF DtorInv, vars, flags, consumer
<1>. QED
    BY <1>1, <1>2, <1>3, <1>4, <1>5, <1>6, <1>7 DEF Next, OwnStep, Terminated

\* The inductive invariant holds in a new object.
LEMMA InitIInv == Init => IInv
<1>. SUFFICES ASSUME Init PROVE IInv
    OBVIOUS
<1>1. TypeOK
    BY TypeInit
<1>2. MutexInv /\ StartInv /\ FlagInv /\ DtorInv
    BY DEF Init, MutexInv, StartInv, FlagInv, FlagExclusive, DtorInv
<1>3. CountInv /\ QueueInv
    BY SizeMaxAssumption DEF Init, CountInv, NeverAhead, QueueInv
<1>4. \A p \in Producers : WaiterInv(p)
    BY ZenonT(30) DEF Init, WaiterInv, Enqueued
<1>5. WaitSound /\ ConsumerWakeup /\ ProducerWakeup
    BY DEF Init, WaitSound, ConsumerWakeup, ProducerWakeup
<1>. QED
    BY <1>1, <1>2, <1>3, <1>4, <1>5 DEF IInv

\* Every operation keeps the inductive invariant.
LEMMA NextIInv ==
    ASSUME IInv, [Next]_vars
    PROVE  IInv'
<1>1. TypeOK' /\ StartInv' /\ MutexInv' /\ FlagInv'
    BY TypeStep, StartStep, MutexStep, FlagStep DEF IInv
<1>2. CountInv' /\ QueueInv' /\ DtorInv'
    BY CountStep, QueueStep, DtorInvStep DEF IInv
<1>3. ASSUME NEW p \in Producers
      PROVE  WaiterInv(p)'
    BY WaiterOwn, WaiterPassive, OtherSteps DEF IInv
<1>4. WaitSound' /\ ConsumerWakeup' /\ ProducerWakeup'
    BY WaitSoundStep, ConsumerWakeupStep, ProducerWakeupStep DEF IInv
<1>. QED
    BY <1>1, <1>2, <1>3, <1>4 DEF IInv

\* IInv holds in every reachable state.
THEOREM InductiveInvariant == Spec => []IInv
BY InitIInv, NextIInv, PTL DEF Spec

\* producer_wait() never returns before the tasks added before it was called
\* are committed, for any number of producers waiting at the same time.
THEOREM WaitSoundness == Spec => []WaitSound
<1>1. IInv => WaitSound
    BY DEF IInv
<1>. QED
    BY InductiveInvariant, <1>1, PTL

\* No wakeup of the consumer is lost: neither the unlocked add nor the flag lets
\* a task arrive unannounced at a sleeping consumer.
THEOREM ConsumerNotForgotten == Spec => []ConsumerWakeup
<1>1. IInv => ConsumerWakeup
    BY DEF IInv
<1>. QED
    BY InductiveInvariant, <1>1, PTL

\* No wakeup of a waiting producer is lost: whoever moves m_waiter_target
\* notifies, so a finished waiter always has a notification on its way.
THEOREM ProducerNotForgotten == Spec => []ProducerWakeup
<1>1. IInv => ProducerWakeup
    BY DEF IInv
<1>. QED
    BY InductiveInvariant, <1>1, PTL

\* The mgb_assert on the order of the target queue in producer_wait() never
\* fails.
THEOREM QueueOrder == Spec => []QueueAssertHolds
<1>1. IInv => QueueAssertHolds
  <2>. SUFFICES ASSUME IInv, NEW p \in Producers, pc[p] = "w_enqueue",
                       m_waiter_target_queue # <<>>
                PROVE  wait_target[p] >= QueueBack
    BY DEF QueueAssertHolds
  <2>1. Len(m_waiter_target_queue) \in 1 .. Len(m_waiter_target_queue)
    BY DEF IInv, TypeOK
  <2>2. wait_target[p] \in Nat /\ QueueBack \in Nat
    BY <2>1 DEF IInv, TypeOK, QueueBack
  <2>3. QueueBack <= wait_target[p]
    BY <2>1 DEF IInv, WaiterInv, QueueBack
  <2>. QED
    BY <2>2, <2>3
<1>. QED
    BY InductiveInvariant, <1>1, PTL

-----------------------------------------------------------------------------
(* The synchronizer implements TaskSync                                    *)

\* The waits the interface sees: the calls of producer_wait() in progress.
Waiting == [p \in Producers |-> IF pc[p] \in WaitPc THEN {entry_tot[p]} ELSE {}]

\* A new object is a new TaskSync.
LEMMA RefinementInit == Init => Abstract!Init
BY DEF Init, Abstract!Init

\* Steps that leave the counts, the calls in progress and the consumer's hold
\* on a task alone are invisible.
LEMMA Invisible ==
    ASSUME UNCHANGED counters, Waiting' = Waiting,
           cpc' = "work" <=> cpc = "work", cpc' = "exit" <=> cpc = "exit"
    PROVE  UNCHANGED Abstract!vars
BY DEF Abstract!vars, Waiting, counters

\* Every step of the synchronizer is a step of TaskSync or invisible in it.
LEMMA RefinementStep ==
    ASSUME IInv, [Next]_vars
    PROVE  [Abstract!Next]_(Abstract!vars)
<1>. TypeOK
    BY DEF IInv
<1>1. CASE StartWorker
    BY <1>1, Invisible, ZenonT(30) DEF IInv, StartInv, StartWorker, Waiting, waitlocal
<1>2. ASSUME NEW p \in Producers, AddTask(p)
      PROVE  Abstract!Add(p)
  <2>1. Waiting' = Waiting
    BY <1>2 DEF TypeOK, AddTask, Goto, Waiting, waitlocal
  <2>. QED
    BY <1>2, <2>1, ZenonT(30) DEF Abstract!Add, AddTask, Waiting, consumer
<1>3. ASSUME NEW p \in Producers, WaitEnter(p)
      PROVE  Abstract!WaitBegin(p)
    BY <1>3, ZenonT(30) DEF TypeOK, Abstract!WaitBegin, WaitEnter, Goto, counters, consumer
<1>4. ASSUME NEW p \in Producers, AddStep(p)
      PROVE  UNCHANGED Abstract!vars
  <2>1. Waiting' = Waiting
    BY <1>4, ZenonT(30) DEF TypeOK, AddStep, AddTestAndSet, AddClear, AddNotify, Goto,
                Waiting, waitlocal
  <2>. QED
    BY <1>4, <2>1, Invisible DEF AddStep, AddTestAndSet, AddClear, AddNotify,
                                 ConsumerAfterNotify, consumer
<1>5. ASSUME NEW p \in Producers, WaitReturn(p)
      PROVE  Abstract!WaitEnd(p)
  <2>1. m_finished_task >= entry_tot[p]
    BY <1>5 DEF IInv, WaitSound, WaitReturn
  <2>. QED
    BY <1>5, <2>1, ZenonT(30) DEF TypeOK, Abstract!WaitEnd, WaitReturn, Goto, counters, consumer
<1>6. ASSUME NEW p \in Producers, WaitStep(p), ~WaitReturn(p)
      PROVE  UNCHANGED Abstract!vars
  <2>1. UNCHANGED <<counters, cpc, entry_tot>>
    BY <1>6, ZenonT(30) DEF WaitStep, WaitFastPath, WaitLock, WaitLoad, WaitEnqueue,
                WaitCheck, WaitSleep, WaitWake, WaitPop, waitlocal, consumer
  <2>2. \A q \in Producers : pc'[q] \in WaitPc <=> pc[q] \in WaitPc
    <3>1. CASE WaitFastPath(p) \/ WaitLock(p) \/ WaitLoad(p) \/ WaitEnqueue(p)
      BY <3>1 DEF TypeOK, WaitFastPath, WaitLock, WaitLoad, WaitEnqueue, Goto
    <3>2. CASE WaitCheck(p) \/ WaitSleep(p) \/ WaitWake(p)
      BY <3>2 DEF TypeOK, WaitCheck, WaitSleep, WaitWake, Goto
    <3>3. CASE WaitPop(p)
      BY <3>3 DEF TypeOK, WaitPop, Woken
    <3>. QED
      BY <1>6, <3>1, <3>2, <3>3, ZenonT(30) DEF WaitStep
  <2>3. Waiting' = Waiting
    BY <2>1, <2>2, Zenon DEF Waiting
  <2>. QED
    BY <2>1, <2>3, Invisible
<1>7. CASE FetchStep
  <2>1. UNCHANGED counters /\ Waiting' = Waiting
    BY <1>7 DEF FetchStep, FetchLoop, FetchTestAndSet, FetchLock, FetchCheckTot,
                FetchSleep, FetchWake, FetchUnflag, FetchCheckExit, Waiting,
                waitlocal
  <2>2. cpc \notin {"work", "exit"}
    BY <1>7 DEF FetchStep, FetchLoop, FetchTestAndSet, FetchLock, FetchCheckTot,
                FetchSleep, FetchWake, FetchUnflag, FetchCheckExit
  <2>3. CASE cpc' = "work"
    <3>1. m_finished_task < m_tot_task
      BY <1>7, <2>3 DEF IInv, CountInv, NeverAhead, TypeOK, HasTask, FetchStep,
                FetchLoop, FetchTestAndSet, FetchLock, FetchCheckTot,
                FetchSleep, FetchWake, FetchUnflag, FetchCheckExit, CGoto
    <3>2. Abstract!Fetch
      BY <2>1, <2>2, <2>3, <3>1 DEF Abstract!Fetch, Waiting, counters
    <3>. QED
      BY <3>2 DEF Abstract!Next
  <2>4. CASE cpc' = "exit"
    <3>1. m_should_exit
      BY <1>7, <2>4 DEF IInv, DtorInv, FetchStep, FetchLoop, FetchTestAndSet,
                FetchLock, FetchCheckTot, FetchSleep, FetchWake, FetchUnflag,
                FetchCheckExit, CGoto
    <3>2. \A p \in Producers : pc[p] = "idle"
      BY <3>1 DEF IInv, DtorInv
    <3>3. Abstract!Exit
      BY <2>1, <2>2, <2>4, <3>2 DEF Abstract!Exit, Waiting, counters
    <3>. QED
      BY <3>3 DEF Abstract!Next
  <2>5. CASE cpc' \notin {"work", "exit"}
    BY <2>1, <2>2, <2>5, Invisible
  <2>. QED
    BY <2>3, <2>4, <2>5
<1>8. CASE CommitAdd
    BY <1>8 DEF Abstract!Next, Abstract!Commit, CommitAdd, CGoto, waitlocal
<1>9. CASE CommitCheckTarget \/ CommitNotify
  <2>1. Waiting' = Waiting
    BY <1>9, ZenonT(30) DEF TypeOK, CommitCheckTarget, CommitNotify, Woken, Waiting, waitlocal
  <2>. QED
    BY <1>9, <2>1, Invisible DEF CommitCheckTarget, CommitNotify, CGoto
<1>10. CASE DtorStep
    BY <1>10, Invisible DEF DtorStep, DtorEnter, DtorSignal, DtorJoin,
                            ConsumerAfterNotify, Waiting, waitlocal, consumer
<1>11. CASE SpuriousWakeup
  <2>1. Waiting' = Waiting
    BY <1>11, ZenonT(30) DEF TypeOK, SpuriousWakeup, Goto, Waiting, waitlocal
  <2>. QED
    BY <1>11, <2>1, Invisible DEF SpuriousWakeup, consumer
<1>12. CASE UNCHANGED vars
    BY <1>12, Invisible DEF vars, Waiting, waitlocal, consumer
<1>. QED
    BY <1>1, <1>2, <1>3, <1>4, <1>5, <1>6, <1>7, <1>8, <1>9, <1>10, <1>11, <1>12
    DEF Next, CommitStep, Terminated, Abstract!Next

\* The lock-light synchronizer implements the interface TaskSync, which is what
\* AsyncQueueSC relies on.
THEOREM Refinement == Spec => ImplementsTaskSync
BY RefinementInit, RefinementStep, InductiveInvariant, PTL
   DEF Spec, ImplementsTaskSync, Abstract!Spec
=============================================================================
