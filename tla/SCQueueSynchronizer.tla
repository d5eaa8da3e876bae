------------------------ MODULE SCQueueSynchronizer ------------------------
(***************************************************************************)
(* The lock-light synchronizer between the producers of a task queue and   *)
(* its single consumer (class SCQueueSynchronizer).  One step is one       *)
(* access to an atomic, or one critical section whose body touches only    *)
(* what its mutex protects.  Memory is sequentially consistent.            *)
(*                                                                         *)
(* A thread blocked in condition_variable::wait has a "sleeping" program   *)
(* counter; notify_all moves every such thread to "woken", from where it   *)
(* takes the mutex again.  Spurious wakeups are allowed.                   *)
(***************************************************************************)
EXTENDS Naturals, Sequences

CONSTANTS
    Producers,  \* threads that call producer_add() and producer_wait()
    SizeMax,    \* numeric_limits<size_t>::max(); also bounds the task count
    MaxSpin     \* m_max_spin

ASSUME SizeMaxAssumption == SizeMax \in Nat \ {0}
ASSUME MaxSpinAssumption == MaxSpin \in Nat

VARIABLES
    m_consumer_waiting,     \* atomic_flag: a spinlock around the sleep protocol
    m_should_exit, m_worker_started, m_wait_finish_called,
    m_finished_task, m_tot_task,
    m_waiter_target,        \* finished count at which the consumer must notify
    m_waiter_target_queue,  \* pending targets, guarded by m_mtx_finished
    m_mtx_more_task,        \* held by the consumer (its only long section)
    m_mtx_finished,         \* set of the producers holding it
    pc,                     \* program counter of each producer
    wait_target,            \* local of producer_wait()
    done,                   \* local of producer_wait(): the last count it loaded
    entry_tot,              \* m_tot_task when producer_wait() was entered
    cpc,                    \* program counter of the consumer
    spin,                   \* local of consumer_fetch()
    dtor                    \* progress of the destructor

counters  == <<m_finished_task, m_tot_task>>
flags     == <<m_should_exit, m_worker_started, m_wait_finish_called>>
targets   == <<m_waiter_target, m_waiter_target_queue>>
mutexes   == <<m_mtx_more_task, m_mtx_finished>>
waitlocal == <<wait_target, done, entry_tot>>
consumer  == <<cpc, spin>>
vars == <<m_consumer_waiting, counters, flags, targets, mutexes, pc,
          waitlocal, consumer, dtor>>

AddPc == {"tas", "clear", "notify"}
HoldsFinished == {"w_load", "w_enqueue", "w_check", "w_sleep", "w_pop"}
WaitPc == HoldsFinished \cup {"w_enter", "w_lock", "w_sleeping", "w_woken", "w_end"}

\* the consumer holds m_consumer_waiting at these counters
HoldsFlag == {"lock", "check_tot", "sleep", "sleeping", "woken",
              "unflag_exit", "unflag_work", "unflag_loop"}
ConsumerPc == HoldsFlag \cup
    {"none", "fetch", "tas", "check_exit", "work", "check_target", "notify", "exit"}

Init ==
    /\ m_consumer_waiting = FALSE
    /\ m_should_exit = FALSE
    /\ m_worker_started = FALSE
    /\ m_wait_finish_called = FALSE
    /\ m_finished_task = 0
    /\ m_tot_task = 0
    /\ m_waiter_target = SizeMax
    /\ m_waiter_target_queue = <<>>
    /\ m_mtx_more_task = FALSE
    /\ m_mtx_finished = {}
    /\ pc = [p \in Producers |-> "idle"]
    /\ wait_target = [p \in Producers |-> 0]
    /\ done = [p \in Producers |-> 0]
    /\ entry_tot = [p \in Producers |-> 0]
    /\ cpc = "none"
    /\ spin = 0
    /\ dtor = "live"

Goto(p, l) == pc' = [pc EXCEPT ![p] = l]

-----------------------------------------------------------------------------
(* start_worker(): called by the queue before its first producer_add()     *)

StartWorker ==
    /\ dtor = "live"
    /\ ~m_worker_started
    /\ m_worker_started' = TRUE
    /\ cpc' = "fetch"
    /\ UNCHANGED <<m_consumer_waiting, counters, m_should_exit,
                   m_wait_finish_called, targets, mutexes, pc, waitlocal, spin, dtor>>

-----------------------------------------------------------------------------
(* producer_add()                                                          *)

AddTask(p) ==
    /\ pc[p] = "idle" /\ dtor = "live" /\ m_worker_started
    /\ m_tot_task + 1 < SizeMax
    /\ m_wait_finish_called' = FALSE
    /\ m_tot_task' = m_tot_task + 1
    /\ Goto(p, "tas")
    /\ UNCHANGED <<m_consumer_waiting, m_finished_task, m_should_exit,
                   m_worker_started, targets, mutexes, waitlocal, consumer, dtor>>

\* m_consumer_waiting.test_and_set(): taken by the consumer or by another
\* producer means a notification is due
AddTestAndSet(p) ==
    /\ pc[p] = "tas"
    /\ m_consumer_waiting' = TRUE
    /\ \/ m_consumer_waiting /\ Goto(p, "notify")
       \/ ~m_consumer_waiting /\ Goto(p, "clear")
    /\ UNCHANGED <<counters, flags, targets, mutexes, waitlocal, consumer, dtor>>

AddClear(p) ==
    /\ pc[p] = "clear"
    /\ m_consumer_waiting' = FALSE
    /\ Goto(p, "idle")
    /\ UNCHANGED <<counters, flags, targets, mutexes, waitlocal, consumer, dtor>>

\* m_cv_more_task.notify_all(): the consumer is the only waiter
ConsumerAfterNotify == IF cpc = "sleeping" THEN "woken" ELSE cpc

AddNotify(p) ==
    /\ pc[p] = "notify"
    /\ ~m_mtx_more_task
    /\ cpc' = ConsumerAfterNotify
    /\ Goto(p, "idle")
    /\ UNCHANGED <<m_consumer_waiting, counters, flags, targets, mutexes,
                   waitlocal, spin, dtor>>

-----------------------------------------------------------------------------
(* producer_wait()                                                         *)

WaitEnter(p) ==
    /\ pc[p] = "idle" /\ dtor = "live"
    /\ wait_target' = [wait_target EXCEPT ![p] = m_tot_task]
    /\ entry_tot' = [entry_tot EXCEPT ![p] = m_tot_task]
    /\ Goto(p, "w_enter")
    /\ UNCHANGED <<m_consumer_waiting, counters, flags, targets, mutexes,
                   done, consumer, dtor>>

WaitFastPath(p) ==
    /\ pc[p] = "w_enter"
    /\ \/ m_worker_started /\ m_finished_task < wait_target[p] /\ Goto(p, "w_lock")
       \/ (~m_worker_started \/ m_finished_task >= wait_target[p]) /\ Goto(p, "w_end")
    /\ UNCHANGED <<m_consumer_waiting, counters, flags, targets, mutexes,
                   waitlocal, consumer, dtor>>

WaitLock(p) ==
    /\ pc[p] = "w_lock"
    /\ m_mtx_finished = {}
    /\ m_mtx_finished' = {p}
    /\ Goto(p, "w_load")
    /\ UNCHANGED <<m_consumer_waiting, counters, flags, targets,
                   m_mtx_more_task, waitlocal, consumer, dtor>>

\* "update wait_target again in this critical section"
WaitLoad(p) ==
    /\ pc[p] = "w_load"
    /\ wait_target' = [wait_target EXCEPT ![p] = m_tot_task]
    /\ Goto(p, "w_enqueue")
    /\ UNCHANGED <<m_consumer_waiting, counters, flags, targets, mutexes,
                   done, entry_tot, consumer, dtor>>

QueueBack == m_waiter_target_queue[Len(m_waiter_target_queue)]

WaitEnqueue(p) ==
    /\ pc[p] = "w_enqueue"
    /\ m_waiter_target' = IF m_waiter_target_queue = <<>>
                          THEN wait_target[p] ELSE m_waiter_target
    /\ m_waiter_target_queue' =
           IF m_waiter_target_queue = <<>> \/ wait_target[p] > QueueBack
           THEN Append(m_waiter_target_queue, wait_target[p])
           ELSE m_waiter_target_queue
    /\ Goto(p, "w_check")
    /\ UNCHANGED <<m_consumer_waiting, counters, flags, mutexes, waitlocal,
                   consumer, dtor>>

\* Mutant: off by one in the comparison of done with wait_target.
WaitCheck_OffByOne(p) ==
    /\ pc[p] = "w_check"
    /\ done' = [done EXCEPT ![p] = m_finished_task]
    /\ Goto(p, IF m_finished_task + 1 >= wait_target[p] THEN "w_pop" ELSE "w_sleep")
    /\ UNCHANGED <<m_consumer_waiting, counters, flags, targets, mutexes,
                   wait_target, entry_tot, consumer, dtor>>

WaitCheck(p) ==
    /\ pc[p] = "w_check"
    /\ done' = [done EXCEPT ![p] = m_finished_task]
    /\ Goto(p, IF m_finished_task >= wait_target[p] THEN "w_pop" ELSE "w_sleep")
    /\ UNCHANGED <<m_consumer_waiting, counters, flags, targets, mutexes,
                   wait_target, entry_tot, consumer, dtor>>

\* m_cv_finished.wait(lock): release the mutex and block, atomically
WaitSleep(p) ==
    /\ pc[p] = "w_sleep"
    /\ m_mtx_finished' = {}
    /\ Goto(p, "w_sleeping")
    /\ UNCHANGED <<m_consumer_waiting, counters, flags, targets,
                   m_mtx_more_task, waitlocal, consumer, dtor>>

WaitWake(p) ==
    /\ pc[p] = "w_woken"
    /\ m_mtx_finished = {}
    /\ m_mtx_finished' = {p}
    /\ Goto(p, "w_check")
    /\ UNCHANGED <<m_consumer_waiting, counters, flags, targets,
                   m_mtx_more_task, waitlocal, consumer, dtor>>

\* m_cv_finished.notify_all()
Woken(f) == [q \in Producers |-> IF f[q] = "w_sleeping" THEN "w_woken" ELSE f[q]]

\* The pop loop removes the first n targets: those up to the first one that is
\* larger than the count loaded by the last WaitCheck.
PopLength(d, n) ==
    /\ \A j \in 1 .. n : m_waiter_target_queue[j] <= d
    /\ n < Len(m_waiter_target_queue) => m_waiter_target_queue[n + 1] > d

\* Mutant: the notify_all at the end of producer_wait() is dropped.
WaitPop_NoNotify(p) ==
    /\ pc[p] = "w_pop"
    /\ \E n \in 0 .. Len(m_waiter_target_queue) :
        /\ PopLength(done[p], n)
        /\ m_waiter_target_queue' =
               SubSeq(m_waiter_target_queue, n + 1, Len(m_waiter_target_queue))
    /\ m_waiter_target' = IF m_waiter_target_queue' = <<>>
                          THEN SizeMax ELSE m_waiter_target_queue'[1]
    /\ Goto(p, "w_end")
    /\ m_mtx_finished' = {}
    /\ UNCHANGED <<m_consumer_waiting, counters, flags, m_mtx_more_task,
                   waitlocal, consumer, dtor>>

WaitPop(p) ==
    /\ pc[p] = "w_pop"
    /\ \E n \in 0 .. Len(m_waiter_target_queue) :
        /\ PopLength(done[p], n)
        /\ m_waiter_target_queue' =
               SubSeq(m_waiter_target_queue, n + 1, Len(m_waiter_target_queue))
    /\ m_waiter_target' = IF m_waiter_target_queue' = <<>>
                          THEN SizeMax ELSE m_waiter_target_queue'[1]
    /\ pc' = IF m_waiter_target_queue = <<>>
             THEN [pc EXCEPT ![p] = "w_end"]
             ELSE [Woken(pc) EXCEPT ![p] = "w_end"]
    /\ m_mtx_finished' = {}
    /\ UNCHANGED <<m_consumer_waiting, counters, flags, m_mtx_more_task,
                   waitlocal, consumer, dtor>>

\* the locals go out of scope
WaitReturn(p) ==
    /\ pc[p] = "w_end"
    /\ m_wait_finish_called' = TRUE
    /\ Goto(p, "idle")
    /\ wait_target' = [wait_target EXCEPT ![p] = 0]
    /\ done' = [done EXCEPT ![p] = 0]
    /\ entry_tot' = [entry_tot EXCEPT ![p] = 0]
    /\ UNCHANGED <<m_consumer_waiting, counters, m_should_exit,
                   m_worker_started, targets, mutexes, consumer, dtor>>

-----------------------------------------------------------------------------
(* consumer_fetch(1)                                                       *)

CGoto(l) == cpc' = l

HasTask == m_tot_task >= m_finished_task + 1

\* the loop condition, and the choice between spinning and sleeping
FetchLoop ==
    /\ cpc = "fetch"
    /\ IF HasTask
       THEN CGoto("work") /\ spin' = 0
       ELSE /\ spin' = IF spin < MaxSpin THEN spin + 1 ELSE spin
            /\ CGoto(IF spin' >= MaxSpin THEN "tas" ELSE "check_exit")
    /\ UNCHANGED <<m_consumer_waiting, counters, flags, targets, mutexes, pc,
                   waitlocal, dtor>>

FetchTestAndSet ==
    /\ cpc = "tas"
    /\ ~m_consumer_waiting
    /\ m_consumer_waiting' = TRUE
    /\ CGoto("lock")
    /\ UNCHANGED <<counters, flags, targets, mutexes, pc, waitlocal, spin, dtor>>

\* take m_mtx_more_task and read m_should_exit, which is written under it
FetchLock ==
    /\ cpc = "lock"
    /\ ~m_mtx_more_task
    /\ \/ m_should_exit /\ CGoto("unflag_exit") /\ UNCHANGED m_mtx_more_task
       \/ ~m_should_exit /\ CGoto("check_tot") /\ m_mtx_more_task' = TRUE
    /\ UNCHANGED <<m_consumer_waiting, counters, flags, targets,
                   m_mtx_finished, pc, waitlocal, spin, dtor>>

\* Mutant: m_tot_task is not read again under the lock.
FetchCheckTot_Skipped ==
    /\ cpc = "check_tot"
    /\ CGoto("sleep")
    /\ UNCHANGED <<m_consumer_waiting, counters, flags, targets, mutexes, pc,
                   waitlocal, spin, dtor>>

FetchCheckTot ==
    /\ cpc = "check_tot"
    /\ \/ HasTask /\ CGoto("unflag_work") /\ m_mtx_more_task' = FALSE
       \/ ~HasTask /\ CGoto("sleep") /\ UNCHANGED m_mtx_more_task
    /\ UNCHANGED <<m_consumer_waiting, counters, flags, targets,
                   m_mtx_finished, pc, waitlocal, spin, dtor>>

\* m_cv_more_task.wait(lock)
FetchSleep ==
    /\ cpc = "sleep"
    /\ m_mtx_more_task' = FALSE
    /\ CGoto("sleeping")
    /\ UNCHANGED <<m_consumer_waiting, counters, flags, targets,
                   m_mtx_finished, pc, waitlocal, spin, dtor>>

\* the wait returns with the mutex, which the end of the scope releases
FetchWake ==
    /\ cpc = "woken"
    /\ ~m_mtx_more_task
    /\ CGoto("unflag_loop")
    /\ UNCHANGED <<m_consumer_waiting, counters, flags, targets, mutexes, pc,
                   waitlocal, spin, dtor>>

\* ~SpinlockReleaser
FetchUnflag ==
    /\ cpc \in {"unflag_exit", "unflag_work", "unflag_loop"}
    /\ m_consumer_waiting' = FALSE
    /\ CGoto(CASE cpc = "unflag_exit" -> "exit"
               [] cpc = "unflag_work" -> "work"
               [] cpc = "unflag_loop" -> "check_exit")
    /\ spin' = IF cpc = "unflag_work" THEN 0 ELSE spin
    /\ UNCHANGED <<counters, flags, targets, mutexes, pc, waitlocal, dtor>>

FetchCheckExit ==
    /\ cpc = "check_exit"
    /\ \/ m_should_exit /\ CGoto("exit")
       \/ ~m_should_exit /\ CGoto("fetch")
    /\ UNCHANGED <<m_consumer_waiting, counters, flags, targets, mutexes, pc,
                   waitlocal, spin, dtor>>

-----------------------------------------------------------------------------
(* consumer_commit(1)                                                      *)

CommitAdd ==
    /\ cpc = "work"
    /\ m_finished_task' = m_finished_task + 1
    /\ CGoto("check_target")
    /\ UNCHANGED <<m_consumer_waiting, m_tot_task, flags, targets, mutexes, pc,
                   waitlocal, spin, dtor>>

CommitCheckTarget ==
    /\ cpc = "check_target"
    /\ CGoto(IF m_finished_task >= m_waiter_target THEN "notify" ELSE "fetch")
    /\ UNCHANGED <<m_consumer_waiting, counters, flags, targets, mutexes, pc,
                   waitlocal, spin, dtor>>

CommitNotify ==
    /\ cpc = "notify"
    /\ m_mtx_finished = {}
    /\ pc' = Woken(pc)
    /\ CGoto("fetch")
    /\ UNCHANGED <<m_consumer_waiting, counters, flags, targets, mutexes,
                   waitlocal, spin, dtor>>

-----------------------------------------------------------------------------
(* ~SCQueueSynchronizer(): the owner destroys the object when no producer  *)
(* is inside it                                                            *)

DtorEnter ==
    /\ dtor = "live"
    /\ \A p \in Producers : pc[p] = "idle"
    /\ \/ ~m_worker_started /\ dtor' = "done"
       \/ m_worker_started /\ ~m_wait_finish_called /\ dtor' = "trap"
       \/ m_worker_started /\ m_wait_finish_called /\ dtor' = "closing"
    /\ UNCHANGED <<m_consumer_waiting, counters, flags, targets, mutexes, pc,
                   waitlocal, consumer>>

\* Mutant: the destructor sets m_should_exit without notifying.
DtorSignal_NoNotify ==
    /\ dtor = "closing"
    /\ ~m_mtx_more_task
    /\ m_should_exit' = TRUE
    /\ dtor' = "joining"
    /\ UNCHANGED <<m_consumer_waiting, counters, m_worker_started,
                   m_wait_finish_called, targets, mutexes, pc, waitlocal, consumer>>

DtorSignal ==
    /\ dtor = "closing"
    /\ ~m_mtx_more_task
    /\ m_should_exit' = TRUE
    /\ cpc' = ConsumerAfterNotify
    /\ dtor' = "joining"
    /\ UNCHANGED <<m_consumer_waiting, counters, m_worker_started,
                   m_wait_finish_called, targets, mutexes, pc, waitlocal, spin>>

DtorJoin ==
    /\ dtor = "joining"
    /\ cpc = "exit"
    /\ dtor' = "done"
    /\ UNCHANGED <<m_consumer_waiting, counters, flags, targets, mutexes, pc,
                   waitlocal, consumer>>

-----------------------------------------------------------------------------
(* The specification                                                       *)

\* the standard allows condition_variable::wait to return at any time
SpuriousWakeup ==
    \/ /\ cpc = "sleeping"
       /\ cpc' = "woken"
       /\ UNCHANGED <<m_consumer_waiting, counters, flags, targets, mutexes,
                      pc, waitlocal, spin, dtor>>
    \/ \E p \in Producers :
       /\ pc[p] = "w_sleeping"
       /\ Goto(p, "w_woken")
       /\ UNCHANGED <<m_consumer_waiting, counters, flags, targets, mutexes,
                      waitlocal, consumer, dtor>>

\* the process is over: destroyed, or stopped by mgb_trap()
Terminated ==
    /\ dtor \in {"done", "trap"}
    /\ UNCHANGED vars

AddStep(p)  == AddTestAndSet(p) \/ AddClear(p) \/ AddNotify(p)
WaitStep(p) ==
    \/ WaitFastPath(p) \/ WaitLock(p) \/ WaitLoad(p) \/ WaitEnqueue(p)
    \/ WaitCheck(p) \/ WaitSleep(p) \/ WaitWake(p) \/ WaitPop(p) \/ WaitReturn(p)
FetchStep ==
    \/ FetchLoop \/ FetchTestAndSet \/ FetchLock \/ FetchCheckTot \/ FetchSleep
    \/ FetchWake \/ FetchUnflag \/ FetchCheckExit
CommitStep == CommitAdd \/ CommitCheckTarget \/ CommitNotify
DtorStep == DtorEnter \/ DtorSignal \/ DtorJoin

Next ==
    \/ StartWorker
    \/ \E p \in Producers : AddTask(p) \/ WaitEnter(p) \/ AddStep(p) \/ WaitStep(p)
    \/ FetchStep
    \/ CommitStep
    \/ DtorStep
    \/ SpuriousWakeup
    \/ Terminated

Spec == Init /\ [][Next]_vars

\* Each thread that can run again and again is eventually scheduled.  Strong
\* fairness, because a thread queueing for a mutex or spinning on the flag sees
\* it free only now and then; a thread is at one place at a time, so fairness of
\* its steps together is fairness of each.
Fairness ==
    /\ \A p \in Producers : SF_vars(AddStep(p) \/ WaitStep(p))
    /\ SF_vars(FetchStep \/ CommitStep)
    /\ SF_vars(DtorSignal \/ DtorJoin)

FairSpec == Spec /\ Fairness

-----------------------------------------------------------------------------
(* Properties                                                              *)

\* The part of TypeOK about the Boolean fields.
FlagTypes ==
    /\ m_consumer_waiting \in BOOLEAN
    /\ m_should_exit \in BOOLEAN
    /\ m_worker_started \in BOOLEAN
    /\ m_wait_finish_called \in BOOLEAN
    /\ m_mtx_more_task \in BOOLEAN

\* Every variable keeps its type.
TypeOK ==
    /\ FlagTypes
    /\ m_finished_task \in Nat
    /\ m_tot_task \in Nat
    /\ m_waiter_target \in Nat
    /\ m_waiter_target_queue \in Seq(Nat)
    /\ m_mtx_finished \in SUBSET Producers
    /\ pc \in [Producers -> {"idle"} \cup AddPc \cup WaitPc]
    /\ wait_target \in [Producers -> Nat]
    /\ done \in [Producers -> Nat]
    /\ entry_tot \in [Producers -> Nat]
    /\ cpc \in ConsumerPc
    /\ spin \in Nat
    /\ dtor \in {"live", "closing", "joining", "done", "trap"}

\* The consumer never commits a task that was not added, and holds one
\* whenever it works: m_finished_task follows m_tot_task and never passes it.
NeverAhead ==
    /\ m_finished_task <= m_tot_task
    /\ cpc \in {"work", "unflag_work"} => m_finished_task < m_tot_task

\* producer_wait() returns only when every task added before it was called has
\* been committed, on the fast path and after any number of sleeps, whatever
\* the other waiters did to the shared target queue in between.
WaitSound ==
    \A p \in Producers : pc[p] = "w_end" => m_finished_task >= entry_tot[p]

\* mgb_assert(wait_target >= m_waiter_target_queue.back()) in producer_wait()
\* holds: the targets of concurrent waiters are queued in increasing order.
QueueAssertHolds ==
    \A p \in Producers :
        pc[p] = "w_enqueue" /\ m_waiter_target_queue # <<>>
            => wait_target[p] >= QueueBack

\* No lost wakeup of the consumer: it is never going to sleep, or asleep, while
\* a task is there, unless the producer that added one is still on its way to
\* the notification.
ConsumerWakeup ==
    cpc \in {"sleep", "sleeping"} /\ HasTask
        => \E p \in Producers : pc[p] \in {"tas", "notify"}

\* No lost wakeup of a producer: one that sleeps although its tasks are
\* finished will be notified by the commit in progress, whose comparison with
\* m_waiter_target still succeeds.
ProducerWakeup ==
    \A p \in Producers :
        pc[p] \in {"w_sleep", "w_sleeping"} /\ m_finished_task >= wait_target[p]
            => \/ cpc = "notify"
               \/ cpc = "check_target" /\ m_finished_task >= m_waiter_target

\* Only one of the consumer and the producers is between test_and_set and
\* clear of m_consumer_waiting, so no thread releases the other's flag.
FlagExclusive ==
    /\ \A p, q \in Producers : pc[p] = "clear" /\ pc[q] = "clear" => p = q
    /\ \A p \in Producers : pc[p] = "clear" => cpc \notin HoldsFlag

\* Every producer_add() and producer_wait() returns (the test
\* SynchronizerWaiterStarving: "this should not block long").
CallsReturn == \A p \in Producers : pc[p] # "idle" ~> pc[p] = "idle"

\* The destructor joins the worker: it never hangs once it has started.
DtorReturns == dtor = "closing" ~> dtor = "done"

-----------------------------------------------------------------------------
(* The synchronizer implements TaskSync                                    *)

Abstract == INSTANCE TaskSync WITH
    tot <- m_tot_task,
    finished <- m_finished_task,
    fetched <- cpc = "work",
    waiting <- [p \in Producers |-> IF pc[p] \in WaitPc THEN {entry_tot[p]} ELSE {}],
    exited <- cpc = "exit"

\* Seen through its two counters, the synchronizer does what its interface
\* comments say: producer_wait() returns only with its tasks finished,
\* consumer_fetch() only with a task present.
ImplementsTaskSync == Abstract!Spec
=============================================================================
