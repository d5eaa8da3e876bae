----------------------------- MODULE ThreadPool -----------------------------
(***************************************************************************)
(* The thread pool of the CPU comp nodes.  add_task() runs a task for      *)
(* every index below its parallelism: the workers and the calling thread   *)
(* take indices from the shared counter m_task_iter until none is left.    *)
(* The workers poll; only an inactive pool sleeps.                         *)
(*                                                                         *)
(* A step is one access to an atomic, one execution of the task, or one    *)
(* critical section of m_mutex.  A call with one index, or of a pool with  *)
(* one thread, runs the task in the caller and touches nothing here.       *)
(***************************************************************************)
EXTENDS Integers

CONSTANTS
    Callers,        \* threads that call add_task(), active() and deactive()
    m_nr_threads,   \* threads of the pool, a caller included
    Parallelism     \* bound: the values of nr_parallelism

Workers == 0 .. m_nr_threads - 2
Threads == Workers \cup Callers

ASSUME ThreadsAssumption == m_nr_threads \in Nat \ {0} /\ Callers \cap Workers = {}
ASSUME ParallelismAssumption == Parallelism \subseteq Nat

VARIABLES
    m_active, m_stop,
    m_mutex_task,       \* the set of its holders
    m_nr_parallelism,
    m_task_iter,
    work_flag,          \* of each worker
    pc,                 \* of each thread
    index,              \* index[t]: the index that t took
    nr,                 \* nr[c]: task_elem.nr_parallelism of the call of c
    i,                  \* i[c]: the loop over the workers in c
    runs                \* history: how often the current task ran, by index

pool == <<m_active, m_stop>>
task == <<m_mutex_task, m_nr_parallelism, runs>>
locals == <<index, nr, i>>
vars == <<pool, task, m_task_iter, work_flag, pc, locals>>

Init ==
    /\ m_active = FALSE /\ m_stop = FALSE
    /\ m_mutex_task = {}
    /\ m_nr_parallelism = 0
    /\ m_task_iter = 0
    /\ work_flag = [w \in Workers |-> FALSE]
    /\ pc = [t \in Threads |-> IF t \in Workers THEN "stop" ELSE "out"]
    /\ index = [t \in Threads |-> 0]
    /\ nr = [c \in Callers |-> 0]
    /\ i = [c \in Callers |-> 0]
    /\ runs = [k \in {} |-> 0]

Goto(t, l) == pc' = [pc EXCEPT ![t] = l]

(***************************************************************************)
(* Taking indices, in a worker or a caller                                 *)
(***************************************************************************)
\* Mutant: the counter is read and decremented in two steps, and another thread
\* comes between.
Fetch_Torn(t) ==
    /\ pc[t] = "fetch"
    /\ index' = [index EXCEPT ![t] = m_task_iter]
    /\ m_task_iter' \in {m_task_iter, m_task_iter - 1}
    /\ Goto(t, IF m_task_iter > 0 THEN "run" ELSE "last")
    /\ UNCHANGED <<pool, task, work_flag, nr, i>>

\* index = m_task_iter.fetch_sub(1)
Fetch(t) ==
    /\ pc[t] = "fetch"
    /\ index' = [index EXCEPT ![t] = m_task_iter]
    /\ m_task_iter' = m_task_iter - 1
    /\ Goto(t, IF m_task_iter > 0 THEN "run" ELSE "last")
    /\ UNCHANGED <<pool, task, work_flag, nr, i>>

\* m_task(m_nr_parallelism - index, ...)
Run(t) ==
    /\ pc[t] = "run"
    /\ runs' = [runs EXCEPT ![m_nr_parallelism - index[t]] = @ + 1]
    /\ Goto(t, "fetch")
    /\ UNCHANGED <<pool, m_mutex_task, m_nr_parallelism, m_task_iter, work_flag, locals>>

(***************************************************************************)
(* The workers                                                             *)
(***************************************************************************)
\* while (!m_stop) and while (m_active)
CheckStop(w) ==
    /\ pc[w] = "stop"
    /\ Goto(w, IF m_stop THEN "exited" ELSE "active")
    /\ UNCHANGED <<pool, task, m_task_iter, work_flag, locals>>

CheckActive(w) ==
    /\ pc[w] = "active"
    /\ Goto(w, IF m_active THEN "poll" ELSE "lock")
    /\ UNCHANGED <<pool, task, m_task_iter, work_flag, locals>>

Poll(w) ==
    /\ pc[w] = "poll"
    /\ Goto(w, IF work_flag[w] THEN "fetch" ELSE "active")
    /\ UNCHANGED <<pool, task, m_task_iter, work_flag, locals>>

\* No index is left.
Finish(w) ==
    /\ pc[w] = "last"
    /\ work_flag' = [work_flag EXCEPT ![w] = FALSE]
    /\ index' = [index EXCEPT ![w] = 0]
    /\ Goto(w, "active")
    /\ UNCHANGED <<pool, task, m_task_iter, nr, i>>

\* Under m_mutex: sleep while the pool is neither active nor stopped.
Sleep(w) ==
    /\ pc[w] = "lock" /\ (m_stop \/ m_active)
    /\ Goto(w, "stop")
    /\ UNCHANGED <<pool, task, m_task_iter, work_flag, locals>>

WorkerStep(w) ==
    Fetch(w) \/ Run(w) \/ CheckStop(w) \/ CheckActive(w) \/ Poll(w) \/ Finish(w) \/ Sleep(w)

(***************************************************************************)
(* add_task() in a caller                                                  *)
(***************************************************************************)
AddTask(c) ==
    /\ pc[c] = "out" /\ ~m_stop
    /\ nr' \in {[nr EXCEPT ![c] = n] : n \in Parallelism}
    /\ Goto(c, "enter")
    /\ UNCHANGED <<pool, task, m_task_iter, work_flag, index, i>>

\* m_mutex_task is taken; then the assertion that no index is left.
Lock(c) ==
    /\ pc[c] = "enter" /\ m_mutex_task = {}
    /\ m_mutex_task' = {c}
    /\ Goto(c, "locked")
    /\ UNCHANGED <<pool, m_nr_parallelism, runs, m_task_iter, work_flag, locals>>

\* active() in add_task()
Activate(c) ==
    /\ pc[c] = "locked"
    /\ m_active' = TRUE
    /\ Goto(c, "publish")
    /\ UNCHANGED <<m_stop, task, m_task_iter, work_flag, locals>>

\* The task, its parallelism and the counter; no worker looks at them before its
\* flag is set.
Publish(c) ==
    /\ pc[c] = "publish"
    /\ m_nr_parallelism' = nr[c]
    /\ m_task_iter' = nr[c]
    /\ runs' = [k \in 0 .. nr[c] - 1 |-> 0]
    /\ i' = [i EXCEPT ![c] = 0]
    /\ Goto(c, "flags")
    /\ UNCHANGED <<pool, m_mutex_task, work_flag, index, nr>>

\* for (i = 0; i < m_nr_threads - 1; i++) work_flag = true
SetFlag(c) ==
    /\ pc[c] = "flags"
    /\ IF i[c] \in Workers
       THEN /\ work_flag' = [work_flag EXCEPT ![i[c]] = TRUE]
            /\ i' = [i EXCEPT ![c] = @ + 1]
            /\ UNCHANGED pc
       ELSE Goto(c, "fetch") /\ UNCHANGED <<work_flag, i>>
    /\ UNCHANGED <<pool, task, m_task_iter, index, nr>>

\* The caller finds no index either.
BeginSync(c) ==
    /\ pc[c] = "last"
    /\ i' = [i EXCEPT ![c] = 0]
    /\ Goto(c, "sync")
    /\ UNCHANGED <<pool, task, m_task_iter, work_flag, index, nr>>

\* Mutant: a worker that is not finished is passed over.
Sync_NoRestart(c) ==
    /\ pc[c] = "sync"
    /\ IF i[c] \in Workers THEN i' = [i EXCEPT ![c] = @ + 1] /\ UNCHANGED pc
       ELSE Goto(c, "done") /\ UNCHANGED i
    /\ UNCHANGED <<pool, task, m_task_iter, work_flag, index, nr>>

\* sync(): look at the flags in turn, from the start again after one that is set.
Sync(c) ==
    /\ pc[c] = "sync"
    /\ IF i[c] \in Workers
       THEN i' = [i EXCEPT ![c] = IF work_flag[@] THEN 0 ELSE @ + 1] /\ UNCHANGED pc
       ELSE Goto(c, "done") /\ UNCHANGED i
    /\ UNCHANGED <<pool, task, m_task_iter, work_flag, index, nr>>

Return(c) ==
    /\ pc[c] = "done"
    /\ m_mutex_task' = {}
    /\ runs' = [k \in {} |-> 0]
    /\ index' = [index EXCEPT ![c] = 0]
    /\ nr' = [nr EXCEPT ![c] = 0]
    /\ i' = [i EXCEPT ![c] = 0]
    /\ Goto(c, "out")
    /\ UNCHANGED <<pool, m_nr_parallelism, m_task_iter, work_flag>>

CallerStep(c) ==
    \/ Fetch(c) \/ Run(c) \/ Activate(c) \/ Publish(c) \/ SetFlag(c) \/ BeginSync(c)
    \/ Sync(c) \/ Return(c)

(***************************************************************************)
(* active() and deactive() from outside, and the destructor                *)
(***************************************************************************)
\* active(), which does not take m_mutex_task: a recorder calls it before the
\* tasks that it replays.
Active ==
    /\ ~m_stop
    /\ m_active' = TRUE
    /\ UNCHANGED <<m_stop, task, m_task_iter, work_flag, pc, locals>>

Deactive ==
    /\ m_mutex_task = {} /\ ~m_stop
    /\ m_active' = FALSE
    /\ UNCHANGED <<m_stop, task, m_task_iter, work_flag, pc, locals>>

\* Mutant: the pool is stopped and stays active.
Destroy_StaysActive ==
    /\ ~m_stop /\ \A c \in Callers : pc[c] = "out"
    /\ m_stop' = TRUE
    /\ UNCHANGED <<m_active, task, m_task_iter, work_flag, pc, locals>>

\* The owner destroys the pool when no call is in progress; the destructor then
\* joins the workers.
Destroy ==
    /\ ~m_stop /\ \A c \in Callers : pc[c] = "out"
    /\ m_stop' = TRUE
    /\ m_active' = FALSE
    /\ UNCHANGED <<task, m_task_iter, work_flag, pc, locals>>

Terminated == m_stop /\ (\A w \in Workers : pc[w] = "exited") /\ UNCHANGED vars

Next ==
    \/ \E w \in Workers : WorkerStep(w)
    \/ \E c \in Callers : AddTask(c) \/ Lock(c) \/ CallerStep(c)
    \/ Active
    \/ Deactive
    \/ Destroy
    \/ Terminated

Spec == Init /\ [][Next]_vars

\* Every thread runs; a thread that waits for m_mutex_task, which is free again
\* and again, gets it.
FairSpec ==
    /\ Spec
    /\ \A w \in Workers : WF_vars(WorkerStep(w))
    /\ \A c \in Callers : WF_vars(CallerStep(c)) /\ SF_vars(Lock(c))

(***************************************************************************)
(* Properties                                                              *)
(***************************************************************************)
\* add_task() runs the task exactly once for every index: an index that a thread
\* took is in range and has not been run, and none is missing, or still running,
\* when the call is about to return.
EveryIndexOnce ==
    /\ \A t \in Threads : pc[t] = "run" =>
            /\ m_nr_parallelism - index[t] \in DOMAIN runs
            /\ runs[m_nr_parallelism - index[t]] = 0
    /\ \A c \in Callers : pc[c] = "done" => \A k \in DOMAIN runs : runs[k] = 1

\* A worker is at a task only while the call that brought it is in progress: the
\* task is a reference into the caller's frame.  No index is left over for the
\* next call, which asserts it.
TaskAlive ==
    /\ \A w \in Workers : pc[w] \in {"fetch", "run", "last"} =>
            \E c \in Callers : pc[c] \in {"flags", "fetch", "run", "last", "sync"}
    /\ \A c \in Callers : pc[c] = "locked" => m_task_iter <= 0

\* Every add_task() returns, whatever active() and deactive() do between the
\* calls, and the destructor finds the workers gone.
PoolReturns ==
    /\ \A c \in Callers : pc[c] # "out" ~> pc[c] = "out"
    /\ m_stop ~> \A w \in Workers : pc[w] = "exited"
=============================================================================
