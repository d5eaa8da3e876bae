-------------------------- MODULE ThreadPoolProofs --------------------------
(***************************************************************************)
(* Proofs that the thread pool runs a task once for every index and never  *)
(* after its call has returned, for any number of threads, callers and     *)
(* indices.                                                                *)
(***************************************************************************)
EXTENDS ThreadPool, TLAPS

\* The time the provers have for a step.
USE SMTT(30), ZenonT(30)

WorkerPc == {"stop", "active", "poll", "lock", "fetch", "run", "last", "exited"}

\* where a caller has published its task, its workers may be at it, and it holds
\* m_mutex_task
Sharing == {"flags", "fetch", "run", "last", "sync"}
Published == Sharing \cup {"done"}
Holding == Published \cup {"locked", "publish"}

\* Every variable that the argument needs keeps its type.
TypeInv ==
    /\ m_nr_parallelism \in Nat
    /\ m_task_iter \in Int
    /\ work_flag \in [Workers -> BOOLEAN]
    /\ pc \in [Threads -> WorkerPc \cup Holding \cup {"out", "enter"}]
    /\ \A w \in Workers : pc[w] \in WorkerPc
    /\ \A c \in Callers : pc[c] \in Holding \cup {"out", "enter"}
    /\ index \in [Threads -> Int]
    /\ nr \in [Callers -> Nat]
    /\ i \in [Callers -> Nat]

\* One caller at a time has a task in the pool.
MutexInv == \A c \in Callers : pc[c] \in Holding => m_mutex_task = {c}

\* A worker is at a task only with its flag set, and a flag is set only while a
\* caller shares its task: the flags are set in turn, and the scan of sync() has
\* found the ones it has passed reset, which only the caller could set again.
FlagInv ==
    /\ \A w \in Workers : pc[w] \in {"fetch", "run", "last"} => work_flag[w]
    /\ \A w \in Workers : work_flag[w] => \E c \in Callers : pc[c] \in Sharing
    /\ \A c \in Callers : pc[c] = "sync" => \A w \in Workers : w < i[c] => ~work_flag[w]

\* Indices are left only while the caller that published them takes some itself.
IterInv ==
    /\ m_task_iter > 0 => \E c \in Callers : pc[c] \in {"flags", "fetch", "run"}
    /\ (\E c \in Callers : pc[c] \in Published) => m_task_iter <= m_nr_parallelism

\* The indices that threads hold are above the counter, in range and different.
IndexInv ==
    /\ \A t \in Threads : pc[t] = "run" =>
            index[t] \in 1 .. m_nr_parallelism /\ m_task_iter < index[t]
    /\ \A t, u \in Threads : pc[t] = "run" /\ pc[u] = "run" /\ t # u => index[t] # index[u]

\* What has been run: an index above the counter is held by a thread and has not
\* been run, or is not held and has been run once.
RunsInv ==
    (\E c \in Callers : pc[c] \in Published) =>
        /\ runs \in [0 .. m_nr_parallelism - 1 -> {0, 1}]
        /\ \A k \in 0 .. m_nr_parallelism - 1 :
              runs[k] = 1 => /\ m_task_iter < m_nr_parallelism - k
                             /\ \A t \in Threads : pc[t] = "run" => index[t] # m_nr_parallelism - k
        /\ \A k \in 0 .. m_nr_parallelism - 1 :
              runs[k] = 0 => \/ m_nr_parallelism - k <= m_task_iter
                             \/ \E t \in Threads : pc[t] = "run" /\ index[t] = m_nr_parallelism - k

\* The inductive invariant.
IInv == TypeInv /\ MutexInv /\ FlagInv /\ IterInv /\ IndexInv /\ RunsInv

-----------------------------------------------------------------------------
(* Facts about the invariant                                               *)

\* Two callers that hold m_mutex_task are the same one.
LEMMA OneHolder ==
    ASSUME MutexInv, NEW c \in Callers, NEW d \in Callers,
           pc[c] \in Holding, pc[d] \in Holding
    PROVE  c = d
  BY DEF MutexInv

\* A thread that holds an index, or a worker whose flag is set, has a caller that
\* shares its task.
LEMMA Shared ==
    ASSUME TypeInv, FlagInv
    PROVE  /\ \A t \in Threads : pc[t] = "run" => \E c \in Callers : pc[c] \in Sharing
           /\ \A w \in Workers : work_flag[w] => \E c \in Callers : pc[c] \in Sharing
  BY DEF FlagInv, Threads, Sharing

\* While a caller holds the mutex and does not share a task, no worker has its
\* flag set and nobody runs anything.
LEMMA NobodyRuns ==
    ASSUME TypeInv, MutexInv, FlagInv, NEW c \in Callers, pc[c] \in Holding \ Sharing
    PROVE  (\A t \in Threads : pc[t] # "run") /\ (\A w \in Workers : ~work_flag[w])
  <1>1. \A d \in Callers : pc[d] \notin Sharing
    BY OneHolder DEF Holding, Published
  <1>2. QED  BY <1>1, Shared

\* The indices are below the counter or somebody's exactly as before.
LEMMA RunsKept ==
    ASSUME RunsInv, UNCHANGED <<m_nr_parallelism, m_task_iter, runs>>,
           \A t \in Threads : /\ pc'[t] = "run" <=> pc[t] = "run"
                              /\ pc[t] = "run" => index'[t] = index[t],
           (\E c \in Callers : pc'[c] \in Published) => \E c \in Callers : pc[c] \in Published
    PROVE  RunsInv'
  BY DEF RunsInv

-----------------------------------------------------------------------------
(* Every step preserves the invariant                                      *)

\* The pool starts with no task.
LEMMA InitIInv == Init => IInv
  <1> SUFFICES ASSUME Init PROVE IInv  OBVIOUS
  <1>1. TypeInv
    BY ThreadsAssumption DEF Init, TypeInv, Threads, WorkerPc
  <1>2. /\ \A t \in Threads : pc[t] \in {"stop", "out"}
        /\ \A c \in Callers : pc[c] = "out"
        /\ \A w \in Workers : pc[w] = "stop"
    BY ThreadsAssumption DEF Init, Threads
  <1>3. MutexInv /\ IndexInv /\ RunsInv
    BY <1>2 DEF MutexInv, IndexInv, RunsInv, Holding, Published, Sharing
  <1>4. FlagInv /\ IterInv
    BY <1>2 DEF Init, FlagInv, IterInv, Published, Sharing
  <1>5. QED  BY <1>1, <1>3, <1>4 DEF IInv

\* A worker that looks at the flags of the pool only moves; it goes on to a task
\* only with its own flag set.
LEMMA PollStep ==
    ASSUME IInv, NEW w \in Workers, CheckStop(w) \/ CheckActive(w) \/ Poll(w) \/ Sleep(w)
    PROVE  IInv'
  <1> USE ThreadsAssumption
  <1> USE DEF IInv, TypeInv, Threads
  <1>1. /\ pc[w] \notin {"fetch", "run", "last"}
        /\ \E l \in WorkerPc \ {"run", "last"} :
              pc' = [pc EXCEPT ![w] = l] /\ (l = "fetch" => work_flag[w])
        /\ UNCHANGED <<task, m_task_iter, work_flag, locals>>
    BY DEF CheckStop, CheckActive, Poll, Sleep, Goto, WorkerPc
  <1>2. /\ \A c \in Callers : pc'[c] = pc[c]
        /\ \A t \in Threads : pc'[t] = "run" <=> pc[t] = "run"
        /\ pc' \in [Threads -> WorkerPc \cup Holding \cup {"out", "enter"}]
        /\ \A v \in Workers : pc'[v] \in WorkerPc
        /\ \A v \in Workers : pc'[v] \in {"fetch", "run", "last"} => work_flag[v]
    BY <1>1 DEF FlagInv, WorkerPc
  <1>3. TypeInv'  BY <1>1, <1>2 DEF task, locals
  <1>4. MutexInv' /\ FlagInv' /\ IterInv'
    BY <1>1, <1>2 DEF MutexInv, FlagInv, IterInv, task, locals
  <1>5. IndexInv'  BY <1>1, <1>2 DEF IndexInv, task, locals
  <1>6. RunsInv'  BY <1>1, <1>2, RunsKept DEF task, locals
  <1>7. QED  BY <1>3, <1>4, <1>5, <1>6

\* A worker that has found no index resets its flag.
LEMMA FinishStep == ASSUME IInv, NEW w \in Workers, Finish(w) PROVE IInv'
  <1> USE ThreadsAssumption
  <1> USE DEF IInv, TypeInv, Threads, Finish, Goto, pool, task, WorkerPc
  <1>1. TypeInv'  OBVIOUS
  <1>2. /\ \A c \in Callers : pc'[c] = pc[c]
        /\ \A t \in Threads : /\ pc'[t] = "run" <=> pc[t] = "run"
                              /\ pc[t] = "run" => index'[t] = index[t]
    OBVIOUS
  <1>3. MutexInv' /\ IterInv'  BY <1>2 DEF MutexInv, IterInv
  <1>4. FlagInv'  BY <1>2 DEF FlagInv
  <1>5. IndexInv'  BY <1>2 DEF IndexInv
  <1>6. RunsInv'  BY <1>2, RunsKept
  <1>7. QED  BY <1>1, <1>3, <1>4, <1>5, <1>6

\* A caller that enters, takes the mutex or wakes the pool has no task yet.
LEMMA EnterStep ==
    ASSUME IInv, NEW c \in Callers, AddTask(c) \/ Lock(c) \/ Activate(c)
    PROVE  IInv'
  <1> USE ThreadsAssumption
  <1> USE DEF IInv, TypeInv, Threads
  <1>1. /\ pc[c] \notin Published
        /\ \E l \in {"enter", "locked", "publish"} : pc' = [pc EXCEPT ![c] = l]
        /\ UNCHANGED <<m_nr_parallelism, runs, m_task_iter, work_flag, index, i>>
    BY DEF AddTask, Lock, Activate, Goto, task, locals, Published, Sharing
  <1>2. nr' \in [Callers -> Nat]
    BY ParallelismAssumption DEF AddTask, Lock, Activate, locals
  <1>3. /\ \A d \in Callers : d # c => pc'[d] = pc[d]
        /\ pc'[c] \in {"enter", "locked", "publish"}
        /\ \A w \in Workers : pc'[w] = pc[w]
        /\ \A t \in Threads : pc'[t] = "run" <=> pc[t] = "run"
    BY <1>1 DEF Published, Sharing
  <1>4. TypeInv'  BY <1>1, <1>2 DEF Holding
  <1>5. MutexInv'
    <2>1. CASE AddTask(c) \/ Activate(c)
      <3>1. m_mutex_task' = m_mutex_task  BY <2>1 DEF AddTask, Activate, task
      <3>2. pc'[c] \in Holding => pc[c] \in Holding
        BY <2>1 DEF AddTask, Activate, Goto, Holding, Published, Sharing
      <3>3. QED  BY <1>3, <3>1, <3>2 DEF MutexInv
    <2>2. CASE Lock(c)
      <3>1. m_mutex_task = {} /\ m_mutex_task' = {c}  BY <2>2 DEF Lock
      <3>2. QED  BY <1>3, <3>1 DEF MutexInv
    <2>3. QED  BY <2>1, <2>2
  <1>6. \A d \in Callers : /\ pc'[d] \in Published <=> pc[d] \in Published
                           /\ pc[d] \in Published => pc'[d] = pc[d]
    BY <1>1, <1>3 DEF Published, Sharing
  <1>7. FlagInv' /\ IterInv'
    BY <1>1, <1>3, <1>6 DEF FlagInv, IterInv, Published, Sharing
  <1>8. IndexInv'  BY <1>1, <1>3 DEF IndexInv
  <1>9. RunsInv'  BY <1>1, <1>3, <1>6, RunsKept
  <1>10. QED  BY <1>4, <1>5, <1>7, <1>8, <1>9

\* A caller publishes its task when nobody is at another one.
LEMMA PublishStep == ASSUME IInv, NEW c \in Callers, Publish(c) PROVE IInv'
  <1> USE ThreadsAssumption
  <1> USE DEF IInv, TypeInv, Threads, Publish, Goto, pool
  <1>1. TypeInv'  BY DEF Holding, Published, Sharing
  <1>2. /\ \A t \in Threads : pc[t] # "run" /\ pc'[t] # "run"
        /\ \A w \in Workers : ~work_flag[w] /\ pc'[w] = pc[w]
    BY NobodyRuns DEF Holding, Published, Sharing
  <1>3. pc'[c] = "flags" /\ \A d \in Callers : d # c => pc'[d] = pc[d]
    OBVIOUS
  <1>4. MutexInv'
    BY <1>3 DEF MutexInv, Holding, Published, Sharing
  <1>5. FlagInv'  BY <1>2, <1>3, OneHolder DEF FlagInv, Holding, Published, Sharing
  <1>6. IterInv'  BY <1>3 DEF IterInv
  <1>7. IndexInv'  BY <1>2 DEF IndexInv
  <1>8. RunsInv'  BY <1>2 DEF RunsInv
  <1>9. QED  BY <1>1, <1>4, <1>5, <1>6, <1>7, <1>8

\* A caller sets a flag, goes on to the indices, finds none left, or scans the
\* flags: it shares its task before and after, except when the scan ends.
LEMMA LoopStep ==
    ASSUME IInv, NEW c \in Callers, SetFlag(c) \/ BeginSync(c) \/ Sync(c)
    PROVE  IInv'
  <1> USE ThreadsAssumption
  <1> USE DEF IInv, TypeInv, Threads
  <1>1. /\ pc[c] \in {"flags", "last", "sync"}
        /\ \E l \in {"flags", "fetch", "sync", "done"} :
              /\ pc' = [pc EXCEPT ![c] = l]
              /\ pc[c] = "flags" => l \in {"flags", "fetch"}
              /\ l = "done" => pc[c] = "sync" /\ i[c] \notin Workers
        /\ UNCHANGED <<task, m_task_iter, index, nr>>
    BY DEF SetFlag, BeginSync, Sync, Goto
  <1>2. i' \in [Callers -> Nat] /\ work_flag' \in [Workers -> BOOLEAN]
    <2>1. CASE SetFlag(c) /\ i[c] \in Workers
      <3>1. /\ work_flag' = [work_flag EXCEPT ![i[c]] = TRUE]
            /\ i' = [i EXCEPT ![c] = i[c] + 1]
        BY <2>1 DEF SetFlag
      <3>2. work_flag' \in [Workers -> BOOLEAN]  BY <3>1, Zenon
      <3>3. i' \in [Callers -> Nat]  BY <3>1
      <3>4. QED  BY <3>2, <3>3
    <2>2. CASE (SetFlag(c) /\ i[c] \notin Workers) \/ BeginSync(c)
      BY <2>2 DEF SetFlag, BeginSync
    <2>3. CASE Sync(c)
      <3>1. \E n \in Nat : i' = [i EXCEPT ![c] = n] /\ UNCHANGED work_flag
        BY <2>3 DEF Sync
      <3>2. QED  BY <3>1
    <2>4. QED  BY <2>1, <2>2, <2>3
  <1>3. /\ pc'[c] \in Published /\ pc[c] \in Sharing
        /\ \A d \in Callers : d # c => pc'[d] = pc[d] /\ pc[d] \notin Holding
        /\ \A w \in Workers : pc'[w] = pc[w]
        /\ \A t \in Threads : pc'[t] = "run" <=> pc[t] = "run"
    BY <1>1, OneHolder DEF Holding, Published, Sharing
  <1>4. TypeInv'  BY <1>1, <1>2 DEF Holding, Published, Sharing, task
  <1>5. MutexInv'  BY <1>1, <1>3 DEF MutexInv, Holding, task
  <1>6. FlagInv'
    <2>1. CASE SetFlag(c)
      BY <2>1, <1>1, <1>3 DEF FlagInv, SetFlag, Goto, Holding, Published, Sharing
    <2>2. CASE BeginSync(c)
      BY <2>2, <1>1, <1>3 DEF FlagInv, BeginSync, Goto, Workers, Holding, Published, Sharing
    <2>3. CASE Sync(c) /\ i[c] \in Workers
      BY <2>3, <1>1, <1>3 DEF FlagInv, Sync, Workers, Holding, Published, Sharing
    <2>4. CASE Sync(c) /\ i[c] \notin Workers
      <3>1. \A w \in Workers : ~work_flag[w]
        BY <2>4 DEF FlagInv, Sync, Workers
      <3>2. UNCHANGED work_flag /\ pc'[c] = "done"
        BY <2>4 DEF Sync, Goto
      <3>3. QED  BY <3>1, <3>2, <1>3 DEF FlagInv, Holding, Published, Sharing
    <2>5. QED  BY <2>1, <2>2, <2>3, <2>4
  <1>7. IterInv'
    BY <1>1, <1>3 DEF IterInv, Holding, Published, Sharing, task
  <1>8. IndexInv'  BY <1>1, <1>3 DEF IndexInv, task
  <1>9. RunsInv'  BY <1>1, <1>3, RunsKept DEF task, Published
  <1>10. QED  BY <1>4, <1>5, <1>6, <1>7, <1>8, <1>9

\* A caller returns: nobody holds the mutex.
LEMMA ReturnStep == ASSUME IInv, NEW c \in Callers, Return(c) PROVE IInv'
  <1> USE ThreadsAssumption
  <1> USE DEF IInv, TypeInv, Threads, Return, Goto, pool
  <1>1. TypeInv'  OBVIOUS
  <1>2. \A d \in Callers : pc'[d] \notin Holding
    BY OneHolder DEF Holding, Published, Sharing
  <1>3. /\ \A t \in Threads : pc[t] # "run" /\ pc'[t] # "run"
        /\ \A w \in Workers : ~work_flag[w] /\ pc'[w] = pc[w]
    BY NobodyRuns DEF Holding, Published, Sharing
  <1>4. MutexInv'  BY <1>2 DEF MutexInv
  <1>5. FlagInv'  BY <1>2, <1>3 DEF FlagInv, Holding, Published, Sharing
  <1>6. m_task_iter <= 0
    BY OneHolder DEF IterInv, Holding, Published, Sharing
  <1>7. IterInv'  BY <1>2, <1>6 DEF IterInv, Holding
  <1>8. IndexInv' /\ RunsInv'  BY <1>2, <1>3 DEF IndexInv, RunsInv, Holding
  <1>9. QED  BY <1>1, <1>4, <1>5, <1>7, <1>8

\* A thread takes an index: the one at the counter, which nobody has.
LEMMA FetchStep == ASSUME IInv, NEW t \in Threads, Fetch(t) PROVE IInv'
  <1> USE ThreadsAssumption
  <1> USE DEF IInv, TypeInv, Threads, Fetch, Goto, pool, task
  <1>1. TypeInv'  BY DEF WorkerPc, Holding, Published, Sharing
  <1>2. PICK d \in Callers : pc[d] \in Sharing
    BY DEF FlagInv, Sharing
  <1>3. /\ \A u \in Threads : u # t => pc'[u] = pc[u] /\ index'[u] = index[u]
        /\ pc'[t] = IF m_task_iter > 0 THEN "run" ELSE "last"
        /\ index'[t] = m_task_iter /\ m_task_iter' = m_task_iter - 1
    OBVIOUS
  <1>4. MutexInv' /\ FlagInv'
    BY <1>3 DEF MutexInv, FlagInv, Holding, Published, Sharing
  <1>5. IterInv'  BY <1>3 DEF IterInv, Published, Sharing
  <1>6. m_task_iter <= m_nr_parallelism
    BY <1>2 DEF IterInv, Published
  <1>7. IndexInv'  BY <1>3, <1>6 DEF IndexInv
  <1>8. RunsInv'
    <2>1. /\ runs \in [0 .. m_nr_parallelism - 1 -> {0, 1}]
          /\ \A k \in 0 .. m_nr_parallelism - 1 :
                runs[k] = 1 => /\ m_task_iter < m_nr_parallelism - k
                               /\ \A u \in Threads : pc[u] = "run" =>
                                     index[u] # m_nr_parallelism - k
          /\ \A k \in 0 .. m_nr_parallelism - 1 :
                runs[k] = 0 => \/ m_nr_parallelism - k <= m_task_iter
                               \/ \E u \in Threads : pc[u] = "run"
                                                     /\ index[u] = m_nr_parallelism - k
      BY <1>2 DEF RunsInv, Published
    <2>2. ASSUME NEW k \in 0 .. m_nr_parallelism - 1, runs[k] = 1
          PROVE  /\ m_task_iter' < m_nr_parallelism - k
                 /\ \A u \in Threads : pc'[u] = "run" => index'[u] # m_nr_parallelism - k
      BY <2>1, <2>2, <1>3
    <2>3. ASSUME NEW k \in 0 .. m_nr_parallelism - 1, runs[k] = 0
          PROVE  \/ m_nr_parallelism - k <= m_task_iter'
                 \/ \E u \in Threads : pc'[u] = "run" /\ index'[u] = m_nr_parallelism - k
      <3>1. CASE m_nr_parallelism - k = m_task_iter
        BY <3>1, <1>3
      <3>2. CASE m_nr_parallelism - k < m_task_iter
        BY <3>2, <1>3
      <3>3. CASE \E u \in Threads : pc[u] = "run" /\ index[u] = m_nr_parallelism - k
        BY <3>3, <1>3
      <3>4. QED  BY <2>1, <2>3, <3>1, <3>2, <3>3
    <2>4. QED  BY <2>1, <2>2, <2>3 DEF RunsInv
  <1>9. QED  BY <1>1, <1>4, <1>5, <1>7, <1>8

\* A thread has run the task for its index.
LEMMA RunStep == ASSUME IInv, NEW t \in Threads, Run(t) PROVE IInv'
  <1> USE ThreadsAssumption
  <1> USE DEF IInv, TypeInv, Threads, Run, Goto, pool, locals
  <1>1. TypeInv'  BY DEF WorkerPc, Holding, Published, Sharing
  <1>2. PICK d \in Callers : pc[d] \in Sharing
    BY Shared
  <1>3. /\ \A u \in Threads : u # t => pc'[u] = pc[u]
        /\ pc[t] = "run" /\ pc'[t] = "fetch"
    OBVIOUS
  <1>4. MutexInv' /\ FlagInv' /\ IterInv'
    BY <1>3 DEF MutexInv, FlagInv, IterInv, Holding, Published, Sharing
  <1>5. IndexInv'  BY <1>3 DEF IndexInv
  <1>6. RunsInv'
    <2> DEFINE id == m_nr_parallelism - index[t]
    <2>1. /\ runs \in [0 .. m_nr_parallelism - 1 -> {0, 1}]
          /\ \A k \in 0 .. m_nr_parallelism - 1 :
                runs[k] = 1 => /\ m_task_iter < m_nr_parallelism - k
                               /\ \A u \in Threads : pc[u] = "run" =>
                                     index[u] # m_nr_parallelism - k
          /\ \A k \in 0 .. m_nr_parallelism - 1 :
                runs[k] = 0 => \/ m_nr_parallelism - k <= m_task_iter
                               \/ \E u \in Threads : pc[u] = "run"
                                                     /\ index[u] = m_nr_parallelism - k
      BY <1>2 DEF RunsInv, Published
    <2>2. /\ id \in 0 .. m_nr_parallelism - 1 /\ m_nr_parallelism - id = index[t]
          /\ m_task_iter < index[t]
          /\ \A u \in Threads : pc[u] = "run" /\ u # t => index[u] # index[t]
      BY <1>3 DEF IndexInv
    <2>3. runs[id] = 0
      BY <2>1, <2>2, <1>3
    <2>4. runs' = [runs EXCEPT ![id] = 1]
      BY <2>3
    <2>5. ASSUME NEW k \in 0 .. m_nr_parallelism - 1, runs'[k] = 1
          PROVE  /\ m_task_iter < m_nr_parallelism - k
                 /\ \A u \in Threads : pc'[u] = "run" => index[u] # m_nr_parallelism - k
      BY <2>1, <2>2, <2>4, <2>5, <1>3
    <2>6. ASSUME NEW k \in 0 .. m_nr_parallelism - 1, runs'[k] = 0
          PROVE  \/ m_nr_parallelism - k <= m_task_iter
                 \/ \E u \in Threads : pc'[u] = "run" /\ index[u] = m_nr_parallelism - k
      BY <2>1, <2>2, <2>4, <2>6, <1>3
    <2>7. runs' \in [0 .. m_nr_parallelism - 1 -> {0, 1}]
      <3> DEFINE D == 0 .. m_nr_parallelism - 1
      <3>1. runs \in [D -> {0, 1}] /\ runs' = [runs EXCEPT ![id] = 1]
        BY <2>1, <2>4
      <3> HIDE DEF D, id, IInv, TypeInv, Run, Goto
      <3>2. runs' \in [D -> {0, 1}]
        BY <3>1, Zenon
      <3>3. QED  BY <3>2 DEF D
    <2>8. QED  BY <2>5, <2>6, <2>7 DEF RunsInv
  <1>7. QED  BY <1>1, <1>4, <1>5, <1>6

\* active(), deactive(), the destructor and a stuttering step leave the tasks
\* alone.
LEMMA OtherStep ==
    ASSUME IInv, Active \/ Deactive \/ Destroy \/ Terminated \/ UNCHANGED vars
    PROVE  IInv'
  <1>1. UNCHANGED <<task, m_task_iter, work_flag, pc, locals>>
    BY DEF Active, Deactive, Destroy, Terminated, vars
  <1>2. QED
    BY <1>1 DEF IInv, TypeInv, MutexInv, FlagInv, IterInv, IndexInv, RunsInv, task, locals

-----------------------------------------------------------------------------
(* The theorems                                                            *)

\* IInv is an invariant of the pool.
THEOREM Invariance == Spec => []IInv
  <1>1. ASSUME IInv, [Next]_vars PROVE IInv'
    <2>1. CASE \E w \in Workers : WorkerStep(w)
      BY <1>1, <2>1, PollStep, FinishStep, FetchStep, RunStep DEF WorkerStep, Threads
    <2>2. CASE \E c \in Callers : AddTask(c) \/ Lock(c) \/ CallerStep(c)
      BY <1>1, <2>2, EnterStep, PublishStep, LoopStep, ReturnStep, FetchStep, RunStep
         DEF CallerStep, Threads
    <2>3. CASE Active \/ Deactive \/ Destroy \/ Terminated \/ UNCHANGED vars
      BY <1>1, <2>3, OtherStep
    <2>4. QED  BY <1>1, <2>1, <2>2, <2>3 DEF Next
  <1>2. QED  BY <1>1, InitIInv, PTL DEF Spec

\* add_task() runs its task exactly once for every index, for any number of
\* workers, callers and indices: a caller that is done has found the counter at
\* zero and every flag reset, so that no index is left and none is being run.
THEOREM IndexOnce == Spec => []EveryIndexOnce
  <1>1. ASSUME IInv PROVE EveryIndexOnce
    <2> USE <1>1 DEF IInv
    <2>1. ASSUME NEW t \in Threads, pc[t] = "run"
          PROVE  /\ m_nr_parallelism - index[t] \in DOMAIN runs
                 /\ runs[m_nr_parallelism - index[t]] = 0
      <3>1. \E c \in Callers : pc[c] \in Published
        BY <2>1, Shared DEF Published
      <3>2. /\ m_nr_parallelism - index[t] \in 0 .. m_nr_parallelism - 1
            /\ m_nr_parallelism - (m_nr_parallelism - index[t]) = index[t]
        BY <2>1 DEF IndexInv, TypeInv
      <3>3. QED  BY <2>1, <3>1, <3>2 DEF RunsInv
    <2>2. ASSUME NEW c \in Callers, pc[c] = "done", NEW k \in DOMAIN runs
          PROVE  runs[k] = 1
      <3>1. \A t \in Threads : pc[t] # "run"
        BY <2>2, NobodyRuns DEF Holding, Published, Sharing
      <3>2. m_task_iter <= 0
        BY <2>2, OneHolder DEF IterInv, TypeInv, Holding, Published, Sharing
      <3>3. runs \in [0 .. m_nr_parallelism - 1 -> {0, 1}]
        BY <2>2 DEF RunsInv, Published
      <3>4. QED  BY <2>2, <3>1, <3>2, <3>3 DEF RunsInv, TypeInv, Published
    <2>3. QED  BY <2>1, <2>2 DEF EveryIndexOnce
  <1>2. QED  BY <1>1, Invariance, PTL

\* No worker touches a task whose call has returned, and the next call finds no
\* index left over.
THEOREM AliveWhileRun == Spec => []TaskAlive
  <1>1. ASSUME IInv PROVE TaskAlive
    <2>1. \A w \in Workers : pc[w] \in {"fetch", "run", "last"} =>
              \E c \in Callers : pc[c] \in {"flags", "fetch", "run", "last", "sync"}
      BY <1>1 DEF IInv, FlagInv, Sharing
    <2>2. \A c \in Callers : pc[c] = "locked" => m_task_iter <= 0
      BY <1>1, OneHolder DEF IInv, TypeInv, IterInv, Holding, Published, Sharing
    <2>3. QED  BY <2>1, <2>2 DEF TaskAlive
  <1>2. QED  BY <1>1, Invariance, PTL
=============================================================================
