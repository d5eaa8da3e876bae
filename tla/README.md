# Verification of MegEngine's asynchronous runtime

This directory holds TLA+ models of the parts of MegEngine in which threads,
devices and processes meet: the task queue that everything asynchronous is
built on, the imperative interpreter with its tensor eviction, the device
memory allocator, the release of storage that several streams use, the
execution of compiled graphs, the CPU thread pool, and the servers of
distributed training. Each model is translated from the source. TLC checks it
on small instances, and TLAPS proves the safety of the queue and its
synchronizer, of the interpreter and of the thread pool for every instance. `PROJECT.json`
records which lines each definition models, the runs, the mutants that show
each property can fail, the hazards and the findings.

To repeat a run, `tlc -workers 2 -config MCSync.cfg MCSCQueueSynchronizer`; to
repeat the proofs, `tlapm M.tla` for each module `M` named under "What is
proved".

## The system

A Python program calls the *channel* (`imperative/src/impl/interpreter`). A
call returns a handle at once and adds a command to a queue. One worker thread
takes the commands, runs operators and stores the results in tensors, whose
memory comes from the *device memory allocator*
(`src/core/impl/comp_node/mem_alloc`). The queue is `AsyncQueueSC`
(`src/core/include/megbrain/utils/thread_impl_1.h`), a chain of blocks filled
by producers and emptied by one worker; it counts tasks and sleeps with the
help of `SCQueueSynchronizer` (`src/core/impl/utils/thread.cpp`).

With dynamic tensor rematerialisation (DTR) the worker evicts tensors when
`get_used_memory()` of the allocator exceeds a threshold, and computes them
again, with everything they depend on, when a command needs them.

A computing node is a stream of a device. Tensors that are used on another
stream than the one they were allocated on are released by the
`CompNodeSyncManager` of `imperative/src/impl/physical_tensor.cpp`, when the
other stream is known to be done with them. A graph that was compiled instead
of interpreted is executed by one worker per computing node
(`AsyncWorkerSet`), whose tasks wait for each other through another class of
the name `CompNodeSyncManager` (`src/core/impl/utils`). CPU nodes run the
kernels themselves in a `ThreadPool`.

Processes of a distributed program meet in two servers of the master process:
the `GroupManager` (`src/opr-mm/impl`) behind a ZeroMQ worker pool, for
collective operators, and the Python server of `megengine/distributed`.

| part | module | status |
|---|---|---|
| `SCQueueSynchronizer` | `SCQueueSynchronizer`, interface `TaskSync` | modelled, proved |
| `AsyncQueueSC` | `AsyncQueueSC`, interface `TaskFifo` | modelled, proved |
| `ChannelImpl` | `Channel` | partly, proved |
| `DevMemAllocImpl`, `StreamMemAllocImpl` | `DevMemAlloc` | partly |
| storage release across streams | `CompNodeSync` | partly |
| graph execution, `AsyncWorkerSet`, readiness | `ExecEnv` | partly; worker set modelled |
| `ThreadPool` | `ThreadPool` | partly, proved |
| `GroupManager` | `GroupManager` | modelled |
| ZeroMQ server | `ZmqRpc` | partly |
| collective operators, client side | `GroupClient` | partly |
| Python server | `DistServer` | partly |
| everything else | see `components` in `PROJECT.json` | not modelled |

How the modules fit together:

    SCQueueSynchronizer --implements--> TaskSync
                                           ^ used by
                                     AsyncQueueSC --implements--> TaskFifo
                                                                     ^ assumed by
                                                                  Channel
    GroupClient <--extended by-- ZmqRpc, GroupManager, DistServer
                                    \________ composed in _______/
                                              Distributed
    DevMemAlloc, CompNodeSync, ExecEnv, ThreadPool stand alone

`AsyncQueueSC` contains an INSTANCE of `TaskSync` and takes its steps as
conjuncts of its own. `Channel` has a sequence of commands that the worker
takes in order, which is what `TaskFifo` says of the queue, and leaves memory
pressure to chance: any tensor that may be evicted may be evicted at any time.
`CompNodeSync` begins where `Channel` ends: its issuing thread is the worker.

## The models

### SCQueueSynchronizer

A step is one atomic access or one critical section, so producers, consumer
and destructor interleave between any two accesses. `producer_add()` is
`AddTask`, `AddTestAndSet`, `AddClear`/`AddNotify`; `producer_wait()` is
`WaitEnter` ... `WaitReturn`; `consumer_fetch()` is `FetchLoop` ...
`FetchCheckExit`; `consumer_commit()` is the three `Commit` actions; the
destructor is `DtorEnter`, `DtorSignal`, `DtorJoin`. Program counters are `pc`
for the producers and `cpc` for the consumer. `SizeMax` stands for
`numeric_limits<size_t>::max()`, the value of `m_waiter_target` when nobody
waits; no more tasks than that are added. Accesses are sequentially consistent:
the code has the fences that the two places with relaxed accesses on both
sides need, and memory orders as such are not modelled. Condition variables
may wake up spuriously.

`TaskSync` is what users rely on: tasks are counted when added, fetched only
when there are any, and a wait ends only when everything added before it began
is committed.

### AsyncQueueSC

`add_task()` is `AddBegin` (the unlocked read of `m_queue_tail`), `ClaimTid`,
then `FastPath` or `LockTail`, `AllocBlock` with a wait for a free block,
`InitParam` and `Publish`. The worker is `WorkerFetch` (fetch and spin on
`init_done`), `WorkerNextHead` (recycle a block), `WorkerTake`,
`WorkerProcess`, which may throw and may add tasks itself, `WorkerCommit` and
`WorkerCount`: the synchronizer's count and the queue's own are two steps, as
in the code. The two waits have their loops. Slots remember which task they
hold, so a task written to the wrong slot is visible. The quota is computed in
`size_t` arithmetic of `SizeBits` bits.

### Channel

One record per `TensorInfo` (`info`), the client's call in progress (`call`),
the commands (`queue`), the worker's position (`wpc`) and its regeneration
stack (`m_apply_stack`). Public calls hold `m_spin` throughout, so one client
thread stands for all. A call that waits is several steps, because
`wait_tensor()` drops `m_mutex` while it adds its command.

`info[t].want` is a ghost: the value that `t` has to have by the meaning of the
client's calls. The operator has one input and one output; `Compute` is a
permutation of the values, so that a wrong input gives a wrong output. A mode,
chosen in the initial state, says whether DTR is on, whether it may be switched
off later, whether Put and operators may throw, and the `async_level`.

Recomputation works as in the code: a stack of operators, inputs visited by
index, missing inputs pushed on top. `do_apply_op()` is two steps or more: it
takes a reference to its input (`DoApplyHold`, `FlushHold`; the value is in
`held` from then on), may evict (`AutoEvict`), any number of times and after
`dtr.disable()` too, and produces its output. Pins, which keep inputs from being
evicted, are taken only with DTR on. Freeing with DTR keeps tensors that others
are computed from and frees them recursively; `detach_users()` computes evicted
users before their input goes.

### DevMemAlloc

Free lists are sets of blocks with `addr`, `size` and `is_head`; a thread's
allocation goes from the stream's list (`Alloc`) to the device's (`DevAlloc`)
and to the raw allocator (`RawAlloc`, four attempts with two rounds of
`Gather` between them, then `LastAlloc` or `OutOfMemory`). No lock is held
between these. `InsertFree` hands remainders to the single stream if there is
one. `Coalesce` is the same gathering, called by a computing node. The raw
allocator is external: it takes any free place and fails only when there is
none. The chunks of one gathering are given back in one step; in the code they
are given back one after another under the same lock.

### CompNodeSync

A stream is a sequence of items, each a kernel or a wait for a place of another
stream; `DeviceStep` executes the next one. The manager's data are the
variables of `CompNodeData`: `next`, `completed`, `events`, `ordering`,
`release_queues`, `host_release_queue`. An operator is a program of calls
(`PutCalls`, `ApplyCalls`, `CopyCalls`, `BorrowCalls`, `BarrierCalls`), taken
from the function that makes them; `RecordNow`, `Wait` (`device_wait()`),
`AsyncRelease` and `AsyncReleaseHost` are the calls. The monitor thread copies
events, polls them without the lock and releases, with the rule that adapts the
number of events it queries. Ghosts `clk`, `src` and `uses` say what each item
comes after, where a tensor is written and where it is read; the properties
compare the manager's decisions with them.

### ExecEnv

A graph is a sequence of operators with a node and inputs. `WaitingSpec` is
what `SeqCompNodeOptimizer` decides to wait for, `NrWaiter` the count in the
variable's `CompNodeSyncManager`, `TaskQueue` the tasks per node. An operator
with `sink` set is a `VarSinkOpr`, which ends a part of a partial execution: it
does not wait for its inputs (`NO_INPUT_WAITING`), has no kernel, and listens
(`Listen`) for the ready events of the other nodes, one task each. A worker
takes its queue once per execution: `Wake`, then `WaitReady`, `Kernel` and
`SetReady` in the order of the queue, `QueueDone`. Where the workers do not wait
for each other, `start()` may be called again before `wait_all()`
(`StartAgain`); a worker then repeats its queue and reports once, at the count it
has been told to reach (`Reported`). A kernel task may throw
(`Throw`, `KeepException`: the stop flag and the exception are two steps, as in
the code) or find no memory and defragment (`PauseExec`, `Move`,
`ResumeExec`). The owner executes, waits, and destroys the sequence. Kernels
and events go to device streams, which run them later.

### ThreadPool

`add_task()` is `AddTask`, `Lock`, `Activate`, `Publish`, one `SetFlag` per
worker, then `Fetch` and `Run` until no index is left, `BeginSync`, `Sync` flag
by flag, `Return`. `Active` and `Deactive` are the public calls, which a
computing node makes at any time. A worker is `CheckStop`, `CheckActive`, `Poll`, `Fetch`,
`Run`, `Finish`, `Sleep`. `runs` counts how often each index of the current
task ran.

### GroupClient, ZmqRpc, GroupManager, DistServer, Distributed

A process runs a program of calls. `GroupClient` has what the process does
itself: executing an operator registers it, unless the registration is cached,
and asks for the address of the rank 0, unless there is a communicator for the
hash; a broadcast of the Python client numbers its key. `ZmqRpc` carries the
request to a worker of the pool and the answer back; the pool is a bag, because
its workers differ only in name. `GroupManager` has one step per critical
section of each handler, with its waits as guards: the predicates change under
the mutex, followed by `notify_all`. `get_output_shape()` waits without a
predicate, so there the notification is a step of the setter. The checks of
`add_opr()` and the assertions of the handlers throw in a thread of the pool,
where nothing catches: `Terminate` ends the process with both servers, and
nothing is served afterwards (`Serving`). `DistServer` has
one step per critical section, wait, or operation on a future outside the lock;
objects survive the dictionary entry while a thread refers to them. A hash is
the list it is computed from, so different groups have different hashes.
`BrokenConnection` loses a call whose client repeats it.

## What is checked

| run | instance | shows |
|---|---|---|
| `sync` | 2 producers, up to 3 tasks, one spin | no lost wakeup in either direction, waits are sound, `TaskSync` is implemented, calls return, the destructor joins |
| `queue_quota` | 1 producer, blocks of 2, quota of 2 blocks, 7 tasks | blocks are recycled several times and every call returns |
| `queue_multi` | 2 producers and a worker that adds tasks, 5 tasks in blocks of 2 | slots and blocks stay right, waits are sound, `TaskFifo` is implemented |
| `channel_safety` | 3 tensors, 2 pending commands | the inductive invariant of the proofs, pointers and the wait protocol under eviction, failing operators, and DTR switched off |
| `channel_live` | 2 tensors of both sizes; DTR with failing operators, DTR switched off, `async_level` 0 without DTR | every tensor gets the right value or an error, host computation finds its input, `sync()` ends, and so do waits, but for the exceptions that `WaitsEnd` names |
| `mem_alloc` | 2 threads, 2 streams, 3 units of memory | no memory is shared, lost or released in use; merging; accounting; out of memory only when full |
| `node_sync` | 3 streams, 3 blobs, 7 plans | storage is freed only when every use is ordered before its reuse, kernels read what has been written, and everything dropped is freed |
| `exec` | 4 graphs, 3 nodes, 3 executions, one defragmentation | kernels run in the order of their data, across executions too; ready counts match; every worker runs every call of `start()`; an execution returns or throws |
| `pool` | 2 callers, 3 threads, parallelism 0, 2, 3 | each index once, no worker at a task whose call is over, everything returns |
| `dist` | 10 programs of 2 or 3 processes | members agree on ranks, root and address; values arrive in their round; barriers are barriers; every call returns when the members of each group agree on its size |

`channel_hang` and `dist_barrier` expect a violation; see the findings below.
Every specification has a `TypeOK` (the thread pool: `TypeInv`, which is
proved); TLC confirms it on one instance of each, but no run is spent on it.

Bounds. The synchronizer's interesting case needs a consumer, a waiter whose
target is hidden and a waiter that pops; the proofs remove the bound. In the
queue, two producers that cross a block boundary together and a third block
after it are all the situations its code distinguishes. In the channel, three
tensors make a chain of two operators, so that regeneration recurses, and an
address is reused while commands are pending; `MaxQueue` limits the client, not
the worker; `MaxLeft` stops failures while an entry of an earlier failure is
still on the stack, because that stack can grow without limit. In the
allocator, `Memory` = 3 with sizes 1 and 2 gives chunks that are split, partly
free, and scattered over both streams; `MaxUsed` stops new allocations when the
counter has drifted (see findings), since it never comes down. `Plans` of
`CompNodeSync` fixes the client's operations, not the interleaving with devices
and monitor; the plans have the chains of waits over a third stream, in the
order that permits a release and in the one that does not, and borrowed tensors
dropped before and after their owner. The graphs of `ExecEnv` have a redundant
wait, a variable with two waiters on two nodes, a node that waits for two, a
sink followed by a reader of the variable it did not wait for, and workers that
are independent, which are started again before some have begun. Three threads
of the pool are one that is late, one that is early and a caller; `Parallelism`
has fewer and as many indices as threads, and none. The programs of
`Distributed` repeat each exchange under one key where the runtime does; two of
them have members that expect different sizes, and one member too many.
`MaxWorkers` = 12 is never reached: the pool grows to at most eleven threads,
because workers are slow to take their slots back.

Fairness. Every thread that can go on eventually does: the operating system
schedules runnable threads, and devices execute what was issued, so steps of
one thread or stream get weak fairness. Strong fairness is used for threads
that compete for a mutex or a flag (`SCQueueSynchronizer`, `AddStep` and
`WorkerStep` of `AsyncQueueSC`, `Lock` of `ThreadPool`), where the code assumes
that a lock which is free again and again is obtained. Calls, exceptions,
defragmentations and broken connections are not fair: they may not happen. In
`Distributed` programs are finite, so fairness of the pool as a whole is
fairness of each worker.

`CHECK_DEADLOCK FALSE` is used in `MCDist_barrier.cfg`, which shows processes
that wait for ever, and in `MCExec.cfg`, where the destructor may join a worker
that waits for ever (see findings). Elsewhere a terminated system has an
explicit stuttering step.

## What is proved

The proofs about `SCQueueSynchronizer` hold for any set of producers, any spin
bound and any `SizeMax`, without assumptions other than the types of the
constants. `SCQueueSynchronizerProofs` goes from the types, locks, flag, counts
and the target queue to the waiters and the wakeups, puts the invariant
together, and draws from it the safety properties and the refinement. The
theorems:

- `TypeCorrect`: `Spec => []TypeOK`;
- `WaitSoundness`: a wait returns only when all earlier tasks are committed;
- `ConsumerNotForgotten`, `ProducerNotForgotten`: no wakeup is lost: if a
  thread sleeps although what it waits for has happened, another thread is on
  its way to notify it;
- `QueueOrder`: the assertion in `producer_wait()` never fails;
- `Refinement`: `Spec => TaskSync!Spec`, with its liveness left out.

None of these is inductive. `IInv` adds: which program counters hold each lock
(`MutexInv`) and the flag (`FlagInv`); that the target queue is strictly
increasing, bounded by `m_tot_task`, and headed by `m_waiter_target`
(`QueueInv`); that a waiter whose target is not reached finds it in the queue,
whatever other waiters popped (`WaiterInv`); and that the destructor is alone
(`DtorInv`). `ProducerWakeup` needs the last two together: a waiter's target is
in the queue, so `m_waiter_target` is not above it, so the consumer that passes
the target will notify. `ConsumerWakeup` needs `FlagInv`: a producer that found
the flag set has the consumer, or another producer, inside the section, and
takes the mutex before it notifies. Each conjunct has a lemma for its step;
`NextIInv` combines them.

The proofs about `AsyncQueueSC` are in `AsyncQueueSCThreads` (the waits and
`add_task()`), `AsyncQueueSCBlocks` (making and recycling blocks, the worker) and
`AsyncQueueSCProofs` (the induction and the theorems). For any finite set of
producers, any block size and any quota:

- `Counts`: every claimed id is published once or is in the hands of the one
  thread that claimed it, and fetched, committed and counted tasks follow in
  this order;
- `EmptySeen`: `wait_task_queue_empty()` leaves its loop only at an instant at
  which every claimed task is finished. This needs of the first counter it reads
  only that it is never too large.

The theorems about the blocks have a hypothesis, `Allowed`. The producers fit
in one block (`FewProducers`): the first block is made outside the loop that
makes the others, so an id that does not fit in it would not get a slot; the
code has blocks of 256. And either nobody ever waits for a block
(`QuotaSuffices`: the ids claimed fit in the quota), or only one thread adds
tasks (`SingleAdder`), because several producers under a quota break
`SlotValid` (see Findings). Every queue of the code is of one of the two kinds:
the default quota is unlimited, and the channel, which sets one, adds its
commands one at a time under `m_spin`. Under it:

- `QueueInvariant`: `Spec => []QInv`, with `QInv` of `AsyncQueueSCInvariant`, and
  from it
- `SlotsValid`: `add_task()` constructs its task in the slot of its own id, in a
  block of the queue;
- `BlocksAllAccounted`: no block is lost, in two places, or over the quota;
- `HeadHasNext`: the worker never runs off its block without a next one;
- `WaitAllIsSound`: `wait_all_task_finish()` ends after every earlier task;
- `QueueIsFifo`: `Spec => TaskFifo!Spec`, with its liveness left out.

`QInv` says that the blocks in use (`Live`: made and not in the free list) form
one list, linked both ways, of consecutive ids (`ChainInv`, `FreeInv`); where the
worker is in it (`PlaceInv`); what a thread in `add_task()` knows of its id, tail
and slot (`ThreadInv`, `IdsInv`, `LockInv`); and that an id beyond the last block
is still in the hands of a thread (`BeyondInv`). The worker reads only published
tasks, of which there are as many as it has fetched and one more; were its slot
beyond the last block, more ids would be in the hands of threads than `Counts`
allows. This counting, and that what is reached from the head is `Live`, are
`Derived` from `QInv` with theorems about finite sets.

`ThreadPoolProofs` proves for any number of threads, any set of callers apart
from the workers and any set of parallelisms:

- `IndexOnce`: `add_task()` runs every index exactly once;
- `AliveWhileRun`: a worker is at a task only while the call that owns it is in
  progress, and no index is left for the next call.

The inductive invariant says that one caller at a time holds `m_mutex_task`
(`MutexInv`); that a worker at a task has its flag set, that a flag is set only
while a caller shares its task, and that the flags `sync()` has passed are reset
(`FlagInv`); that indices are left only while the caller still takes some
(`IterInv`); that indices in the hands of threads are in range, above the
counter and different (`IndexInv`); and that an index above the counter is in
some thread's hands or has been run once (`RunsInv`). When `sync()` has passed
every flag, nobody is at the task (`FlagInv`), so nobody has an index, and no
index is below the counter (`IterInv`): every index has been run (`RunsInv`).

The proofs about `Channel` hold for any set of tensors, any values and any
operator on them, any use of DTR, of failures and of `async_level`, and any
bound on the queue. They assume what the declarations of the constants say
(`NoneAssumption` to `ModesAssumption`); in particular `dtr.disable()` after an
operator has thrown is left out, as in the runs. `ChannelProofs` states:

- `InductiveInvariant`: `Spec => []IInv`, with `IInv` of `ChannelInvariant`,
  and from it
- `ChannelTypes`: the types, and a value exactly where there is a pointer;
- `ChannelPoolSafe`: nothing refers to a freed `TensorInfo`;
- `ChannelValueCorrect`: every value, on the device or on the host, is the one
  of synchronous execution;
- `ChannelResultOrError`: a processed output has a value, a path or an error;
- `ChannelHostComputeReady`: the assertion of `dispatch_default_cpu()` holds;
- `ChannelNoLostNotify`: `wait_tensor()` sleeps on nothing that is there.

None of them is inductive, because client and worker meet only in the queue: a
command does what the client meant only if nothing that was promised when it
was added has changed until it is processed, and an entry of `m_apply_stack`
only if nothing has changed since it was pushed. `IInv` says what is promised:

- of the queue, that every command names live tensors (`CommandInv`), that the
  command that makes a tensor precedes all others that name it and until then
  the tensor is untouched (`OutputInv`), that `Del` is the last one (`DelInv`),
  that a tensor kept for its users is named by none (`KeptInv`), and that
  everything live has a handle, a queued `Del` or users (`HandleInv`);
- of the values, that a recorded path computes the value its output is to have
  from a live, usable input, and that what is evicted has one (`PathInv`), and
  that a value known to shape inference is kept on the host or in a tensor that
  cannot be evicted (`HostInv`);
- of the stack, that every entry without a dangling pointer computes its output
  (`EntryInv`); that the operator of an `ApplyOp` is on it until its output is
  there, with nothing under it but paths that earlier commands left
  (`StackInv`); and that the input which `do_apply_op()` holds has the value it is
  to have (`HeldInv`), which is why evicting that input meanwhile is harmless;
- of the wait, that it is on a valid handle, and that no result or error is
  there which the sleeping client is not about to be told of (`WaitInv`).

The run `channel_safety` checks `IInv` on three tensors. In the proof each step
is first reduced to what it does to single tensors and to the queue (a tensor
keeps its value or loses one that can be computed again, `Keeps`; gets its
value, `Computed`; is kept for its users, `Retired`; the first command is gone,
`QueueMoved`), and lemmas about these classes of steps show the conjuncts.
`ChannelLemmas` has the lemmas about sequences, records, the head of the queue
and the top of the stack, and the steps of `flush_apply_stack()`;
`ChannelCommands` the worker's commands up to `recursive_free()`;
`ChannelProofs` the calls and the wait, the types, the induction and the
theorems.

Only model-checked, and why:

- liveness (`WaitsEnd`, `SyncReturns`, `CallsReturn` and the like) and what rests on
  fairness: out of the prover's reach;
- the sums over blocks of `DevMemAlloc`: what a sum over a set is after a step
  needs induction over sets, which the installed provers cannot instantiate;
- `CompNodeSync`, `ExecEnv` and `Distributed`: their properties depend on the
  graphs, plans and programs that the runs enumerate; no invariant for arbitrary
  ones has been worked out.

## Findings

Two are shown by runs that expect the violation.

- `channel_hang`: `get_value()` waits for ever for an output whose input failed,
  when the error was already delivered to another call.
- `dist_barrier`: two barriers of the `GroupManager` in a row. A process that
  leaves the first one enters the second before another has seen the set
  empty; that one then waits for the second barrier, which waits for it.

The following are shown by the same models with other constants or with a
property that is defined and not part of a run. Where a change of a cfg is
given, it replaces the property list too, and deadlock checking is switched off.

| what | how to see it |
|---|---|
| with `max_items` of at most one block, `add_task()` of the first task of the second block waits for a block that the worker frees only after it has fetched that very task | `MCQueue_quota`, `MaxItems` = 2: `CallsReturn` |
| with a quota and several producers (no caller does this), `allocate_task()` goes on from a tail that is stale after the wait for a block | `MCQueue_quota`, two producers: `SlotValid` |
| an operator that throws under DTR leaves `m_applying` set: evicted tensors are then not computed again, so that reading one of them makes the worker dereference a null pointer, or the client wait for ever | `MCChannel_safety`, `Modes <- DtrFailMode`: `UsableAfterError` |
| `get_shape()` of an output that is evicted before its shape is read waits for ever, because it does not ask for the tensor to be computed again | `MCChannel_live`, with `WaitsEnd` without its last disjunct |
| after `dtr.disable()` an operator on a tensor that was evicted before fails, although `get_value()` of that tensor works | `MCChannel_safety`, `Modes <- DisableMode`: `ApplyInputInMemory` |
| an allocation served from gathered blocks is counted twice in `m_used_size`, which then exceeds the memory of the device | `MCDevMem_alloc`: `UsedWithinTotal` |
| a borrowed tensor that was copied to a third node and dropped is released inside the manager, whose lock its destructor takes again | `MCNodeSync`, `BorrowThenCopy` = TRUE, `Plans <- BorrowPlans`: `ReleasedEventually` |
| after an exception in one worker, the destructor joins another one that waits for a variable which never becomes ready | `MCExec`: `DestructorReturns` |
| while a defragmentation moves variables, another worker may still issue the kernel of the task it is in | `MCExec`: `NothingRunsWhileMoving` |
| `group_barrier` of the Python server is counted twice when its client repeats it, which the code's FIXME says | `MCDist_barrier`, `Programs <- OneBarrier`, `LossyCalls = {"barrier"}`: `BarrierTogether` |
| two hand-overs of a gradient flag under one key: the second may meet the future of the first before it is deleted | `MCDist_barrier`, `Programs <- FlagTwice`: `Delivered`, `CallsReturn` |

## What is not modelled

The parts with status `not_modelled` in `PROJECT.json`, each with its reason:
numerical kernels, compilation and rewriting passes, vendor runtimes and
formats make up nearly all of the repository, and have no protocol that a
model of this size could say something about.

Within the modelled parts:

- channel: operators with several inputs or outputs (and with them the
  eviction of one input while another is recomputed, which pins prevent only
  while DTR is on), the candidate list of DTR, pins that an exception leaves
  behind, a recomputation that throws, `dtr.disable()` after an operator has
  thrown, fork, profiling and scopes;
- allocator: `m_max_used_size`, the destructor, `SimpleCachingAllocImpl`;
- queue: the Windows exit handling;
- storage release: several issuing threads (the gap in `do_record()`, and the
  references that `device_wait()` keeps over it), operators with several
  inputs, creation and destruction of the manager;
- graph execution: synchronous execution, and with it
  `comp_seq_sync_device` = false, which only `imperative/src/impl/ops/utility.cpp`
  sets, together with it; variables with persistent values,
  execution masks, recorders, sub-graphs, operators on several nodes, what a
  defragmentation moves;
- thread pool: binding threads to cores, with its unsynchronised flags; a task
  that throws in the caller, which leaves `add_task()` without `sync()` while
  workers still refer to its frame;
- distributed: `close()` of the servers, the client's pool of sockets, the
  remote tracer, hash collisions, a spurious wakeup in `get_output_shape()`,
  and the use of `m_bcast_cv` with two mutexes;
- weak memory everywhere.

## Plan

1. Extend: `Candidates` (the list of eviction candidates, against "the
   evictable tensors, each once"); `Channel` with operators of two inputs and
   recomputations that throw; `CompNodeSync` with two issuing threads;
   topological sorting and static memory planning against their definitions.
2. Prove: `ExecEnv`'s `KernelsOrdered` from the argument that a wait which is
   left out is implied by an earlier one; `DevMemAlloc`'s `HeadExact` and
   `Partition`.
