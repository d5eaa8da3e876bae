------------------------------- MODULE ExecEnv -------------------------------
(***************************************************************************)
(* Asynchronous execution of a compiled graph.  ComputingSequence          *)
(* dispatches the tasks of the operators to one queue per comp node        *)
(* (NormalExecEnv); a worker thread per comp node (AsyncWorkerSet) runs    *)
(* its queue once per execution and issues kernels to the device stream.   *)
(* An operator that reads a variable of another comp node first waits, on  *)
(* the host, until that variable's CompNodeSyncManager is set ready, and   *)
(* then makes its own stream wait for the recorded event.                  *)
(* SeqCompNodeOptimizer decides which variables are waited for.            *)
(*                                                                         *)
(* A graph is a sequence of operators [cn, deps, sink]: the comp node, the *)
(* steps of the operators whose outputs it reads, and whether it has the   *)
(* property NO_INPUT_WAITING.  The operator with this property is          *)
(* VarSinkOpr, which hands variables over to another graph: it runs a host *)
(* function on the comp node of each input and has no kernel of its own.   *)
(* An operator has one output, named by its step.  Condition variables are *)
(* waited on in loops and notified under their mutex, so a wait is a       *)
(* guard.                                                                  *)
(*                                                                         *)
(* When no operator waits for another comp node, the workers are           *)
(* independent, and AsyncWorkerSet may also be used directly: its owner    *)
(* may call start() several times before wait_all().                       *)
(***************************************************************************)
EXTENDS Integers, Sequences, FiniteSets, FiniteSetsExt, SequencesExt

CONSTANTS
    Nodes,      \* comp nodes
    Graphs,     \* the graphs that are executed
    MaxRuns,    \* bound on the executions of the graph
    MaxDefrag   \* bound on the defragmentations

ASSUME \A g \in Graphs : \A s \in DOMAIN g :
          /\ g[s].cn \in Nodes
          /\ g[s].deps \subseteq {d \in 1 .. s - 1 : ~g[d].sink}

VARIABLES
    graph,      \* the graph
    queue,      \* queue[n]: NormalExecEnv::m_worker_task_queue
    nr_waiter,  \* nr_waiter[s]: CompNodeSyncManager::m_nr_waiter of the output of s
    main,       \* where the thread of the ComputingSequence is
    runs,       \* executions started: m_nr_start_call
    to_wait,    \* m_nr_worker_to_wait
    should_stop, prev_exception,    \* of AsyncWorkerSet
    paused,     \* m_exec_paused
    worker,     \* worker[n]: [pc, finished, dst, pos, vars]; finished and dst are
                \* cur_finished_call and dst_nr_call
    nr_ready,   \* nr_ready[s]: CompNodeSyncManager::m_nr_ready of the output of s
    recorded,   \* recorded[s]: how often its m_ready_event has been recorded
    stream,     \* stream[n]: commands issued to the device and not executed
    passed,     \* passed[s]: how often the device has passed the recorded event
    ran,        \* history: ran[s] is the last execution in which kernel s ran
    defrags     \* defragmentations so far

planVars == <<graph, queue, nr_waiter>>
hostVars == <<main, runs, to_wait, should_stop, prev_exception, paused, defrags>>
syncVars == <<nr_ready, recorded>>
deviceVars == <<stream, passed, ran>>
vars == <<planVars, hostVars, worker, syncVars, deviceVars>>

Steps == DOMAIN graph

Kernels == {s \in Steps : ~graph[s].sink}

UsedNodes == {graph[s].cn : s \in Steps}

Latest(S) == IF S = {} THEN 0 ELSE Max(S)

(***************************************************************************)
(* What is waited for                                                      *)
(***************************************************************************)
\* The steps on comp node n that step s reads.
DepsOn(s, n) == {d \in graph[s].deps : graph[d].cn = n}

\* Mutant: what one comp node is known to have finished is taken to be known
\* to all of them.
Known_Shared(s, n) == Latest(UNION {DepsOn(t, n) : t \in Kernels \cap 1 .. s - 1})

\* cnpair2step: the latest step on n that earlier operators on the comp node of
\* s have synchronised with; an operator that does not wait adds nothing.
Known(s, n) ==
    Latest(UNION {DepsOn(t, n) : t \in {u \in Kernels \cap 1 .. s - 1 : graph[u].cn = graph[s].cn}})

\* init_ready_event: of every other comp node, step s waits for the latest
\* variable it reads, unless a later one has been waited for, or s has the
\* property NO_INPUT_WAITING.
WaitingSpec(s) ==
    {Latest(DepsOn(s, n)) : n \in {m \in Nodes \ {graph[s].cn} :
                                     /\ s \in Kernels /\ DepsOn(s, m) # {}
                                     /\ Latest(DepsOn(s, m)) > Known(s, m)}}

\* No worker waits for another one.
Independent == \A s \in Steps : WaitingSpec(s) = {}

\* Mutant: a waiter is recorded for every reader on another comp node.
NrWaiter_Readers(v) ==
    Cardinality({s \in Steps : v \in graph[s].deps /\ graph[s].cn # graph[v].cn})

\* add_waiter_record, once for every operator that waits for v.
NrWaiter(v) == Cardinality({s \in Steps : v \in WaitingSpec(s)})

\* OperatorNodeBase::execute: the tasks of step s, in the order they are
\* dispatched: wait for the inputs, run the kernel, tell the waiters.
TasksOf(s) ==
    (IF WaitingSpec(s) = {} THEN <<>>
     ELSE <<[op |-> "wait", step |-> s, vars |-> WaitingSpec(s)]>>)
    \o <<[op |-> "kernel", step |-> s]>>
    \o (IF NrWaiter(s) = 0 THEN <<>> ELSE <<[op |-> "ready", step |-> s]>>)

\* VarSinkOpr::do_execute: the tasks of sink s for comp node n, one per variable.
ListenTasks(s, n) == SetToSeq({[op |-> "listen", step |-> d] : d \in DepsOn(s, n)})

\* init_for_exec: the queue of comp node n.
TaskQueue(n) ==
    FlattenSeq([s \in Steps |-> IF graph[s].sink THEN ListenTasks(s, n)
                                ELSE IF graph[s].cn = n THEN TasksOf(s) ELSE <<>>])

Init ==
    /\ graph \in Graphs
    /\ queue = [n \in UsedNodes |-> TaskQueue(n)]
    /\ nr_waiter = [s \in Steps |-> NrWaiter(s)]
    /\ main = "idle" /\ runs = 0 /\ to_wait = 0 /\ defrags = 0
    /\ should_stop = FALSE /\ prev_exception = FALSE /\ paused = FALSE
    /\ worker = [n \in UsedNodes |->
                  [pc |-> "start", finished |-> 0, dst |-> 0, pos |-> 1, vars |-> {}]]
    /\ nr_ready = [s \in Steps |-> 0]
    /\ recorded = [s \in Steps |-> 0]
    /\ stream = [n \in UsedNodes |-> <<>>]
    /\ passed = [s \in Steps |-> 0]
    /\ ran = [s \in Steps |-> 0]

(***************************************************************************)
(* The thread that owns the ComputingSequence                              *)
(***************************************************************************)
Drained == \A n \in UsedNodes : stream[n] = <<>>

\* execute(): wait for the previous execution (m_event_end of every comp node),
\* then NormalExecEnv::start_exec.
Execute ==
    /\ main = "idle" /\ runs < MaxRuns /\ Drained
    /\ paused' = FALSE
    /\ runs' = runs + 1
    /\ to_wait' = Cardinality(UsedNodes)
    /\ main' = "wait_all"
    /\ UNCHANGED <<planVars, should_stop, prev_exception, defrags, worker, syncVars, deviceVars>>

\* A direct user of AsyncWorkerSet calls start() again before it waits.
StartAgain ==
    /\ main = "wait_all" /\ runs < MaxRuns /\ Independent /\ ~prev_exception
    /\ runs' = runs + 1
    /\ to_wait' = Cardinality(UsedNodes)
    /\ UNCHANGED <<planVars, main, should_stop, prev_exception, paused, defrags,
                   worker, syncVars, deviceVars>>

\* AsyncWorkerSet::wait_all returns or rethrows.
WaitAll ==
    /\ main = "wait_all" /\ (prev_exception \/ to_wait = 0)
    /\ main' = IF prev_exception THEN "failed" ELSE "idle"
    /\ UNCHANGED <<planVars, runs, to_wait, should_stop, prev_exception, paused, defrags,
                   worker, syncVars, deviceVars>>

\* The sequence is destroyed: wait for the device unless the execution failed,
\* then ~AsyncWorkerSet stops the workers and joins them.
Destroy ==
    /\ main = "failed" \/ (main = "idle" /\ Drained)
    /\ should_stop' = TRUE
    /\ main' = "join"
    /\ UNCHANGED <<planVars, runs, to_wait, prev_exception, paused, defrags,
                   worker, syncVars, deviceVars>>

Joined ==
    /\ main = "join" /\ \A n \in UsedNodes : worker[n].pc = "exited"
    /\ main' = "destroyed"
    /\ UNCHANGED <<planVars, runs, to_wait, should_stop, prev_exception, paused, defrags,
                   worker, syncVars, deviceVars>>

(***************************************************************************)
(* The workers                                                             *)
(***************************************************************************)
Goto(n, pc) == worker' = [worker EXCEPT ![n].pc = pc]

AtTask(n, op) ==
    /\ worker[n].pc = "task" /\ worker[n].pos <= Len(queue[n])
    /\ queue[n][worker[n].pos].op = op

Task(n) == queue[n][worker[n].pos]

\* run_task_seq_impl after a task: wait_resume_if_paused.
NextTask(n) ==
    worker' = [worker EXCEPT ![n].pos = @ + 1, ![n].vars = {},
                             ![n].pc = IF paused THEN "paused" ELSE "task"]

\* worker_impl at the head of its loop: stop, or run the queue once for every
\* start() that has been called.
Wake(n) ==
    /\ worker[n].pc = "start" /\ (should_stop \/ worker[n].finished < runs)
    /\ worker' = [worker EXCEPT ![n].pc = IF should_stop THEN "exited" ELSE "task",
                                ![n].dst = runs, ![n].pos = 1]
    /\ UNCHANGED <<planVars, hostVars, syncVars, deviceVars>>

IssueTo(n, cmd) == stream' = [stream EXCEPT ![n] = Append(@, cmd)]

Kernel(n) ==
    /\ AtTask(n, "kernel")
    /\ IssueTo(n, [op |-> "kernel", step |-> Task(n).step, nr |-> worker[n].finished + 1])
    /\ NextTask(n)
    /\ UNCHANGED <<planVars, hostVars, syncVars, passed, ran>>

\* The host function of a sink: the listeners of the variable take its tensor.
Listen(n) ==
    /\ AtTask(n, "listen")
    /\ NextTask(n)
    /\ UNCHANGED <<planVars, hostVars, syncVars, deviceVars>>

\* do_set_ready: record the event, then let the waiters go; an assertion says
\* that the previous ones have been fetched.
SetReady(n) ==
    LET s == Task(n).step IN
    /\ AtTask(n, "ready") /\ nr_ready[s] = 0
    /\ recorded' = [recorded EXCEPT ![s] = recorded[s] + 1]
    /\ IssueTo(n, [op |-> "record", step |-> s, nr |-> recorded[s] + 1])
    /\ nr_ready' = [nr_ready EXCEPT ![s] = nr_waiter[s]]
    /\ NextTask(n)
    /\ UNCHANGED <<planVars, hostVars, passed, ran>>

\* One iteration of the waiting task: busy_wait_set_ready takes one of the ready
\* counts, and the device waits for the event as it was last recorded.
WaitReady(n) ==
    /\ AtTask(n, "wait")
    /\ \E v \in Task(n).vars \ worker[n].vars :
          /\ nr_ready[v] > 0
          /\ nr_ready' = [nr_ready EXCEPT ![v] = @ - 1]
          /\ IssueTo(n, [op |-> "wait", step |-> v, nr |-> recorded[v]])
          /\ IF Task(n).vars = worker[n].vars \cup {v}
             THEN NextTask(n)
             ELSE worker' = [worker EXCEPT ![n].vars = @ \cup {v}]
    /\ UNCHANGED <<planVars, hostVars, recorded, passed, ran>>

Resumed(n) ==
    /\ worker[n].pc = "paused" /\ ~paused
    /\ Goto(n, "task")
    /\ UNCHANGED <<planVars, hostVars, syncVars, deviceVars>>

\* Mutant: a worker reports every call, not only the last one.
Reported_Every(nr) == TRUE

\* A worker reports the last call that has been started.
Reported(nr) == nr = runs

\* The queue has been run: unless the set is stopped, run it again for the next
\* call the worker knows of, or report it.
QueueDone(n) ==
    LET done == worker[n].finished + 1 IN
    /\ worker[n].pc = "task" /\ worker[n].pos > Len(queue[n])
    /\ worker' = [worker EXCEPT ![n].finished = done, ![n].pos = 1,
                                ![n].pc = IF should_stop THEN "exited"
                                          ELSE IF done < worker[n].dst THEN "task" ELSE "start"]
    /\ to_wait' = IF ~should_stop /\ done = worker[n].dst /\ Reported(done) THEN to_wait - 1
                  ELSE to_wait
    /\ UNCHANGED <<planVars, main, runs, should_stop, prev_exception, paused, defrags,
                   syncVars, deviceVars>>

\* A task throws (an allocation fails, an operator reports an error):
\* worker_impl_wrapper stops the set, ...
Throw(n) ==
    /\ AtTask(n, "kernel")
    /\ should_stop' = TRUE
    /\ Goto(n, "thrown")
    /\ UNCHANGED <<planVars, main, runs, to_wait, prev_exception, paused, defrags,
                   syncVars, deviceVars>>

\* ... and leaves the exception for wait_all.
KeepException(n) ==
    /\ worker[n].pc = "thrown"
    /\ prev_exception' = TRUE
    /\ to_wait' = to_wait - 1
    /\ Goto(n, "exited")
    /\ UNCHANGED <<planVars, main, runs, should_stop, paused, defrags, syncVars, deviceVars>>

(***************************************************************************)
(* Defragmentation (VarDevMemDefragmenter::defrag), in a task of worker n  *)
(***************************************************************************)
\* pause_exec: the other workers stop after the task they are in.
PauseExec(n) ==
    /\ AtTask(n, "kernel") /\ defrags < MaxDefrag
    /\ paused' = TRUE
    /\ defrags' = defrags + 1
    /\ Goto(n, "sync_all")
    /\ UNCHANGED <<planVars, main, runs, to_wait, should_stop, prev_exception,
                   syncVars, deviceVars>>

\* CompNode::sync_all, after which the variables are moved ...
Move(n) ==
    /\ worker[n].pc = "sync_all" /\ Drained
    /\ Goto(n, "moving")
    /\ UNCHANGED <<planVars, hostVars, syncVars, deviceVars>>

\* Mutant: the execution is not resumed.
ResumeExec_Never(n) ==
    /\ worker[n].pc = "moving"
    /\ Goto(n, "task")
    /\ UNCHANGED <<planVars, hostVars, syncVars, deviceVars>>

\* ... and resume_exec.
ResumeExec(n) ==
    /\ worker[n].pc = "moving"
    /\ paused' = FALSE
    /\ Goto(n, "task")
    /\ UNCHANGED <<planVars, main, runs, to_wait, should_stop, prev_exception, defrags,
                   syncVars, deviceVars>>

(***************************************************************************)
(* The device: every stream runs its commands in order                     *)
(***************************************************************************)
DeviceStep(n) ==
    /\ stream[n] # <<>>
    /\ LET c == Head(stream[n]) IN
       \/ /\ c.op = "kernel"
          /\ ran' = [ran EXCEPT ![c.step] = c.nr]
          /\ UNCHANGED passed
       \/ /\ c.op = "record"
          /\ passed' = [passed EXCEPT ![c.step] = c.nr]
          /\ UNCHANGED ran
       \/ /\ c.op = "wait" /\ passed[c.step] >= c.nr
          /\ UNCHANGED <<passed, ran>>
    /\ stream' = [stream EXCEPT ![n] = Tail(@)]
    /\ UNCHANGED <<planVars, hostVars, worker, syncVars>>

WorkerStep(n) ==
    \/ Wake(n) \/ Kernel(n) \/ Listen(n) \/ SetReady(n) \/ WaitReady(n) \/ Resumed(n) \/ QueueDone(n)
    \/ KeepException(n) \/ Move(n) \/ ResumeExec(n)

Finished == main = "destroyed" /\ Drained /\ UNCHANGED vars

Next ==
    \/ Execute \/ StartAgain \/ WaitAll \/ Destroy \/ Joined
    \/ \E n \in UsedNodes : WorkerStep(n) \/ Throw(n) \/ PauseExec(n) \/ DeviceStep(n)
    \/ Finished

Spec == Init /\ [][Next]_vars

\* Threads and streams run; nothing has to throw, to be defragmented, to be
\* executed again or to be destroyed.
FairSpec ==
    /\ Spec
    /\ WF_vars(WaitAll) /\ WF_vars(Joined)
    /\ \A n \in Nodes : WF_vars(n \in UsedNodes /\ WorkerStep(n))
    /\ \A n \in Nodes : WF_vars(n \in UsedNodes /\ DeviceStep(n))

\* The types of the variables.
TypeOK ==
    /\ main \in {"idle", "wait_all", "failed", "join", "destroyed"}
    /\ runs \in 0 .. MaxRuns /\ to_wait \in 0 .. Cardinality(UsedNodes)
    /\ {should_stop, prev_exception, paused} \subseteq BOOLEAN
    /\ \A n \in UsedNodes :
          /\ worker[n].pc \in {"start", "task", "paused", "thrown", "exited", "sync_all", "moving"}
          /\ worker[n].finished \in 0 .. runs /\ worker[n].dst \in 0 .. runs
          /\ worker[n].pos \in 1 .. Len(queue[n]) + 1
          /\ worker[n].vars \subseteq Steps
    /\ \A s \in Steps : nr_ready[s] \in 0 .. nr_waiter[s] /\ passed[s] <= recorded[s]

\* Kernels run in dependency order: when the kernel of a step runs on its
\* device, the kernels it reads from have run in the same execution, and every
\* kernel of a graph has run in the previous one, so that no reader of the old
\* contents is left.  This needs the waits SeqCompNodeOptimizer leaves out to be redundant,
\* the ready counts and events of one execution not to be taken for those of
\* another, and execute() to wait for the previous execution.
KernelsOrdered ==
    [][\A s \in Steps : ran'[s] # ran[s] =>
          /\ \A d \in graph[s].deps : ran[d] = ran'[s]
          /\ Independent \/ \A t \in Kernels : ran[t] >= ran'[s] - 1]_vars

\* Every ready count is fetched: a variable is set ready only when the waiters
\* of the previous execution have all taken theirs (the assertion of
\* do_set_ready), and wait_all returns only when no count is left over.
ReadyCountsFetched ==
    /\ \A n \in UsedNodes : AtTask(n, "ready") => nr_ready[Task(n).step] = 0
    /\ main = "idle" => \A s \in Steps : nr_ready[s] = 0

\* wait_all() waits for every call of start(): when it returns without an
\* exception, every worker has run its queue once per call, also when start() was
\* called again while some workers had finished and others had not begun.
AllCallsRun == main = "idle" => \A n \in UsedNodes : worker[n].finished = runs

\* An execution returns or throws, even when workers wait for each other, pause
\* for a defragmentation, or throw.
ExecutionReturns == (main = "wait_all") ~> (main # "wait_all")

\* While the variables of a comp node are moved, no kernel is on a device: the
\* comment of defrag_impl says that the execution has been paused.
NothingRunsWhileMoving == (\E n \in UsedNodes : worker[n].pc = "moving") => Drained

\* The destructor of the worker set returns: a worker that is asked to stop
\* stops, also when another one has thrown.
DestructorReturns == (main = "join") ~> (main = "destroyed")
=============================================================================
