------------------------------ MODULE TaskSync ------------------------------
(***************************************************************************)
(* What SCQueueSynchronizer promises its user (the interface comments of   *)
(* src/src/core/include/megbrain/utils/thread_impl_1.h, lines 76-100): a   *)
(* count of added tasks, a count of finished ones, a consumer that takes a *)
(* task only when one is there, and a wait that returns only after the     *)
(* tasks added before it have been finished.  No lock, flag or condition   *)
(* variable appears here; every operation is one step.                     *)
(***************************************************************************)
EXTENDS Naturals

CONSTANT Producers      \* threads that add tasks and wait for them

VARIABLES
    tot,        \* number of tasks added
    finished,   \* number of tasks committed by the consumer
    fetched,    \* the consumer holds a fetched task it has not committed
    waiting,    \* waiting[p]: {} or {number of tasks p waits for}
    exited      \* the consumer loop has returned

vars == <<tot, finished, fetched, waiting, exited>>

TypeOK ==
    /\ tot \in Nat
    /\ finished \in Nat
    /\ fetched \in BOOLEAN
    /\ waiting \in [Producers -> SUBSET Nat]
    /\ exited \in BOOLEAN

Init ==
    /\ tot = 0
    /\ finished = 0
    /\ fetched = FALSE
    /\ waiting = [p \in Producers |-> {}]
    /\ exited = FALSE

\* producer_add(): "add a new task in producer thread"
Add(p) ==
    /\ waiting[p] = {}
    /\ tot' = tot + 1
    /\ UNCHANGED <<finished, fetched, waiting, exited>>

\* producer_wait(), entry: the tasks added so far are the ones to wait for
WaitBegin(p) ==
    /\ waiting[p] = {}
    /\ waiting' = [waiting EXCEPT ![p] = {tot}]
    /\ UNCHANGED <<tot, finished, fetched, exited>>

\* producer_wait(), return: "wait for currently added tasks to finish"
WaitEnd(p) ==
    /\ waiting[p] # {}
    /\ \A t \in waiting[p] : finished >= t
    /\ waiting' = [waiting EXCEPT ![p] = {}]
    /\ UNCHANGED <<tot, finished, fetched, exited>>

\* consumer_fetch(1) returning 1: "blocking fetch tasks in consumer thread"
Fetch ==
    /\ ~exited
    /\ ~fetched
    /\ finished < tot
    /\ fetched' = TRUE
    /\ UNCHANGED <<tot, finished, waiting, exited>>

\* consumer_commit(1): "ack that tasks have been processed in consumer"
Commit ==
    /\ fetched
    /\ fetched' = FALSE
    /\ finished' = finished + 1
    /\ UNCHANGED <<tot, waiting, exited>>

\* consumer_fetch() returning 0: "return 0 if worker should exit"; it does so
\* only during the destructor, when no producer is inside the object
Exit ==
    /\ ~exited
    /\ ~fetched
    /\ \A p \in Producers : waiting[p] = {}
    /\ exited' = TRUE
    /\ UNCHANGED <<tot, finished, fetched, waiting>>

Next ==
    \/ \E p \in Producers : Add(p) \/ WaitBegin(p) \/ WaitEnd(p)
    \/ Fetch
    \/ Commit
    \/ Exit

Spec == Init /\ [][Next]_vars
=============================================================================
