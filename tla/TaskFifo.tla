------------------------------ MODULE TaskFifo ------------------------------
(***************************************************************************)
(* What AsyncQueueSC promises its user (the comments of add_task,          *)
(* wait_all_task_finish and process_one_task in thread_impl_1.h): tasks    *)
(* are numbered when add_task() is entered, one worker processes each of   *)
(* them once, in that order, and a wait returns only after the tasks       *)
(* numbered before it have been processed.                                 *)
(***************************************************************************)
EXTENDS Naturals

CONSTANT Producers

VARIABLES
    issued,     \* number of tasks given a number
    ready,      \* numbers of the tasks constructed and not yet taken
    running,    \* a task is being processed: the one numbered executed
    executed,   \* number of tasks processed
    waits       \* waits[p]: {} or {number of tasks p waits for}

vars == <<issued, ready, running, executed, waits>>

Init ==
    /\ issued = 0
    /\ ready = {}
    /\ running = FALSE
    /\ executed = 0
    /\ waits = [p \in Producers |-> {}]

Issue ==
    /\ issued' = issued + 1
    /\ UNCHANGED <<ready, running, executed, waits>>

\* construction may finish out of order
Construct(i) ==
    /\ i < issued
    /\ i \notin ready
    /\ IF running THEN i > executed ELSE i >= executed
    /\ ready' = ready \cup {i}
    /\ UNCHANGED <<issued, running, executed, waits>>

Start ==
    /\ ~running
    /\ executed \in ready
    /\ ready' = ready \ {executed}
    /\ running' = TRUE
    /\ UNCHANGED <<issued, executed, waits>>

Finish ==
    /\ running
    /\ running' = FALSE
    /\ executed' = executed + 1
    /\ UNCHANGED <<issued, ready, waits>>

WaitBegin(p) ==
    /\ waits[p] = {}
    /\ waits' = [waits EXCEPT ![p] = {issued}]
    /\ UNCHANGED <<issued, ready, running, executed>>

WaitEnd(p) ==
    /\ waits[p] # {}
    /\ \A n \in waits[p] : executed >= n
    /\ waits' = [waits EXCEPT ![p] = {}]
    /\ UNCHANGED <<issued, ready, running, executed>>

Next ==
    \/ Issue
    \/ \E i \in 0 .. issued : Construct(i)
    \/ Start
    \/ Finish
    \/ \E p \in Producers : WaitBegin(p) \/ WaitEnd(p)

Spec == Init /\ [][Next]_vars
=============================================================================
