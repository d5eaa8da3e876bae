------------------------------- MODULE ZmqRpc -------------------------------
(***************************************************************************)
(* The RPC server in front of the GroupManager: a main thread that routes  *)
(* between the clients' socket (m_frontend) and the workers' socket        *)
(* (m_backend), and a pool of worker threads that grows on demand.  A      *)
(* handler may block until every other process has called too, so the pool *)
(* must never be exhausted: a worker that takes a request starts another   *)
(* worker when it was the last runnable one.                               *)
(*                                                                         *)
(* A worker owns a REQ socket: it sends READY once, then alternates        *)
(* between receiving a request and sending its answer.  Workers differ     *)
(* only in the number they are addressed by, so the pool is a bag of       *)
(* worker states; the order in which the main thread finds the messages of *)
(* different peers, and which idle worker it picks, is arbitrary.          *)
(***************************************************************************)
EXTENDS GroupClient, Bags

CONSTANT MaxWorkers     \* bound on the threads the model can start

VARIABLES
    pool,           \* the bag of worker states
    m_runable       \* ZmqRpcWorker::m_runable

poolVars == <<pool, m_runable>>

\* The state of a worker: where its thread is (pc), the process whose request
\* or answer it carries (proc), and what the main thread knows of it (seen):
\* nothing, a message waits in m_backend, or it is in worker_queue.
State(pc, proc, seen) == [pc |-> pc, proc |-> proc, seen |-> seen]

NewWorker == State("start", None, "no")

PoolInit == pool = SetToBag({NewWorker}) /\ m_runable = 1

Threads == BagToSet(pool)

Replace(old, new) == (pool (-) SetToBag({old})) (+) SetToBag({new})

\* A new worker sends READY.
SendReady(w) ==
    /\ w.pc = "start"
    /\ pool' = Replace(w, State("recv", None, "backend"))
    /\ UNCHANGED <<m_runable, clientVars>>

\* The main thread reads a message of worker w: w is idle again, and an answer
\* is passed on to the client that asked.
MainFromBackend(w) ==
    /\ w.seen = "backend"
    /\ pool' = Replace(w, State(w.pc, None, "idle"))
    /\ at' = IF w.proc = None THEN at ELSE [at EXCEPT ![w.proc] = "answered"]
    /\ UNCHANGED <<m_runable, ret>> /\ ClientUnchanged

\* The main thread polls the frontend only when a worker is idle, and hands the
\* request to an idle worker.
MainFromFrontend(w, r) ==
    /\ w.seen = "idle" /\ at[r] = "sent"
    /\ pool' = Replace(w, State(w.pc, r, "no"))
    /\ at' = [at EXCEPT ![r] = "dispatched"]
    /\ UNCHANGED <<m_runable, ret>> /\ ClientUnchanged

\* Mutant: the worker that takes the last slot starts no other.
Exhausted_Never(n) == FALSE

Exhausted(n) == n <= 0

\* A worker receives a request; under m_mtx it gives up its slot and starts
\* another worker if that was the last one (add_worker).
Receive(w) ==
    LET left == m_runable - 1
        solving == Replace(w, State("solve", w.proc, "no"))
    IN  /\ w.pc = "recv" /\ w.proc # None /\ at[w.proc] = "dispatched"
        /\ IF Exhausted(left)
           THEN /\ BagCardinality(pool) < MaxWorkers
                /\ pool' = solving (+) SetToBag({NewWorker})
                /\ m_runable' = left + 1
           ELSE pool' = solving /\ m_runable' = left
        /\ at' = [at EXCEPT ![w.proc] = "call"]
        /\ UNCHANGED ret /\ ClientUnchanged

\* solve_request has returned: the worker sends the answer ...
SendAnswer(w) ==
    /\ w.pc = "solve" /\ at[w.proc] = "ret"
    /\ pool' = Replace(w, State("sent", w.proc, "backend"))
    /\ at' = [at EXCEPT ![w.proc] = "routed"]
    /\ UNCHANGED <<m_runable, ret>> /\ ClientUnchanged

\* ... and takes its slot back.
Runable(w) ==
    /\ w.pc = "sent"
    /\ pool' = Replace(w, [w EXCEPT !.pc = "recv"])
    /\ m_runable' = m_runable + 1
    /\ UNCHANGED clientVars

WorkerStep(w) == SendReady(w) \/ Receive(w) \/ SendAnswer(w) \/ Runable(w)

MainStep(w) == MainFromBackend(w) \/ \E r \in Procs : MainFromFrontend(w, r)
=============================================================================
