---------------------------- MODULE Distributed ----------------------------
(***************************************************************************)
(* The distributed runtime: the client processes, the RPC worker pool with *)
(* the GroupManager behind it, and the Python server.  The two servers are *)
(* threads of one process, which an exception in a handler ends.           *)
(***************************************************************************)
EXTENDS ZmqRpc, GroupManager, DistServer

vars == <<clientVars, poolVars, managerVars, methodsVars>>

Init == GCInit /\ PoolInit /\ ManagerInit /\ MethodsInit

Client(r) == (Begin(r) \/ Return(r)) /\ UNCHANGED <<poolVars, managerVars, methodsVars>>

\* The server process runs.
Serving == \A r \in Procs : at[r] # "terminated"

Main(w) == Serving /\ MainStep(w) /\ UNCHANGED <<managerVars, methodsVars>>

Worker(w) == Serving /\ WorkerStep(w) /\ UNCHANGED <<managerVars, methodsVars>>

Handler(r) == Serving /\ HandlerStep(r) /\ UNCHANGED <<poolVars, methodsVars>>

Method(r) == Serving /\ MethodStep(r) /\ UNCHANGED <<poolVars, managerVars>>

Fault(r) == Serving /\ BrokenConnection(r) /\ UNCHANGED <<poolVars, managerVars>>

\* Process q has an n-th item.
HasItem(q, n) == n <= Len(results[q]) + Len(prog[q])

\* The n-th item of process q, whether it has been run or not.
ItemAt(q, n) ==
    IF n <= Len(results[q]) THEN results[q][n].item ELSE prog[q][n - Len(results[q])]

\* The members of a group agree on its size: the size that a process registers
\* an operator with is the number of the processes that register it.
SizesAgree ==
    \A p \in Procs : \A n \in 1 .. Len(results[p]) + Len(prog[p]) :
        LET i == ItemAt(p, n) IN
        i.op = "opr_register" =>
            i.size = Cardinality({q \in Procs : HasItem(q, n) /\ ItemAt(q, n).key = i.key})

\* Every process has run its program, or the server is gone: the system rests.
\* It may also rest when a group has more members than its size: some of them
\* wait for others that do not come.
Finished ==
    /\ (\A r \in Procs : prog[r] = <<>>) \/ ~Serving \/ ~SizesAgree
    /\ UNCHANGED vars

Next ==
    \/ \E r \in Procs : Client(r) \/ Handler(r) \/ Method(r) \/ Fault(r)
    \/ \E w \in Threads : Worker(w) \/ Main(w)
    \/ Finished

Spec == Init /\ [][Next]_vars

\* Every thread runs when it can: a client, the main thread of the RPC server,
\* a worker, a handler, a thread of the Python server.  Connections need not
\* break.  Programs are finite, so every computation has finitely many
\* steps and weak fairness of the pool as a whole is fairness of each worker.
FairSpec ==
    /\ Spec
    /\ \A r \in Procs : WF_vars(Client(r)) /\ WF_vars(Handler(r)) /\ WF_vars(Method(r))
    /\ WF_vars(\E w \in Threads : Worker(w))
    /\ WF_vars(\E w \in Threads : Main(w))

Locations ==
    {"idle", "sent", "dispatched", "call", "ret", "routed", "answered",
     "terminated", "reg_wait", "reg_read", "reg_clear", "clear_wait", "shape_wait", "shape_woken",
     "bcast_wait", "barrier_wait",
     "py", "py_ret", "f_set", "f_ack", "f_get", "f_read", "f_del",
     "b_val", "b_count", "b_wait", "b_del", "b_set"}

\* The types of the variables.
TypeOK ==
    /\ at \in [Procs -> Locations]
    /\ Threads \subseteq [pc : {"start", "recv", "solve", "sent"}, proc : Procs \cup {None},
                       seen : {"no", "backend", "idle"}]
    /\ m_runable \in 0 .. MaxWorkers
    /\ held \in [Procs -> 0 .. Len(obj)]
    /\ lost \in 0 .. MaxLost

\* The members of a group agree: executing the same operator gives all of them
\* the same group, the same root (the member that said it is the root) and the
\* same communicator address, which is the one of the member with rank 0, and
\* gives each of them a rank of its own.  It fails if a member reads the infos
\* of GroupInfo after another has cleared or replaced them, or if the caches of
\* registrations and communicators lead two members to different decisions.
RegisterAgree ==
    \A p, q \in Procs : \A n \in DOMAIN results[p] \cap DOMAIN results[q] :
        LET x == results[p][n] y == results[q][n] IN
        x.item.op = "opr_register" =>
            /\ x.val.hash = y.val.hash
            /\ x.val.root = y.val.root
            /\ x.val.addr = y.val.addr
            /\ p # q => x.val.rank # y.val.rank
            /\ x.item.is_root => x.val.root = x.val.rank
            /\ x.val.rank = 0 => x.val.addr[1] = p

Receives == {"get_output_shape", "bcast_nccluniqueid", "check_is_grad", "user_get", "user_pop"}

\* What one member gives, the others get: the value a member receives for an
\* item (a shape, an NCCL id, a broadcast value, a gradient flag, a user value)
\* is the one some member gave for the same item, not one of an earlier or a
\* later round under the same key.
Delivered ==
    \A p \in Procs : \A n \in DOMAIN results[p] :
        LET x == results[p][n] IN
        x.item.op \in Receives \/ (x.item.op = "bcast_val" /\ x.item.val = None) =>
            \E q \in Procs : HasItem(q, n) /\ x.val = ItemAt(q, n).val /\ x.val # None

\* A barrier is one: when a member returns from its n-th item, a barrier of
\* either server, the call of every other member has reached the server.
BarrierTogether ==
    \A p \in Procs : \A n \in DOMAIN results[p] :
        results[p][n].item.op \in {"group_barrier", "barrier"} =>
            \A q \in {m \in Procs : HasItem(m, n)} :
                \/ Len(results[q]) >= n
                \/ /\ Len(results[q]) = n - 1
                   /\ at[q] \notin {"idle", "sent", "dispatched", "call", "py"}

\* Every call returns: no process waits forever for the pool, for a condition
\* variable, or for an event nobody will set, and no handler throws, as long as
\* the members of a group agree on its size.
CallsReturn == SizesAgree => \A r \in Procs : <>(prog[r] = <<>>)
============================================================================
