---------------------------- MODULE GroupManager ----------------------------
(***************************************************************************)
(* The GroupManager of the master process (opr-mm/impl/group_manager.cpp): *)
(* the handlers that let the members of a group agree on their ranks, on   *)
(* the address of the rank 0, on an NCCL id, on an output shape, and meet  *)
(* at a barrier.  A handler runs in a worker thread of the RPC server,     *)
(* between at[r] = "call" and at[r] = "ret".                               *)
(*                                                                         *)
(* A step is a critical section, up to the wait or the unlock that ends    *)
(* it.  A condition variable that is waited on with a predicate wakes its  *)
(* waiter in a state where the predicate holds: every change of a          *)
(* predicate is made under the mutex and followed by notify_all.           *)
(*                                                                         *)
(* Nothing catches an exception in a worker thread: a handler that throws  *)
(* terminates the process of both servers.                                 *)
(***************************************************************************)
EXTENDS GroupClient, SequencesExt

VARIABLES
    group,      \* m_key2group_info: one GroupInfo per key
    table,      \* the broadcast tables m_key2* : "addr" and "nccl"
    m_barrier   \* [size, set]: m_barrier_size and m_barrier_set

managerVars == <<group, table, m_barrier>>

NoGroup == [opr_infos |-> <<>>, rank_map |-> <<>>, hash |-> None, root_rank |-> -1,
            registered |-> 0, expected |-> 0, count |-> 0, shape |-> None]

NoEntry == [val |-> None, size |-> 0, flag |-> FALSE]

ManagerInit ==
    /\ group = [k \in Keys |-> NoGroup]
    /\ table = [t \in {"addr", "nccl"} |-> [k \in Keys |-> NoEntry]]
    /\ m_barrier = [size |-> 0, set |-> {}]

\* The handler of r throws.
Terminate(r) == Goto(r, "terminated")

(***************************************************************************)
(* opr_register                                                            *)
(***************************************************************************)
\* GroupInfo::sort_opr_infos
Sorted(infos) == SortSeq(infos, LAMBDA a, b : a.comp_node_hash < b.comp_node_hash)

\* GroupInfo::gen_infos_from_opr_infos, the ranks: as given when every member
\* gave one, otherwise the position in the sorted list.
Ranked(infos) ==
    IF \E n \in DOMAIN infos : infos[n].rank < 0
    THEN [n \in DOMAIN infos |-> [infos[n] EXCEPT !.rank = n - 1]]
    ELSE infos

\* ... the rest: rank map, root rank, and the hash of the members and ranks.
Generated(g) ==
    LET infos == Ranked(Sorted(g.opr_infos))
        roots == {n \in DOMAIN infos : infos[n].is_root}
    IN  [g EXCEPT !.opr_infos = infos,
                  !.rank_map = [h \in {infos[n].comp_node_hash : n \in DOMAIN infos} |->
                                  infos[CHOOSE n \in DOMAIN infos :
                                          infos[n].comp_node_hash = h].rank],
                  !.root_rank = IF roots = {} THEN @
                                ELSE infos[CHOOSE n \in roots : \A m \in roots : n <= m].rank,
                  !.hash = [n \in DOMAIN infos |-> <<infos[n].comp_node_hash, infos[n].rank>>],
                  !.count = g.registered]

\* GroupInfo::add_opr up to the wait: the last member generates the infos.  A
\* member that expects another size throws before it is added, one too many
\* throws after it.
AddOpr(r) ==
    LET q == req[r]
        g == [group[q.key] EXCEPT
                 !.expected = q.size,
                 !.opr_infos = Append(@, [comp_node_hash |-> CompNodeHash[r],
                                          is_root |-> q.is_root, rank |-> q.rank]),
                 !.registered = @ + 1]
    IN  /\ at[r] = "call" /\ q.op = "opr_register"
        /\ \/ /\ group[q.key].expected \notin {0, q.size}
              /\ Terminate(r) /\ UNCHANGED group
           \/ /\ group[q.key].expected \in {0, q.size} /\ g.registered > q.size
              /\ Terminate(r) /\ group' = [group EXCEPT ![q.key] = g]
           \/ /\ group[q.key].expected \in {0, q.size} /\ g.registered <= q.size
              /\ IF g.expected = g.registered
                 THEN group' = [group EXCEPT ![q.key] = Generated(g)] /\ Goto(r, "reg_read")
                 ELSE group' = [group EXCEPT ![q.key] = g] /\ Goto(r, "reg_wait")
        /\ UNCHANGED <<table, m_barrier>> /\ ClientUnchanged

\* ... m_register_cv wakes a member once everybody has registered.
Registered(r) ==
    LET g == group[req[r].key] IN
    /\ at[r] = "reg_wait" /\ g.expected = g.registered
    /\ Goto(r, "reg_read")
    /\ UNCHANGED managerVars /\ ClientUnchanged

\* GroupManager::opr_register reads the infos without m_group_mtx; m_rank_map.at
\* throws if they are gone.
ReadInfos(r) ==
    LET g == group[req[r].key] IN
    /\ at[r] = "reg_read"
    /\ IF CompNodeHash[r] \in DOMAIN g.rank_map
       THEN /\ at' = [at EXCEPT ![r] = "reg_clear"]
            /\ ret' = [ret EXCEPT ![r] = [rank |-> g.rank_map[CompNodeHash[r]],
                                          root |-> g.root_rank, hash |-> g.hash]]
       ELSE Terminate(r)
    /\ UNCHANGED managerVars /\ ClientUnchanged

\* Mutant: every member that leaves resets the root.
Cleared_Early(g) ==
    IF g.count = 1 THEN [NoGroup EXCEPT !.hash = g.hash]
    ELSE [g EXCEPT !.count = @ - 1, !.root_rank = -1]

\* GroupInfo::clear, the body for the group: the last member to leave empties it.
Cleared(g) ==
    IF g.count = 1 THEN [NoGroup EXCEPT !.hash = g.hash] ELSE [g EXCEPT !.count = @ - 1]

\* GroupInfo::clear up to the wait.
Clear(r) ==
    LET k == req[r].key IN
    /\ at[r] = "reg_clear"
    /\ group' = [group EXCEPT ![k] = Cleared(@)]
    /\ Goto(r, IF group'[k].count = 0 THEN "ret" ELSE "clear_wait")
    /\ UNCHANGED <<table, m_barrier>> /\ ClientUnchanged

\* ... m_clear_cv wakes a member once everybody has left.
AllCleared(r) ==
    /\ at[r] = "clear_wait" /\ group[req[r].key].count = 0
    /\ Goto(r, "ret")
    /\ UNCHANGED managerVars /\ ClientUnchanged

OprRegister(r) == AddOpr(r) \/ Registered(r) \/ ReadInfos(r) \/ Clear(r) \/ AllCleared(r)

(***************************************************************************)
(* Output shapes                                                           *)
(***************************************************************************)
\* GroupInfo::set_output_shape; notify_all ends the wait of whoever sleeps.
SetOutputShape(r) ==
    LET k == req[r].key
        asleep == {p \in Procs : at[p] = "shape_wait" /\ req[p].key = k}
    IN  /\ at[r] = "call" /\ req[r].op = "set_output_shape"
        /\ group' = [group EXCEPT ![k].shape = req[r].val]
        /\ at' = [p \in Procs |-> IF p = r THEN "ret"
                                  ELSE IF p \in asleep THEN "shape_woken" ELSE at[p]]
        /\ UNCHANGED <<ret, table, m_barrier>> /\ ClientUnchanged

\* GroupInfo::get_output_shape: one wait without a predicate, then an assertion.
GetOutputShape(r) ==
    LET shape == group[req[r].key].shape IN
    /\ \/ /\ at[r] = "call" /\ req[r].op = "get_output_shape"
          /\ IF shape = None THEN Goto(r, "shape_wait") ELSE Reply(r, shape)
       \/ /\ at[r] = "shape_woken"
          /\ IF shape = None THEN Terminate(r) ELSE Reply(r, shape)
    /\ UNCHANGED managerVars /\ ClientUnchanged

(***************************************************************************)
(* bcast_addr and bcast_nccluniqueid: the same protocol on two tables      *)
(***************************************************************************)
BcastTable(op) == IF op = "bcast_addr" THEN "addr" ELSE "nccl"

\* A member has read entry e: the last one drops it.
Left(e) == IF e.size = 1 THEN NoEntry ELSE [e EXCEPT !.size = @ - 1]

\* The root stores its value; the last of the members sets the flag, wakes the
\* others and reads, the others wait.
BcastEnter(r) ==
    LET q == req[r]
        t == BcastTable(q.op)
        e == [table[t][q.key] EXCEPT !.val = IF q.rank = q.root THEN q.val ELSE @,
                                     !.size = @ + 1]
    IN  /\ at[r] = "call" /\ q.op \in {"bcast_addr", "bcast_nccluniqueid"}
        /\ IF e.size = q.size
           THEN /\ table' = [table EXCEPT ![t][q.key] = Left([e EXCEPT !.flag = TRUE])]
                /\ Reply(r, e.val)
           ELSE /\ table' = [table EXCEPT ![t][q.key] = e]
                /\ Goto(r, "bcast_wait")
        /\ UNCHANGED <<group, m_barrier>> /\ ClientUnchanged

\* m_bcast_cv wakes a member whose key has the flag: it reads and leaves.
BcastLeave(r) ==
    LET t == BcastTable(req[r].op)
        e == table[t][req[r].key]
    IN  /\ at[r] = "bcast_wait" /\ e.flag
        /\ table' = [table EXCEPT ![t][req[r].key] = Left(e)]
        /\ Reply(r, e.val)
        /\ UNCHANGED <<group, m_barrier>> /\ ClientUnchanged

(***************************************************************************)
(* group_barrier                                                           *)
(***************************************************************************)
\* Mutant: the barrier opens one member early.
Full_Early(b) == Cardinality(b.set) >= b.size - 1

Full(b) == Cardinality(b.set) = b.size

\* GroupManager::group_barrier up to the wait, its three refusals included.
BarrierEnter(r) ==
    LET q == req[r]
        b == [size |-> IF m_barrier.set = {} THEN q.size ELSE m_barrier.size,
              set |-> m_barrier.set \cup {q.rank}]
    IN  /\ at[r] = "call" /\ q.op = "group_barrier"
        /\ IF m_barrier.set # {} /\ (q.size # m_barrier.size \/ q.rank >= q.size)
           THEN Reply(r, m_barrier.size) /\ UNCHANGED m_barrier
           ELSE IF q.rank \in m_barrier.set
           THEN Reply(r, 0) /\ UNCHANGED m_barrier
           ELSE IF Full(b)
           THEN Reply(r, b.size) /\ m_barrier' = [b EXCEPT !.set = {}]
           ELSE Goto(r, "barrier_wait") /\ m_barrier' = b
        /\ UNCHANGED <<group, table>> /\ ClientUnchanged

\* m_barrier_cv wakes a member that finds the set empty.
BarrierLeave(r) ==
    /\ at[r] = "barrier_wait" /\ m_barrier.set = {}
    /\ Reply(r, m_barrier.size)
    /\ UNCHANGED managerVars /\ ClientUnchanged

HandlerStep(r) ==
    \/ OprRegister(r) \/ SetOutputShape(r) \/ GetOutputShape(r)
    \/ BcastEnter(r) \/ BcastLeave(r) \/ BarrierEnter(r) \/ BarrierLeave(r)
=============================================================================
