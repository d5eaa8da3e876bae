---------------------------- MODULE GroupClient ----------------------------
(***************************************************************************)
(* The client side of the distributed runtime: one process per member of a *)
(* group.  A process runs a program, a sequence of items; an item is one   *)
(* call of the public interface (executing a collective operator, asking   *)
(* for a shape, a barrier, a value broadcast by the Python layer).  A call *)
(* goes to one of two servers of the master process: the C++ GroupManager  *)
(* behind the ZMQ worker pool ("mm"), or the Python _Methods object behind *)
(* the threading XML-RPC server ("py").                                    *)
(*                                                                         *)
(* Executing a collective operator (CollectiveComm::opr_register) is the   *)
(* only item with logic of its own: it registers the operator unless the   *)
(* registration is cached, then exchanges the address of the rank 0 unless *)
(* a communicator for the returned hash exists.                            *)
(***************************************************************************)
EXTENDS Integers, Sequences, FiniteSets, Functions, TLC

CONSTANTS
    Procs,          \* the processes of the group
    Keys,           \* the keys operators and groups are matched by
    None,           \* "no value"
    CompNodeHash,   \* [Procs -> Int]: the uid of the process's comp node
    Programs        \* the programs the processes run: a set of [Procs -> Seq(item)]

ASSUME CompNodeHash \in [Procs -> Int] /\ IsInjective(CompNodeHash)
ASSUME \A p \in Programs : DOMAIN p = Procs

VARIABLES
    prog,       \* prog[r]: the items process r has still to run
    at,         \* at[r]: where the current call of r is
    req,        \* req[r]: the request of the current call
    ret,        \* ret[r]: the value the server computed for it
    reg,        \* reg[r]: the RegisterInfo of the operator being executed
    info,       \* info[r]: RegInfoCache::key2info of process r
    comms,      \* comms[r]: MegRayCommBuilder::m_megray_comms of process r
    bcast_idx,  \* bcast_idx[r]: _Client.bcast_dict of process r
    results     \* history: the items r has run and what they returned

clientVars == <<prog, at, req, ret, reg, info, comms, bcast_idx, results>>

GCInit ==
    /\ prog \in Programs
    /\ at = [r \in Procs |-> "idle"]
    /\ req = [r \in Procs |-> None]
    /\ ret = [r \in Procs |-> None]
    /\ reg = [r \in Procs |-> None]
    /\ info = [r \in Procs |-> <<>>]
    /\ comms = [r \in Procs |-> <<>>]
    /\ bcast_idx = [r \in Procs |-> [k \in Keys |-> 0]]
    /\ results = [r \in Procs |-> <<>>]

Item(r) == Head(prog[r])

\* SOLVE_REQUEST: serialise the request, send it, and wait for the answer.
Send(r, where, q) ==
    /\ at' = [at EXCEPT ![r] = where]
    /\ req' = [req EXCEPT ![r] = q]
    /\ ret' = [ret EXCEPT ![r] = None]
    /\ UNCHANGED <<prog, results>>

\* The current item of r returns v.
Finish(r, v) ==
    /\ at' = [at EXCEPT ![r] = "idle"]
    /\ req' = [req EXCEPT ![r] = None]
    /\ ret' = [ret EXCEPT ![r] = None]
    /\ prog' = [prog EXCEPT ![r] = Tail(@)]
    /\ results' = [results EXCEPT ![r] = Append(@, [item |-> Item(r), val |-> v])]

\* What an executed operator leaves behind: its registration and the address
\* its communicator was initialised with.
Executed(i, addr) ==
    [rank |-> i.rank, root |-> i.root, hash |-> i.hash, addr |-> addr]

\* The server adds the rank to the hash of the group: members that share a
\* process have communicators of their own.
CommKey(i) == <<i.hash, i.rank>>

\* MegRayCommBuilder::get_megray_comm: the rank 0 starts a server and gives
\* its address, everybody asks for it; a communicator is kept per hash.
Communicate(r, i) ==
    IF CommKey(i) \in DOMAIN comms[r]
    THEN Finish(r, Executed(i, comms[r][CommKey(i)])) /\ UNCHANGED reg
    ELSE /\ Send(r, "sent",
                 [op |-> "bcast_addr", key |-> Item(r).key, size |-> Item(r).size,
                  rank |-> i.rank, root |-> 0,
                  val |-> IF i.rank = 0 THEN <<r, Len(results[r])>> ELSE None])
         /\ reg' = [reg EXCEPT ![r] = i]

\* CollectiveComm::opr_register up to its first request.
ExecuteOpr(r) ==
    /\ Item(r).op = "opr_register"
    /\ IF Item(r).cached /\ Item(r).key \in DOMAIN info[r]
       THEN Communicate(r, info[r][Item(r).key])
       ELSE Send(r, "sent", Item(r)) /\ UNCHANGED reg
    /\ UNCHANGED <<info, comms>>

\* The other calls of GroupClientProxy are one request each.
CallManager(r) ==
    /\ Item(r).op \in {"set_output_shape", "get_output_shape",
                       "bcast_nccluniqueid", "group_barrier"}
    /\ Send(r, "sent", Item(r))
    /\ UNCHANGED <<reg, info, comms>>

\* Mutant: the key is used as it is.
NumberedKey_Same(r, i) == i

NumberedKey(r, i) == [i EXCEPT !.key = <<i.key, bcast_idx[r][i.key] + 1>>]

\* The calls of the Python _Client are one request each.  bcast_val numbers
\* its key, so that every broadcast of a group has a key of its own.
CallPython(r) ==
    LET i == Item(r) IN
    /\ i.op \in {"barrier", "bcast_val", "set_is_grad", "check_is_grad",
                 "user_set", "user_get", "user_pop", "get_mm_server_port"}
    /\ IF i.op = "bcast_val"
       THEN /\ bcast_idx' = [bcast_idx EXCEPT ![r][i.key] = @ + 1]
            /\ Send(r, "py", NumberedKey(r, i))
       ELSE Send(r, "py", i) /\ UNCHANGED bcast_idx
    /\ UNCHANGED <<reg, info, comms>>

\* The handler of process r goes to loc; it returns v.
Goto(r, loc) == at' = [at EXCEPT ![r] = loc] /\ UNCHANGED ret

Reply(r, v) ==
    /\ at' = [at EXCEPT ![r] = "ret"]
    /\ ret' = [ret EXCEPT ![r] = v]

ClientUnchanged == UNCHANGED <<prog, req, reg, info, comms, bcast_idx, results>>

\* Process r starts its next item.
Begin(r) ==
    /\ at[r] = "idle" /\ prog[r] # <<>>
    /\ \/ ExecuteOpr(r) /\ UNCHANGED bcast_idx
       \/ CallManager(r) /\ UNCHANGED bcast_idx
       \/ CallPython(r)

\* The answer reaches process r.  The answer to a registration is cached and
\* execution goes on with the communicator; the answer to bcast_addr
\* initialises the communicator; the answer to any other call is its result.
Return(r) ==
    /\ at[r] = "answered"
    /\ CASE req[r].op = "opr_register" ->
              /\ info' = IF Item(r).cached
                         THEN [info EXCEPT ![r] = (Item(r).key :> ret[r]) @@ @]
                         ELSE info
              /\ Communicate(r, ret[r])
              /\ UNCHANGED comms
         [] req[r].op = "bcast_addr" ->
              /\ comms' = [comms EXCEPT ![r] = (CommKey(reg[r]) :> ret[r]) @@ @]
              /\ reg' = [reg EXCEPT ![r] = None]
              /\ Finish(r, Executed(reg[r], ret[r]))
              /\ UNCHANGED info
         [] OTHER -> Finish(r, ret[r]) /\ UNCHANGED <<reg, info, comms>>
    /\ UNCHANGED bcast_idx
=============================================================================
